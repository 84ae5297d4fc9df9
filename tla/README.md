# A TLA+ model of await-glibc

await-glibc is glibc 2.35 with two additions, and a docker pipeline that builds
it into a root file system:

- `open` first asks a *preopen* table, given in environment variables, for a
  descriptor (`sysdeps/unix/sysv/linux/open64.c`);
- `ld.so` can load the program and its libraries through descriptors it is
  given (`elf/dl-load.c`, `elf/rtld.c`).

This directory models both additions and the pipeline, checks them with TLC
and proves the main results with TLAPS.

## The system

| Part | State | Operations | What is hard about it |
|---|---|---|---|
| `open` (`__libc_open64`, `preopen`, `preopen_file`, `preopen_from_dir`) | the process's descriptor table, `errno` of each thread | one call: log open, two list lookups, `openat`, log close | threads share the table between the system calls of one `open`; the same listed number is handed out again and again; `errno` is set by several calls |
| debug log (`get_debug_fd`, `debug_log`) | a descriptor per call, or one named by `PREOPEN_DEBUG_FD` | open, write twice, close | the number may be another file's by the time it is written to or closed |
| lookup (`find_matching_preopen_path` and the path functions) | loop counters | compare component by component | prefixes, repeated slashes, over-long components, lists of different lengths |
| list splitting (`get_string_list`, `strtok`) | `strtok`'s static pointer, the copied string | split, copy, free | the pointer outlives the string, and is shared with the application and with other threads |
| `ld.so` library descriptors (`_dl_init_openat_paths`, `_dl_map_object`) | `openat_paths`, the loaded objects, the queue of needed ones | parse `LD_LIBRARY_PATH_FDS` or `--library-path-fds`, search, map, `dlopen` | the end mark of the array, the search that goes on after a hit, errors in the middle of a `dlopen`, an application that uses the table meanwhile |
| `ld.so` program descriptor (`dl_exec_fd`, `open_verify`) | `GL(dl_exec_fd)` | `--` option, map the program | the number stays set after its use; `capsicum` is never initialised |
| build pipeline (`docker-compose.yaml`, the scripts, `download_and_extract.sh`) | two volumes | download, build, install, pack, serve, fetch | a service that fails or is killed half-way and is started again over what it left |
| launchers, tests, `build_docker_image.sh` | none of their own | set variables, call `open`; call docker | none beyond the parts they call |

`open` uses the lookup, which uses lists made by list splitting; the debug log
surrounds the whole call.  The application and the other threads act on the
descriptor table at every step.  `ld.so` uses the same table, before the program
runs and in every `dlopen`; it opens files without asking the preopen table.
The pipeline only produces the library the rest is about.

## Modules

| Module | Models |
|---|---|
| `PreopenPaths` | the pure path functions, and the result of the lookup without its loop |
| `FindMatch` | the nested loops of `find_matching_preopen_path`, one action per pass of the inner loop |
| `PathProofs` | what the path functions return: types, and the name without its empty components |
| `FindMatchProofs` | the loop returns what `PreopenPaths` says, and a hit names the file |
| `Positions` | the elements of a sequence at certain positions, in order |
| `PositionsProofs` | facts about them: counting, the k-th element, joining and cutting |
| `StringList` | `get_string_list`, `strtok`, `strtok_r` |
| `StringListProofs` | the list is the string split at colons |
| `Open64` | threads in `open` over a shared descriptor table |
| `PosixOpen` | what the manual promises of `open`: one atomic step |
| `Open64Proofs` | the inductive invariant and the theorems about `open`; `Open64` implements `PosixOpen` |
| `Open64Answers` | what `open` answers from the lists |
| `Loader` | `ld.so` with descriptors: start, search, mapping, `dlopen` |
| `LoaderProofs` | types and descriptors; the search, the program and the loaded objects |
| `Pipeline` | the services of `docker-compose.yaml` over their volumes |
| `PipelineProofs` | the inductive invariant and the theorems about the pipeline |
| `MCFindMatch`, `MCStringList`, `MCOpen64`, `MCLoader` | the instances TLC checks |

`Open64` is composed of the other modules' results rather than of their steps.
It uses `IsFirstMatch` of `PreopenPaths` where the code calls the lookup, which
is what `FindMatch` is proved to return.  It uses the token lists of the
environment where the code calls `get_string_list`, which is what `StringList`
is proved to return in a single thread; if two threads are inside
`get_string_list` at the same time they share `strtok`'s pointer, and each may
get any list of tokens (up to `TornLen` of them).

### How code and model correspond

A C string that names a file is a record `[root, comps]`: the leading slash,
and the stretches between slashes, empty ones included.  Of a component the
code can tell whether it is empty, whether it is `.`, and whether it has
`MAX_PATH_LEN` bytes (then it is in `LongComponent`).  `PATH_MAX` is counted in
components.

In `Open64`, `pc[t]` says where in the call thread `t` is.  There is one action
per system call or call of `get_string_list`:

| Action | Code |
|---|---|
| `Call` | entry of `__libc_open64` |
| `GetDebugFd` | `get_debug_fd`: `PREOPEN_DEBUG_FD`, or an `open` of `PREOPEN_DEBUG_FILE`, or -1 |
| `NotSet` | one of the four list variables is not set |
| `BeginList`, `EndList` | `get_string_list` on a list variable |
| `PreopenFile` | the rest of `preopen_file`, and the test of its result in `preopen` |
| `PreopenFromDir` | the rest of `preopen_from_dir` with its `openat`, and the test in `preopen` |
| `LogPreopen` | first `debug_log`; a positive descriptor is returned |
| `Openat` | the ordinary `openat` |
| `LogOpen`, `CloseLog` | second `debug_log`, `close (log_fd)` |
| `AppClose` | the application closes what it got (external) |
| `Cancel` | the thread is cancelled at one of the four `SYSCALL_CANCEL`s: before the call, or behind it with its result unused |

The other system calls (`write`, `close`) are made by `INLINE_SYSCALL_CALL` and
are no cancellation points.  Nothing is cleaned up: what a cancelled call has
opened stays open and stays that call's.

`openat`, `Resolve` and `OpenErrno` stand for the kernel: the lowest free
number, or an error (`EFAULT`, `ENOENT`, `EMFILE`, `EISDIR`, `ENOTDIR`).  The
model has no symbolic links and no `..`.  A number in the environment is an
integer; `AsInt` is the cast from `long` to `int` with `IntHalf` in place of
2^31.

In `StringList` a string is a sequence of bytes, of which the code only tells
separators and NUL from the rest.  A freed string reads as its old bytes or as
those of any other string.

In `Loader` a file is a model value with a kind (library, program, for another
machine, no ELF file at all), the names it needs and its RPATH and RUNPATH; a
directory is a function from names to files.  `pc` says where in a request the
loader is; the loader holds a lock, so there is one request at a time, but the
application's other threads open and close descriptors at every step of a
`dlopen`:

| Action | Code |
|---|---|
| `Start` | `dl_main` up to the first `_dl_map_object`: the options, `capsicum`, `dl_exec_fd` |
| `InitOpenatPaths` | one token of `_dl_init_openat_paths` |
| `LoadAll` | the preloads and the program's needed objects are asked for |
| `NextRequest` | the start of `_dl_map_object`: a loaded object has the name, or a search begins |
| `OpenatNext` | one pass of the loop over `openat_paths`, into the memory behind the array if it gets there |
| `VerifyListed` | `open_verify` on what the loop opened; descriptor 0 is not verified |
| `SearchPaths` | RPATHs, `LD_LIBRARY_PATH`, RUNPATH, cache and default directories |
| `OpenPath` | the branch for names with a slash, with `dl_exec_fd` |
| `MapFromFd` | `_dl_map_object_from_fd`: known file, refused file, new object |
| `Finished` | the queue of `_dl_map_object_deps` is empty |
| `dlopen`, `AppOpen`, `AppClose` | the application (external) |

`SignalError` is the end of every failing path: a preload is given up, a
`dlopen` undone, a start ended.  What the memory behind the array and the
uninitialised `capsicum` hold is part of the configuration (`beyond`,
`garbage`).  `pc = "fault"` stands for undefined behaviour: unmapped memory,
`strdup (NULL)`, a file mapped by another file's header.

In `Pipeline` there is one step per command of the scripts.  `Effect` is what a
command that succeeds does to the volume; `Possible` are the two commands that
can fail by what is already there; `Interrupted` is any mixture of done, not
done and cut off that a command leaves when it fails or is killed.  `Ends` is
what the scripts make of a command's status.  Of the root file system the model
keeps what the scripts overwrite or depend on: whether debootstrap is complete,
whose `libc` and `libcrypt` are in the new directory and in `glibc-old`, the
lines of `ld.so.conf`, where the loader's link leads, and libxcrypt's own
directory.

## Runs

| Run | Shows |
|---|---|
| `find_match` | the lookup returns the first equal entry, for every caller and odd spellings of the name |
| `string_list` | a thread's list is its string split at colons, call after call; its NULL is outside the array exactly for full lists |
| `open64_plain` | without `PREOPEN_` lists, two threads see an atomic `open`; logs and results never mix, cancelled threads included |
| `open64_preopen` | with lists, well formed or not, an answer is one the configuration gives |
| `open64_shared` | two threads with torn lists and shared listed numbers: the damage stays with those numbers |
| `loader` | the listed directories decide which library is loaded, no library is mapped twice, a program given by descriptor is that file, descriptors of others are untouched and own ones accounted for, every request ends |
| `pipeline` | over several `up`s with failures: what is extracted is complete but for two failures nobody notices, the new libc stays, what is served stays, an undisturbed `up` serves |
| `strtok_behind_your_back` | violated: `open` disturbs an application's own `strtok` loop |
| `directory_hit` | violated: with its directory listed, a file is answered with the directory |
| `errno_lost` | violated: `close (-1)` replaces the `errno` of the failed `openat` |
| `debug_fd_reused` | violated: the descriptor of `PREOPEN_DEBUG_FD` is closed by the first `open` that falls through |
| `exec_fd_stale` | violated: after the start, `dl_exec_fd` is still used for every name with a slash |

The five violated runs state what the manual, a comment or the repository's own
document says; `PROJECT.json` quotes the lines under "findings".

### Bounds

- `find_match`: paths of up to three components, lists of two slots that hold
  any entry or NULL.  Two slots are enough for "first of two", for a list that
  is shorter than the count, and for a slot that was never written.
- `string_list`: every string of up to five bytes, and longer ones with more
  tokens than the array's three elements.  Calls follow each other without
  bound.
- `open64_plain`: two threads, five descriptors of which two or three are
  inherited.  The table can be full, so `EMFILE` happens at each `openat`; two
  threads suffice to reuse a number between two steps of a call.
- `open64_preopen`: one thread, fourteen environments: lists in order, an entry
  listed twice, numbers that are not numbers, are 0, wrap to another `int` or
  are missing, more numbers than names, one variable of a pair unset,
  directories, both kinds at once, and a log.
- `open64_shared`: two interchangeable threads, six descriptors, torn lists of
  up to one token.
- `loader`: ten ways to start (by the kernel and by the command line; lists with
  0, negative and wrapped numbers; the array followed by -1, by another number,
  by unmapped memory; `capsicum` set, unset and garbage), five descriptors, so
  that the table is full at times, a file for each verdict of `open_verify` in a
  listed directory, an RPATH and a RUNPATH, dependencies of depth two, and two
  names the application opens without end.
- `pipeline`: up to four calls of `up` (`MaxUps`): enough for a failure, a
  repetition that succeeds and serves, a further one beside the running server,
  and one more.

`Open64` and `Loader` have no bound on the number of calls, and every run
explores its whole state space.  Deadlock is not checked where the system may
stop: when all threads are cancelled, when a start ends with an error, when no
`up` is left.

### Fairness

`open64_plain` and `open64_preopen` assume weak fairness of each thread's steps
inside `open`: the scheduler runs every thread, and none of the modelled system
calls blocks for ever.  Nothing is assumed of the application (`Call`,
`AppClose`, `Cancel`).  `loader` assumes it of the loading thread: reading and
mapping files comes to an end.  `pipeline` assumes that docker starts a
container whose dependencies are done and that commands end (`Progress`);
nothing is assumed of failures, kills or the user.  `find_match` and
`string_list` assume that a loop that can take a step takes one.

## Proofs

`FindMatchProofs` proves, for lists and paths of any length, that the counters
stay in range (`LookupTypes`) and that the loop returns the first matching
entry (`LookupCorrect`).  The invariant is `LoopInv` (`LookupLoop`): all entries
before `i` disagree with the name, and entry `i` agrees with it above `depth`.
Two lemmas connect it to the result: paths that are equal down to a depth at
which both end agree, and paths that agree do not differ at any depth.
`HitCorrect` states `HitNamesTarget`: the entry that is found is the file, or
the directory it is in.  It rests on `PathProofs`: `get_absolute_path` gives the
name with the working directory before it (`AbsoluteName`),
`remove_last_component` the name without its last non-empty component
(`ParentName`), each up to the empty components that both functions keep or
drop at places of their own.

`StringListProofs` proves, for any strings and any `MAX_LIST_LEN`:

| Theorem | States |
|---|---|
| `ListFitsArray` | `TypeOK`, for any number of loops in any threads |
| `ListCorrect` | `ListIsSplit`, in one thread |
| `ReadsLive` | `ReadsLiveString`, in one thread |
| `TerminatorPlace` | `TerminatorInArray`, in one thread |

`OneThread` admits a loop of the application beside the library's, as long as
the two belong to one thread: then the application cannot be inside `strtok`
while the library is.  With two threads the three statements are false, which
is why `Open64` lets overlapping calls return torn lists.  The invariant
`CallInv` says of a running call that `strtok`'s place is in the call's own
string, at a boundary of tokens, with everything behind it untouched
(`AtBoundary`), and that the list has the tokens that start before that place
(`ListSoFar`).  `ListIsSplit` alone is not inductive: it speaks of finished
lists only.

The k-th token, and a name without its empty components, are defined by
counting positions (`Positions`: `Rank`, `Nth`, `Keep`), without recursion.
What a recursive function would need induction for is proved by taking the
least element of a set of numbers (`PositionsProofs`): `Nth` enumerates a
finite set in order, `Keep` of two joined sequences is `Keep` of each, and a
dropped last element can be cut off.

`Open64Proofs` proves, for any number of threads, any table size and any
environments that satisfy `Open64Assumption`:

| Theorem | States |
|---|---|
| `Types` | `TypeOK` |
| `Separation` | `DescriptorsSeparate`: no two threads rely on one descriptor |
| `Inheritance` | `InheritedKept`: inherited descriptors stay as they are |
| `LogSafety` | `LogToLogFile`: debug output only reaches the debug file |
| `ResultSafety` | `RightFile`: a result stays on the file that was named |
| `LeakFreedom` | `NoLeak`: every descriptor that was not inherited has an owner |

They follow from one inductive invariant, `IInv` (theorem `Invariance`).  The
argument: every step of a thread treats every descriptor in one of three ways
(`StepsTreat`).  It leaves it, takes it while it is free, or gives up one the
thread owned.  Steps like that keep the owners apart (`TreatedWell`), and while
a thread owns a descriptor nobody changes its entry (`OwnedEntryKept`).  So an
owned log descriptor stays on the debug file (`LogIsDebugFile`) and a result on
the named file (`RightResult`).  `Aux` is what this needs of the control: in
particular, a number that `preopen_file` hands out is one of the environment's
tokens, torn lists included.  `PlainControl` says that without lists a call has
no result before its `openat`.

Conditions of the theorems, which the code needs as well: `PREOPEN_DEBUG_FD`
does not name a descriptor (the code closes it, see `debug_fd_reused`), and the
numbers of `PREOPEN_FILE_FDS` are excluded (the code hands each of them to
every caller that asks).  `RightFile` and `NoLeak` also assume that no lists
are given: with lists, an `open` answered from them returns without closing its
log descriptor, and a directory opened as descriptor 0 is dropped.

The same module proves `Refinement`: if no environment gives lists, then
`Spec => ImplementsPosixOpen`, the atomic `open` of `PosixOpen`.  The mapping
hides the log descriptors (`VisibleTable`) and shows a call as idle, called,
answered or returned (`Phases`).  Only `Openat` is the step of `open`; opening,
writing and closing the log are stutters because nobody else owns a log
descriptor, and the entry a caller sees is the table's because of
`DescriptorsSeparate`.  A cancelled call stays called or answered for ever.

`Open64Answers` proves what `open` answers from the lists, for environments,
names and tables of any size:

| Theorem | States | In a process |
|---|---|---|
| `ListsRead` | `Reading`: a lookup uses the lists of the environment | with one thread |
| `ListedNotOpened` | `ListedFileNotOpened` | with one thread, short names, and absolute entries |
| `AnswerCorrect` | `AnswerIsConfigured` | with, in addition, no more numbers than names, and no name that ends in `.` |

None of these conditions can be left out of the statement:

- one thread (`OneThread`): two threads can tear each other's lists;
- short names (`ShortNames`, `Short`): `get_path_component` takes a component of
  `MAX_PATH_LEN` bytes for the end of the path, so that two names that differ
  behind it agree;
- absolute entries (`AbsoluteEntries`): `get_path_component` skips the first byte
  of an entry without looking at it, so an entry that does not begin with a
  slash can answer for a name that is not its own;
- no more numbers than names (`Paired`): the lookup runs over as many slots as
  there are numbers, and the slots behind the names were never written;
- no name that ends in `.` (`NoDotNames`): `remove_last_component` makes `/d` of
  `/d/.`, where the directory that holds `/d/.` is `/`.

`AbsoluteEntries` and `Paired` are conditions on the environment the process
was started with, inside the formula that always holds; the others are about
the constants.  The run `open64_preopen` satisfies them all, but for one
environment with more numbers than names (the slots behind them can only hold
the one name that is listed, so `AnswerIsConfigured` holds there too).

The argument: with one thread nothing is torn, so `list` is `env` wherever a
lookup happens (`ListsMade`), and a call has no result before the lookups
(`NoAnswerYet`).  A slot that is found holds an entry with the same components
as the name (`FoundEntry`), and the slots before the first entry that is the
file do not agree with it (`ListedFound`).  The name looked up leads where the
kernel finds the caller's name (`AbsoluteResolves`), and the directory's where
the file's directory is (`DirResolves`).  `NotListed` strengthens
`ListedFileNotOpened` to every place behind the lookup of files.

`LoaderProofs` proves, for any files, directories,
dependencies, lists and memory behind the array that satisfy
`LoaderAssumption`:

| Theorem | States |
|---|---|
| `TypeCorrect` | `TypeOK`; its last lines say that the objects that ask are still there, also after the undo of a `dlopen` |
| `DescriptorsAccounted` | `LoaderFdsAccounted` |
| `ForeignFdsUntouched` | `AppFdsUntouched` |
| `LibrariesMappedOnce` | `MappedOnce` |
| `ProgramByDescriptor` | `ProgramIsExecFd` |
| `ListedFirst` | `ListDecides` |

`Phase` ties the control to the request, and `Owned` says that the descriptor
the loader works on is one it opened itself or the program's (with
`LoaderFdsAccounted`, theorem `DescriptorInvariant`).  `ListedFirst` needs two
more: `Positive` (the array holds positive numbers only, so that the loop does
not end inside it) and `Scan` (no directory the loop has passed has the file,
and what is being verified is what the list gives).

`PipelineProofs` proves, for any number of calls of `up`, `ServiceOrder`
(`TypeOK`), `LibcStaysNew`, `ExtractionSafety` and `ServedStays`.  The invariant
`IInv` (theorem `PipelineInvariant`) has a part for the control (`Control`: a
service runs only with all before it done), one for the volume (`VolumeInv`:
while the builder runs at command p, `Built(p, vol)` holds, whatever an earlier
call has left), one that explains why the server is safe (`Serving`: it runs
only with the directory `libxcrypt` there, so that a repetition ends at the
`mkdir`), and two for the base system and the archive (`BaseInv`,
`ArchiveInv`).

Only model-checked: the liveness properties (`LookupReturns`, `LoopEnds`,
`CallReturns`, `RequestsEnd`, `UpServes`), because liveness under fairness is out
of the prover's reach, and the five violated runs.  Every invariant, action
property and refinement of the passing runs is a theorem; for `StringList` with
two threads, and for lists outside the conditions above, there is nothing to
prove.

## Not modelled

- `open`: signal handlers that call `open`; a failed `malloc` other than that of
  a list element (the caller of `get_string_list` dereferences the NULL); `..`
  and symbolic links in the kernel's view of a name; `debug_printf`, compiled in
  with `PREOPEN_DEBUG` only.
- `ld.so`: audit and trace modes, namespaces other than the base, `dlclose`,
  `RTLD_NOLOAD`, `DF_1_NODEFLIB`, static programs, a program named without a
  slash, failures of `malloc` and `realloc`, the caching of directories that do
  not exist, and an `AT_FDCWD` in the memory behind the array.  What makes an
  ELF header valid, relocation and versions are abstracted to the kind of a
  file.
- Pipeline: `docker-compose down -v`, two calls of `up` at once, the service
  `await-debug`, header files, the contents of `ldconfig`'s cache, and
  `build_docker_image.sh`.
- The launchers and test programs: straight-line callers of the modelled parts,
  which stand in the models as environments and configurations.
- glibc's unchanged code, about a million lines, apart from `strtok` and the
  parts of `ld.so` named above.
