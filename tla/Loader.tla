------------------------------- MODULE Loader -------------------------------
(***************************************************************************)
(* ld.so with libraries and the program given as descriptors: the options  *)
(* of dl_main (elf/rtld.c), _dl_init_openat_paths, _dl_map_object,         *)
(* open_verify, open_path and _dl_map_object_from_fd (elf/dl-load.c), the  *)
(* queue of _dl_map_object_deps and the undo of a failed dlopen.           *)
(*                                                                         *)
(* The loader works on one request at a time (it holds a lock); the        *)
(* application's other threads open and close descriptors meanwhile.       *)
(***************************************************************************)
EXTENDS Integers, Sequences

CONSTANTS MaxFd, IntHalf,   \* as in Open64
          File, Dir,        \* files that are not directories; directories
          LibName,          \* names without a slash
          PathName,         \* names with a slash
          Kind,             \* what open_verify makes of a file
          Has,              \* Has[d][n]: the file n of directory d, or NULL
          At,               \* At[p]: the file with path p, or NULL
          Soname, Needed, Rpath, Runpath,   \* the dynamic section of a file
          LdLibraryPath, SystemDirs,        \* directories; the cache is one
          Configs,          \* how the process is started
          AppFiles, AppNames,  \* what the application opens and dlopens
          NULL, UNSET

Fd == 0..MaxFd
Name == LibName \cup PathName
Entry == [obj : File \cup Dir, by : {"inherited", "ld", "app"}]
Table == [Fd -> Entry \cup {NULL}]
StartTable == [Fd -> [obj : File \cup Dir, by : {"inherited"}] \cup {NULL}]
Fds == Seq(Int) \cup {UNSET}

(* A start: by the kernel or by the command line of ld.so; the lists       *)
(* LD_LIBRARY_PATH_FDS and --library-path-fds, the number behind "--",     *)
(* the program, the preloads, the descriptors.  beyond is the memory       *)
(* behind the array, garbage what the stack holds where capsicum is.       *)
Config == [direct : BOOLEAN, env_fds : Fds, opt_fds : Fds, exec_fd : Int \cup {UNSET},
           prog : PathName, preload : Seq(Name), table : StartTable,
           beyond : Seq(Int), garbage : BOOLEAN]

Request == [name : Name, loader : Nat, why : {"program", "preload", "needed", "dlopen"}]
LinkMap == [file : File, names : SUBSET Name, loader : Nat]

ASSUME LoaderAssumption ==
  /\ MaxFd \in Nat /\ IntHalf \in Nat /\ MaxFd < IntHalf
  /\ LibName \cap PathName = {}
  /\ NULL \notin Entry \cup File \cup Dir \cup Request
  /\ Kind \in [File -> {"library", "program", "foreign", "data"}]
  /\ Has \in [Dir -> [LibName -> File \cup {NULL}]]
  /\ At \in [PathName -> File \cup {NULL}]
  /\ Needed \in [File -> Seq(Name)]
  /\ Rpath \in [File -> Seq(Dir)] /\ Runpath \in [File -> Seq(Dir)]
  /\ \A f \in File : Runpath[f] # <<>> => Rpath[f] = <<>>  \* elf_get_dynamic_info
  /\ LdLibraryPath \in Seq(Dir) /\ SystemDirs \in Seq(Dir)
  /\ \A c \in Configs : c \in Config /\ (~c.direct => At[c.prog] # NULL)
  /\ AppFiles \subseteq File \cup Dir /\ AppNames \subseteq Name

VARIABLES cfg, fdt,
          openat_paths,   \* the array; <<>> for the NULL pointer
          dl_exec_fd,
          loaded,         \* the link maps: file, names, the object that asked
          todo, req,      \* requests to come; the one being worked on
          pc, fd, fd_ptr, header,   \* header: the file read into filebuf
          base,           \* number of objects before the dlopen, else 0
          lost,           \* descriptors overwritten in _dl_map_object
          missed          \* an openat of this request met a full table

vars == <<cfg, fdt, openat_paths, dl_exec_fd, loaded, todo, req, pc, fd, fd_ptr,
          header, base, lost, missed>>

Init ==
  /\ cfg \in Configs
  /\ fdt = cfg.table
  /\ openat_paths = <<>> /\ dl_exec_fd = 0
  /\ loaded = <<>> /\ todo = <<>> /\ req = NULL
  /\ pc = "start" /\ fd = -1 /\ fd_ptr = 1 /\ header = NULL /\ base = 0 /\ lost = {}
  /\ missed = FALSE

-----------------------------------------------------------------------------
IsOpen(f) == f \in Fd /\ fdt[f] # NULL
LowestFree(f) == f \in Fd /\ fdt[f] = NULL /\ \A g \in Fd : g < f => fdt[g] # NULL

TableFull == \A f \in Fd : fdt[f] # NULL

Opening(f, obj, by) == fdt' = [fdt EXCEPT ![f] = [obj |-> obj, by |-> by]]
Closing(f) == fdt' = IF IsOpen(f) THEN [fdt EXCEPT ![f] = NULL] ELSE fdt

(* _dl_strtoul, and its result as an int.                                  *)
AsInt(n) == ((n + IntHalf) % (2 * IntHalf)) - IntHalf

Requests(names, by, reason) ==
  [k \in 1..Len(names) |-> [name |-> names[k], loader |-> by, why |-> reason]]

Object(f, names, by) == [file |-> f, names |-> names, loader |-> by]

-----------------------------------------------------------------------------
(* Mutant: LD_LIBRARY_PATH_FDS leaves capsicum as it is.                   *)
CapsicumNotSet == cfg.garbage

(* dl_main up to the first _dl_map_object.  capsicum is set by the         *)
(* environment variable only, and never initialised.                       *)
capsicum == cfg.env_fds # UNSET \/ cfg.garbage

Start ==
  /\ pc = "start"
  /\ \/ /\ ~cfg.direct
        /\ loaded' = <<Object(At[cfg.prog], {}, 0)>>
        /\ pc' = "init" /\ UNCHANGED <<req, dl_exec_fd>>
     \/ /\ cfg.direct /\ capsicum /\ cfg.exec_fd = UNSET    \* strdup (NULL)
        /\ pc' = "fault" /\ UNCHANGED <<loaded, req, dl_exec_fd>>
     \/ /\ cfg.direct /\ (capsicum => cfg.exec_fd # UNSET)
        /\ dl_exec_fd' = IF capsicum THEN AsInt(cfg.exec_fd) ELSE 0
        /\ req' = [name |-> cfg.prog, loader |-> 0, why |-> "program"]
        /\ pc' = "by path" /\ UNCHANGED loaded
  /\ UNCHANGED <<cfg, fdt, openat_paths, todo, fd, fd_ptr, header, base, lost, missed>>

llpf == IF cfg.direct /\ cfg.opt_fds # UNSET THEN cfg.opt_fds ELSE cfg.env_fds

(* Mutant: numbers below 0 are kept.                                       *)
KeepNegative(n) == n # 0

Keep(n) == n > 0

(* _dl_init_openat_paths, one token a step: no mark is stored behind the   *)
(* last number.                                                            *)
InitOpenatPaths ==
  /\ pc = "init" /\ llpf # UNSET /\ fd_ptr <= Len(llpf)
  /\ openat_paths' = IF Keep(AsInt(llpf[fd_ptr]))
                     THEN Append(openat_paths, AsInt(llpf[fd_ptr])) ELSE openat_paths
  /\ fd_ptr' = fd_ptr + 1
  /\ UNCHANGED <<cfg, fdt, dl_exec_fd, loaded, todo, req, pc, fd, header, base, lost, missed>>

(* Then the preloads and the program's dependencies are asked for.         *)
LoadAll ==
  /\ pc = "init" /\ (llpf # UNSET => fd_ptr > Len(llpf))
  /\ todo' = Requests(cfg.preload, 1, "preload")
               \o Requests(Needed[loaded[1].file], 1, "needed")
  /\ pc' = "next"
  /\ UNCHANGED <<cfg, fdt, openat_paths, dl_exec_fd, loaded, req, fd, fd_ptr, header, base,
                 lost, missed>>

-----------------------------------------------------------------------------
(* _dl_map_object: an object with that name, or the start of a search.     *)
Matches(n) ==
  \E i \in 1..Len(loaded) : n \in loaded[i].names \/ Soname[loaded[i].file] = n

NextRequest ==
  /\ pc = "next" /\ todo # <<>>
  /\ todo' = Tail(todo)
  /\ IF Matches(Head(todo).name)
     THEN UNCHANGED <<req, pc>>
     ELSE /\ req' = Head(todo)
          /\ pc' = IF Head(todo).name \in PathName THEN "by path"
                   ELSE IF openat_paths = <<>> THEN "search" ELSE "listed"
  /\ fd' = -1 /\ fd_ptr' = 1 /\ header' = NULL /\ missed' = FALSE
  /\ UNCHANGED <<cfg, fdt, openat_paths, dl_exec_fd, loaded, base, lost>>

Finished ==
  /\ pc = "next" /\ todo = <<>>
  /\ pc' = "running" /\ base' = 0
  /\ UNCHANGED <<cfg, fdt, openat_paths, dl_exec_fd, loaded, todo, req, fd, fd_ptr, header, lost, missed>>

(* Mutant: the requests of the objects that are removed stay queued.       *)
SignalKeepsQueue ==
  /\ req' = NULL /\ base' = 0
  /\ pc' = IF base > 0 THEN "running" ELSE IF req.why = "preload" THEN "next" ELSE "exit"
  /\ loaded' = IF base > 0 THEN SubSeq(loaded, 1, base) ELSE loaded
  /\ UNCHANGED todo

(* _dl_signal_error: a preload is given up, a dlopen undone (its objects   *)
(* are removed), and the start of the program ends.                        *)
SignalError ==
  /\ req' = NULL
  /\ pc' = IF base > 0 THEN "running" ELSE IF req.why = "preload" THEN "next" ELSE "exit"
  /\ todo' = IF base = 0 /\ req.why = "preload" THEN todo ELSE <<>>
  /\ loaded' = IF base > 0 THEN SubSeq(loaded, 1, base) ELSE loaded
  /\ base' = 0

-----------------------------------------------------------------------------
(* One pass of the loop over openat_paths: openat of the name at the next  *)
(* number, until one can be opened.                                        *)
Memory == openat_paths \o cfg.beyond

InDir(table, v, n) ==
  IF v \in Fd /\ table[v] # NULL THEN IF table[v].obj \in Dir THEN Has[table[v].obj][n] ELSE NULL
  ELSE NULL

(* Mutant: a pass that does not advance to the next number.                *)
OpenatStays ==
  /\ pc = "listed" /\ fd_ptr <= Len(Memory)
  /\ pc' = IF Memory[fd_ptr] = -1 THEN "search" ELSE "listed"
  /\ UNCHANGED <<cfg, fdt, openat_paths, dl_exec_fd, loaded, todo, req, fd, fd_ptr, header, base,
                 lost, missed>>

OpenatNext ==
  LET file == InDir(fdt, Memory[fd_ptr], req.name)
  IN  /\ pc = "listed"
      /\ \/ /\ fd_ptr > Len(Memory)       \* unmapped memory
            /\ pc' = "fault" /\ UNCHANGED <<fdt, fd, fd_ptr, missed>>
         \/ /\ fd_ptr <= Len(Memory) /\ Memory[fd_ptr] = -1
            /\ pc' = "search" /\ UNCHANGED <<fdt, fd, fd_ptr, missed>>
         \/ /\ fd_ptr <= Len(Memory) /\ Memory[fd_ptr] # -1 /\ (file = NULL \/ TableFull)
            /\ fd_ptr' = fd_ptr + 1 /\ missed' = (missed \/ TableFull)
            /\ UNCHANGED <<fdt, fd, pc>>
         \/ /\ fd_ptr <= Len(Memory) /\ Memory[fd_ptr] # -1 /\ file # NULL
            /\ \E f \in Fd : LowestFree(f) /\ Opening(f, file, "ld") /\ fd' = f
            /\ pc' = "verify" /\ UNCHANGED <<fd_ptr, missed>>
      /\ UNCHANGED <<cfg, openat_paths, dl_exec_fd, loaded, todo, req, header, base, lost>>

(* open_verify on an open descriptor: "lose" for what cannot be read or is *)
(* no ELF file, "skip" for another class or machine.                       *)
Verdict(v) ==
  IF ~IsOpen(v) \/ fdt[v].obj \in Dir THEN "lose"
  ELSE CASE Kind[fdt[v].obj] = "data" -> "lose"
         [] Kind[fdt[v].obj] = "foreign" -> "skip"
         [] OTHER -> "ok"

(* Mutant: the directory is closed, not the file that was opened in it.    *)
VerifyClosesDir ==
  /\ pc = "verify" /\ Closing(Memory[fd_ptr]) /\ fd' = -1 /\ SignalError
  /\ UNCHANGED <<cfg, openat_paths, dl_exec_fd, fd_ptr, header, lost, missed>>

(* After the loop.  Descriptor 0 is not verified.                          *)
VerifyListed ==
  /\ pc = "verify"
  /\ \/ /\ fd > 0 /\ Verdict(fd) = "lose"
        /\ Closing(fd) /\ fd' = -1
        /\ SignalError /\ UNCHANGED header
     \/ /\ fd > 0 /\ Verdict(fd) = "skip"
        /\ Closing(fd) /\ fd' = -1 /\ pc' = "search"
        /\ UNCHANGED <<header, req, todo, loaded, base>>
     \/ /\ fd > 0 /\ Verdict(fd) = "ok"
        /\ header' = fdt[fd].obj /\ pc' = "search"
        /\ UNCHANGED <<fdt, fd, req, todo, loaded, base>>
     \/ /\ fd <= 0
        /\ pc' = "search" /\ UNCHANGED <<fdt, fd, header, req, todo, loaded, base>>
  /\ UNCHANGED <<cfg, openat_paths, dl_exec_fd, fd_ptr, lost, missed>>

-----------------------------------------------------------------------------
(* The RPATHs of an object, of the object that asked for it, and so on.    *)
Rpaths(objs, by) ==
  LET up[i \in 0..Len(objs)] ==
        IF i = 0 THEN <<>> ELSE Rpath[objs[i].file] \o up[objs[i].loader]
  IN  up[by]

RunpathOf(objs, by) == IF by = 0 THEN <<>> ELSE Runpath[objs[by].file]

(* RPATHs are not used for an object that has a RUNPATH.                   *)
Chain(objs, by) == IF RunpathOf(objs, by) = <<>> THEN Rpaths(objs, by) ELSE <<>>
MainRpath(objs, by) ==
  IF RunpathOf(objs, by) = <<>> /\ objs # <<>> THEN Rpath[objs[1].file] ELSE <<>>
Rest(objs, by) ==
  MainRpath(objs, by) \o LdLibraryPath \o RunpathOf(objs, by) \o SystemDirs

(* open_path over some directories: the first file that is not for another *)
(* machine; it may still be one that open_verify gives up on.              *)
FirstFile(dirs, n) ==
  LET hits == {k \in 1..Len(dirs) :
                 Has[dirs[k]][n] \in File /\ Kind[Has[dirs[k]][n]] # "foreign"}
  IN  IF hits = {} THEN NULL ELSE Has[dirs[CHOOSE k \in hits : \A j \in hits : k <= j]][n]

OpenAndVerify(file) ==
  IF file = NULL \/ TableFull \/ (file # NULL /\ Kind[file] \in {"data", "foreign"})
  THEN SignalError /\ UNCHANGED <<fdt, fd, header>>
  ELSE /\ \E f \in Fd : LowestFree(f) /\ Opening(f, file, "ld") /\ fd' = f
       /\ header' = file /\ pc' = "map"
       /\ UNCHANGED <<req, todo, loaded, base>>

(* The rest of the search.  The RPATH loop does not ask whether there is   *)
(* a descriptor already; the other places do.                              *)
SearchPaths ==
  /\ pc = "search"
  /\ \/ /\ Chain(loaded, req.loader) # <<>>
        /\ OpenAndVerify(FirstFile(Chain(loaded, req.loader) \o Rest(loaded, req.loader),
                                   req.name))
        /\ lost' = IF fd = -1 THEN lost ELSE lost \cup {fd}
     \/ /\ Chain(loaded, req.loader) = <<>> /\ fd = -1
        /\ OpenAndVerify(FirstFile(Rest(loaded, req.loader), req.name))
        /\ UNCHANGED lost
     \/ /\ Chain(loaded, req.loader) = <<>> /\ fd # -1
        /\ pc' = "map"
        /\ UNCHANGED <<fdt, fd, header, req, todo, loaded, base, lost>>
  /\ UNCHANGED <<cfg, openat_paths, dl_exec_fd, fd_ptr, missed>>

(* A name with a slash: dl_exec_fd, if it is set, else the path.           *)
OpenPath ==
  /\ pc = "by path"
  /\ \/ /\ dl_exec_fd > 0 /\ Verdict(dl_exec_fd) # "ok"
        /\ Closing(dl_exec_fd)
        /\ SignalError /\ UNCHANGED <<fd, header>>
     \/ /\ dl_exec_fd > 0 /\ Verdict(dl_exec_fd) = "ok"
        /\ fd' = dl_exec_fd /\ header' = fdt[dl_exec_fd].obj /\ pc' = "map"
        /\ UNCHANGED <<fdt, req, todo, loaded, base>>
     \/ /\ dl_exec_fd <= 0
        /\ OpenAndVerify(At[req.name])
  /\ UNCHANGED <<cfg, openat_paths, dl_exec_fd, fd_ptr, lost, missed>>

-----------------------------------------------------------------------------
(* Mutant: the file is not compared with those of the loaded objects.      *)
NoSameFile(f) == {}

(* Objects whose file is known by device and inode: not the program.       *)
SameFile(f) == {i \in 2..Len(loaded) : loaded[i].file = f}

(* _dl_map_object_from_fd.  A dlopened object forgets its loader.          *)
NewObject ==
  LET by == IF req.why = "dlopen" THEN 0 ELSE req.loader
  IN  /\ Closing(fd) /\ fd' = -1 /\ req' = NULL
      /\ loaded' = Append(loaded, Object(fdt[fd].obj, {req.name}, by))
      /\ IF req.why = "program"
         THEN pc' = "init" /\ UNCHANGED todo
         ELSE /\ pc' = "next"
              /\ todo' = todo \o Requests(Needed[fdt[fd].obj], Len(loaded) + 1, "needed")
      /\ UNCHANGED base

(* Mutant: the descriptor of a file that is loaded already stays open.     *)
AddNameKeepsFd(i) ==
  fd' = -1 /\ req' = NULL /\ pc' = "next" /\ UNCHANGED <<fdt, loaded, todo, base>>

AddName(i) ==
  /\ loaded' = [loaded EXCEPT ![i] = Object(@.file, @.names \cup {req.name}, @.loader)]
  /\ Closing(fd) /\ fd' = -1 /\ req' = NULL /\ pc' = "next"
  /\ UNCHANGED <<todo, base>>

(* The descriptor may be off the file whose header was read: descriptor 0  *)
(* is not verified, and dl_exec_fd may be one the application reuses.      *)
(* Then the result is undefined.                                           *)
MapFromFd ==
  /\ pc = "map"
  /\ \/ /\ ~IsOpen(fd)
        /\ fd' = -1 /\ SignalError /\ UNCHANGED fdt
     \/ /\ IsOpen(fd) /\ fdt[fd].obj # header
        /\ pc' = "fault" /\ fd' = -1 /\ UNCHANGED <<fdt, req, todo, loaded, base>>
     \/ /\ IsOpen(fd) /\ req.why # "program"
        /\ \E i \in SameFile(fdt[fd].obj) : AddName(i)
     \/ /\ IsOpen(fd) /\ req.why # "program" /\ SameFile(fdt[fd].obj) = {}
        /\ fdt[fd].obj # header \/ Kind[fdt[fd].obj] = "program"
        /\ Closing(fd) /\ fd' = -1 /\ SignalError
     \/ /\ IsOpen(fd) /\ fdt[fd].obj = header
        /\ req.why = "program" \/ (SameFile(header) = {} /\ Kind[header] # "program")
        /\ NewObject
  /\ UNCHANGED <<cfg, openat_paths, dl_exec_fd, fd_ptr, header, lost, missed>>

-----------------------------------------------------------------------------
(* The application (external).                                             *)
Running == pc = "running" \/ base > 0

dlopen ==
  /\ pc = "running"
  /\ \E n \in AppNames : todo' = Requests(<<n>>, 1, "dlopen")
  /\ base' = Len(loaded) /\ pc' = "next"
  /\ UNCHANGED <<cfg, fdt, openat_paths, dl_exec_fd, loaded, req, fd, fd_ptr, header, lost, missed>>

AppOpen ==
  /\ Running /\ pc \notin {"exit", "fault"}
  /\ \E f \in Fd, o \in AppFiles : LowestFree(f) /\ Opening(f, o, "app")
  /\ UNCHANGED <<cfg, openat_paths, dl_exec_fd, loaded, todo, req, pc, fd, fd_ptr, header, base, lost, missed>>

AppClose ==
  /\ Running /\ pc \notin {"exit", "fault"}
  /\ \E f \in Fd : /\ fdt[f] # NULL /\ fdt[f].by \in {"app", "inherited"}
                   /\ fdt' = [fdt EXCEPT ![f] = NULL]
  /\ UNCHANGED <<cfg, openat_paths, dl_exec_fd, loaded, todo, req, pc, fd, fd_ptr, header, base, lost, missed>>

LoaderStep ==
  \/ Start \/ InitOpenatPaths \/ LoadAll \/ NextRequest \/ Finished \/ OpenatNext
  \/ VerifyListed \/ SearchPaths \/ OpenPath \/ MapFromFd

Next ==
  \/ Start \/ InitOpenatPaths \/ LoadAll \/ NextRequest \/ Finished \/ OpenatNext
  \/ VerifyListed \/ SearchPaths \/ OpenPath \/ MapFromFd \/ dlopen \/ AppOpen \/ AppClose

Spec == Init /\ [][Next]_vars

(* The thread that loads is scheduled; reading and mapping do not block.   *)
FairSpec == Spec /\ WF_vars(LoaderStep)

-----------------------------------------------------------------------------
(* The state has its type, a request is there exactly while one is worked  *)
(* on, and a loader is an object that was loaded earlier and still is.     *)
TypeOK ==
  /\ cfg \in Configs /\ fdt \in Table
  /\ openat_paths \in Seq(Int) /\ dl_exec_fd \in Int
  /\ loaded \in Seq(LinkMap) /\ todo \in Seq(Request) /\ req \in Request \cup {NULL}
  /\ pc \in {"start", "init", "next", "listed", "verify", "search", "by path", "map",
              "running", "exit", "fault"}
  /\ (pc \in {"listed", "verify", "search", "by path", "map"}) => req # NULL
  /\ fd \in Fd \cup {-1} /\ fd_ptr \in Nat \ {0} /\ header \in File \cup {NULL}
  /\ base \in Nat /\ base <= Len(loaded) /\ lost \subseteq Fd /\ missed \in BOOLEAN
  /\ \A i \in 1..Len(loaded) : loaded[i].loader < i
  /\ \A k \in 1..Len(todo) : todo[k].loader <= Len(loaded)
  /\ req # NULL => req.loader <= Len(loaded)

(* A descriptor the loader opened is the one it is working on, or was      *)
(* overwritten by an RPATH search: no other path through open_verify and   *)
(* _dl_map_object_from_fd loses one.                                       *)
LoaderFdsAccounted ==
  \A f \in Fd : fdt[f] # NULL /\ fdt[f].by = "ld" =>
     f \in lost \/ (f = fd /\ pc \in {"verify", "search", "map"}) \/ pc = "fault"

(* The loader closes and replaces no descriptor of the application, and    *)
(* none the process was started with, but the one of the program.          *)
AppFdsUntouched ==
  [][LoaderStep =>
       \A f \in Fd : fdt[f] # NULL /\ fdt[f].by # "ld" /\ (f # dl_exec_fd \/ dl_exec_fd = 0)
          => fdt'[f] = fdt[f]]_vars

(* No library is mapped twice, under whatever names and by whatever        *)
(* descriptors it is found.                                                *)
MappedOnce ==
  \A i, j \in 2..Len(loaded) : loaded[i].file = loaded[j].file => i = j

(* What the first of the listed directories that has a file n has, by the  *)
(* descriptors the process was started with.                               *)
ListHit(table, fds, n) ==
  InDir(table, fds[CHOOSE k \in 1..Len(fds) :
                     /\ InDir(table, fds[k], n) # NULL
                     /\ \A j \in 1..(k - 1) : InDir(table, fds[j], n) = NULL], n)

(* The library to be found for such a name: RPATHs of the objects that ask *)
(* hide the list; the list comes before all other places, and a library    *)
(* for another machine in it leaves those places.                          *)
ToFind(objs, hit, n, by) ==
  IF Chain(objs, by) # <<>> THEN FirstFile(Chain(objs, by) \o Rest(objs, by), n)
  ELSE IF Kind[hit] = "foreign" THEN FirstFile(Rest(objs, by), n)
  ELSE hit

ListHas(n) ==
  \E k \in 1..Len(openat_paths) : InDir(cfg.table, openat_paths[k], n) # NULL

ListKept ==
  \A k \in 1..Len(openat_paths) : openat_paths[k] \in Fd =>
     cfg.table[openat_paths[k]] # NULL /\ fdt[openat_paths[k]] = cfg.table[openat_paths[k]]

(* What is mapped, verified, for a name that a listed directory has is     *)
(* that library, if the application has left the listed descriptors open   *)
(* and one was free to open it: a full table hides the list silently.      *)
ListDecides ==
  pc = "map" /\ header # NULL /\ req.name \in LibName /\ ListHas(req.name) /\ ListKept /\ ~missed
    => fdt[fd].obj = ToFind(loaded, ListHit(cfg.table, openat_paths, req.name),
                            req.name, req.loader)

(* With an LD_LIBRARY_PATH_FDS and a number behind "--" the program is the *)
(* file of that descriptor, whatever file its name stands for.             *)
ProgramIsExecFd ==
  (cfg.direct /\ cfg.env_fds # UNSET /\ cfg.exec_fd # UNSET /\ loaded # <<>>) =>
    (AsInt(cfg.exec_fd) > 0 => loaded[1].file = cfg.table[AsInt(cfg.exec_fd)].obj)

(* open_verify's own contract for a descriptor it is given: the file is    *)
(* already open, and the descriptor refers to it.                          *)
FdRefersToFile ==
  pc = "by path" /\ req.why # "program" /\ dl_exec_fd > 0 =>
    IsOpen(dl_exec_fd) /\ fdt[dl_exec_fd].obj = At[req.name]

(* Every request comes to an end: found, given up, or the process with it. *)
RequestsEnd == (req # NULL) ~> (req = NULL \/ pc = "fault")

=============================================================================
