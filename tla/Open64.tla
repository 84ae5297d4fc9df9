------------------------------- MODULE Open64 -------------------------------
(***************************************************************************)
(* A process whose threads call open: __libc_open64, preopen,              *)
(* preopen_file, preopen_from_dir, get_debug_fd and debug_log of           *)
(* sysdeps/unix/sysv/linux/open64.c, over a table of file descriptors that *)
(* all threads share.                                                      *)
(*                                                                         *)
(* One action per step another thread can see: a system call, or a call of *)
(* get_string_list (which uses strtok's static pointer).  What the code    *)
(* computes from its own locals, the lookup included, is part of the step  *)
(* that uses it.                                                           *)
(***************************************************************************)
EXTENDS PreopenPaths, Positions

CONSTANTS Threads,
          MaxFd,        \* the largest descriptor the process may have open
          IntHalf,      \* an int holds -IntHalf .. IntHalf - 1
          FileArgs,     \* names the application opens
          OFlags,       \* sets of the flags O_DIRECTORY, O_CREAT, O_WRONLY
          Envs,         \* environments (and inherited descriptors)
          Cwd,          \* the working directory
          Object,       \* what a descriptor can refer to
          Dirs,         \* the objects that are directories
          Existing,     \* the other objects that exist at the start
          TornLen,      \* length of the lists a torn tokenising can make
          UNSET,        \* getenv returned NULL
          NotANumber    \* a text strtol does not read to its end

Fd == 0..MaxFd
Var == {"PREOPEN_FILES", "PREOPEN_FILE_FDS", "PREOPEN_PATHS", "PREOPEN_PATH_FDS"}
Errno == {"ENOENT", "EISDIR", "ENOTDIR", "EMFILE", "EFAULT", "EBADF"}

(* An open descriptor: the object and whether it may be written to.        *)
Entry == [obj : Object, wr : BOOLEAN]
Table == [Fd -> Entry \cup {NULL}]

(* The number a text in the environment stands for, as a long.             *)
FdText == Int \cup {NotANumber}

(* An environment: the token lists of the four variables (StringList shows *)
(* what they are), the two debugging variables, and the descriptors the    *)
(* process inherits.                                                       *)
Env == [PREOPEN_FILES : Seq(Path) \cup {UNSET}, PREOPEN_FILE_FDS : Seq(FdText) \cup {UNSET},
        PREOPEN_PATHS : Seq(Path) \cup {UNSET}, PREOPEN_PATH_FDS : Seq(FdText) \cup {UNSET},
        PREOPEN_DEBUG_FD : FdText \cup {UNSET}, PREOPEN_DEBUG_FILE : Path \cup {UNSET},
        table : Table]

-----------------------------------------------------------------------------
(* The kernel's view of a name: its object, found without the empty and    *)
(* "." components (no symbolic links, no ".." in this model).              *)
Resolve(p) ==
  Keep(IF p.root THEN p.comps ELSE Cwd.comps \o p.comps, {Empty, Dot})

(* The names that reach an openat.                                         *)
OpenedNames ==
  FileArgs \cup ({dir_path(f, b, Cwd) : f \in FileArgs, b \in BOOLEAN} \ {NULL})
           \cup ({e.PREOPEN_DEBUG_FILE : e \in Envs} \ {UNSET})

ASSUME Open64Assumption ==
  /\ MaxFd \in Nat /\ IntHalf \in Nat /\ MaxFd < IntHalf /\ TornLen \in Nat
  /\ NULL \notin Entry /\ UNSET \notin Path
  /\ FileArgs \subseteq Path
  /\ OFlags \subseteq SUBSET {"O_DIRECTORY", "O_CREAT", "O_WRONLY"}
  /\ \A e \in Envs : e \in Env
  /\ Cwd \in Path /\ Cwd.root
  /\ Dirs \subseteq Object /\ Existing \subseteq Object
  /\ \A p \in OpenedNames : Resolve(p) \in Object

VARIABLES env, fdt, files,   \* environment, descriptor table, non-directories
          pc, file, oflag, log_fd, fd, errno,   \* per thread
          list,               \* list[t][v]: the list made from variable v
          tokenising, torn,   \* who is inside get_string_list; who overlapped
          wrote,              \* objects debug_log has written to
          why                 \* why[t]: the errno of t's last fallback openat

vars == <<env, fdt, files, pc, file, oflag, log_fd, fd, errno, list,
          tokenising, torn, wrote, why>>

Init ==
  /\ env \in Envs
  /\ fdt = env.table
  /\ files = Existing
  /\ pc = [t \in Threads |-> "idle"]
  /\ file = [t \in Threads |-> NULL] /\ oflag = [t \in Threads |-> {}]
  /\ log_fd = [t \in Threads |-> -1] /\ fd = [t \in Threads |-> -1]
  /\ errno = [t \in Threads |-> "OK"] /\ why = errno
  /\ list = [t \in Threads |-> [v \in Var |-> <<>>]]
  /\ tokenising = {} /\ torn = {}
  /\ wrote = {}

-----------------------------------------------------------------------------
(* System calls (external).  openat: the lowest free descriptor, or errno. *)
IsOpen(f) == f \in Fd /\ fdt[f] # NULL

LowestFree(f) == fdt[f] = NULL /\ \A g \in Fd : g < f => fdt[g] # NULL

OpenErrno(p, o) ==
  IF p = NULL THEN "EFAULT"
  ELSE IF p = EmptyString THEN "ENOENT"
  ELSE IF \A f \in Fd : fdt[f] # NULL THEN "EMFILE"
  ELSE LET obj == Resolve(p)
       IN  IF obj \in Dirs
           THEN IF o \cap {"O_CREAT", "O_WRONLY"} = {} THEN "OK" ELSE "EISDIR"
           ELSE IF obj \in files
           THEN IF "O_DIRECTORY" \in o THEN "ENOTDIR" ELSE "OK"
           ELSE IF "O_CREAT" \in o /\ SubSeq(obj, 1, Len(obj) - 1) \in Dirs
                THEN "OK" ELSE "ENOENT"

openat(p, o, f, e) ==
  /\ IF e = "OK" THEN f \in Fd /\ LowestFree(f) ELSE f = -1
  /\ e = OpenErrno(p, o)
  /\ IF e = "OK"
     THEN /\ fdt' = [fdt EXCEPT ![f] = [obj |-> Resolve(p), wr |-> "O_WRONLY" \in o]]
          /\ files' = files \cup ({Resolve(p)} \ Dirs)
     ELSE UNCHANGED <<fdt, files>>

FdOrError == Fd \cup {-1}

(* A failing call sets the thread's errno, a successful one leaves it.     *)
SetErrno(t, e) == errno' = IF e = "OK" THEN errno ELSE [errno EXCEPT ![t] = e]

Goto(t, where) == pc' = [pc EXCEPT ![t] = where]

(* strtol on a whole text, -1 if there is more behind the number; and the  *)
(* conversion of the long to int.                                          *)
strtol(text) == IF text = NotANumber THEN -1 ELSE text

(* Mutant: no conversion to int.                                           *)
LongAsInt(n) == n

AsInt(n) == ((n + IntHalf) % (2 * IntHalf)) - IntHalf

-----------------------------------------------------------------------------
(* The application calls open.                                             *)
Call(t) ==
  /\ pc[t] = "idle"
  /\ \E f \in FileArgs, o \in OFlags :
       /\ file' = [file EXCEPT ![t] = f]
       /\ oflag' = [oflag EXCEPT ![t] = o]
  /\ Goto(t, "debug")
  /\ UNCHANGED <<env, fdt, files, log_fd, fd, errno, list, tokenising, torn, wrote, why>>

DebugFdGiven(e) ==
  /\ e.PREOPEN_DEBUG_FD \notin {UNSET, NotANumber}
  /\ e.PREOPEN_DEBUG_FD > 0

(* Mutant: standard error is the log when there is no other.               *)
LogToStderr(t) ==
  /\ pc[t] = "debug"
  /\ IF env.PREOPEN_DEBUG_FILE = UNSET
     THEN log_fd' = [log_fd EXCEPT ![t] = 2] /\ UNCHANGED <<fdt, files, errno>>
     ELSE \E f \in FdOrError, e \in Errno \cup {"OK"} :
            /\ openat(env.PREOPEN_DEBUG_FILE, {"O_WRONLY", "O_CREAT"}, f, e)
            /\ log_fd' = [log_fd EXCEPT ![t] = f]
            /\ SetErrno(t, e)
  /\ Goto(t, "PREOPEN_FILES")
  /\ UNCHANGED <<env, file, oflag, fd, list, tokenising, torn, wrote, why>>

(* get_debug_fd: the descriptor named by the environment, else the debug   *)
(* file, opened anew by every call, else -1.                               *)
GetDebugFd(t) ==
  /\ pc[t] = "debug"
  /\ \/ /\ DebugFdGiven(env)
        /\ log_fd' = [log_fd EXCEPT ![t] = AsInt(env.PREOPEN_DEBUG_FD)]
        /\ UNCHANGED <<fdt, files, errno>>
     \/ /\ ~DebugFdGiven(env) /\ env.PREOPEN_DEBUG_FILE = UNSET
        /\ log_fd' = [log_fd EXCEPT ![t] = -1]
        /\ UNCHANGED <<fdt, files, errno>>
     \/ /\ ~DebugFdGiven(env) /\ env.PREOPEN_DEBUG_FILE # UNSET
        /\ \E f \in FdOrError, e \in Errno \cup {"OK"} :
             /\ openat(env.PREOPEN_DEBUG_FILE, {"O_WRONLY", "O_CREAT"}, f, e)
             /\ log_fd' = [log_fd EXCEPT ![t] = f]
             /\ SetErrno(t, e)
  /\ Goto(t, "PREOPEN_FILES")
  /\ UNCHANGED <<env, file, oflag, fd, list, tokenising, torn, wrote, why>>

-----------------------------------------------------------------------------
(* The four variables are read in turn.  Where a variable is not set       *)
(* preopen_file (or preopen_from_dir) returns -1 at once.                  *)
AfterList(v) ==
  CASE v = "PREOPEN_FILES" -> "PREOPEN_FILE_FDS" [] v = "PREOPEN_FILE_FDS" -> "match file"
    [] v = "PREOPEN_PATHS" -> "PREOPEN_PATH_FDS" [] v = "PREOPEN_PATH_FDS" -> "from dir"

(* Mutant: preopen starts again with the files.                            *)
WithoutListAgain(v) ==
  IF v \in {"PREOPEN_FILES", "PREOPEN_FILE_FDS"} THEN "PREOPEN_FILES" ELSE "log preopen"

WithoutList(v) ==
  IF v \in {"PREOPEN_FILES", "PREOPEN_FILE_FDS"} THEN "PREOPEN_PATHS" ELSE "log preopen"

NotSet(t) ==
  /\ pc[t] \in Var /\ env[pc[t]] = UNSET
  /\ Goto(t, WithoutList(pc[t]))
  /\ UNCHANGED <<env, fdt, files, file, oflag, log_fd, fd, errno, list, tokenising, torn, wrote, why>>

(* get_string_list begins.  If another thread is inside it as well, the    *)
(* two share strtok's pointer and each may get any tokens (StringList).    *)
BeginList(t) ==
  /\ pc[t] \in Var /\ env[pc[t]] # UNSET /\ t \notin tokenising
  /\ tokenising' = tokenising \cup {t}
  /\ torn' = IF tokenising = {} THEN torn ELSE torn \cup tokenising'
  /\ UNCHANGED <<env, fdt, files, pc, file, oflag, log_fd, fd, errno, list, wrote, why>>

Tokens(e, vs) == UNION {{e[v][n] : n \in 1..Len(e[v])} : v \in {w \in vs : e[w] # UNSET}}

PathTokens(e) == Tokens(e, {"PREOPEN_FILES", "PREOPEN_PATHS"})
FdTokens(e) == Tokens(e, {"PREOPEN_FILE_FDS", "PREOPEN_PATH_FDS"})

TornLists(e, v) ==
  UNION {[1..n -> IF v \in {"PREOPEN_FILES", "PREOPEN_PATHS"}
                  THEN PathTokens(e) ELSE FdTokens(e)] : n \in 0..TornLen}

EndList(t) ==
  /\ pc[t] \in Var /\ t \in tokenising
  /\ \E l \in {env[pc[t]]} \cup (IF t \in torn THEN TornLists(env, pc[t]) ELSE {}) :
       list' = [list EXCEPT ![t][pc[t]] = l]
  /\ tokenising' = tokenising \ {t}
  /\ torn' = torn \ {t}
  /\ Goto(t, AfterList(pc[t]))
  /\ UNCHANGED <<env, fdt, files, file, oflag, log_fd, fd, errno, wrote, why>>

(* The lookup runs over as many slots as there are descriptors.  Behind    *)
(* the paths stands NULL, then memory that was never written.              *)
Slots(paths, count, junk) ==
  [k \in 0..(count - 1) |-> IF k < Len(paths) THEN paths[k + 1]
                            ELSE IF k = Len(paths) THEN NULL ELSE junk]

find_matching_preopen_path(path, paths, fds, r) ==
  \E junk \in PathTokens(env) \cup {NULL} :
    IsFirstMatch(path, Slots(paths, Len(fds), junk), Len(fds), r)

(* preopen_file: the descriptor listed for the file, itself.  preopen goes *)
(* on to the directories unless it is positive.                            *)
PreopenFile(t) ==
  LET fds == list[t]["PREOPEN_FILE_FDS"]
  IN  /\ pc[t] = "match file"
      /\ \E r \in -1..(Len(fds) - 1) :
           /\ find_matching_preopen_path(abs_file(file[t], Cwd), list[t]["PREOPEN_FILES"], fds, r)
           /\ LET n == IF r >= 0 THEN AsInt(strtol(fds[r + 1])) ELSE -1
              IN  /\ fd' = [fd EXCEPT ![t] = IF n > 0 THEN n ELSE -1]
                  /\ Goto(t, IF n > 0 THEN "log preopen" ELSE "PREOPEN_PATHS")
      /\ list' = [list EXCEPT ![t] = [v \in Var |-> <<>>]]
      /\ UNCHANGED <<env, fdt, files, file, oflag, log_fd, errno, tokenising, torn, wrote, why>>

(* preopen_from_dir: if the directory is listed, openat is called with the *)
(* name of the directory.  That name is absolute or empty, so the listed   *)
(* descriptor does not matter to openat; preopen takes 0 for a failure.    *)
PreopenFromDir(t) ==
  LET fds == list[t]["PREOPEN_PATH_FDS"]
      abs_path == dir_path(file[t], "O_DIRECTORY" \in oflag[t], Cwd)
  IN  /\ pc[t] = "from dir"
      /\ \E r \in -1..(Len(fds) - 1) :
           /\ find_matching_preopen_path(abs_path, list[t]["PREOPEN_PATHS"], fds, r)
           /\ IF r >= 0
              THEN \E f \in FdOrError, e \in Errno \cup {"OK"} :
                     /\ openat(abs_path, oflag[t], f, e)
                     /\ fd' = [fd EXCEPT ![t] = IF f > 0 THEN f ELSE -1]
                     /\ SetErrno(t, e)
              ELSE UNCHANGED <<fdt, files, fd, errno>>
      /\ Goto(t, "log preopen")
      /\ list' = [list EXCEPT ![t] = [v \in Var |-> <<>>]]
      /\ UNCHANGED <<env, file, oflag, log_fd, tokenising, torn, wrote, why>>

-----------------------------------------------------------------------------
(* debug_log: one write, if there is a positive descriptor to write to.    *)
debug_log(t) ==
  IF log_fd[t] <= 0 THEN UNCHANGED <<wrote, errno>>
  ELSE IF IsOpen(log_fd[t]) /\ fdt[log_fd[t]].wr
  THEN wrote' = wrote \cup {fdt[log_fd[t]].obj} /\ UNCHANGED errno
  ELSE SetErrno(t, "EBADF") /\ UNCHANGED wrote

(* Mutant: the log is closed here although it is used and closed again.    *)
LogPreopenCloses(t) ==
  /\ pc[t] = "log preopen"
  /\ debug_log(t)
  /\ fdt' = IF IsOpen(log_fd[t]) THEN [fdt EXCEPT ![log_fd[t]] = NULL] ELSE fdt
  /\ Goto(t, IF fd[t] > 0 THEN "done" ELSE "openat")
  /\ UNCHANGED <<env, files, file, oflag, log_fd, fd, list, tokenising, torn, why>>

(* A positive result of preopen is returned from here.                     *)
LogPreopen(t) ==
  /\ pc[t] = "log preopen"
  /\ debug_log(t)
  /\ Goto(t, IF fd[t] > 0 THEN "done" ELSE "openat")
  /\ UNCHANGED <<env, fdt, files, file, oflag, log_fd, fd, list, tokenising, torn, why>>

Openat(t) ==
  /\ pc[t] = "openat"
  /\ \E f \in FdOrError, e \in Errno \cup {"OK"} :
       /\ openat(file[t], oflag[t], f, e)
       /\ fd' = [fd EXCEPT ![t] = f]
       /\ SetErrno(t, e)
       /\ why' = [why EXCEPT ![t] = e]
  /\ Goto(t, "log open")
  /\ UNCHANGED <<env, file, oflag, log_fd, list, tokenising, torn, wrote>>

(* Mutant: the close of the log is forgotten.                              *)
LogOpenReturns(t) ==
  /\ pc[t] = "log open"
  /\ debug_log(t)
  /\ Goto(t, "done")
  /\ UNCHANGED <<env, fdt, files, file, oflag, log_fd, fd, list, tokenising, torn, why>>

LogOpen(t) ==
  /\ pc[t] = "log open"
  /\ debug_log(t)
  /\ Goto(t, "close log")
  /\ UNCHANGED <<env, fdt, files, file, oflag, log_fd, fd, list, tokenising, torn, why>>

(* Mutant: close (fd).                                                     *)
CloseResult(t) ==
  /\ pc[t] = "close log"
  /\ fdt' = IF IsOpen(fd[t]) THEN [fdt EXCEPT ![fd[t]] = NULL] ELSE fdt
  /\ Goto(t, "done")
  /\ UNCHANGED <<env, files, file, oflag, log_fd, fd, errno, list, tokenising, torn, wrote, why>>

(* close (log_fd), whatever log_fd is.                                     *)
CloseLog(t) ==
  /\ pc[t] = "close log"
  /\ IF IsOpen(log_fd[t])
     THEN fdt' = [fdt EXCEPT ![log_fd[t]] = NULL] /\ UNCHANGED errno
     ELSE SetErrno(t, "EBADF") /\ UNCHANGED fdt
  /\ Goto(t, "done")
  /\ UNCHANGED <<env, files, file, oflag, log_fd, fd, list, tokenising, torn, wrote, why>>

(* The application is done with what it got: it closes a descriptor, and   *)
(* forgets the call.                                                       *)
AppClose(t) ==
  /\ pc[t] = "done"
  /\ fdt' = IF IsOpen(fd[t]) THEN [fdt EXCEPT ![fd[t]] = NULL] ELSE fdt
  /\ Goto(t, "idle")
  /\ file' = [file EXCEPT ![t] = NULL] /\ oflag' = [oflag EXCEPT ![t] = {}]
  /\ log_fd' = [log_fd EXCEPT ![t] = -1] /\ fd' = [fd EXCEPT ![t] = -1]
  /\ errno' = [errno EXCEPT ![t] = "OK"] /\ why' = [why EXCEPT ![t] = "OK"]
  /\ UNCHANGED <<env, files, list, tokenising, torn, wrote>>

(* The numbers preopen_file can hand out.                                  *)
Borrowed(e) ==
  IF e.PREOPEN_FILES = UNSET \/ e.PREOPEN_FILE_FDS = UNSET THEN {}
  ELSE {AsInt(strtol(x)) : x \in FdTokens(e)}

(* A cancelled thread ends at an open or openat of its own: before the     *)
(* call or, as cancellation is asynchronous around it, right behind it,    *)
(* before the result is used.  Nothing is cleaned up.  (A call that failed *)
(* leaves what none would.)                                                *)
CancellationPoint(t) ==
  \/ /\ pc[t] \in {"debug", "PREOPEN_FILES"}
     /\ ~DebugFdGiven(env) /\ env.PREOPEN_DEBUG_FILE # UNSET
  \/ /\ pc[t] = "from dir"
     /\ \E r \in 0..(Len(list[t]["PREOPEN_PATH_FDS"]) - 1) :
          find_matching_preopen_path(dir_path(file[t], "O_DIRECTORY" \in oflag[t], Cwd),
                                     list[t]["PREOPEN_PATHS"], list[t]["PREOPEN_PATH_FDS"], r)
  \/ pc[t] = "log preopen" /\ fd[t] > 0 /\ fd[t] \notin Borrowed(env)
  \/ pc[t] = "openat"
  \/ pc[t] = "log open" /\ fd[t] >= 0

Cancel(t) ==
  /\ CancellationPoint(t) /\ t \notin tokenising
  /\ Goto(t, "cancelled")
  /\ UNCHANGED <<env, fdt, files, file, oflag, log_fd, fd, errno, list, tokenising, torn, wrote, why>>

LibStep(t) ==
  \/ GetDebugFd(t) \/ NotSet(t) \/ BeginList(t) \/ EndList(t) \/ PreopenFile(t)
  \/ PreopenFromDir(t) \/ LogPreopen(t) \/ Openat(t) \/ LogOpen(t) \/ CloseLog(t)

Next ==
  \E t \in Threads :
    \/ Call(t) \/ AppClose(t) \/ Cancel(t)
    \/ GetDebugFd(t) \/ NotSet(t) \/ BeginList(t) \/ EndList(t) \/ PreopenFile(t)
    \/ PreopenFromDir(t) \/ LogPreopen(t) \/ Openat(t) \/ LogOpen(t) \/ CloseLog(t)

Spec == Init /\ [][Next]_vars

(* Each thread that is inside open is scheduled, and no system call of     *)
(* these blocks for ever.                                                  *)
FairSpec == Spec /\ \A t \in Threads : WF_vars(LibStep(t))

-----------------------------------------------------------------------------
LogPcs == Var \cup {"match file", "from dir", "log preopen", "openat", "log open", "close log",
                 "cancelled"}
Pcs == LogPcs \cup {"idle", "debug", "done"}

(* Descriptors fit an int, every open one has an entry in the table, and   *)
(* only threads that are in get_string_list can have their lists torn.     *)
TypeOK ==
  /\ env \in Envs
  /\ fdt \in Table
  /\ files \subseteq Object /\ wrote \subseteq Object
  /\ pc \in [Threads -> Pcs]
  /\ file \in [Threads -> FileArgs \cup {NULL}]
  /\ oflag \in [Threads -> OFlags \cup {{}}]
  /\ log_fd \in [Threads -> (-IntHalf)..(IntHalf - 1)]
  /\ fd \in [Threads -> (-IntHalf)..(IntHalf - 1)]
  /\ errno \in [Threads -> Errno \cup {"OK"}] /\ why \in [Threads -> Errno \cup {"OK"}]
  /\ tokenising \subseteq Threads /\ torn \subseteq tokenising

-----------------------------------------------------------------------------
(* Who relies on descriptor f: a call that logs to it, a call or a caller  *)
(* that has it as its result.  A cancelled call keeps what it had.         *)
OwnsLog(t, f) == pc[t] \in LogPcs /\ log_fd[t] = f
OwnsResult(t, f) == fd[t] = f

(* Unless the environment hands the library a descriptor to log to, no two *)
(* threads rely on the same descriptor, and what a thread relies on is     *)
(* open and was not inherited; for the numbers of PREOPEN_FILE_FDS, which  *)
(* the library hands out again and again, nothing is promised, but the     *)
(* damage stays with those numbers.                                        *)
DescriptorsSeparate ==
  ~DebugFdGiven(env) =>
    \A f \in Fd \ Borrowed(env) : \A t, u \in Threads :
      /\ OwnsLog(t, f) /\ OwnsLog(u, f) => t = u
      /\ OwnsResult(t, f) /\ OwnsResult(u, f) => t = u
      /\ ~(OwnsLog(t, f) /\ OwnsResult(u, f))
      /\ OwnsLog(t, f) \/ OwnsResult(t, f) => fdt[f] # NULL /\ env.table[f] = NULL

(* No thread's open ever closes or replaces a descriptor the process was   *)
(* started with, under the same conditions: what is preopened stays open.  *)
InheritedKept ==
  ~DebugFdGiven(env) =>
    \A f \in Fd \ Borrowed(env) : env.table[f] # NULL => fdt[f] = env.table[f]

Plain(e) ==
  ~DebugFdGiven(e) /\ e.PREOPEN_FILES = UNSET /\ e.PREOPEN_PATHS = UNSET

Opened(r) == [obj |-> Resolve(r[1]), wr |-> "O_WRONLY" \in r[2]]

(* Without PREOPEN variables the descriptor a caller gets is open on the   *)
(* file it named, for as long as it keeps it, whatever the other threads   *)
(* and the debug log do with the table.                                    *)
RightFile ==
  Plain(env) =>
    \A t \in Threads : pc[t] \in {"log open", "close log", "done"} /\ fd[t] >= 0 =>
      fd[t] \in Fd /\ fdt[fd[t]] = Opened(<<file[t], oflag[t]>>)

(* Debug output is only ever written to the file PREOPEN_DEBUG_FILE names, *)
(* never to a file of the application whose descriptor took its number.    *)
LogToLogFile ==
  ~DebugFdGiven(env) /\ Borrowed(env) = {} =>
    \A o \in wrote : /\ env.PREOPEN_DEBUG_FILE # UNSET
                     /\ o = Resolve(env.PREOPEN_DEBUG_FILE)

(* Without PREOPEN variables no descriptor is lost: one that was not       *)
(* inherited belongs to a call in progress, to a caller, or to a call that *)
(* was cancelled with it.                                                  *)
NoLeak ==
  Plain(env) =>
    \A f \in Fd : fdt[f] # NULL /\ env.table[f] = NULL =>
      \E t \in Threads : OwnsLog(t, f) \/ OwnsResult(t, f)

(* Every call of open returns, unless its thread is cancelled.             *)
CallReturns == \A t \in Threads : pc[t] = "debug" ~> pc[t] \in {"done", "cancelled"}

(* Without PREOPEN variables open is what the manual says of it: one       *)
(* atomic step on the descriptors the application can know of.             *)
VisibleTable ==
  [f \in Fd |-> IF \E t \in Threads : OwnsLog(t, f) THEN NULL ELSE fdt[f]]

Phase(t) ==
  CASE pc[t] = "idle" -> "idle"
    [] pc[t] = "done" -> "returned"
    [] \/ pc[t] \in {"log open", "close log"}
       \/ pc[t] = "log preopen" /\ fd[t] > 0
       \/ pc[t] = "cancelled" /\ fd[t] >= 0 -> "answered"
    [] OTHER -> "called"

Phases == [t \in Threads |-> Phase(t)]

Requests == [t \in Threads |-> IF pc[t] = "idle" THEN NULL ELSE <<file[t], oflag[t]>>]

Posix == INSTANCE PosixOpen WITH
  Request <- FileArgs \X OFlags,
  Target  <- Opened,
  tab     <- VisibleTable,
  phase   <- Phases,
  req     <- Requests,
  res     <- fd

ImplementsPosixOpen == Posix!Spec

-----------------------------------------------------------------------------
(* A positive answer of preopen is one the configuration gives for this    *)
(* name: the descriptor listed for the file, or a new descriptor for the   *)
(* directory that is listed and that the file is in.                       *)
DirOf(place, o) ==
  IF "O_DIRECTORY" \in o THEN place ELSE SubSeq(place, 1, Len(place) - 1)

AnswerIsConfigured ==
  \A t \in Threads : pc[t] = "log preopen" /\ fd[t] > 0 =>
    \/ /\ env.PREOPEN_FILES # UNSET /\ env.PREOPEN_FILE_FDS # UNSET
       /\ \E n \in 1..Len(env.PREOPEN_FILES) :
            /\ Resolve(env.PREOPEN_FILES[n]) = Resolve(file[t])
            /\ n <= Len(env.PREOPEN_FILE_FDS)
            /\ fd[t] = AsInt(strtol(env.PREOPEN_FILE_FDS[n]))
    \/ /\ env.PREOPEN_PATHS # UNSET /\ env.PREOPEN_PATH_FDS # UNSET
       /\ \E n \in 1..Len(env.PREOPEN_PATHS) :
            /\ Resolve(env.PREOPEN_PATHS[n]) = DirOf(Resolve(file[t]), oflag[t])
            /\ IsOpen(fd[t]) /\ fdt[fd[t]].obj = Resolve(env.PREOPEN_PATHS[n])

(* A file that PREOPEN_FILES lists by its absolute name, with a usable     *)
(* descriptor, is never opened by name.                                    *)
Listed(f) ==
  /\ f.root /\ env.PREOPEN_FILES # UNSET /\ env.PREOPEN_FILE_FDS # UNSET
  /\ \E n \in 1..Len(env.PREOPEN_FILES) :
       /\ env.PREOPEN_FILES[n] = f
       /\ \A m \in 1..(n - 1) : env.PREOPEN_FILES[m] # f
       /\ n <= Len(env.PREOPEN_FILE_FDS) /\ AsInt(strtol(env.PREOPEN_FILE_FDS[n])) > 0

ListedFileNotOpened ==
  \A t \in Threads : pc[t] \in {"from dir", "openat", "log open", "close log"} => ~Listed(file[t])

-----------------------------------------------------------------------------
(* "creates and returns a new file descriptor for the file named by        *)
(* filename" (manual/llio.texi): also when the file's directory is in      *)
(* PREOPEN_PATHS.                                                          *)
OpensNamedFile ==
  \A t \in Threads : pc[t] = "done" /\ fd[t] >= 0 =>
    IsOpen(fd[t]) /\ fdt[fd[t]].obj = Resolve(file[t])

(* The errno conditions of open (manual/llio.texi, for example "ENOENT:    *)
(* the named file does not exist"): a failed call leaves the errno of the  *)
(* openat that failed.                                                     *)
ErrnoTellsWhy ==
  \A t \in Threads : pc[t] = "done" /\ fd[t] = -1 => errno[t] = why[t]

(* PREOPEN_DEBUG_FD "names the descriptor debug output goes to"            *)
(* (open64_modifications_doc.md): nothing else is written to.              *)
DebugOutputGoesToDebugFd ==
  \A o \in wrote : o = env.table[env.PREOPEN_DEBUG_FD].obj
=============================================================================
