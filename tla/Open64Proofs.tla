---------------------------- MODULE Open64Proofs ----------------------------
(***************************************************************************)
(* For every set of threads, every environment and every table size: the   *)
(* types, who may rely on which descriptor, and what follows from it.      *)
(***************************************************************************)
EXTENDS Open64, TLAPS, SequenceTheorems

(* What the invariants below need to know of the control: a call has a     *)
(* file, a list of numbers holds numbers of the environment, and the       *)
(* lookup of files is only reached when both its variables are set.        *)
Control(t) ==
  /\ DOMAIN list[t] = Var
  /\ list[t]["PREOPEN_FILE_FDS"] \in Seq(FdTokens(env))
  /\ pc[t] # "idle" => file[t] \in FileArgs
  /\ pc[t] \in {"PREOPEN_FILE_FDS", "match file"} => env.PREOPEN_FILES # UNSET
  /\ pc[t] = "match file" => env.PREOPEN_FILE_FDS # UNSET
  /\ t \in tokenising => pc[t] \in Var /\ env[pc[t]] # UNSET

Aux == DOMAIN list = Threads /\ \A t \in Threads : Control(t)

(* The value of a failed open is no descriptor.                            *)
LEMMA ErrorNoFd == -1 \notin Fd
BY DEF Fd

LEMMA Membership == \A x, S : (x \in S) \in BOOLEAN
OBVIOUS

LEMMA OpenedObject ==
  ASSUME NEW p, NEW o
  PROVE  Opened(<<p, o>>).obj = Resolve(p)
BY DEF Opened

LEMMA AsIntType ==
  ASSUME NEW n \in Int
  PROVE  AsInt(n) \in (-IntHalf)..(IntHalf - 1)
<1>1. IntHalf \in Nat /\ IntHalf > 0
  BY Open64Assumption
<1>2. (n + IntHalf) % (2 * IntHalf) \in 0..(2 * IntHalf - 1)
  <2> DEFINE m == n + IntHalf
             d == 2 * IntHalf
  <2>1. m \in Int /\ d \in Nat /\ d > 0
    BY <1>1
  <2>2. m % d \in 0..(d - 1)
    <3> HIDE DEF m, d
    <3> QED BY <2>1
  <2> QED BY <2>2
<1> QED BY <1>1, <1>2 DEF AsInt

LEMMA EnvType ==
  ASSUME NEW e \in Envs
  PROVE  e \in Env
BY Open64Assumption

(* A list of numbers in the environment consists of its tokens.            *)
LEMMA TokenSequence ==
  ASSUME NEW e \in Envs, e.PREOPEN_FILE_FDS # UNSET
  PROVE  e.PREOPEN_FILE_FDS \in Seq(FdTokens(e))
<1> DEFINE q == e.PREOPEN_FILE_FDS
<1>1. q \in Seq(FdText)
  BY EnvType DEF Env
<1>2. ASSUME NEW n \in 1..Len(q) PROVE q[n] \in FdTokens(e)
  <2>1. q[n] \in {e["PREOPEN_FILE_FDS"][m] : m \in 1..Len(e["PREOPEN_FILE_FDS"])}
    OBVIOUS
  <2>2. "PREOPEN_FILE_FDS" \in {w \in {"PREOPEN_FILE_FDS", "PREOPEN_PATH_FDS"} : e[w] # UNSET}
    OBVIOUS
  <2> QED BY <2>1, <2>2 DEF FdTokens, Tokens
<1>3. q = [n \in 1..Len(q) |-> q[n]] /\ Len(q) \in Nat
  BY <1>1
<1> HIDE DEF q
<1>4. q \in Seq(FdTokens(e))
  BY <1>2, <1>3, IsASeq
<1> QED BY <1>4 DEF q

LEMMA FdTokenType ==
  ASSUME NEW e \in Envs
  PROVE  FdTokens(e) \subseteq FdText
<1>1. ASSUME NEW v \in {"PREOPEN_FILE_FDS", "PREOPEN_PATH_FDS"}, e[v] # UNSET
      PROVE  e[v] \in Seq(FdText)
  BY <1>1, EnvType DEF Env
<1>2. ASSUME NEW v \in {"PREOPEN_FILE_FDS", "PREOPEN_PATH_FDS"}, e[v] # UNSET,
             NEW n \in 1..Len(e[v])
      PROVE  e[v][n] \in FdText
  BY <1>1, <1>2, ElementOfSeq
<1> QED BY <1>2 DEF FdTokens, Tokens

LEMMA TokenNumberType ==
  ASSUME NEW x \in FdText
  PROVE  strtol(x) \in Int /\ AsInt(strtol(x)) \in (-IntHalf)..(IntHalf - 1)
<1>1. strtol(x) \in Int
  BY DEF strtol, FdText
<1> QED BY <1>1, AsIntType

-----------------------------------------------------------------------------
(* openat changes at most one entry of the table, and only a free one.     *)
LEMMA OpenatEffect ==
  ASSUME TypeOK, NEW p, NEW o, NEW f \in FdOrError, NEW e,
         p = NULL \/ p \in OpenedNames,
         openat(p, o, f, e)
  PROVE  /\ files' \subseteq Object
         /\ \/ f = -1 /\ fdt' = fdt
            \/ /\ f \in Fd /\ fdt[f] = NULL
               /\ fdt' = [fdt EXCEPT ![f] = Opened(<<p, o>>)]
               /\ Opened(<<p, o>>) \in Entry
         /\ fdt' \in Table
         /\ f \in (-IntHalf)..(IntHalf - 1)
<1> USE Open64Assumption
<1>1. f \in (-IntHalf)..(IntHalf - 1)
  BY DEF FdOrError, Fd
<1>2. CASE e = "OK"
  <2>1. p # NULL
    BY <1>2 DEF openat, OpenErrno
  <2>2. Resolve(p) \in Object
    BY <2>1
  <2>3. Opened(<<p, o>>) = [obj |-> Resolve(p), wr |-> "O_WRONLY" \in o]
    BY DEF Opened
  <2>4. Opened(<<p, o>>) \in Entry
    <3> DEFINE w == "O_WRONLY" \in o
    <3>1. w \in BOOLEAN
      OBVIOUS
    <3>2. Opened(<<p, o>>) = [obj |-> Resolve(p), wr |-> w]
      BY <2>3
    <3> HIDE DEF w
    <3> QED BY <2>2, <3>1, <3>2 DEF Entry
  <2>5. /\ f \in Fd /\ fdt[f] = NULL
        /\ fdt' = [fdt EXCEPT ![f] = Opened(<<p, o>>)]
        /\ files' = files \cup ({Resolve(p)} \ Dirs)
    BY <1>2, <2>3 DEF openat, LowestFree
  <2>6. fdt' \in Table
    BY <2>4, <2>5 DEF TypeOK, Table
  <2>7. files' \subseteq Object
    BY <2>2, <2>5 DEF TypeOK
  <2> QED BY <1>1, <2>4, <2>5, <2>6, <2>7
<1>3. CASE e # "OK"
  BY <1>1, <1>3 DEF openat, TypeOK
<1> QED BY <1>2, <1>3

LEMMA FileArgOpened ==
  ASSUME NEW f \in FileArgs
  PROVE  f \in OpenedNames
BY DEF OpenedNames

LEMMA LogNameOpened ==
  ASSUME env \in Envs, env.PREOPEN_DEBUG_FILE # UNSET
  PROVE  env.PREOPEN_DEBUG_FILE \in OpenedNames
BY DEF OpenedNames

LEMMA DirPathOpened ==
  ASSUME NEW f \in FileArgs, NEW b \in BOOLEAN
  PROVE  dir_path(f, b, Cwd) = NULL \/ dir_path(f, b, Cwd) \in OpenedNames
BY DEF OpenedNames

-----------------------------------------------------------------------------
(* Types and Aux.                                                          *)
LEMMA InitTypes == Init => TypeOK /\ Aux
<1> SUFFICES ASSUME Init PROVE TypeOK /\ Aux
  OBVIOUS
<1> USE Open64Assumption
<1>1. -1 \in (-IntHalf)..(IntHalf - 1)
  OBVIOUS
<1>2. env \in Envs /\ fdt \in Table
  BY EnvType DEF Init, Env
<1>3. TypeOK
  BY <1>1, <1>2 DEF Init, TypeOK, Pcs, LogPcs
<1>4. Aux
  BY DEF Init, Aux, Control, Var
<1> QED BY <1>3, <1>4

(* What a step of t on its own control and locals leaves of TypeOK.        *)
LEMMA ErrnoType ==
  ASSUME TypeOK, NEW t \in Threads, NEW e \in Errno \cup {"OK"}, SetErrno(t, e)
  PROVE  errno' \in [Threads -> Errno \cup {"OK"}]
BY DEF TypeOK, SetErrno

LEMMA GotoType ==
  ASSUME TypeOK, NEW t \in Threads, NEW w \in Pcs, Goto(t, w)
  PROVE  pc' \in [Threads -> Pcs]
BY DEF TypeOK, Goto

LEMMA DebugLogType ==
  ASSUME TypeOK, NEW t \in Threads, debug_log(t)
  PROVE  errno' \in [Threads -> Errno \cup {"OK"}] /\ wrote' \subseteq Object
<1>1. CASE log_fd[t] <= 0
  BY <1>1 DEF debug_log, TypeOK
<1>2. CASE log_fd[t] > 0 /\ IsOpen(log_fd[t]) /\ fdt[log_fd[t]].wr
  <2>1. fdt[log_fd[t]] \in Entry
    BY <1>2 DEF TypeOK, Table, IsOpen
  <2>2. fdt[log_fd[t]].obj \in Object
    BY <2>1 DEF Entry
  <2>3. ~(log_fd[t] <= 0)
    BY <1>2 DEF TypeOK
  <2> QED BY <1>2, <2>2, <2>3 DEF debug_log, TypeOK
<1>3. CASE log_fd[t] > 0 /\ ~(IsOpen(log_fd[t]) /\ fdt[log_fd[t]].wr)
  <2>1. ~(log_fd[t] <= 0)
    BY <1>3 DEF TypeOK
  <2>2. SetErrno(t, "EBADF") /\ UNCHANGED wrote
    BY <1>3, <2>1 DEF debug_log
  <2> QED BY <2>2, ErrnoType DEF TypeOK, Errno
<1>4. log_fd[t] <= 0 \/ log_fd[t] > 0
  BY Open64Assumption DEF TypeOK
<1> QED BY <1>1, <1>2, <1>3, <1>4

(* A list made by get_string_list from PREOPEN_FILE_FDS, torn or not,      *)
(* holds tokens of the environment.                                        *)
LEMMA MadeListTokens ==
  ASSUME NEW e \in Envs, e.PREOPEN_FILE_FDS # UNSET, NEW l,
         l \in {e["PREOPEN_FILE_FDS"]} \cup TornLists(e, "PREOPEN_FILE_FDS")
  PROVE  l \in Seq(FdTokens(e))
<1>1. CASE l = e.PREOPEN_FILE_FDS
  BY <1>1, TokenSequence
<1>2. CASE l \in TornLists(e, "PREOPEN_FILE_FDS")
  <2>1. PICK n \in 0..TornLen : l \in [1..n -> FdTokens(e)]
    BY <1>2 DEF TornLists
  <2>2. n \in Nat
    BY Open64Assumption
  <2> QED BY <2>1, <2>2, SeqDef
<1> QED BY <1>1, <1>2

(* A step of t leaves what Aux says of the other threads alone.            *)
LEMMA OthersKept ==
  ASSUME Aux, NEW t \in Threads, env' = env, DOMAIN list' = Threads,
         \A u \in Threads \ {t} :
           pc'[u] = pc[u] /\ file'[u] = file[u] /\ list'[u] = list[u] /\ (u \in tokenising' => u \in tokenising),
         Control(t)'
  PROVE  Aux'
<1> SUFFICES ASSUME NEW u \in Threads, u # t PROVE Control(u)'
  BY DEF Aux
<1>1. Control(u)
  BY DEF Aux
<1> QED BY <1>1, Zenon DEF Control

(* Freeing the lists of t keeps what Aux says of lists.                    *)
LEMMA FreedLists ==
  ASSUME Aux, NEW t \in Threads, list' = [list EXCEPT ![t] = [v \in Var |-> <<>>]]
  PROVE  /\ DOMAIN list' = Threads
         /\ DOMAIN list'[t] = Var /\ list'[t]["PREOPEN_FILE_FDS"] \in Seq(FdTokens(env))
         /\ \A u \in Threads \ {t} : list'[u] = list[u]
<1>1. <<>> \in Seq(FdTokens(env))
  BY EmptySeq
<1>2. "PREOPEN_FILE_FDS" \in Var
  BY DEF Var
<1>3. list'[t] = [v \in Var |-> <<>>] /\ DOMAIN list' = Threads
  BY Zenon DEF Aux, Control
<1>4. \A u \in Threads \ {t} : list'[u] = list[u]
  BY Zenon DEF Aux, Control
<1> QED BY <1>1, <1>2, <1>3, <1>4, Zenon DEF Aux, Control

(* A thread is cancelled in a call, before the call returns.               *)
LEMMA CancelledWithin ==
  ASSUME NEW t \in Threads, Cancel(t)
  PROVE  pc[t] \in {"debug", "PREOPEN_FILES", "from dir", "log preopen", "openat", "log open"}
BY Zenon DEF Cancel, CancellationPoint

LEMMA NextTypes ==
  ASSUME TypeOK, Aux, NEW t \in Threads, Call(t) \/ AppClose(t) \/ Cancel(t) \/ LibStep(t)
  PROVE  TypeOK' /\ Aux'
<1> USE Open64Assumption
<1> DEFINE I == (-IntHalf)..(IntHalf - 1)
<1>0. -1 \in I
  OBVIOUS
<1>1. CASE Call(t)
  <2>1. TypeOK'
    BY <1>1 DEF Call, Goto, TypeOK, Pcs
  <2>2. Aux'
    BY <1>1, ZenonT(60) DEF Call, Goto, TypeOK, Aux, Control, Var
  <2> QED BY <2>1, <2>2
<1>2. CASE AppClose(t)
  <2>1. fdt' \in Table
    BY <1>2, Zenon DEF AppClose, TypeOK, Table
  <2>2. TypeOK'
    BY <1>0, <1>2, <2>1 DEF AppClose, Goto, TypeOK, Pcs
  <2>3. Aux'
    BY <1>2, Zenon DEF AppClose, Goto, TypeOK, Aux, Control, Var
  <2> QED BY <2>2, <2>3
<1>3. CASE GetDebugFd(t)
  <2>1. pc' \in [Threads -> Pcs] /\ pc'[t] = "PREOPEN_FILES"
    BY <1>3, ZenonT(40) DEF GetDebugFd, Goto, TypeOK, Pcs, LogPcs, Var
  <2>2. /\ fdt' \in Table /\ files' \subseteq Object
        /\ log_fd' \in [Threads -> I]
        /\ errno' \in [Threads -> Errno \cup {"OK"}]
    <3>1. CASE DebugFdGiven(env)
      <4>1. env.PREOPEN_DEBUG_FD \in Int
        BY <3>1, EnvType DEF TypeOK, Env, FdText, DebugFdGiven
      <4>2. AsInt(env.PREOPEN_DEBUG_FD) \in I
        BY <4>1, AsIntType
      <4> HIDE DEF I
      <4> QED BY <1>3, <3>1, <4>2 DEF GetDebugFd, TypeOK, I
    <3>2. CASE ~DebugFdGiven(env) /\ env.PREOPEN_DEBUG_FILE = UNSET
      BY <1>0, <1>3, <3>2 DEF GetDebugFd, TypeOK
    <3>3. CASE ~DebugFdGiven(env) /\ env.PREOPEN_DEBUG_FILE # UNSET
      <4>1. PICK f \in FdOrError, e \in Errno \cup {"OK"} :
              /\ openat(env.PREOPEN_DEBUG_FILE, {"O_WRONLY", "O_CREAT"}, f, e)
              /\ log_fd' = [log_fd EXCEPT ![t] = f]
              /\ SetErrno(t, e)
        BY <1>3, <3>3 DEF GetDebugFd
      <4>2. env.PREOPEN_DEBUG_FILE \in OpenedNames
        BY <3>3, LogNameOpened DEF TypeOK
      <4>3. fdt' \in Table /\ files' \subseteq Object /\ f \in I
        BY <4>1, <4>2, OpenatEffect, Zenon
      <4>4. errno' \in [Threads -> Errno \cup {"OK"}]
        BY <4>1, ErrnoType
      <4> HIDE DEF I
      <4> QED BY <4>1, <4>3, <4>4, Zenon DEF TypeOK, I
    <3> QED BY <3>1, <3>2, <3>3
  <2>3. TypeOK'
    BY <1>3, <2>1, <2>2 DEF GetDebugFd, TypeOK
  <2>4. Aux'
    BY <1>3, <2>1, Zenon DEF GetDebugFd, Goto, TypeOK, Aux, Control, Var
  <2> QED BY <2>3, <2>4
<1>4. CASE NotSet(t)
  <2>1. WithoutList(pc[t]) \in {"PREOPEN_PATHS", "log preopen"}
    BY DEF WithoutList
  <2>2. TypeOK'
    BY <1>4, <2>1, Zenon DEF NotSet, Goto, TypeOK, Pcs, LogPcs, Var
  <2>3. Aux'
    BY <1>4, <2>1, Zenon DEF NotSet, Goto, TypeOK, Aux, Control, Var
  <2> QED BY <2>2, <2>3
<1>5. CASE BeginList(t)
  <2>1. TypeOK'
    BY <1>5 DEF BeginList, TypeOK
  <2>2. Aux'
    BY <1>5, Zenon DEF BeginList, Aux, Control
  <2> QED BY <2>1, <2>2
<1>6. CASE EndList(t)
  <2>1. PICK l \in {env[pc[t]]} \cup (IF t \in torn THEN TornLists(env, pc[t]) ELSE {}) :
          list' = [list EXCEPT ![t][pc[t]] = l]
    BY <1>6, Zenon DEF EndList
  <2>2. pc[t] \in Var /\ pc' = [pc EXCEPT ![t] = AfterList(pc[t])]
    BY <1>6 DEF EndList, Goto
  <2>3. /\ AfterList(pc[t]) \in {"PREOPEN_FILE_FDS", "match file", "PREOPEN_PATH_FDS", "from dir"}
        /\ AfterList(pc[t]) = "PREOPEN_FILE_FDS" => pc[t] = "PREOPEN_FILES"
        /\ AfterList(pc[t]) = "match file" => pc[t] = "PREOPEN_FILE_FDS"
    BY <2>2, Zenon DEF AfterList, Var
  <2>4. TypeOK'
    BY <1>6, <2>2, <2>3, Zenon DEF EndList, TypeOK, Pcs, LogPcs, Var
  <2>5. env[pc[t]] # UNSET
    BY <1>6, Zenon DEF EndList, Aux, Control
  <2>6. \A u \in Threads : DOMAIN list'[u] = Var /\ list'[u]["PREOPEN_FILE_FDS"] \in Seq(FdTokens(env))
    <3>1. pc[t] = "PREOPEN_FILE_FDS" => l \in Seq(FdTokens(env))
      <4> SUFFICES ASSUME pc[t] = "PREOPEN_FILE_FDS" PROVE l \in Seq(FdTokens(env))
        OBVIOUS
      <4>1. l \in {env["PREOPEN_FILE_FDS"]} \cup TornLists(env, "PREOPEN_FILE_FDS")
        BY <2>1
      <4> QED BY <2>5, <4>1, MadeListTokens DEF TypeOK
    <3> QED BY <2>1, <2>2, <3>1, ZenonT(40) DEF Aux, Control, Var
  <2>7. DOMAIN list' = Threads
    BY <2>1, Zenon DEF Aux, Control
  <2>8. \A u \in Threads :
          /\ pc'[u] # "idle" => file'[u] \in FileArgs
          /\ pc'[u] \in {"PREOPEN_FILE_FDS", "match file"} => env.PREOPEN_FILES # UNSET
          /\ pc'[u] = "match file" => env.PREOPEN_FILE_FDS # UNSET
          /\ u \in tokenising' => pc'[u] \in Var /\ env[pc'[u]] # UNSET
    BY <1>6, <2>2, <2>3, <2>5, Zenon DEF EndList, Aux, Control, TypeOK, Var
  <2>9. Aux'
    BY <1>6, <2>6, <2>7, <2>8, Zenon DEF EndList, Aux, Control
  <2> QED BY <2>4, <2>9
<1>7. CASE PreopenFile(t)
  <2> DEFINE fds == list[t]["PREOPEN_FILE_FDS"]
  <2>1. PICK r \in -1..(Len(fds) - 1) :
          LET n == IF r >= 0 THEN AsInt(strtol(fds[r + 1])) ELSE -1
          IN  /\ fd' = [fd EXCEPT ![t] = IF n > 0 THEN n ELSE -1]
              /\ Goto(t, IF n > 0 THEN "log preopen" ELSE "PREOPEN_PATHS")
    BY <1>7, Zenon DEF PreopenFile
  <2> DEFINE n == IF r >= 0 THEN AsInt(strtol(fds[r + 1])) ELSE -1
  <2>2. n \in I
    <3>1. ASSUME r >= 0 PROVE AsInt(strtol(fds[r + 1])) \in I
      <4>0. fds \in Seq(FdTokens(env))
        BY Zenon DEF Aux, Control
      <4>1. fds \in Seq(FdTokens(env)) /\ Len(fds) \in Nat
        BY <4>0, LenProperties
      <4>2. r + 1 \in 1..Len(fds)
        BY <3>1, <4>1
      <4>3. fds[r + 1] \in FdText
        <5> HIDE DEF fds
        <5> QED BY <4>1, <4>2, ElementOfSeq, FdTokenType DEF TypeOK
      <4> QED BY <4>3, TokenNumberType
    <3> QED BY <1>0, <3>1
  <2>3. fd' \in [Threads -> I] /\ pc'[t] \in {"log preopen", "PREOPEN_PATHS"}
    <3>1. fd' = [fd EXCEPT ![t] = IF n > 0 THEN n ELSE -1] /\ fd \in [Threads -> I]
      BY <2>1, Zenon DEF TypeOK
    <3>2. (IF n > 0 THEN n ELSE -1) \in I
      BY <1>0, <2>2
    <3>3. pc'[t] \in {"log preopen", "PREOPEN_PATHS"}
      BY <2>1, Zenon DEF Goto, TypeOK
    <3> HIDE DEF n, I
    <3> QED BY <3>1, <3>2, <3>3, Zenon
  <2>4. pc' = [pc EXCEPT ![t] = pc'[t]]
    BY <2>1, Zenon DEF Goto, TypeOK
  <2>5. TypeOK'
    <3>1. pc' \in [Threads -> Pcs]
      BY <2>3, <2>4, Zenon DEF TypeOK, Pcs, LogPcs, Var
    <3> QED BY <1>7, <2>3, <3>1, Zenon DEF PreopenFile, TypeOK
  <2>6. Aux'
    <3>1. pc[t] = "match file" /\ list' = [list EXCEPT ![t] = [v \in Var |-> <<>>]]
          /\ UNCHANGED <<env, file, tokenising>>
      BY <1>7, Zenon DEF PreopenFile
    <3>2. pc' \in [Threads -> Pcs] /\ \A u \in Threads \ {t} : pc'[u] = pc[u]
      BY <2>4, <2>5 DEF TypeOK
    <3>3. t \notin tokenising /\ file[t] \in FileArgs
      BY <3>1, Zenon DEF Aux, Control, Var
    <3>4. Control(t)'
      BY <2>3, <3>1, <3>3, FreedLists, Zenon DEF Control
    <3> QED BY <3>1, <3>2, <3>4, FreedLists, OthersKept, Zenon
  <2> QED BY <2>5, <2>6
<1>8. CASE PreopenFromDir(t)
  <2> DEFINE b == "O_DIRECTORY" \in oflag[t]
             abs_path == dir_path(file[t], b, Cwd)
  <2>1. pc[t] = "from dir" /\ Goto(t, "log preopen")
        /\ list' = [list EXCEPT ![t] = [v \in Var |-> <<>>]]
        /\ UNCHANGED <<env, file, oflag, log_fd, tokenising, torn, wrote, why>>
    BY <1>8, Zenon DEF PreopenFromDir
  <2>2. \/ \E f \in FdOrError, e \in Errno \cup {"OK"} :
             /\ openat(abs_path, oflag[t], f, e)
             /\ fd' = [fd EXCEPT ![t] = IF f > 0 THEN f ELSE -1]
             /\ SetErrno(t, e)
        \/ UNCHANGED <<fdt, files, fd, errno>>
    BY <1>8, Zenon DEF PreopenFromDir
  <2>3. /\ fdt' \in Table /\ files' \subseteq Object /\ fd' \in [Threads -> I]
        /\ errno' \in [Threads -> Errno \cup {"OK"}]
    <3>1. CASE UNCHANGED <<fdt, files, fd, errno>>
      BY <3>1 DEF TypeOK
    <3>2. ASSUME NEW f \in FdOrError, NEW e \in Errno \cup {"OK"},
                 openat(abs_path, oflag[t], f, e),
                 fd' = [fd EXCEPT ![t] = IF f > 0 THEN f ELSE -1],
                 SetErrno(t, e)
          PROVE  /\ fdt' \in Table /\ files' \subseteq Object /\ fd' \in [Threads -> I]
                 /\ errno' \in [Threads -> Errno \cup {"OK"}]
      <4>1. abs_path = NULL \/ abs_path \in OpenedNames
        <5>1. file[t] \in FileArgs
          BY <2>1, Zenon DEF Aux, Control
        <5>2. b \in BOOLEAN
          OBVIOUS
        <5> HIDE DEF b
        <5> QED BY <5>1, <5>2, DirPathOpened
      <4>2. fdt' \in Table /\ files' \subseteq Object /\ f \in I
        <5> HIDE DEF abs_path
        <5> QED BY <3>2, <4>1, OpenatEffect, Zenon
      <4>3. (IF f > 0 THEN f ELSE -1) \in I
        BY <1>0, <4>2
      <4>4. errno' \in [Threads -> Errno \cup {"OK"}]
        BY <3>2, ErrnoType
      <4>5. fd \in [Threads -> I]
        BY DEF TypeOK
      <4> HIDE DEF I
      <4> QED BY <3>2, <4>2, <4>3, <4>4, <4>5
    <3> HIDE DEF I, abs_path
    <3> QED BY <2>2, <3>1, <3>2
  <2>4. pc' \in [Threads -> Pcs] /\ pc'[t] = "log preopen" /\ \A u \in Threads \ {t} : pc'[u] = pc[u]
    BY <2>1, ZenonT(60) DEF Goto, TypeOK, Pcs, LogPcs
  <2>5. TypeOK'
    BY <2>1, <2>3, <2>4, Zenon DEF TypeOK
  <2>6. t \notin tokenising /\ file[t] \in FileArgs
    BY <2>1, Zenon DEF Aux, Control, Var
  <2>7. Control(t)'
    BY <2>1, <2>4, <2>6, FreedLists, Zenon DEF Control
  <2>8. Aux'
    BY <2>1, <2>4, <2>7, FreedLists, OthersKept, Zenon
  <2> QED BY <2>5, <2>8
<1>9. CASE LogPreopen(t) \/ LogOpen(t)
  <2>1. debug_log(t) /\ UNCHANGED <<env, fdt, files, file, oflag, log_fd, fd, list, tokenising, torn, why>>
    BY <1>9, Zenon DEF LogPreopen, LogOpen
  <2>2. pc[t] \in {"log preopen", "log open"} /\ \E w \in {"done", "openat", "close log"} : Goto(t, w)
    BY <1>9, Zenon DEF LogPreopen, LogOpen
  <2>3. pc' \in [Threads -> Pcs] /\ pc'[t] \in {"done", "openat", "close log"}
        /\ \A u \in Threads \ {t} : pc'[u] = pc[u]
    <3>1. PICK w \in {"done", "openat", "close log"} : pc' = [pc EXCEPT ![t] = w]
      BY <2>2, Zenon DEF Goto
    <3> QED BY <3>1, ZenonT(40) DEF TypeOK, Pcs, LogPcs
  <2>4. TypeOK'
    BY <2>1, <2>3, DebugLogType, Zenon DEF TypeOK
  <2>5. Aux'
    <3>1. Control(t) /\ DOMAIN list = Threads
      BY DEF Aux
    <3>2. Control(t)'
      BY <2>1, <2>2, <2>3, <3>1, Zenon DEF Control, Var
    <3> QED BY <2>1, <2>3, <3>1, <3>2, OthersKept, Zenon
  <2> QED BY <2>4, <2>5
<1>10. CASE Openat(t)
  <2>1. PICK f \in FdOrError, e \in Errno \cup {"OK"} :
          /\ openat(file[t], oflag[t], f, e)
          /\ fd' = [fd EXCEPT ![t] = f]
          /\ SetErrno(t, e)
          /\ why' = [why EXCEPT ![t] = e]
    BY <1>10, Zenon DEF Openat
  <2>2. pc[t] = "openat" /\ Goto(t, "log open")
        /\ UNCHANGED <<env, file, oflag, log_fd, list, tokenising, torn, wrote>>
    BY <1>10, Zenon DEF Openat
  <2>3. file[t] \in OpenedNames
    <3>1. file[t] \in FileArgs
      BY <2>2, Zenon DEF Aux, Control
    <3> QED BY <3>1, FileArgOpened
  <2>4. fdt' \in Table /\ files' \subseteq Object /\ f \in I
    BY <2>1, <2>3, OpenatEffect, Zenon
  <2>5. fd' \in [Threads -> I]
    <3>1. fd \in [Threads -> I]
      BY DEF TypeOK
    <3> HIDE DEF I
    <3> QED BY <2>1, <2>4, <3>1
  <2>6. errno' \in [Threads -> Errno \cup {"OK"}] /\ why' \in [Threads -> Errno \cup {"OK"}]
    BY <2>1, ErrnoType DEF TypeOK
  <2>7. pc' \in [Threads -> Pcs] /\ pc'[t] = "log open" /\ \A u \in Threads \ {t} : pc'[u] = pc[u]
    BY <2>2, ZenonT(40) DEF Goto, TypeOK, Pcs, LogPcs
  <2>8. TypeOK'
    BY <2>2, <2>4, <2>5, <2>6, <2>7, ZenonT(40) DEF TypeOK
  <2>9. Aux'
    <3>1. Control(t) /\ DOMAIN list = Threads
      BY DEF Aux
    <3>2. Control(t)'
      BY <2>2, <2>7, <3>1, Zenon DEF Control, Var
    <3> QED BY <2>2, <2>7, <3>1, <3>2, OthersKept, Zenon
  <2> QED BY <2>8, <2>9
<1>11. CASE CloseLog(t)
  <2>1. fdt' \in Table /\ errno' \in [Threads -> Errno \cup {"OK"}]
    BY <1>11, ErrnoType, ZenonT(40) DEF CloseLog, TypeOK, Table, Errno
  <2>2. pc' \in [Threads -> Pcs] /\ pc'[t] = "done" /\ \A u \in Threads \ {t} : pc'[u] = pc[u]
    BY <1>11, Zenon DEF CloseLog, Goto, TypeOK, Pcs
  <2>3. TypeOK'
    BY <1>11, <2>1, <2>2, Zenon DEF CloseLog, TypeOK
  <2>4. Aux'
    BY <1>11, <2>2, ZenonT(40) DEF CloseLog, Aux, Control, Var
  <2> QED BY <2>3, <2>4
<1>12. CASE Cancel(t)
  <2>1. /\ pc' = [pc EXCEPT ![t] = "cancelled"] /\ t \notin tokenising /\ pc[t] # "idle"
        /\ UNCHANGED <<env, fdt, files, file, oflag, log_fd, fd, errno, list, tokenising, torn, wrote, why>>
    BY <1>12, CancelledWithin, Zenon DEF Cancel, Goto
  <2>2. pc' \in [Threads -> Pcs] /\ pc'[t] = "cancelled" /\ \A u \in Threads \ {t} : pc'[u] = pc[u]
    BY <2>1, ZenonT(60) DEF TypeOK, Pcs, LogPcs
  <2>3. TypeOK'
    BY <2>1, <2>2, Zenon DEF TypeOK
  <2>4. Control(t)' /\ DOMAIN list = Threads
    BY <2>1, <2>2, Zenon DEF Aux, Control
  <2>5. Aux'
    BY <2>1, <2>2, <2>4, OthersKept, Zenon
  <2> QED BY <2>3, <2>5
<1> QED BY <1>1, <1>2, <1>3, <1>4, <1>5, <1>6, <1>7, <1>8, <1>9, <1>10, <1>11, <1>12 DEF LibStep

-----------------------------------------------------------------------------
(* How a step of t can treat descriptor f: leave it as it is, take it when *)
(* it is free (for the log or as a result, not both), or give up one that  *)
(* t owned.                                                                *)
Leaves(t, f) ==
  /\ fdt'[f] = fdt[f]
  /\ OwnsLog(t, f)' => OwnsLog(t, f)
  /\ OwnsResult(t, f)' => OwnsResult(t, f)

Takes(t, f) ==
  fdt[f] = NULL /\ fdt'[f] # NULL /\ ~(OwnsLog(t, f)' /\ OwnsResult(t, f)')

GivesUp(t, f) ==
  (OwnsLog(t, f) \/ OwnsResult(t, f)) /\ ~OwnsLog(t, f)' /\ ~OwnsResult(t, f)'

(* Only t's own locals change in a step of t.                              *)
Alone(t) ==
  /\ env' = env
  /\ \A u \in Threads \ {t} :
       /\ pc'[u] = pc[u] /\ log_fd'[u] = log_fd[u] /\ fd'[u] = fd[u]
       /\ file'[u] = file[u] /\ oflag'[u] = oflag[u]

Treats(t) == \A f \in Fd \ Borrowed(env) : Leaves(t, f) \/ Takes(t, f) \/ GivesUp(t, f)

(* Steps that treat every descriptor so keep the owners apart, and keep    *)
(* what was inherited.                                                     *)
LEMMA TreatedWell ==
  ASSUME NEW t \in Threads, DescriptorsSeparate, InheritedKept, ~DebugFdGiven(env),
         Alone(t), Treats(t)
  PROVE  DescriptorsSeparate' /\ InheritedKept'
<1>1. ASSUME NEW f \in Fd \ Borrowed(env), NEW u \in Threads, u # t
      PROVE  /\ OwnsLog(u, f)' <=> OwnsLog(u, f)
             /\ OwnsResult(u, f)' <=> OwnsResult(u, f)
  BY <1>1, Zenon DEF Alone, OwnsLog, OwnsResult
<1>2. ASSUME NEW f \in Fd \ Borrowed(env)
      PROVE  \A u, v \in Threads :
               /\ OwnsLog(u, f)' /\ OwnsLog(v, f)' => u = v
               /\ OwnsResult(u, f)' /\ OwnsResult(v, f)' => u = v
               /\ ~(OwnsLog(u, f)' /\ OwnsResult(v, f)')
               /\ OwnsLog(u, f)' \/ OwnsResult(u, f)' => fdt'[f] # NULL /\ env.table[f] = NULL
  <2>1. \A u, v \in Threads :
          /\ OwnsLog(u, f) /\ OwnsLog(v, f) => u = v
          /\ OwnsResult(u, f) /\ OwnsResult(v, f) => u = v
          /\ ~(OwnsLog(u, f) /\ OwnsResult(v, f))
          /\ OwnsLog(u, f) \/ OwnsResult(u, f) => fdt[f] # NULL /\ env.table[f] = NULL
    BY DEF DescriptorsSeparate
  <2>2. CASE Leaves(t, f)
    BY <1>1, <2>1, <2>2 DEF Leaves
  <2>3. CASE Takes(t, f)
    <3>1. \A u \in Threads : ~OwnsLog(u, f) /\ ~OwnsResult(u, f)
      BY <2>1, <2>3 DEF Takes
    <3>2. env.table[f] = NULL
      BY <2>3 DEF Takes, InheritedKept
    <3> QED BY <1>1, <2>3, <3>1, <3>2 DEF Takes
  <2>4. CASE GivesUp(t, f)
    <3>1. \A u \in Threads : u # t => ~OwnsLog(u, f) /\ ~OwnsResult(u, f)
      BY <2>1, <2>4 DEF GivesUp
    <3> QED BY <1>1, <2>4, <3>1 DEF GivesUp
  <2> QED BY <2>2, <2>3, <2>4, Zenon DEF Treats
<1>3. DescriptorsSeparate'
  BY <1>2, Zenon DEF DescriptorsSeparate, Alone
<1>4. ASSUME NEW f \in Fd \ Borrowed(env), env.table[f] # NULL
      PROVE  fdt'[f] = env.table[f]
  <2>1. fdt[f] = env.table[f]
    BY <1>4 DEF InheritedKept
  <2>2. ~OwnsLog(t, f) /\ ~OwnsResult(t, f)
    BY <1>4 DEF DescriptorsSeparate
  <2>3. Leaves(t, f)
    BY <1>4, <2>1, <2>2 DEF Treats, Takes, GivesUp
  <2> QED BY <2>1, <2>3 DEF Leaves
<1>5. InheritedKept'
  BY <1>4 DEF InheritedKept, Alone
<1> QED BY <1>3, <1>5

LEMMA StepsAlone ==
  ASSUME TypeOK, NEW t \in Threads, Call(t) \/ AppClose(t) \/ Cancel(t) \/ LibStep(t)
  PROVE  Alone(t)
<1> USE DEF Alone, Goto, TypeOK
<1>1. CASE Call(t) \/ AppClose(t) \/ Cancel(t)
  BY <1>1 DEF Call, AppClose, Cancel
<1>2. CASE GetDebugFd(t)
  BY <1>2 DEF GetDebugFd
<1>3. CASE NotSet(t) \/ BeginList(t) \/ EndList(t)
  BY <1>3 DEF NotSet, BeginList, EndList
<1>4. CASE PreopenFile(t)
  BY <1>4, Zenon DEF PreopenFile
<1>5. CASE PreopenFromDir(t)
  BY <1>5, Zenon DEF PreopenFromDir
<1>6. CASE LogPreopen(t) \/ Openat(t) \/ LogOpen(t) \/ CloseLog(t)
  BY <1>6, Zenon DEF LogPreopen, Openat, LogOpen, CloseLog
<1> QED BY <1>1, <1>2, <1>3, <1>4, <1>5, <1>6, Zenon DEF LibStep

(* A call has no log descriptor before get_debug_fd gave it one.           *)
NoLogYet == \A t \in Threads : pc[t] \in {"idle", "debug"} => log_fd[t] = -1

LEMMA StepsNoLog ==
  ASSUME TypeOK, NoLogYet,
         NEW t \in Threads, Call(t) \/ AppClose(t) \/ Cancel(t) \/ LibStep(t)
  PROVE  NoLogYet'
<1>0. Alone(t)
  BY StepsAlone
<1> SUFFICES ASSUME pc'[t] \in {"idle", "debug"} PROVE log_fd'[t] = -1
  BY <1>0, Zenon DEF NoLogYet, Alone
<1> USE DEF Goto, TypeOK, NoLogYet
<1>1. CASE Call(t) \/ AppClose(t) \/ Cancel(t)
  BY <1>1, Zenon DEF Call, AppClose, Cancel
<1>2. CASE GetDebugFd(t) \/ BeginList(t) \/ NotSet(t)
  BY <1>2, Zenon DEF GetDebugFd, BeginList, NotSet, WithoutList
<1>3. CASE EndList(t)
  BY <1>3, Zenon DEF EndList, AfterList, Var
<1>4. CASE PreopenFile(t) \/ PreopenFromDir(t) \/ LogPreopen(t)
  BY <1>4, Zenon DEF PreopenFile, PreopenFromDir, LogPreopen
<1>5. CASE Openat(t) \/ LogOpen(t) \/ CloseLog(t)
  BY <1>5, Zenon DEF Openat, LogOpen, CloseLog
<1> QED BY <1>1, <1>2, <1>3, <1>4, <1>5, Zenon DEF LibStep

(* What openat does to the table, in terms of entries.                     *)
LEMMA OpenatEntries ==
  ASSUME TypeOK, NEW p, NEW o, NEW f \in FdOrError, NEW e,
         p = NULL \/ p \in OpenedNames,
         openat(p, o, f, e)
  PROVE  \/ f = -1 /\ f \notin Fd /\ \A g \in Fd : fdt'[g] = fdt[g]
         \/ /\ f \in Fd /\ fdt[f] = NULL /\ fdt'[f] # NULL /\ fdt'[f] = Opened(<<p, o>>)
            /\ \A g \in Fd \ {f} : fdt'[g] = fdt[g]
<1>1. fdt \in [Fd -> Entry \cup {NULL}]
  BY DEF TypeOK, Table
<1>2. CASE f = -1 /\ fdt' = fdt
  BY <1>2, ErrorNoFd, Zenon
<1>3. CASE /\ f \in Fd /\ fdt[f] = NULL
           /\ fdt' = [fdt EXCEPT ![f] = Opened(<<p, o>>)]
           /\ Opened(<<p, o>>) \in Entry
  <2>1. NULL \notin Entry
    BY Open64Assumption
  <2> QED BY <1>1, <1>3, <2>1
<1> QED BY <1>2, <1>3, OpenatEffect

LEMMA StepsTreat ==
  ASSUME TypeOK, Aux, NoLogYet, DescriptorsSeparate, ~DebugFdGiven(env),
         NEW t \in Threads, Call(t) \/ AppClose(t) \/ Cancel(t) \/ LibStep(t)
  PROVE  Treats(t)
<1> SUFFICES ASSUME NEW f \in Fd \ Borrowed(env)
             PROVE  Leaves(t, f) \/ Takes(t, f) \/ GivesUp(t, f)
  BY DEF Treats
<1> USE DEF Goto, OwnsLog, OwnsResult
<1>0. /\ fd \in [Threads -> (-IntHalf)..(IntHalf - 1)]
      /\ log_fd \in [Threads -> (-IntHalf)..(IntHalf - 1)]
      /\ pc \in [Threads -> Pcs] /\ fdt \in [Fd -> Entry \cup {NULL}] /\ f \in Fd /\ -1 \notin Fd
  BY ErrorNoFd, Zenon DEF TypeOK, Table
<1>1. /\ ~(OwnsLog(t, f) /\ OwnsResult(t, f))
      /\ OwnsLog(t, f) \/ OwnsResult(t, f) => fdt[f] # NULL
  BY DEF DescriptorsSeparate
<1>2. CASE Call(t) \/ NotSet(t) \/ BeginList(t) \/ EndList(t) \/ LogPreopen(t) \/ LogOpen(t)
  <2>1. UNCHANGED <<fdt, log_fd, fd>>
    BY <1>2, Zenon DEF Call, NotSet, BeginList, EndList, LogPreopen, LogOpen
  <2>2. pc'[t] \in LogPcs => pc[t] \in LogPcs
    <3>1. CASE Call(t)
      BY <1>0, <3>1 DEF Call, LogPcs, Var
    <3>2. CASE NotSet(t) \/ BeginList(t) \/ EndList(t)
      BY <3>2, Zenon DEF NotSet, BeginList, EndList, LogPcs
    <3>3. CASE LogPreopen(t) \/ LogOpen(t)
      BY <3>3, Zenon DEF LogPreopen, LogOpen, LogPcs
    <3> QED BY <1>2, <3>1, <3>2, <3>3, Zenon
  <2> QED BY <2>1, <2>2 DEF Leaves
<1>3. CASE AppClose(t)
  <2>1. fd'[t] = -1 /\ log_fd'[t] = -1
    BY <1>0, <1>3 DEF AppClose
  <2>2. CASE fd[t] = f
    BY <1>0, <2>1, <2>2 DEF GivesUp
  <2>3. CASE fd[t] # f
    <3>1. fdt'[f] = fdt[f]
      BY <1>0, <1>3, <2>3 DEF AppClose, IsOpen
    <3> QED BY <1>0, <2>1, <3>1, Zenon DEF Leaves
  <2> QED BY <2>2, <2>3
<1>4. CASE GetDebugFd(t)
  <2>1. fd' = fd /\ pc[t] = "debug"
    BY <1>4 DEF GetDebugFd
  <2>2. CASE env.PREOPEN_DEBUG_FILE = UNSET
    <3>1. fdt' = fdt /\ log_fd'[t] = -1
      BY <1>0, <1>4, <2>2 DEF GetDebugFd
    <3> QED BY <1>0, <2>1, <3>1 DEF Leaves
  <2>3. CASE env.PREOPEN_DEBUG_FILE # UNSET
    <3>1. PICK g \in FdOrError, e \in Errno \cup {"OK"} :
            /\ openat(env.PREOPEN_DEBUG_FILE, {"O_WRONLY", "O_CREAT"}, g, e)
            /\ log_fd' = [log_fd EXCEPT ![t] = g]
      BY <1>4, <2>3 DEF GetDebugFd
    <3>2. env.PREOPEN_DEBUG_FILE \in OpenedNames
      BY <2>3, LogNameOpened DEF TypeOK
    <3>3. \/ g = -1 /\ \A h \in Fd : fdt'[h] = fdt[h]
          \/ /\ g \in Fd /\ fdt[g] = NULL /\ fdt'[g] # NULL
             /\ \A h \in Fd \ {g} : fdt'[h] = fdt[h]
      BY <3>1, <3>2, OpenatEntries, ZenonT(40)
    <3>4. log_fd'[t] = g
      BY <1>0, <3>1
    <3>5. CASE g = f
      BY <1>0, <1>1, <2>1, <3>3, <3>5 DEF Takes
    <3>6. CASE g # f
      BY <1>0, <2>1, <3>3, <3>4, <3>6 DEF Leaves
    <3> QED BY <3>5, <3>6
  <2> QED BY <2>2, <2>3
<1>5. CASE PreopenFile(t)
  <2> DEFINE fds == list[t]["PREOPEN_FILE_FDS"]
  <2>1. PICK r \in -1..(Len(fds) - 1) :
          LET n == IF r >= 0 THEN AsInt(strtol(fds[r + 1])) ELSE -1
          IN  fd' = [fd EXCEPT ![t] = IF n > 0 THEN n ELSE -1]
    BY <1>5, Zenon DEF PreopenFile
  <2>2. pc[t] = "match file" /\ fdt' = fdt /\ log_fd' = log_fd
    BY <1>5, Zenon DEF PreopenFile
  <2>3. fds \in Seq(FdTokens(env)) /\ env.PREOPEN_FILES # UNSET /\ env.PREOPEN_FILE_FDS # UNSET
    BY <2>2, Zenon DEF Aux, Control
  <2>4. ASSUME r >= 0 PROVE AsInt(strtol(fds[r + 1])) \in Borrowed(env)
    <3>1. Len(fds) \in Nat
      BY <2>3, LenProperties
    <3>2. r + 1 \in 1..Len(fds)
      BY <2>4, <3>1
    <3>3. fds[r + 1] \in FdTokens(env)
      <4> HIDE DEF fds
      <4> QED BY <2>3, <3>2, ElementOfSeq
    <3> QED BY <2>3, <3>3 DEF Borrowed
  <2>5. fd'[t] # f
    <3> DEFINE n == IF r >= 0 THEN AsInt(strtol(fds[r + 1])) ELSE -1
    <3>1. fd'[t] = IF n > 0 THEN n ELSE -1
      BY <1>0, <2>1
    <3>2. n \in Borrowed(env) \cup {-1}
      BY <2>4
    <3> HIDE DEF n
    <3> QED BY <1>0, <3>1, <3>2
  <2> QED BY <2>2, <2>5, Zenon DEF Leaves, LogPcs
<1>6. CASE PreopenFromDir(t)
  <2> DEFINE b == "O_DIRECTORY" \in oflag[t]
             abs_path == dir_path(file[t], b, Cwd)
  <2>1. pc[t] = "from dir" /\ log_fd' = log_fd
    BY <1>6, Zenon DEF PreopenFromDir
  <2>2. \/ \E g \in FdOrError, e \in Errno \cup {"OK"} :
             /\ openat(abs_path, oflag[t], g, e)
             /\ fd' = [fd EXCEPT ![t] = IF g > 0 THEN g ELSE -1]
        \/ UNCHANGED <<fdt, fd>>
    BY <1>6, Zenon DEF PreopenFromDir
  <2>3. CASE UNCHANGED <<fdt, fd>>
    BY <2>1, <2>3, Zenon DEF Leaves, LogPcs
  <2>4. ASSUME NEW g \in FdOrError, NEW e \in Errno \cup {"OK"},
               openat(abs_path, oflag[t], g, e),
               fd' = [fd EXCEPT ![t] = IF g > 0 THEN g ELSE -1]
        PROVE  Leaves(t, f) \/ Takes(t, f)
    <3>1. abs_path = NULL \/ abs_path \in OpenedNames
      <4>1. file[t] \in FileArgs
        BY <2>1, Zenon DEF Aux, Control
      <4>2. b \in BOOLEAN
        BY Membership, Zenon
      <4> HIDE DEF b
      <4> QED BY <4>1, <4>2, DirPathOpened
    <3>2. \/ g = -1 /\ \A h \in Fd : fdt'[h] = fdt[h]
          \/ /\ g \in Fd /\ fdt[g] = NULL /\ fdt'[g] # NULL
             /\ \A h \in Fd \ {g} : fdt'[h] = fdt[h]
      <4> HIDE DEF abs_path
      <4> QED BY <2>4, <3>1, OpenatEntries, ZenonT(60)
    <3>3. fd'[t] \in {g, -1}
      BY <1>0, <2>4, Zenon
    <3>4. CASE g = f
      BY <1>0, <1>1, <2>1, <3>2, <3>4, Zenon DEF Takes, LogPcs
    <3>5. CASE g # f
      BY <1>0, <2>1, <3>2, <3>3, <3>5, Zenon DEF Leaves, LogPcs
    <3> QED BY <3>4, <3>5
  <2> HIDE DEF abs_path
  <2> QED BY <2>2, <2>3, <2>4
<1>7. CASE Openat(t)
  <2>1. PICK g \in FdOrError, e \in Errno \cup {"OK"} :
          /\ openat(file[t], oflag[t], g, e)
          /\ fd' = [fd EXCEPT ![t] = g]
    BY <1>7, Zenon DEF Openat
  <2>2. pc[t] = "openat" /\ log_fd' = log_fd
    BY <1>7, Zenon DEF Openat
  <2>3. file[t] \in OpenedNames
    <3>1. file[t] \in FileArgs
      BY <2>2, Zenon DEF Aux, Control
    <3> QED BY <3>1, FileArgOpened
  <2>4. \/ g = -1 /\ \A h \in Fd : fdt'[h] = fdt[h]
        \/ /\ g \in Fd /\ fdt[g] = NULL /\ fdt'[g] # NULL
           /\ \A h \in Fd \ {g} : fdt'[h] = fdt[h]
    BY <2>1, <2>3, OpenatEntries, ZenonT(60)
  <2>5. CASE g = f
    BY <1>0, <1>1, <2>2, <2>4, <2>5, Zenon DEF Takes, LogPcs
  <2>6. CASE g # f
    BY <1>0, <2>1, <2>2, <2>4, <2>6, Zenon DEF Leaves, LogPcs
  <2> QED BY <2>5, <2>6
<1>8. CASE CloseLog(t)
  <2>1. pc[t] = "close log" /\ pc'[t] = "done" /\ log_fd' = log_fd /\ fd' = fd
    BY <1>0, <1>8, Zenon DEF CloseLog
  <2>2. CASE log_fd[t] = f
    BY <1>1, <2>1, <2>2, Zenon DEF GivesUp, LogPcs, Var
  <2>3. CASE log_fd[t] # f
    <3>1. fdt'[f] = fdt[f]
      BY <1>0, <1>8, <2>3, Zenon DEF CloseLog, IsOpen
    <3> QED BY <2>1, <2>3, <3>1, Zenon DEF Leaves
  <2> QED BY <2>2, <2>3
<1>9. CASE Cancel(t)
  <2>1. UNCHANGED <<fdt, log_fd, fd>>
    BY <1>9, Zenon DEF Cancel
  <2>2. pc[t] \in LogPcs \/ log_fd[t] = -1
    BY <1>9, CancelledWithin, Zenon DEF LogPcs, Var, NoLogYet
  <2> QED BY <1>0, <2>1, <2>2, Zenon DEF Leaves
<1> QED BY <1>2, <1>3, <1>4, <1>5, <1>6, <1>7, <1>8, <1>9 DEF LibStep

-----------------------------------------------------------------------------
(* While a thread owns a descriptor nobody else changes what it is open    *)
(* on, and a step after which it still owns it does not either.            *)
LEMMA OwnedEntryKept ==
  ASSUME DescriptorsSeparate, ~DebugFdGiven(env), NEW t \in Threads, Alone(t), Treats(t),
         NEW u \in Threads, NEW f \in Fd \ Borrowed(env),
         \/ OwnsLog(u, f) /\ OwnsLog(u, f)'
         \/ OwnsResult(u, f) /\ OwnsResult(u, f)'
  PROVE  fdt'[f] = fdt[f]
<1>1. /\ OwnsLog(t, f) /\ OwnsLog(u, f) => t = u
      /\ OwnsResult(t, f) /\ OwnsResult(u, f) => t = u
      /\ ~(OwnsLog(t, f) /\ OwnsResult(u, f)) /\ ~(OwnsLog(u, f) /\ OwnsResult(t, f))
      /\ fdt[f] # NULL
  BY Zenon DEF DescriptorsSeparate
<1>2. ~Takes(t, f)
  BY <1>1 DEF Takes
<1>3. ~GivesUp(t, f)
  BY <1>1 DEF GivesUp
<1> QED BY <1>2, <1>3, Zenon DEF Treats, Leaves

(* A log descriptor, while a call has it, is open on the debug file.       *)
LogIsDebugFile ==
  ~DebugFdGiven(env) /\ Borrowed(env) = {} =>
    \A t \in Threads : pc[t] \in LogPcs =>
      \/ log_fd[t] = -1
      \/ /\ log_fd[t] \in Fd /\ env.PREOPEN_DEBUG_FILE # UNSET
         /\ fdt[log_fd[t]].obj = Resolve(env.PREOPEN_DEBUG_FILE)

LEMMA StepsLog ==
  ASSUME TypeOK, Aux, NoLogYet, DescriptorsSeparate, LogIsDebugFile,
         NEW t \in Threads, Call(t) \/ AppClose(t) \/ Cancel(t) \/ LibStep(t)
  PROVE  LogIsDebugFile'
<1>0. Alone(t)
  BY StepsAlone
<1> SUFFICES ASSUME ~DebugFdGiven(env), Borrowed(env) = {}, NEW u \in Threads,
                    pc'[u] \in LogPcs, log_fd'[u] # -1
             PROVE  /\ log_fd'[u] \in Fd /\ env.PREOPEN_DEBUG_FILE # UNSET
                    /\ fdt'[log_fd'[u]].obj = Resolve(env.PREOPEN_DEBUG_FILE)
  BY <1>0 DEF LogIsDebugFile, Alone
<1>1. Treats(t)
  BY StepsTreat
<1>2. CASE pc[u] \in LogPcs /\ log_fd'[u] = log_fd[u]
  <2>1. /\ log_fd[u] \in Fd \ Borrowed(env) /\ env.PREOPEN_DEBUG_FILE # UNSET
        /\ fdt[log_fd[u]].obj = Resolve(env.PREOPEN_DEBUG_FILE)
    BY <1>2, Zenon DEF LogIsDebugFile
  <2>2. OwnsLog(u, log_fd[u]) /\ pc'[u] \in LogPcs /\ log_fd'[u] = log_fd[u]
    BY <1>2 DEF OwnsLog
  <2>3. ASSUME NEW f, f = log_fd[u] PROVE fdt'[f] = fdt[f]
    <3>1. OwnsLog(u, f) /\ OwnsLog(u, f)'
      BY <2>2, <2>3 DEF OwnsLog
    <3> QED BY <1>0, <1>1, <2>1, <2>3, <3>1, OwnedEntryKept
  <2> QED BY <1>2, <2>1, <2>3, Zenon
<1>3. CASE u = t /\ GetDebugFd(t)
  <2>1. env.PREOPEN_DEBUG_FILE # UNSET
    BY <1>3 DEF GetDebugFd, TypeOK
  <2>2. PICK g \in FdOrError, e \in Errno \cup {"OK"} :
          /\ openat(env.PREOPEN_DEBUG_FILE, {"O_WRONLY", "O_CREAT"}, g, e)
          /\ log_fd' = [log_fd EXCEPT ![t] = g]
    BY <1>3, <2>1, Zenon DEF GetDebugFd
  <2>3. env.PREOPEN_DEBUG_FILE \in OpenedNames
    BY <2>1, LogNameOpened, Zenon DEF TypeOK
  <2>4. log_fd'[u] = g
    BY <1>3, <2>2 DEF TypeOK
  <2>5. g \in Fd /\ fdt'[g] = Opened(<<env.PREOPEN_DEBUG_FILE, {"O_WRONLY", "O_CREAT"}>>)
    <3> DEFINE name == env.PREOPEN_DEBUG_FILE
               how == {"O_WRONLY", "O_CREAT"}
    <3>1. name \in OpenedNames /\ openat(name, how, g, e)
      BY <2>2, <2>3
    <3> HIDE DEF name, how
    <3>2. \/ g = -1
          \/ g \in Fd /\ fdt'[g] = Opened(<<name, how>>)
      BY <3>1, OpenatEntries, ZenonT(60)
    <3>3. g # -1
      BY <2>4
    <3> QED BY <3>2, <3>3, Zenon DEF name, how
  <2> QED BY <2>1, <2>4, <2>5, OpenedObject, ZenonT(40)
<1>4. \/ pc[u] \in LogPcs /\ log_fd'[u] = log_fd[u]
      \/ u = t /\ GetDebugFd(t)
  <2>1. CASE u # t
    BY <1>0, <2>1 DEF Alone
  <2>2. CASE u = t
    <3>1. CASE Call(t) \/ AppClose(t) \/ CloseLog(t)
      BY <2>2, <3>1, Zenon DEF Call, AppClose, CloseLog, Goto, TypeOK, LogPcs, Var
    <3>2. CASE NotSet(t) \/ BeginList(t) \/ EndList(t)
      BY <2>2, <3>2, Zenon DEF NotSet, BeginList, EndList, LogPcs
    <3>3. CASE PreopenFile(t) \/ PreopenFromDir(t) \/ LogPreopen(t) \/ Openat(t) \/ LogOpen(t)
      BY <2>2, <3>3, Zenon DEF PreopenFile, PreopenFromDir, LogPreopen, Openat, LogOpen, LogPcs
    <3>4. CASE Cancel(t)
      <4>1. log_fd'[t] = log_fd[t] /\ (pc[t] \in LogPcs \/ log_fd[t] = -1)
        BY <3>4, CancelledWithin, Zenon DEF Cancel, LogPcs, Var, NoLogYet
      <4> QED BY <2>2, <4>1, Zenon
    <3> QED BY <2>2, <3>1, <3>2, <3>3, <3>4, Zenon DEF LibStep
  <2> QED BY <2>1, <2>2, Zenon
<1> QED BY <1>2, <1>3, <1>4

LEMMA StepsWrite ==
  ASSUME TypeOK, LogIsDebugFile, LogToLogFile,
         NEW t \in Threads, Call(t) \/ AppClose(t) \/ Cancel(t) \/ LibStep(t)
  PROVE  LogToLogFile'
<1>0. Alone(t)
  BY StepsAlone
<1>1. CASE UNCHANGED wrote
  BY <1>0, <1>1, Zenon DEF LogToLogFile, Alone
<1>2. CASE LogPreopen(t) \/ LogOpen(t)
  <2> SUFFICES ASSUME ~DebugFdGiven(env), Borrowed(env) = {}, NEW o \in wrote'
               PROVE  env.PREOPEN_DEBUG_FILE # UNSET /\ o = Resolve(env.PREOPEN_DEBUG_FILE)
    BY <1>0 DEF LogToLogFile, Alone
  <2>1. pc[t] \in LogPcs /\ debug_log(t)
    BY <1>2, Zenon DEF LogPreopen, LogOpen, LogPcs
  <2>2. \/ wrote' = wrote
        \/ wrote' = wrote \cup {fdt[log_fd[t]].obj} /\ log_fd[t] # -1
    <3>1. -1 <= 0
      OBVIOUS
    <3> QED BY <2>1, <3>1 DEF debug_log
  <2>3. CASE o \in wrote
    BY <2>3 DEF LogToLogFile
  <2>4. CASE o \notin wrote
    <3>1. o = fdt[log_fd[t]].obj /\ log_fd[t] # -1
      BY <2>2, <2>4
    <3> QED BY <2>1, <3>1 DEF LogIsDebugFile
  <2> QED BY <2>3, <2>4
<1>3. UNCHANGED wrote \/ LogPreopen(t) \/ LogOpen(t)
  BY Zenon DEF LibStep, Call, AppClose, Cancel, GetDebugFd, NotSet, BeginList, EndList, PreopenFile,
         PreopenFromDir, Openat, CloseLog
<1> QED BY <1>1, <1>2, <1>3

-----------------------------------------------------------------------------
(* Without PREOPEN variables a call makes no list, and has no result until *)
(* its openat.                                                             *)
PlainControl ==
  Plain(env) =>
    \A t \in Threads :
      /\ pc[t] \notin {"PREOPEN_FILE_FDS", "match file", "PREOPEN_PATH_FDS", "from dir"}
      /\ pc[t] \notin {"log open", "close log", "done", "cancelled"} => fd[t] = -1

(* The steps a call takes without PREOPEN variables.                       *)
LEMMA PlainSteps ==
  ASSUME TypeOK, Aux, PlainControl, Plain(env),
         NEW t \in Threads, Call(t) \/ AppClose(t) \/ Cancel(t) \/ LibStep(t)
  PROVE  \/ Call(t) \/ AppClose(t) \/ Cancel(t) \/ GetDebugFd(t) \/ NotSet(t)
         \/ LogPreopen(t) \/ Openat(t) \/ LogOpen(t) \/ CloseLog(t)
<1>1. pc[t] \notin {"PREOPEN_FILE_FDS", "match file", "PREOPEN_PATH_FDS", "from dir"}
  BY Zenon DEF PlainControl
<1>2. pc[t] \in Var => env[pc[t]] = UNSET
  BY <1>1, Zenon DEF Var, Plain
<1>3. ~BeginList(t)
  BY <1>2 DEF BeginList
<1>4. ~EndList(t)
  BY <1>2, Zenon DEF EndList, Aux, Control
<1>5. ~PreopenFile(t) /\ ~PreopenFromDir(t)
  BY <1>1, Zenon DEF PreopenFile, PreopenFromDir
<1> QED BY <1>3, <1>4, <1>5 DEF LibStep

LEMMA StepsPlain ==
  ASSUME TypeOK, Aux, PlainControl,
         NEW t \in Threads, Call(t) \/ AppClose(t) \/ Cancel(t) \/ LibStep(t)
  PROVE  PlainControl'
<1>0. Alone(t)
  BY StepsAlone
<1> SUFFICES ASSUME Plain(env)
             PROVE  /\ pc'[t] \notin {"PREOPEN_FILE_FDS", "match file", "PREOPEN_PATH_FDS", "from dir"}
                    /\ pc'[t] \notin {"log open", "close log", "done", "cancelled"} => fd'[t] = -1
  BY <1>0, Zenon DEF PlainControl, Alone
<1> USE DEF Goto, TypeOK, PlainControl
<1>1. CASE Call(t) \/ AppClose(t) \/ Cancel(t)
  BY <1>1, Zenon DEF Call, AppClose, Cancel
<1>2. CASE GetDebugFd(t)
  BY <1>2, Zenon DEF GetDebugFd
<1>3. CASE NotSet(t)
  BY <1>3, Zenon DEF NotSet, WithoutList, Var
<1>4. CASE LogPreopen(t)
  <2>1. fd'[t] = -1 /\ fd[t] = -1
    BY <1>4, Zenon DEF LogPreopen
  <2>2. ~(fd[t] > 0)
    <3> HIDE DEF TypeOK, PlainControl
    <3> QED BY <2>1
  <2>3. pc'[t] = "openat"
    BY <1>4, <2>2, Zenon DEF LogPreopen
  <2> QED BY <2>1, <2>3, Zenon
<1>5. CASE Openat(t)
  BY <1>5, Zenon DEF Openat
<1>6. CASE LogOpen(t) \/ CloseLog(t)
  BY <1>6, Zenon DEF LogOpen, CloseLog
<1> QED BY <1>1, <1>2, <1>3, <1>4, <1>5, <1>6, PlainSteps, Zenon

LEMMA PlainConditions ==
  ASSUME Plain(env)
  PROVE  ~DebugFdGiven(env) /\ Borrowed(env) = {}
BY DEF Plain, Borrowed

(* RightFile with -1 for the results it says nothing of.                   *)
RightResult ==
  Plain(env) =>
    \A t \in Threads : pc[t] \in {"log open", "close log", "done"} =>
      fd[t] = -1 \/ (fd[t] \in Fd /\ fdt[fd[t]] = Opened(<<file[t], oflag[t]>>))

LEMMA MinusOne == ~(-1 >= 0) /\ ~(-1 > 0)
OBVIOUS

LEMMA RightResultImplies == RightResult => RightFile
BY MinusOne, Zenon DEF RightResult, RightFile

LEMMA StepsRight ==
  ASSUME TypeOK, Aux, NoLogYet, DescriptorsSeparate, PlainControl, RightResult,
         NEW t \in Threads, Call(t) \/ AppClose(t) \/ Cancel(t) \/ LibStep(t)
  PROVE  RightResult'
<1>0. Alone(t)
  BY StepsAlone
<1> SUFFICES ASSUME Plain(env), NEW u \in Threads,
                    pc'[u] \in {"log open", "close log", "done"}, fd'[u] # -1
             PROVE  fd'[u] \in Fd /\ fdt'[fd'[u]] = Opened(<<file'[u], oflag'[u]>>)
  BY <1>0, Zenon DEF RightResult, Alone
<1>1. Treats(t) /\ Borrowed(env) = {} /\ ~DebugFdGiven(env)
  BY StepsTreat, PlainConditions, Zenon
<1>2. CASE /\ pc[u] \in {"log open", "close log", "done"}
           /\ fd'[u] = fd[u] /\ file'[u] = file[u] /\ oflag'[u] = oflag[u]
  <2>1. fd[u] \in Fd \ Borrowed(env) /\ fdt[fd[u]] = Opened(<<file[u], oflag[u]>>)
    BY <1>1, <1>2, Zenon DEF RightResult
  <2>2. ASSUME NEW f, f = fd[u] PROVE fdt'[f] = fdt[f]
    <3>1. OwnsResult(u, f) /\ OwnsResult(u, f)'
      BY <1>2, <2>2, Zenon DEF OwnsResult
    <3> QED BY <1>0, <1>1, <2>1, <2>2, <3>1, OwnedEntryKept, Zenon
  <2> QED BY <1>2, <2>1, <2>2, Zenon
<1>3. CASE u = t /\ Openat(t)
  <2>1. PICK g \in FdOrError, e \in Errno \cup {"OK"} :
          /\ openat(file[t], oflag[t], g, e)
          /\ fd' = [fd EXCEPT ![t] = g]
    BY <1>3, Zenon DEF Openat
  <2>2. pc[t] = "openat" /\ file' = file /\ oflag' = oflag
    BY <1>3, Zenon DEF Openat
  <2>3. file[t] \in OpenedNames
    <3>1. file[t] \in FileArgs
      BY <2>2, Zenon DEF Aux, Control
    <3> QED BY <3>1, FileArgOpened, Zenon
  <2>4. fd'[u] = g
    BY <1>3, <2>1, Zenon DEF TypeOK
  <2>5. g # -1
    BY <2>4, Zenon
  <2>6. g \in Fd /\ fdt'[g] = Opened(<<file[t], oflag[t]>>)
    <3>1. \/ g = -1
          \/ g \in Fd /\ fdt'[g] = Opened(<<file[t], oflag[t]>>)
      <4>1. ASSUME NEW p \in OpenedNames, NEW o, openat(p, o, g, e)
            PROVE  g = -1 \/ (g \in Fd /\ fdt'[g] = Opened(<<p, o>>))
        BY <4>1, OpenatEntries, Zenon
      <4> QED BY <2>1, <2>3, <4>1, Zenon
    <3> QED BY <2>5, <3>1, Zenon
  <2> QED BY <1>3, <2>2, <2>4, <2>6, Zenon
<1>4. \/ /\ pc[u] \in {"log open", "close log", "done"}
         /\ fd'[u] = fd[u] /\ file'[u] = file[u] /\ oflag'[u] = oflag[u]
      \/ u = t /\ Openat(t)
  <2>1. CASE u # t
    BY <1>0, <2>1, Zenon DEF Alone
  <2>2. CASE u = t
    <3>1. CASE Call(t) \/ AppClose(t) \/ Cancel(t) \/ GetDebugFd(t)
      BY <2>2, <3>1, Zenon DEF Call, AppClose, Cancel, GetDebugFd, Goto, TypeOK
    <3>2. CASE NotSet(t)
      BY <2>2, <3>2, Zenon DEF NotSet, WithoutList, Goto, TypeOK
    <3>3. CASE LogPreopen(t)
      <4>1. fd[t] = -1
        BY <3>3, Zenon DEF LogPreopen, PlainControl
      <4>2. ~(fd[t] > 0)
        BY <4>1, MinusOne, Zenon
      <4>3. pc'[t] = "openat"
        BY <3>3, <4>2, Zenon DEF LogPreopen, Goto, TypeOK
      <4> QED BY <2>2, <4>3, Zenon
    <3>4. CASE LogOpen(t) \/ CloseLog(t)
      BY <2>2, <3>4, Zenon DEF LogOpen, CloseLog
    <3> QED BY <2>2, <3>1, <3>2, <3>3, <3>4, PlainSteps, Zenon
  <2> QED BY <2>1, <2>2, Zenon
<1> QED BY <1>2, <1>3, <1>4, Zenon

LEMMA StepsKeepTrack ==
  ASSUME TypeOK, Aux, PlainControl, NoLeak,
         NEW t \in Threads, Call(t) \/ AppClose(t) \/ Cancel(t) \/ LibStep(t)
  PROVE  NoLeak'
<1>0. Alone(t)
  BY StepsAlone
<1> SUFFICES ASSUME Plain(env), NEW f \in Fd, fdt'[f] # NULL, env.table[f] = NULL
             PROVE  \E u \in Threads : OwnsLog(u, f)' \/ OwnsResult(u, f)'
  BY <1>0 DEF NoLeak, Alone
<1>1. /\ fdt \in [Fd -> Entry \cup {NULL}] /\ -1 \notin Fd
      /\ pc \in [Threads -> Pcs] /\ fd \in [Threads -> (-IntHalf)..(IntHalf - 1)]
      /\ log_fd \in [Threads -> (-IntHalf)..(IntHalf - 1)]
  BY ErrorNoFd, Zenon DEF TypeOK, Table
<1>2. CASE GetDebugFd(t) /\ fdt[f] = NULL
  <2>1. env.PREOPEN_DEBUG_FILE # UNSET
    BY <1>2, PlainConditions, Zenon DEF GetDebugFd
  <2>2. PICK g \in FdOrError, e \in Errno \cup {"OK"} :
          /\ openat(env.PREOPEN_DEBUG_FILE, {"O_WRONLY", "O_CREAT"}, g, e)
          /\ log_fd' = [log_fd EXCEPT ![t] = g]
    BY <1>2, <2>1, PlainConditions, Zenon DEF GetDebugFd
  <2>3. env.PREOPEN_DEBUG_FILE \in OpenedNames
    BY <2>1, LogNameOpened, Zenon DEF TypeOK
  <2>4. g = f
    <3>1. \A h \in Fd \ {g} : fdt'[h] = fdt[h]
      BY <2>2, <2>3, OpenatEntries, ZenonT(40)
    <3> QED BY <1>2, <3>1, Zenon
  <2>5. log_fd'[t] = f /\ pc'[t] \in LogPcs
    BY <1>1, <1>2, <2>2, <2>4 DEF GetDebugFd, Goto, LogPcs, Var
  <2> QED BY <2>5 DEF OwnsLog
<1>3. CASE Openat(t) /\ fdt[f] = NULL
  <2>1. PICK g \in FdOrError, e \in Errno \cup {"OK"} :
          /\ openat(file[t], oflag[t], g, e)
          /\ fd' = [fd EXCEPT ![t] = g]
    BY <1>3, Zenon DEF Openat
  <2>2. pc[t] = "openat"
    BY <1>3, Zenon DEF Openat
  <2>3. file[t] \in OpenedNames
    <3>1. file[t] \in FileArgs
      BY <2>2, Zenon DEF Aux, Control
    <3> QED BY <3>1, FileArgOpened
  <2>4. g = f
    <3>1. \/ \A h \in Fd : fdt'[h] = fdt[h]
          \/ g \in Fd /\ \A h \in Fd \ {g} : fdt'[h] = fdt[h]
      BY <2>1, <2>3, OpenatEntries, ZenonT(60)
    <3> QED BY <1>3, <3>1, Zenon
  <2>5. fd'[t] = f
    BY <1>1, <2>1, <2>4
  <2> QED BY <2>5 DEF OwnsResult
<1>4. CASE fdt[f] = NULL /\ ~GetDebugFd(t) /\ ~Openat(t)
  <2>1. fdt' = fdt \/ (\E g \in Fd : fdt' = [fdt EXCEPT ![g] = NULL])
    BY <1>4, PlainSteps, Zenon DEF Call, AppClose, Cancel, NotSet, LogPreopen, LogOpen, CloseLog, IsOpen
  <2> QED BY <1>1, <1>4, <2>1
<1>5. CASE fdt[f] # NULL
  <2>1. PICK u \in Threads : OwnsLog(u, f) \/ OwnsResult(u, f)
    BY <1>5 DEF NoLeak
  <2>2. CASE u # t
    BY <1>0, <2>1, <2>2 DEF Alone, OwnsLog, OwnsResult
  <2>3. CASE u = t
    <3> USE <2>1, <2>3 DEF OwnsLog, OwnsResult, Goto
    <3>1. CASE Call(t) \/ GetDebugFd(t)
      <4>1. fd'[t] = fd[t] /\ pc[t] \notin LogPcs
        BY <3>1, Zenon DEF Call, GetDebugFd, LogPcs, Var
      <4> QED BY <4>1, Zenon
    <3>2. CASE AppClose(t)
      <4>1. fd[t] = f
        BY <3>2, Zenon DEF AppClose, LogPcs, Var
      <4> QED BY <1>1, <1>5, <3>2, <4>1, Zenon DEF AppClose, IsOpen
    <3>3. CASE NotSet(t) \/ LogOpen(t)
      <4>1. fd'[t] = fd[t] /\ log_fd'[t] = log_fd[t] /\ pc'[t] \in LogPcs
        BY <1>1, <3>3, Zenon DEF NotSet, LogOpen, WithoutList, LogPcs, Var
      <4> QED BY <4>1, Zenon
    <3>4. CASE LogPreopen(t)
      <4>1. fd[t] = -1
        BY <3>4, Zenon DEF LogPreopen, PlainControl
      <4>2. ~(fd[t] > 0)
        BY <4>1, MinusOne, Zenon
      <4>3. pc'[t] = "openat" /\ log_fd' = log_fd
        BY <1>1, <3>4, <4>2, Zenon DEF LogPreopen
      <4> QED BY <1>1, <4>1, <4>3, Zenon DEF LogPcs
    <3>5. CASE Openat(t)
      <4>1. fd[t] = -1
        BY <3>5, Zenon DEF Openat, PlainControl
      <4>2. pc'[t] = "log open" /\ log_fd' = log_fd
        BY <1>1, <3>5, Zenon DEF Openat
      <4> QED BY <1>1, <4>1, <4>2, Zenon DEF LogPcs
    <3>6. CASE CloseLog(t)
      <4>1. log_fd[t] # f
        BY <1>1, <1>5, <3>6, Zenon DEF CloseLog, IsOpen
      <4> QED BY <3>6, <4>1, Zenon DEF CloseLog
    <3>7. CASE Cancel(t)
      <4>1. fd'[t] = fd[t] /\ log_fd'[t] = log_fd[t] /\ pc'[t] \in LogPcs
        BY <1>1, <3>7, Zenon DEF Cancel, LogPcs
      <4> QED BY <4>1, Zenon
    <3> QED BY <3>1, <3>2, <3>3, <3>4, <3>5, <3>6, <3>7, PlainSteps, Zenon
  <2> QED BY <2>2, <2>3, Zenon
<1> QED BY <1>2, <1>3, <1>4, <1>5, Zenon

-----------------------------------------------------------------------------
IInv ==
  /\ TypeOK /\ Aux /\ NoLogYet
  /\ DescriptorsSeparate /\ InheritedKept
  /\ LogIsDebugFile /\ LogToLogFile
  /\ PlainControl /\ RightResult /\ NoLeak

LEMMA InitIInv == Init => IInv
<1> SUFFICES ASSUME Init PROVE IInv
  OBVIOUS
<1>1. TypeOK /\ Aux
  BY InitTypes
<1>2. /\ \A t \in Threads : pc[t] = "idle" /\ fd[t] = -1 /\ log_fd[t] = -1
      /\ fdt = env.table /\ wrote = {} /\ -1 \notin Fd
  BY ErrorNoFd DEF Init
<1>3. \A t \in Threads : pc[t] \notin LogPcs
  BY <1>2, Zenon DEF LogPcs, Var
<1>4. DescriptorsSeparate /\ InheritedKept
  BY <1>2, <1>3 DEF DescriptorsSeparate, InheritedKept, OwnsLog, OwnsResult
<1>5. LogIsDebugFile /\ LogToLogFile
  BY <1>2, <1>3 DEF LogIsDebugFile, LogToLogFile
<1>6. PlainControl /\ RightResult /\ NoLeak
  BY <1>2, Zenon DEF PlainControl, RightResult, NoLeak
<1>7. NoLogYet
  BY <1>2 DEF NoLogYet
<1> QED BY <1>1, <1>4, <1>5, <1>6, <1>7 DEF IInv

LEMMA NextIInv == IInv /\ [Next]_vars => IInv'
<1> SUFFICES ASSUME IInv, [Next]_vars PROVE IInv'
  OBVIOUS
<1>1. ASSUME NEW t \in Threads, Call(t) \/ AppClose(t) \/ Cancel(t) \/ LibStep(t)
      PROVE  IInv'
  <2>1. TypeOK' /\ Aux' /\ NoLogYet'
    BY <1>1, NextTypes, StepsNoLog DEF IInv
  <2>2. Alone(t)
    BY <1>1, StepsAlone DEF IInv
  <2>3. DescriptorsSeparate' /\ InheritedKept'
    <3>1. CASE DebugFdGiven(env)
      BY <2>2, <3>1 DEF Alone, DescriptorsSeparate, InheritedKept
    <3>2. CASE ~DebugFdGiven(env)
      <4>1. Treats(t)
        BY <1>1, <3>2, StepsTreat DEF IInv
      <4> QED BY <2>2, <3>2, <4>1, TreatedWell DEF IInv
    <3> QED BY <3>1, <3>2
  <2>4. LogIsDebugFile' /\ LogToLogFile'
    BY <1>1, StepsLog, StepsWrite DEF IInv
  <2>5. PlainControl' /\ RightResult' /\ NoLeak'
    BY <1>1, StepsPlain, StepsRight, StepsKeepTrack DEF IInv
  <2> QED BY <2>1, <2>3, <2>4, <2>5 DEF IInv
<1>2. CASE UNCHANGED vars
  <2> USE <1>2 DEF vars
  <2>1. TypeOK' /\ Aux' /\ NoLogYet'
    BY Zenon DEF IInv, TypeOK, Aux, Control, NoLogYet
  <2>2. DescriptorsSeparate' /\ InheritedKept'
    <3>1. env' = env /\ fdt' = fdt /\ pc' = pc /\ log_fd' = log_fd /\ fd' = fd
      BY Zenon
    <3>2. DescriptorsSeparate /\ InheritedKept
      BY Zenon DEF IInv
    <3>3. DescriptorsSeparate'
      <4>1. \A t, f : (OwnsLog(t, f)' <=> OwnsLog(t, f)) /\ (OwnsResult(t, f)' <=> OwnsResult(t, f))
        BY <3>1, Zenon DEF OwnsLog, OwnsResult
      <4> QED BY <3>1, <3>2, <4>1, ZenonT(60) DEF DescriptorsSeparate
    <3>4. InheritedKept'
      BY <3>1, <3>2, ZenonT(60) DEF InheritedKept
    <3> QED BY <3>3, <3>4, Zenon
  <2>3. LogIsDebugFile' /\ LogToLogFile'
    BY Zenon DEF IInv, LogIsDebugFile, LogToLogFile
  <2>4. PlainControl' /\ RightResult'
    BY Zenon DEF IInv, PlainControl, RightResult
  <2>5. NoLeak'
    BY Zenon DEF IInv, NoLeak, OwnsLog, OwnsResult
  <2> QED BY <2>1, <2>2, <2>3, <2>4, <2>5 DEF IInv
<1> QED BY <1>1, <1>2 DEF Next, LibStep

(* The inductive invariant: types and control, the owners of descriptors,  *)
(* and what the descriptors they own are open on.                          *)
THEOREM Invariance == Spec => []IInv
BY InitIInv, NextIInv, PTL DEF Spec

(* Descriptors, errnos and control stay in range, whatever the environment *)
(* says: a number too large for an int is cut off, never out of range.     *)
THEOREM Types == Spec => []TypeOK
<1>1. IInv => TypeOK
  BY DEF IInv
<1> QED BY Invariance, <1>1, PTL

(* Any number of threads in open: no two rely on the same descriptor.      *)
THEOREM Separation == Spec => []DescriptorsSeparate
<1>1. IInv => DescriptorsSeparate
  BY DEF IInv
<1> QED BY Invariance, <1>1, PTL

(* open never closes or replaces a descriptor the process inherited.       *)
THEOREM Inheritance == Spec => []InheritedKept
<1>1. IInv => InheritedKept
  BY DEF IInv
<1> QED BY Invariance, <1>1, PTL

(* Debug output reaches only the debug file.                               *)
THEOREM LogSafety == Spec => []LogToLogFile
<1>1. IInv => LogToLogFile
  BY DEF IInv
<1> QED BY Invariance, <1>1, PTL

(* Without PREOPEN variables a result of open stays on the named file.     *)
THEOREM ResultSafety == Spec => []RightFile
<1>1. IInv => RightFile
  BY RightResultImplies DEF IInv
<1> QED BY Invariance, <1>1, PTL

(* Without PREOPEN variables no call of open loses a descriptor.           *)
THEOREM LeakFreedom == Spec => []NoLeak
<1>1. IInv => NoLeak
  BY DEF IInv
<1> QED BY Invariance, <1>1, PTL

-----------------------------------------------------------------------------
(* Without PREOPEN variables the threads of Open64 implement PosixOpen.    *)

(* The abstract table keeps still in a step of t that touches no entry, or *)
(* only entries t's log hides.                                             *)
LEMMA VisibleKept ==
  ASSUME NEW t \in Threads, Alone(t),
         \A f \in Fd : \/ fdt'[f] = fdt[f] /\ (OwnsLog(t, f)' <=> OwnsLog(t, f))
                       \/ fdt[f] = NULL /\ OwnsLog(t, f)'
                       \/ OwnsLog(t, f) /\ fdt'[f] = NULL
  PROVE  VisibleTable' = VisibleTable
<1>1. ASSUME NEW f \in Fd, NEW u \in Threads, u # t
      PROVE  OwnsLog(u, f)' <=> OwnsLog(u, f)
  BY <1>1, Zenon DEF Alone, OwnsLog
<1>2. ASSUME NEW f \in Fd
      PROVE  (IF \E u \in Threads : OwnsLog(u, f) THEN NULL ELSE fdt[f])'
               = IF \E u \in Threads : OwnsLog(u, f) THEN NULL ELSE fdt[f]
  <2>1. CASE fdt'[f] = fdt[f] /\ (OwnsLog(t, f)' <=> OwnsLog(t, f))
    BY <1>1, <2>1, Zenon
  <2>2. CASE fdt[f] = NULL /\ OwnsLog(t, f)'
    BY <2>2, Zenon
  <2>3. CASE OwnsLog(t, f) /\ fdt'[f] = NULL
    BY <2>3, Zenon
  <2> QED BY <2>1, <2>2, <2>3, Zenon
<1> QED BY <1>2, Zenon DEF VisibleTable

(* Where the control of a plain call is, in the abstract specification.    *)
PhaseOf(t) ==
  /\ pc[t] = "idle" => Phase(t) = "idle"
  /\ pc[t] \in {"debug", "log preopen", "openat"} \cup Var => Phase(t) = "called"
  /\ pc[t] \in {"log open", "close log"} => Phase(t) = "answered"
  /\ pc[t] = "cancelled" /\ fd[t] = -1 => Phase(t) = "called"
  /\ pc[t] = "cancelled" /\ fd[t] >= 0 => Phase(t) = "answered"
  /\ pc[t] = "done" => Phase(t) = "returned"

PlainCall == IInv /\ Plain(env)
AllPhases == \A t \in Threads : PhaseOf(t)

LEMMA PlainPhase == PlainCall => AllPhases
<1> SUFFICES ASSUME IInv, Plain(env), NEW t \in Threads PROVE PhaseOf(t)
  BY DEF PlainCall, AllPhases
<1>1. /\ pc[t] \in {"debug", "log preopen", "openat"} \cup Var => fd[t] = -1
      /\ fd[t] = -1 => ~(fd[t] > 0) /\ ~(fd[t] >= 0)
  BY MinusOne, Zenon DEF IInv, PlainControl, Var
<1>2. /\ pc[t] = "idle" => Phase(t) = "idle"
      /\ pc[t] = "done" => Phase(t) = "returned"
      /\ pc[t] \in {"log open", "close log"} => Phase(t) = "answered"
  BY Zenon DEF Phase
<1>3. pc[t] \in {"debug", "log preopen", "openat"} \cup Var => Phase(t) = "called"
  BY <1>1, Zenon DEF Phase, Var
<1>4. /\ pc[t] = "cancelled" /\ fd[t] = -1 => Phase(t) = "called"
      /\ pc[t] = "cancelled" /\ fd[t] >= 0 => Phase(t) = "answered"
  BY <1>1, Zenon DEF Phase
<1> QED BY <1>2, <1>3, <1>4, Zenon DEF PhaseOf

LEMMA PlainPhasePrimed == PlainCall' => AllPhases'
BY PlainPhase, PTL

-----------------------------------------------------------------------------
(* What a step of t changes of the abstract phases and requests.           *)
Req(t) == IF pc[t] = "idle" THEN NULL ELSE <<file[t], oflag[t]>>

LEMMA OthersStay ==
  ASSUME NEW t \in Threads, Alone(t)
  PROVE  /\ Phases' = [Phases EXCEPT ![t] = Phase(t)']
         /\ Requests' = [Requests EXCEPT ![t] = Req(t)']
         /\ Phases[t] = Phase(t) /\ Requests[t] = Req(t)
<1>1. ASSUME NEW u \in Threads, u # t
      PROVE  Phase(u)' = Phase(u) /\ Req(u)' = Req(u)
  <2>1. pc'[u] = pc[u] /\ fd'[u] = fd[u] /\ file'[u] = file[u] /\ oflag'[u] = oflag[u]
    BY <1>1, Zenon DEF Alone
  <2> QED BY <2>1, Zenon DEF Phase, Req
<1>2. Phases = [u \in Threads |-> Phase(u)] /\ Requests = [u \in Threads |-> Req(u)]
  BY Zenon DEF Phases, Requests, Req
<1>3. Phases' = [u \in Threads |-> Phase(u)'] /\ Requests' = [u \in Threads |-> Req(u)']
  BY Zenon DEF Phases, Requests, Req
<1> QED BY <1>1, <1>2, <1>3, Zenon

LEMMA Stutters ==
  ASSUME NEW t \in Threads, Alone(t), VisibleTable' = VisibleTable, fd' = fd,
         Phase(t)' = Phase(t), Req(t)' = Req(t)
  PROVE  UNCHANGED Posix!absvars
<1>1. Phases' = Phases
  BY OthersStay, Zenon DEF Phases
<1>2. Requests' = Requests
  BY OthersStay, Zenon DEF Requests
<1> QED BY <1>1, <1>2, Zenon DEF Posix!absvars

(* What is known before and after every step of a plain call.              *)
LEMMA PlainFacts ==
  ASSUME IInv, IInv', Plain(env), Plain(env)', NEW t \in Threads
  PROVE  /\ PhaseOf(t) /\ PhaseOf(t)'
         /\ ~DebugFdGiven(env) /\ Fd \ Borrowed(env) = Fd
         /\ \A f \in Fd : OwnsLog(t, f) \/ OwnsResult(t, f) => fdt[f] # NULL
         /\ \A f \in Fd, u, v \in Threads : ~(OwnsLog(u, f)' /\ OwnsResult(v, f)')
         /\ pc \in [Threads -> Pcs] /\ -1 \notin Fd
<1>1. PhaseOf(t) /\ PhaseOf(t)'
  BY PlainPhase, PlainPhasePrimed, Zenon DEF PlainCall, AllPhases
<1>2. /\ ~DebugFdGiven(env) /\ Borrowed(env) = {}
      /\ ~DebugFdGiven(env)' /\ Borrowed(env)' = {}
  BY Zenon DEF Plain, Borrowed
<1>3. Fd \ Borrowed(env) = Fd /\ Fd \ Borrowed(env') = Fd
  BY <1>2, Zenon
<1>4. \A f \in Fd : OwnsLog(t, f) \/ OwnsResult(t, f) => fdt[f] # NULL
  BY <1>2, <1>3, Zenon DEF IInv, DescriptorsSeparate
<1>5. \A f \in Fd, u, v \in Threads : ~(OwnsLog(u, f)' /\ OwnsResult(v, f)')
  BY <1>2, <1>3, Zenon DEF IInv, DescriptorsSeparate
<1>6. pc \in [Threads -> Pcs] /\ -1 \notin Fd
  BY ErrorNoFd, Zenon DEF IInv, TypeOK
<1> QED BY <1>1, <1>2, <1>3, <1>4, <1>5, <1>6

(* The steps that only the library sees.                                   *)
LEMMA HiddenSteps ==
  ASSUME IInv, IInv', Plain(env), Plain(env)', NEW t \in Threads,
         GetDebugFd(t) \/ NotSet(t) \/ LogPreopen(t) \/ LogOpen(t) \/ Cancel(t)
  PROVE  UNCHANGED Posix!absvars
<1>0. /\ Alone(t) /\ fd' = fd
      /\ file'[t] = file[t] /\ oflag'[t] = oflag[t] /\ TypeOK /\ Aux
  <2>1. Call(t) \/ AppClose(t) \/ Cancel(t) \/ LibStep(t)
    BY Zenon DEF LibStep
  <2>2. TypeOK /\ Aux
    BY DEF IInv
  <2>3. Alone(t)
    BY <2>1, <2>2, StepsAlone
  <2>4. fd' = fd /\ file' = file /\ oflag' = oflag
    BY Zenon DEF GetDebugFd, NotSet, LogPreopen, LogOpen, Cancel
  <2> QED BY <2>2, <2>3, <2>4
<1>1. CASE GetDebugFd(t)
  <2>1. pc[t] = "debug" /\ pc'[t] = "PREOPEN_FILES"
    BY <1>1, PlainFacts, Zenon DEF GetDebugFd, Goto
  <2>2. Phase(t)' = Phase(t) /\ Req(t)' = Req(t)
    BY <1>0, <2>1, PlainFacts, Zenon DEF PhaseOf, Req, Var
  <2>3. \A f \in Fd : ~OwnsLog(t, f)
    BY <2>1, Zenon DEF OwnsLog, LogPcs, Var
  <2>4. VisibleTable' = VisibleTable
    <3>1. CASE env.PREOPEN_DEBUG_FILE = UNSET
      <4>1. fdt' = fdt /\ log_fd'[t] = -1
        BY <1>0, <1>1, <3>1, PlainFacts, Zenon DEF GetDebugFd, TypeOK
      <4>2. \A f \in Fd : ~OwnsLog(t, f)'
        BY <4>1, PlainFacts, Zenon DEF OwnsLog
      <4> QED BY <1>0, <2>3, <4>1, <4>2, VisibleKept, Zenon
    <3>2. CASE env.PREOPEN_DEBUG_FILE # UNSET
      <4>1. PICK g \in FdOrError, e \in Errno \cup {"OK"} :
              /\ openat(env.PREOPEN_DEBUG_FILE, {"O_WRONLY", "O_CREAT"}, g, e)
              /\ log_fd' = [log_fd EXCEPT ![t] = g]
        BY <1>1, <3>2, PlainFacts, Zenon DEF GetDebugFd
      <4>2. env.PREOPEN_DEBUG_FILE \in OpenedNames
        BY <1>0, <3>2, LogNameOpened, Zenon DEF TypeOK
      <4>3. \/ g = -1 /\ \A h \in Fd : fdt'[h] = fdt[h]
            \/ /\ g \in Fd /\ fdt[g] = NULL
               /\ \A h \in Fd \ {g} : fdt'[h] = fdt[h]
        BY <1>0, <4>1, <4>2, OpenatEntries, ZenonT(40)
      <4>4. log_fd'[t] = g /\ pc'[t] \in LogPcs
        BY <1>0, <2>1, <4>1, Zenon DEF TypeOK, LogPcs, Var
      <4>5. ASSUME NEW f \in Fd
            PROVE  \/ fdt'[f] = fdt[f] /\ (OwnsLog(t, f)' <=> OwnsLog(t, f))
                   \/ fdt[f] = NULL /\ OwnsLog(t, f)'
        <5>1. CASE g = f
          BY <4>3, <4>4, <5>1, PlainFacts, Zenon DEF OwnsLog
        <5>2. CASE g # f
          BY <2>3, <4>3, <4>4, <5>2, Zenon DEF OwnsLog
        <5> QED BY <5>1, <5>2, Zenon
      <4> QED BY <1>0, <4>5, VisibleKept, Zenon
    <3> QED BY <3>1, <3>2, Zenon
  <2> QED BY <1>0, <2>2, <2>4, Stutters, Zenon
<1>2. CASE NotSet(t) \/ LogPreopen(t) \/ LogOpen(t)
  <2>1. fdt' = fdt /\ log_fd' = log_fd
    BY <1>2, Zenon DEF NotSet, LogPreopen, LogOpen
  <2>2. \/ /\ pc[t] \in Var \cup {"log preopen"}
           /\ pc'[t] \in {"PREOPEN_PATHS", "log preopen", "openat"}
        \/ pc[t] = "log open" /\ pc'[t] = "close log"
    <3>1. CASE NotSet(t)
      BY <3>1, PlainFacts, Zenon DEF NotSet, WithoutList, Goto
    <3>2. CASE LogPreopen(t)
      <4>1. fd[t] = -1
        BY <3>2, Zenon DEF LogPreopen, IInv, PlainControl
      <4>2. ~(fd[t] > 0)
        BY <4>1, MinusOne, Zenon
      <4> QED BY <3>2, <4>2, PlainFacts, Zenon DEF LogPreopen, Goto
    <3>3. CASE LogOpen(t)
      BY <3>3, PlainFacts, Zenon DEF LogOpen, Goto
    <3> QED BY <1>2, <3>1, <3>2, <3>3, Zenon
  <2>3. Phase(t)' = Phase(t)
    BY <2>2, PlainFacts, Zenon DEF PhaseOf, Var
  <2>4. Req(t)' = Req(t)
    BY <1>0, <2>2, Zenon DEF Req, Var
  <2>5. pc[t] \in LogPcs /\ pc'[t] \in LogPcs
    BY <2>2, Zenon DEF LogPcs, Var
  <2>6. \A f \in Fd : fdt'[f] = fdt[f] /\ (OwnsLog(t, f)' <=> OwnsLog(t, f))
    BY <2>1, <2>5, Zenon DEF OwnsLog
  <2> QED BY <1>0, <2>3, <2>4, <2>6, VisibleKept, Stutters, Zenon
<1>3. CASE Cancel(t)
  <2>1. fdt' = fdt /\ log_fd' = log_fd /\ pc'[t] = "cancelled"
    BY <1>3, PlainFacts, Zenon DEF Cancel, Goto
  <2>2. pc[t] \in {"debug", "PREOPEN_FILES", "log preopen", "openat", "log open"}
    BY <1>3, CancelledWithin, Zenon DEF IInv, PlainControl
  <2>3. pc[t] = "log open" => fd[t] >= 0
    BY <1>3, Zenon DEF Cancel, CancellationPoint
  <2>4. pc[t] # "log open" => fd[t] = -1
    BY <2>2, Zenon DEF IInv, PlainControl
  <2>5. Phase(t)' = Phase(t)
    BY <1>0, <2>1, <2>2, <2>3, <2>4, PlainFacts, Zenon DEF PhaseOf, Var
  <2>6. Req(t)' = Req(t)
    BY <1>0, <2>1, <2>2, Zenon DEF Req
  <2>7. pc'[t] \in LogPcs /\ (pc[t] \in LogPcs \/ log_fd[t] = -1)
    BY <2>1, <2>2, Zenon DEF LogPcs, Var, IInv, NoLogYet
  <2>8. \A f \in Fd : fdt'[f] = fdt[f] /\ (OwnsLog(t, f)' <=> OwnsLog(t, f))
    BY <2>1, <2>7, PlainFacts, Zenon DEF OwnsLog
  <2> QED BY <1>0, <2>5, <2>6, <2>8, VisibleKept, Stutters, Zenon
<1> QED BY <1>1, <1>2, <1>3

-----------------------------------------------------------------------------
(* The steps the application sees: call, openat, return and close.         *)
LEMMA CallStep ==
  ASSUME IInv, IInv', Plain(env), Plain(env)', NEW t \in Threads, Call(t), Alone(t)
  PROVE  Posix!Call(t)
<1>1. PICK f \in FileArgs, o \in OFlags :
        file' = [file EXCEPT ![t] = f] /\ oflag' = [oflag EXCEPT ![t] = o]
  BY Zenon DEF Call
<1>2. /\ pc[t] = "idle" /\ pc'[t] = "debug"
      /\ fdt' = fdt /\ fd' = fd /\ log_fd' = log_fd
  BY PlainFacts, Zenon DEF Call, Goto
<1>3. file'[t] = f /\ oflag'[t] = o
  BY <1>1, Zenon DEF IInv, TypeOK
<1>4. Phase(t) = "idle" /\ Phase(t)' = "called" /\ Req(t)' = <<f, o>>
  BY <1>2, <1>3, PlainFacts, Zenon DEF PhaseOf, Req
<1>5. \A g \in Fd : fdt'[g] = fdt[g] /\ (OwnsLog(t, g)' <=> OwnsLog(t, g))
  BY <1>2, Zenon DEF OwnsLog, LogPcs, Var
<1>6. VisibleTable' = VisibleTable
  BY <1>5, VisibleKept, Zenon
<1>7. <<f, o>> \in FileArgs \X OFlags
  BY <1>1
<1> QED BY <1>2, <1>4, <1>6, <1>7, OthersStay, Zenon DEF Posix!Call

LEMMA OpenatStep ==
  ASSUME IInv, IInv', Plain(env), Plain(env)', NEW t \in Threads, Openat(t), Alone(t)
  PROVE  Posix!Succeed(t) \/ Posix!Fail(t)
<1>1. PICK g \in FdOrError, e \in Errno \cup {"OK"} :
        /\ openat(file[t], oflag[t], g, e)
        /\ fd' = [fd EXCEPT ![t] = g]
  BY Zenon DEF Openat
<1>2. /\ pc[t] = "openat" /\ pc'[t] = "log open"
      /\ log_fd' = log_fd /\ file' = file /\ oflag' = oflag
  BY PlainFacts, Zenon DEF Openat, Goto
<1>3. /\ Phase(t) = "called" /\ Phase(t)' = "answered" /\ Req(t)' = Req(t)
      /\ Req(t) = <<file[t], oflag[t]>>
  BY <1>2, PlainFacts, Zenon DEF PhaseOf, Req
<1>4. Requests' = Requests
  BY <1>3, OthersStay, Zenon DEF Requests
<1>5. file[t] \in OpenedNames
  <2>1. file[t] \in FileArgs
    BY <1>2, Zenon DEF IInv, Aux, Control
  <2> QED BY <2>1, FileArgOpened
<1>6. \A h \in Fd : OwnsLog(t, h)' <=> OwnsLog(t, h)
  BY <1>2, Zenon DEF OwnsLog, LogPcs
<1>7. fd[t] = -1 /\ fd \in [Threads -> (-IntHalf)..(IntHalf - 1)] /\ TypeOK
  BY <1>2, Zenon DEF IInv, TypeOK, PlainControl
<1>8. CASE g = -1 /\ \A h \in Fd : fdt'[h] = fdt[h]
  <2>1. VisibleTable' = VisibleTable
    BY <1>6, <1>8, VisibleKept, Zenon
  <2>2. fd' = fd
    BY <1>1, <1>7, <1>8, Zenon
  <2> QED BY <1>3, <1>4, <2>1, <2>2, OthersStay, Zenon DEF Posix!Fail
<1>9. CASE /\ g \in Fd /\ fdt[g] = NULL /\ fdt'[g] = Opened(<<file[t], oflag[t]>>)
           /\ \A h \in Fd \ {g} : fdt'[h] = fdt[h]
  <2>1. fd'[t] = g
    BY <1>1, <1>7, Zenon
  <2>2. \A u \in Threads : ~OwnsLog(u, g)'
    BY <1>9, <2>1, PlainFacts, Zenon DEF OwnsResult
  <2>3. \A h \in Fd, u \in Threads : OwnsLog(u, h)' <=> OwnsLog(u, h)
    <3> SUFFICES ASSUME NEW h \in Fd, NEW u \in Threads, u # t PROVE OwnsLog(u, h)' <=> OwnsLog(u, h)
      BY <1>6, Zenon
    <3> QED BY Zenon DEF Alone, OwnsLog
  <2>4. VisibleTable[g] = NULL
    BY <1>9, Zenon DEF VisibleTable
  <2>5. VisibleTable'[g] = Opened(<<file[t], oflag[t]>>)
    BY <1>9, <2>2, Zenon DEF VisibleTable
  <2>6. \A h \in Fd \ {g} : VisibleTable'[h] = VisibleTable[h]
    BY <1>9, <2>3, Zenon DEF VisibleTable
  <2>7. VisibleTable' = [VisibleTable EXCEPT ![g] = Opened(<<file[t], oflag[t]>>)]
    BY <2>5, <2>6, Zenon DEF VisibleTable
  <2>8. Requests[t] = <<file[t], oflag[t]>>
    BY <1>3, OthersStay, Zenon
  <2>9. VisibleTable' = [VisibleTable EXCEPT ![g] = Opened(Requests[t])]
    BY <2>7, <2>8, Zenon
  <2> QED BY <1>1, <1>3, <1>4, <1>9, <2>4, <2>9, OthersStay, Zenon DEF Posix!Succeed
<1>10. \/ g = -1 /\ \A h \in Fd : fdt'[h] = fdt[h]
       \/ /\ g \in Fd /\ fdt[g] = NULL /\ fdt'[g] = Opened(<<file[t], oflag[t]>>)
          /\ \A h \in Fd \ {g} : fdt'[h] = fdt[h]
  BY <1>1, <1>5, <1>7, OpenatEntries, ZenonT(60)
<1> QED BY <1>8, <1>9, <1>10, Zenon

LEMMA ReturnStep ==
  ASSUME IInv, IInv', Plain(env), Plain(env)', NEW t \in Threads, CloseLog(t), Alone(t)
  PROVE  Posix!Return(t)
<1>1. /\ pc[t] = "close log" /\ pc'[t] = "done"
      /\ fd' = fd /\ log_fd' = log_fd /\ file' = file /\ oflag' = oflag
  BY PlainFacts, Zenon DEF CloseLog, Goto
<1>2. Phase(t) = "answered" /\ Phase(t)' = "returned" /\ Req(t)' = Req(t)
  BY <1>1, PlainFacts, Zenon DEF PhaseOf, Req
<1>3. Requests' = Requests
  BY <1>2, OthersStay, Zenon DEF Requests
<1>4. fdt \in [Fd -> Entry \cup {NULL}]
  BY DEF IInv, TypeOK, Table
<1>5. ASSUME NEW f \in Fd
      PROVE  \/ fdt'[f] = fdt[f] /\ (OwnsLog(t, f)' <=> OwnsLog(t, f))
             \/ OwnsLog(t, f) /\ fdt'[f] = NULL
  <2>1. CASE log_fd[t] = f
    <3>1. OwnsLog(t, f) /\ IsOpen(f)
      BY <1>1, <2>1, PlainFacts, Zenon DEF OwnsLog, LogPcs, IsOpen
    <3>2. fdt' = [fdt EXCEPT ![f] = NULL]
      BY <2>1, <3>1, Zenon DEF CloseLog
    <3> QED BY <1>4, <3>1, <3>2, Zenon
  <2>2. CASE log_fd[t] # f
    <3>1. fdt'[f] = fdt[f]
      BY <1>4, <2>2, Zenon DEF CloseLog, IsOpen
    <3> QED BY <1>1, <2>2, <3>1, Zenon DEF OwnsLog
  <2> QED BY <2>1, <2>2
<1>6. VisibleTable' = VisibleTable
  BY <1>5, VisibleKept, Zenon
<1> QED BY <1>1, <1>2, <1>3, <1>6, OthersStay, Zenon DEF Posix!Return

LEMMA CloseStep ==
  ASSUME IInv, IInv', Plain(env), Plain(env)', NEW t \in Threads, AppClose(t), Alone(t)
  PROVE  Posix!Close(t)
<1>1. /\ pc[t] = "done" /\ pc'[t] = "idle"
      /\ fd' = [fd EXCEPT ![t] = -1] /\ log_fd'[t] = -1
  BY PlainFacts, Zenon DEF AppClose, Goto, IInv, TypeOK
<1>2. Phase(t) = "returned" /\ Phase(t)' = "idle" /\ Req(t)' = NULL
  BY <1>1, PlainFacts, Zenon DEF PhaseOf, Req
<1>3. fdt \in [Fd -> Entry \cup {NULL}]
  BY DEF IInv, TypeOK, Table
<1>4. \A f \in Fd : ~OwnsLog(t, f) /\ ~OwnsLog(t, f)'
  BY <1>1, Zenon DEF OwnsLog, LogPcs, Var
<1>5. \A h \in Fd, u \in Threads : OwnsLog(u, h)' <=> OwnsLog(u, h)
  <2> SUFFICES ASSUME NEW h \in Fd, NEW u \in Threads, u # t PROVE OwnsLog(u, h)' <=> OwnsLog(u, h)
    BY <1>4, Zenon
  <2> QED BY Zenon DEF Alone, OwnsLog
<1>6. VisibleTable' = IF fd[t] >= 0 THEN [VisibleTable EXCEPT ![fd[t]] = NULL] ELSE VisibleTable
  <2>1. fd[t] = -1 \/ fd[t] \in Fd
    BY <1>1, Zenon DEF IInv, RightResult
  <2>2. CASE fd[t] = -1
    <3>1. ~(fd[t] >= 0)
      BY <2>2, MinusOne, Zenon
    <3>2. fdt' = fdt
      BY <2>2, PlainFacts, Zenon DEF AppClose, IsOpen
    <3>3. VisibleTable' = VisibleTable
      BY <1>4, <3>2, VisibleKept, Zenon
    <3> QED BY <3>1, <3>3, Zenon
  <2>3. CASE fd[t] \in Fd
    <3>1. fd[t] >= 0
      BY <2>3 DEF Fd
    <3>2. IsOpen(fd[t])
      BY <2>3, PlainFacts, Zenon DEF OwnsResult, IsOpen
    <3>3. fdt' = [fdt EXCEPT ![fd[t]] = NULL]
      BY <3>2, Zenon DEF AppClose
    <3>4. fdt'[fd[t]] = NULL /\ \A h \in Fd \ {fd[t]} : fdt'[h] = fdt[h]
      BY <1>3, <2>3, <3>3, Zenon
    <3>5. VisibleTable'[fd[t]] = NULL
      BY <2>3, <3>4, Zenon DEF VisibleTable
    <3>6. \A h \in Fd \ {fd[t]} : VisibleTable'[h] = VisibleTable[h]
      BY <1>5, <3>4, Zenon DEF VisibleTable
    <3>7. VisibleTable' = [VisibleTable EXCEPT ![fd[t]] = NULL]
      BY <3>5, <3>6, Zenon DEF VisibleTable
    <3> QED BY <3>1, <3>7, Zenon
  <2> QED BY <2>1, <2>2, <2>3
<1> QED BY <1>1, <1>2, <1>6, OthersStay, Zenon DEF Posix!Close

-----------------------------------------------------------------------------
LEMMA NextRefines ==
  ASSUME \A e \in Envs : Plain(e)
  PROVE  IInv /\ IInv' /\ [Next]_vars => [Posix!Next]_(Posix!absvars)
<1> SUFFICES ASSUME IInv, IInv', [Next]_vars PROVE Posix!Next \/ UNCHANGED Posix!absvars
  OBVIOUS
<1>1. Plain(env) /\ Plain(env)'
  BY Zenon DEF IInv, TypeOK
<1>2. ASSUME NEW t \in Threads, Call(t) \/ AppClose(t) \/ Cancel(t) \/ LibStep(t)
      PROVE  Posix!Next \/ UNCHANGED Posix!absvars
  <2>1. Alone(t)
    BY <1>2, StepsAlone DEF IInv
  <2>2. \/ Call(t) \/ AppClose(t) \/ Cancel(t) \/ GetDebugFd(t) \/ NotSet(t)
        \/ LogPreopen(t) \/ Openat(t) \/ LogOpen(t) \/ CloseLog(t)
    BY <1>1, <1>2, PlainSteps, Zenon DEF IInv
  <2>3. CASE GetDebugFd(t) \/ NotSet(t) \/ LogPreopen(t) \/ LogOpen(t) \/ Cancel(t)
    BY <1>1, <2>3, HiddenSteps
  <2>4. CASE Call(t) \/ AppClose(t) \/ Openat(t) \/ CloseLog(t)
    BY <1>1, <2>1, <2>4, CallStep, OpenatStep, ReturnStep, CloseStep, Zenon DEF Posix!Next
  <2> QED BY <2>2, <2>3, <2>4
<1>3. CASE UNCHANGED vars
  <2>1. pc' = pc /\ file' = file /\ oflag' = oflag /\ log_fd' = log_fd /\ fd' = fd /\ fdt' = fdt
    BY <1>3 DEF vars
  <2>2. VisibleTable' = VisibleTable
    BY <2>1, Zenon DEF VisibleTable, OwnsLog
  <2>3. Phases' = Phases /\ Requests' = Requests
    BY <2>1, Zenon DEF Phases, Phase, Requests
  <2> QED BY <2>1, <2>2, <2>3 DEF Posix!absvars
<1> QED BY <1>2, <1>3 DEF Next, LibStep

(* When no environment has PREOPEN variables, open64.c implements the open *)
(* of the manual: an atomic step that takes a free number for the file     *)
(* that was named, or none, whatever the threads and the debug log do, and *)
(* also when threads are cancelled.                                        *)
THEOREM Refinement ==
  ASSUME \A e \in Envs : Plain(e)
  PROVE  Spec => ImplementsPosixOpen
<1>1. Init => Posix!Init
  <2> SUFFICES ASSUME Init PROVE Posix!Init
    OBVIOUS
  <2>1. fd = [t \in Threads |-> -1] /\ \A t \in Threads : pc[t] = "idle"
    BY Zenon DEF Init
  <2>2. Phases = [t \in Threads |-> "idle"]
    BY <2>1, Zenon DEF Phases, Phase
  <2>3. Requests = [t \in Threads |-> NULL]
    BY <2>1, Zenon DEF Requests
  <2>4. DOMAIN VisibleTable = Fd
    BY Zenon DEF VisibleTable
  <2> QED BY <2>1, <2>2, <2>3, <2>4, Zenon DEF Posix!Init
<1>2. IInv /\ IInv' /\ [Next]_vars => [Posix!Next]_(Posix!absvars)
  BY NextRefines
<1> QED BY <1>1, <1>2, Invariance, PTL DEF Spec, ImplementsPosixOpen, Posix!Spec
=============================================================================
