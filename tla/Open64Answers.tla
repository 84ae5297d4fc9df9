---------------------------- MODULE Open64Answers ----------------------------
(***************************************************************************)
(* What open answers from the PREOPEN variables, for every environment,    *)
(* every name and every table size, in a process with one thread: with     *)
(* more, strtok may tear the lists of one thread while another reads its   *)
(* own, and nothing below holds.                                           *)
(***************************************************************************)
EXTENDS Open64Proofs, PathProofs

OneThread == \A t, u \in Threads : t = u

(* No component is too long for get_path_component, which takes such a     *)
(* component for the end of the path.                                      *)
ShortNames == Short(Cwd) /\ \A f \in FileArgs : Short(f)

(* The lists name files and directories by their absolute names.           *)
AbsoluteEntries(e) ==
  \A v \in {"PREOPEN_FILES", "PREOPEN_PATHS"} : e[v] # UNSET =>
    \A n \in 1..Len(e[v]) : e[v][n].root /\ Short(e[v][n])

(* There are no more numbers than names: the lookup runs over as many      *)
(* slots as there are numbers, and the slots behind the names were never   *)
(* written.                                                                *)
Paired(e) ==
  /\ e.PREOPEN_FILES # UNSET /\ e.PREOPEN_FILE_FDS # UNSET
       => Len(e.PREOPEN_FILE_FDS) <= Len(e.PREOPEN_FILES)
  /\ e.PREOPEN_PATHS # UNSET /\ e.PREOPEN_PATH_FDS # UNSET
       => Len(e.PREOPEN_PATH_FDS) <= Len(e.PREOPEN_PATHS)

(* The last component of a name is not ".": the parent of "d/." is not the *)
(* directory the code takes from it.                                       *)
NoDotNames ==
  \A f \in FileArgs :
    LET abs == abs_file(f, Cwd)
    IN  abs # NULL /\ StrippedLen(abs.comps) # 0 => abs.comps[StrippedLen(abs.comps)] # Dot

-----------------------------------------------------------------------------
(* The lists that have been made are those of the environment.             *)
ListsMade(t) ==
  /\ pc[t] \in {"PREOPEN_FILE_FDS", "match file"} =>
       env.PREOPEN_FILES # UNSET /\ list[t]["PREOPEN_FILES"] = env.PREOPEN_FILES
  /\ pc[t] = "match file" =>
       env.PREOPEN_FILE_FDS # UNSET /\ list[t]["PREOPEN_FILE_FDS"] = env.PREOPEN_FILE_FDS
  /\ pc[t] \in {"PREOPEN_PATH_FDS", "from dir"} =>
       env.PREOPEN_PATHS # UNSET /\ list[t]["PREOPEN_PATHS"] = env.PREOPEN_PATHS
  /\ pc[t] = "from dir" =>
       env.PREOPEN_PATH_FDS # UNSET /\ list[t]["PREOPEN_PATH_FDS"] = env.PREOPEN_PATH_FDS

(* A call has no result before preopen has looked at the directories.      *)
NoAnswerYet(t) ==
  pc[t] \in {"idle", "debug", "match file", "from dir"} \cup Var => fd[t] = -1

(* A call that has come past the files has not found its file there.       *)
PastFiles(t) ==
  \/ pc[t] \in {"PREOPEN_PATHS", "PREOPEN_PATH_FDS", "from dir", "openat", "log open", "close log"}
  \/ pc[t] = "log preopen" /\ ~(fd[t] > 0)

NotListed == \A t \in Threads : PastFiles(t) => ~Listed(file[t])

Reading == torn = {} /\ \A t \in Threads : ListsMade(t) /\ NoAnswerYet(t)

-----------------------------------------------------------------------------
(* Names and the objects they lead to.                                     *)

Ignored == {Empty, Dot}

LEMMA DotSlashIgnored ==
  ASSUME NEW C, Dot \in C, NEW c \in Seq(C), c # <<>>
  PROVE  WithoutDotSlash(c) \in Seq(C) /\ Keep(WithoutDotSlash(c), Ignored) = Keep(c, Ignored)
<1>1. CASE ~(Head(c) = Dot /\ Len(c) > 1)
  BY <1>1 DEF WithoutDotSlash
<1>2. CASE Head(c) = Dot /\ Len(c) > 1
  <2>1. WithoutDotSlash(c) = Tail(c) /\ Tail(c) \in Seq(C)
    BY <1>2, HeadTailProperties DEF WithoutDotSlash
  <2>2. c = <<Dot>> \o Tail(c)
    <3>1. c = <<Head(c)>> \o Tail(c)
      BY HeadTailProperties
    <3> QED BY <1>2, <3>1
  <2>3. <<Dot>> \in Seq(C) /\ Keep(<<Dot>>, Ignored) = <<>>
    <3>1. <<Dot>> \in Seq(C) /\ \A m \in 1..Len(<<Dot>>) : <<Dot>>[m] \in Ignored
      BY DEF Ignored
    <3> QED BY <3>1, KeepNone, Zenon
  <2>4. \A q \in Seq(C) : \A t \in Seq(C) :
          Keep(q \o t, Ignored) = Keep(q, Ignored) \o Keep(t, Ignored)
    BY KeepConcat
  <2>5. Keep(c, Ignored) = <<>> \o Keep(Tail(c), Ignored)
    BY <2>1, <2>2, <2>3, <2>4, Zenon
  <2>6. Keep(Tail(c), Ignored) \in Seq(C)
    BY <2>1, KeepType, Zenon
  <2>7. <<>> \o Keep(Tail(c), Ignored) = Keep(Tail(c), Ignored)
    BY <2>6, ConcatEmptySeq
  <2> QED BY <2>1, <2>5, <2>7
<1> QED BY <1>1, <1>2

(* The absolute name leads where the kernel finds the name.                *)
LEMMA AbsoluteResolves ==
  ASSUME ShortNames, NEW f \in FileArgs, abs_file(f, Cwd) # NULL
  PROVE  /\ abs_file(f, Cwd) \in PathOver(Component \ LongComponent)
         /\ abs_file(f, Cwd).root
         /\ Keep(abs_file(f, Cwd).comps, Ignored) = Resolve(f)
<1> DEFINE C == Component \ LongComponent
<1>1. f \in Path /\ Short(f) /\ Cwd \in Path /\ Short(Cwd)
  BY Open64Assumption DEF ShortNames
<1>2. f \in PathOver(C) /\ Cwd \in PathOver(C)
  BY <1>1, ShortPathOver
<1>3. Dot \in C
  BY ComponentAssumption
<1>4. Empty \in Ignored
  BY DEF Ignored
<1>5. get_absolute_path(f, Cwd) # NULL
  BY DEF abs_file
<1> HIDE DEF C
<1>6. /\ get_absolute_path(f, Cwd) \in PathOver(C) /\ get_absolute_path(f, Cwd).root
      /\ Keep(get_absolute_path(f, Cwd).comps, Ignored) =
           IF f.root THEN Keep(f.comps, Ignored)
           ELSE Keep(Cwd.comps, Ignored) \o Keep(WithoutDotSlash(f.comps), Ignored)
  BY <1>2, <1>4, <1>5, AbsoluteName
<1>7. Resolve(f) = Keep(IF f.root THEN f.comps ELSE Cwd.comps \o f.comps, Ignored)
  BY DEF Resolve, Ignored
<1>8. f.comps \in Seq(C) /\ f.comps # <<>> /\ Cwd.comps \in Seq(C)
  BY <1>2 DEF PathOver
<1>9. Keep(WithoutDotSlash(f.comps), Ignored) = Keep(f.comps, Ignored)
  BY <1>3, <1>8, DotSlashIgnored
<1>10. Keep(Cwd.comps \o f.comps, Ignored) = Keep(Cwd.comps, Ignored) \o Keep(f.comps, Ignored)
  <2>1. \A q \in Seq(C) : \A t \in Seq(C) :
          Keep(q \o t, Ignored) = Keep(q, Ignored) \o Keep(t, Ignored)
    BY KeepConcat
  <2> QED BY <1>8, <2>1, Zenon
<1>11. Keep(get_absolute_path(f, Cwd).comps, Ignored) = Resolve(f)
  BY <1>6, <1>7, <1>9, <1>10, Zenon
<1> QED BY <1>6, <1>11, Zenon DEF abs_file, C

(* The name looked up among the directories leads to the directory, and    *)
(* is absolute or empty.                                                   *)
LEMMA DirResolves ==
  ASSUME ShortNames, NoDotNames, NEW f \in FileArgs, NEW o,
         dir_path(f, "O_DIRECTORY" \in o, Cwd) # NULL
  PROVE  LET p == dir_path(f, "O_DIRECTORY" \in o, Cwd)
         IN  /\ p \in PathOver(Component \ LongComponent)
             /\ p = EmptyString \/ p.root
             /\ Keep(p.comps, Ignored) = DirOf(Resolve(f), o)
<1> DEFINE C == Component \ LongComponent
           abs == abs_file(f, Cwd)
           p == dir_path(f, "O_DIRECTORY" \in o, Cwd)
<1>1. p = IF "O_DIRECTORY" \in o THEN abs ELSE remove_last_component(abs)
  BY Zenon DEF dir_path, abs_file
<1>2. abs # NULL
  BY <1>1 DEF remove_last_component
<1>3. abs \in PathOver(C) /\ abs.root /\ Keep(abs.comps, Ignored) = Resolve(f)
  BY <1>2, AbsoluteResolves
<1>4. StrippedLen(abs.comps) # 0 => abs.comps[StrippedLen(abs.comps)] # Dot
  BY <1>2 DEF NoDotNames
<1>5. Empty \in C
  BY ComponentAssumption
<1> HIDE DEF C, abs
<1>6. CASE "O_DIRECTORY" \in o
  BY <1>1, <1>3, <1>6 DEF DirOf, C
<1>7. CASE "O_DIRECTORY" \notin o
  <2>1. p = remove_last_component(abs)
    BY <1>1, <1>7
  <2>2. p \in PathOver(C)
    BY <1>3, <1>5, <2>1, RemoveLastType
  <2>3. p = EmptyString \/ p.root
    <3>1. p = EmptyString \/ p = [abs EXCEPT !.comps = SubSeq(@, 1, StrippedLen(abs.comps) - 1)]
      BY <1>2, <2>1 DEF remove_last_component
    <3> HIDE DEF p
    <3> QED BY <1>3, <3>1 DEF PathOver
  <2>4. Keep(p.comps, Ignored) = SubSeq(Resolve(f), 1, Len(Resolve(f)) - 1)
    <3>1. abs.comps \in Seq(C)
      BY <1>3 DEF PathOver
    <3>2. StrippedLen(abs.comps) # 0 => abs.comps[StrippedLen(abs.comps)] \notin Ignored
      BY <1>4, <3>1, StrippedLenRange DEF Ignored
    <3>3. Empty \in Ignored
      BY DEF Ignored
    <3>4. Keep(remove_last_component(abs).comps, Ignored)
            = SubSeq(Keep(abs.comps, Ignored), 1, Len(Keep(abs.comps, Ignored)) - 1)
      BY <1>2, <1>3, <1>5, <3>2, <3>3, ParentName
    <3> QED BY <1>3, <2>1, <3>4
  <2> HIDE DEF p
  <2>5. DirOf(Resolve(f), o) = SubSeq(Resolve(f), 1, Len(Resolve(f)) - 1)
    BY <1>7 DEF DirOf
  <2> QED BY <2>2, <2>3, <2>4, <2>5 DEF p, C
<1> QED BY <1>6, <1>7

-----------------------------------------------------------------------------
(* The lookup.                                                             *)

LEMMA ShortShown ==
  ASSUME NEW p \in PathOver(Component \ LongComponent)
  PROVE  1 \in Shown(p)
<1>1. p \in Path /\ Short(p) /\ p # NULL
  BY PathOverShort, NullIsNoPath
<1>2. p.comps # <<>> /\ p.comps \in Seq(Component)
  BY <1>1 DEF Path
<1>3. 1 \in 1..Len(p.comps) /\ \A m \in 1..1 : m \in 1..Len(p.comps)
  BY <1>2, EmptySeq
<1>4. \A m \in 1..Len(p.comps) : p.comps[m] \notin LongComponent
  BY <1>1 DEF Short
<1> QED BY <1>1, <1>3, <1>4 DEF Shown

(* A slot that is found holds an entry, and the entry is the path.         *)
LEMMA FoundEntry ==
  ASSUME NEW path \in PathOver(Component \ LongComponent) \cup {NULL},
         NEW names \in Seq(Path),
         \A n \in 1..Len(names) : names[n].root /\ Short(names[n]),
         NEW fds, Len(fds) \in Nat, Len(fds) <= Len(names),
         NEW r \in 0..(Len(fds) - 1),
         find_matching_preopen_path(path, names, fds, r)
  PROVE  /\ r + 1 \in 1..Len(names)
         /\ path # NULL /\ path.comps = names[r + 1].comps
<1>1. PICK junk : IsFirstMatch(path, Slots(names, Len(fds), junk), Len(fds), r)
  BY DEF find_matching_preopen_path
<1>2. Agree(path, Slots(names, Len(fds), junk)[r])
  BY <1>1 DEF IsFirstMatch
<1>3. Len(names) \in Nat /\ r < Len(names) /\ r + 1 \in 1..Len(names)
  BY LenProperties
<1>4. Slots(names, Len(fds), junk)[r] = names[r + 1]
  BY <1>3 DEF Slots
<1>5. names[r + 1] \in Path /\ Short(names[r + 1])
  BY <1>3, ElementOfSeq
<1>6. names[r + 1] \in PathOver(Component \ LongComponent)
  BY <1>5, ShortPathOver, Zenon
<1>7. path # NULL
  <2>1. Shown(NULL) = {}
    BY DEF Shown
  <2> QED BY <1>2, <1>4, <1>6, <2>1, ShortShown, Zenon DEF Agree
<1>8. path \in Path /\ Short(path)
  BY <1>7, PathOverShort, Zenon
<1> QED BY <1>2, <1>3, <1>4, <1>5, <1>7, <1>8, AgreeingPathsEqual

(* The slots before the first entry that is the file do not agree with it. *)
LEMMA ListedFound ==
  ASSUME NEW f \in Path, Short(f), f.root, NEW names \in Seq(Path),
         \A n \in 1..Len(names) : names[n].root /\ Short(names[n]),
         NEW fds, Len(fds) \in Nat,
         NEW k \in 1..Len(names), names[k] = f, k <= Len(fds),
         \A m \in 1..(k - 1) : names[m] # f,
         NEW r \in -1..(Len(fds) - 1),
         find_matching_preopen_path(f, names, fds, r)
  PROVE  r = k - 1
<1>1. PICK junk : IsFirstMatch(f, Slots(names, Len(fds), junk), Len(fds), r)
  BY DEF find_matching_preopen_path
<1> DEFINE slots == Slots(names, Len(fds), junk)
<1>2. Len(names) \in Nat /\ k \in Nat /\ k - 1 \in 0..(Len(fds) - 1)
  BY LenProperties
<1>3. \A j \in 0..(k - 1) : slots[j] = names[j + 1]
  BY <1>2 DEF Slots
<1>4. Agree(f, slots[k - 1])
  <2>1. slots[k - 1] = f
    <3>1. k - 1 \in 0..(k - 1) /\ (k - 1) + 1 = k
      BY <1>2
    <3> HIDE DEF slots
    <3> QED BY <1>3, <3>1
  <2> HIDE DEF slots
  <2> QED BY <2>1 DEF Agree
<1>5. ASSUME NEW j \in 0..(k - 2) PROVE ~Agree(f, slots[j])
  <2>1. j + 1 \in 1..(k - 1) /\ j + 1 \in 1..Len(names) /\ j \in 0..(k - 1)
    BY <1>2
  <2>2. slots[j] = names[j + 1] /\ names[j + 1] # f
    <3> HIDE DEF slots
    <3> QED BY <1>3, <2>1
  <2>3. names[j + 1] \in Path /\ Short(names[j + 1]) /\ names[j + 1].root
    BY <2>1, ElementOfSeq
  <2> HIDE DEF slots
  <2>4. ASSUME Agree(f, slots[j]) PROVE FALSE
    <3>1. f.comps = names[j + 1].comps
      BY <2>2, <2>3, <2>4, AgreeingPathsEqual
    <3>2. ASSUME NEW p \in Path, NEW q \in Path, p.root, q.root, p.comps = q.comps
          PROVE  p = q
      <4>1. p = [root |-> p.root, comps |-> p.comps] /\ q = [root |-> q.root, comps |-> q.comps]
        BY DEF Path
      <4>2. p.root \in BOOLEAN /\ q.root \in BOOLEAN
        BY DEF Path
      <4>3. p.root = q.root
        BY <3>2, <4>2, Zenon
      <4> QED BY <3>2, <4>1, <4>3, Zenon
    <3> QED BY <2>2, <2>3, <3>1, <3>2
  <2> QED BY <2>4
<1> HIDE DEF slots
<1>6. CASE r = -1
  BY <1>1, <1>2, <1>4, <1>6 DEF IsFirstMatch, slots
<1>7. CASE r \in 0..(Len(fds) - 1)
  <2>1. /\ Agree(f, slots[r])
        /\ \A j \in 0..(r - 1) : ~Agree(f, slots[j])
    BY <1>1, <1>7 DEF IsFirstMatch, slots
  <2>2. ~(r < k - 1)
    <3>1. r < k - 1 => r \in 0..(k - 2)
      BY <1>2, <1>7
    <3> QED BY <1>5, <2>1, <3>1
  <2>3. ~(k - 1 < r)
    <3>1. k - 1 < r => k - 1 \in 0..(r - 1)
      BY <1>2, <1>7
    <3> QED BY <1>4, <2>1, <3>1
  <2> QED BY <1>2, <1>7, <2>2, <2>3
<1>8. r = -1 \/ r \in 0..(Len(fds) - 1)
  OBVIOUS
<1> QED BY <1>6, <1>7, <1>8

-----------------------------------------------------------------------------
(* The steps.                                                              *)

LEMMA ReadStep ==
  ASSUME OneThread, TypeOK, Aux, Reading,
         NEW t \in Threads, Call(t) \/ AppClose(t) \/ Cancel(t) \/ LibStep(t)
  PROVE  Reading'
<1>1. Control(t) /\ ListsMade(t) /\ NoAnswerYet(t) /\ torn = {} /\ env' = env
  BY StepsAlone, Zenon DEF Aux, Reading, Alone
<1>2. SUFFICES torn' = {} /\ ListsMade(t)' /\ NoAnswerYet(t)'
  BY Zenon DEF Reading, OneThread
<1>3. CASE Call(t)
  <2>1. pc[t] = "idle" /\ pc'[t] = "debug" /\ UNCHANGED <<fd, torn>>
    BY <1>3, Zenon DEF Call, Goto, TypeOK
  <2> QED BY <1>1, <2>1, Zenon DEF ListsMade, NoAnswerYet
<1>4. CASE AppClose(t)
  <2>1. pc'[t] = "idle" /\ fd'[t] = -1 /\ UNCHANGED torn
    BY <1>4, Zenon DEF AppClose, Goto, TypeOK
  <2> QED BY <1>1, <2>1, Zenon DEF ListsMade, NoAnswerYet
<1>5. CASE Cancel(t)
  <2>1. pc'[t] = "cancelled" /\ UNCHANGED torn
    BY <1>5, Zenon DEF Cancel, Goto, TypeOK
  <2> QED BY <1>1, <2>1, Zenon DEF ListsMade, NoAnswerYet, Var
<1>6. CASE GetDebugFd(t)
  <2>1. pc[t] = "debug" /\ pc'[t] = "PREOPEN_FILES" /\ UNCHANGED <<fd, torn>>
    BY <1>6, Zenon DEF GetDebugFd, Goto, TypeOK
  <2> QED BY <1>1, <2>1, Zenon DEF ListsMade, NoAnswerYet
<1>7. CASE NotSet(t)
  <2>1. pc[t] \in Var /\ pc'[t] \in {"PREOPEN_PATHS", "log preopen"} /\ UNCHANGED <<fd, torn>>
    BY <1>7, Zenon DEF NotSet, Goto, TypeOK, WithoutList
  <2> QED BY <1>1, <2>1, Zenon DEF ListsMade, NoAnswerYet, Var
<1>8. CASE BeginList(t)
  <2>1. tokenising = {}
    BY <1>8, Zenon DEF BeginList, TypeOK, OneThread
  <2>2. UNCHANGED <<pc, list, fd, torn>>
    BY <1>8, <2>1, Zenon DEF BeginList
  <2> QED BY <1>1, <2>2, Zenon DEF ListsMade, NoAnswerYet
<1>9. CASE EndList(t)
  <2>1. /\ pc[t] \in Var /\ pc'[t] = AfterList(pc[t]) /\ env[pc[t]] # UNSET
        /\ list' = [list EXCEPT ![t][pc[t]] = env[pc[t]]] /\ fd' = fd
        /\ torn' = torn \ {t}
    BY <1>1, <1>9, Zenon DEF EndList, Goto, TypeOK, Control
  <2>2. torn' = {}
    BY <1>1, <2>1
  <2>3. t \in DOMAIN list /\ DOMAIN list[t] = Var
    BY <1>1, Zenon DEF Aux, Control
  <2>4. /\ list'[t][pc[t]] = env[pc[t]]
        /\ \A v \in Var : v # pc[t] => list'[t][v] = list[t][v]
    BY <2>1, <2>3, Zenon
  <2>5. \/ pc[t] = "PREOPEN_FILES" /\ pc'[t] = "PREOPEN_FILE_FDS"
        \/ pc[t] = "PREOPEN_FILE_FDS" /\ pc'[t] = "match file"
        \/ pc[t] = "PREOPEN_PATHS" /\ pc'[t] = "PREOPEN_PATH_FDS"
        \/ pc[t] = "PREOPEN_PATH_FDS" /\ pc'[t] = "from dir"
    BY <2>1, Zenon DEF AfterList, Var
  <2>6. NoAnswerYet(t)'
    BY <1>1, <2>1, Zenon DEF NoAnswerYet
  <2>7. ListsMade(t)'
    <3> USE DEF ListsMade
    <3>1. CASE pc[t] = "PREOPEN_FILES" /\ pc'[t] = "PREOPEN_FILE_FDS"
      BY <1>1, <2>1, <2>4, <3>1, Zenon
    <3>2. CASE pc[t] = "PREOPEN_FILE_FDS" /\ pc'[t] = "match file"
      BY <1>1, <2>1, <2>4, <3>2, Zenon DEF Var
    <3>3. CASE pc[t] = "PREOPEN_PATHS" /\ pc'[t] = "PREOPEN_PATH_FDS"
      BY <1>1, <2>1, <2>4, <3>3, Zenon
    <3>4. CASE pc[t] = "PREOPEN_PATH_FDS" /\ pc'[t] = "from dir"
      BY <1>1, <2>1, <2>4, <3>4, Zenon DEF Var
    <3> QED BY <2>5, <3>1, <3>2, <3>3, <3>4, Zenon
  <2> QED BY <2>2, <2>6, <2>7
<1>10. CASE PreopenFile(t)
  <2>1. \/ pc'[t] = "log preopen"
        \/ pc'[t] = "PREOPEN_PATHS" /\ fd'[t] = -1
    <3>1. PICK r : LET n == IF r >= 0 THEN AsInt(strtol(list[t]["PREOPEN_FILE_FDS"][r + 1])) ELSE -1
                   IN  /\ fd' = [fd EXCEPT ![t] = IF n > 0 THEN n ELSE -1]
                       /\ Goto(t, IF n > 0 THEN "log preopen" ELSE "PREOPEN_PATHS")
      BY <1>10, Zenon DEF PreopenFile
    <3> DEFINE n == IF r >= 0 THEN AsInt(strtol(list[t]["PREOPEN_FILE_FDS"][r + 1])) ELSE -1
    <3>2. fd'[t] = (IF n > 0 THEN n ELSE -1) /\ pc'[t] = IF n > 0 THEN "log preopen" ELSE "PREOPEN_PATHS"
      BY <3>1, Zenon DEF Goto, TypeOK
    <3> HIDE DEF n
    <3> QED BY <3>2, Zenon
  <2>2. torn' = torn
    BY <1>10, Zenon DEF PreopenFile
  <2> QED BY <1>1, <2>1, <2>2, Zenon DEF ListsMade, NoAnswerYet, Var
<1>11. CASE PreopenFromDir(t) \/ LogPreopen(t) \/ Openat(t) \/ LogOpen(t) \/ CloseLog(t)
  <2>1. pc'[t] \in {"log preopen", "done", "openat", "log open", "close log"} /\ torn' = torn
    BY <1>11, Zenon DEF PreopenFromDir, LogPreopen, Openat, LogOpen, CloseLog, Goto, TypeOK
  <2> QED BY <1>1, <2>1, Zenon DEF ListsMade, NoAnswerYet, Var
<1> QED BY <1>3, <1>4, <1>5, <1>6, <1>7, <1>8, <1>9, <1>10, <1>11, Zenon DEF LibStep

(* What PreopenFile does with the slot it finds.                           *)
LEMMA FileLookup ==
  ASSUME TypeOK, Aux, NEW t \in Threads, ListsMade(t), PreopenFile(t)
  PROVE  /\ file[t] \in FileArgs
         /\ env.PREOPEN_FILES # UNSET /\ env.PREOPEN_FILES \in Seq(Path)
         /\ env.PREOPEN_FILE_FDS # UNSET /\ Len(env.PREOPEN_FILE_FDS) \in Nat
         /\ \E r \in -1..(Len(env.PREOPEN_FILE_FDS) - 1) :
              /\ find_matching_preopen_path(abs_file(file[t], Cwd), env.PREOPEN_FILES,
                                            env.PREOPEN_FILE_FDS, r)
              /\ LET n == IF r >= 0 THEN AsInt(strtol(env.PREOPEN_FILE_FDS[r + 1])) ELSE -1
                 IN  /\ fd'[t] = IF n > 0 THEN n ELSE -1
                     /\ pc'[t] = IF n > 0 THEN "log preopen" ELSE "PREOPEN_PATHS"
<1>1. pc[t] = "match file"
  BY Zenon DEF PreopenFile
<1>2. /\ env.PREOPEN_FILES # UNSET /\ list[t]["PREOPEN_FILES"] = env.PREOPEN_FILES
      /\ env.PREOPEN_FILE_FDS # UNSET /\ list[t]["PREOPEN_FILE_FDS"] = env.PREOPEN_FILE_FDS
  BY <1>1, Zenon DEF ListsMade
<1>3. file[t] \in FileArgs
  BY <1>1, Zenon DEF Aux, Control
<1>4. env.PREOPEN_FILES \in Seq(Path) /\ env.PREOPEN_FILE_FDS \in Seq(FdText)
  BY <1>2, EnvType DEF TypeOK, Env
<1>5. Len(env.PREOPEN_FILE_FDS) \in Nat
  BY <1>4, LenProperties
<1>6. PICK r \in -1..(Len(env.PREOPEN_FILE_FDS) - 1) :
         /\ find_matching_preopen_path(abs_file(file[t], Cwd), env.PREOPEN_FILES,
                                       env.PREOPEN_FILE_FDS, r)
         /\ LET n == IF r >= 0 THEN AsInt(strtol(env.PREOPEN_FILE_FDS[r + 1])) ELSE -1
            IN  /\ fd' = [fd EXCEPT ![t] = IF n > 0 THEN n ELSE -1]
                /\ Goto(t, IF n > 0 THEN "log preopen" ELSE "PREOPEN_PATHS")
  BY <1>2, Zenon DEF PreopenFile
<1>7. LET n == IF r >= 0 THEN AsInt(strtol(env.PREOPEN_FILE_FDS[r + 1])) ELSE -1
      IN  /\ fd'[t] = IF n > 0 THEN n ELSE -1
          /\ pc'[t] = IF n > 0 THEN "log preopen" ELSE "PREOPEN_PATHS"
  BY <1>6, Zenon DEF Goto, TypeOK
<1> QED BY <1>2, <1>3, <1>4, <1>5, <1>6, <1>7, Zenon

LEMMA ListedAnswered ==
  ASSUME ShortNames, AbsoluteEntries(env), TypeOK, Aux,
         NEW t \in Threads, ListsMade(t), PreopenFile(t), Listed(file[t])
  PROVE  pc'[t] = "log preopen" /\ fd'[t] > 0
<1> DEFINE names == env.PREOPEN_FILES
           fds == env.PREOPEN_FILE_FDS
<1>1. /\ file[t] \in FileArgs /\ names # UNSET /\ names \in Seq(Path) /\ Len(fds) \in Nat
      /\ \E r \in -1..(Len(fds) - 1) :
           /\ find_matching_preopen_path(abs_file(file[t], Cwd), names, fds, r)
           /\ LET n == IF r >= 0 THEN AsInt(strtol(fds[r + 1])) ELSE -1
              IN  /\ fd'[t] = IF n > 0 THEN n ELSE -1
                  /\ pc'[t] = IF n > 0 THEN "log preopen" ELSE "PREOPEN_PATHS"
  BY FileLookup, Zenon
<1>2. PICK r \in -1..(Len(fds) - 1) :
        /\ find_matching_preopen_path(abs_file(file[t], Cwd), names, fds, r)
        /\ LET n == IF r >= 0 THEN AsInt(strtol(fds[r + 1])) ELSE -1
           IN  /\ fd'[t] = IF n > 0 THEN n ELSE -1
               /\ pc'[t] = IF n > 0 THEN "log preopen" ELSE "PREOPEN_PATHS"
  BY <1>1, Zenon
<1>3. PICK k \in 1..Len(names) :
        /\ names[k] = file[t] /\ \A m \in 1..(k - 1) : names[m] # file[t]
        /\ k <= Len(fds) /\ AsInt(strtol(fds[k])) > 0
  BY Zenon DEF Listed
<1>4. file[t] \in Path /\ Short(file[t]) /\ file[t].root
  BY <1>1, Open64Assumption, Zenon DEF ShortNames, Listed
<1>5. abs_file(file[t], Cwd) = file[t]
  BY <1>4 DEF abs_file, get_absolute_path
<1>6. \A n \in 1..Len(names) : names[n].root /\ Short(names[n])
  <2>1. "PREOPEN_FILES" \in {"PREOPEN_FILES", "PREOPEN_PATHS"}
    OBVIOUS
  <2> QED BY <1>1, <2>1, Zenon DEF AbsoluteEntries
<1> HIDE DEF names, fds
<1>7. r = k - 1
  <2>1. find_matching_preopen_path(file[t], names, fds, r)
    BY <1>2, <1>5, Zenon
  <2> QED BY <1>1, <1>3, <1>4, <1>6, <2>1, ListedFound, Zenon
<1>8. r >= 0 /\ r + 1 = k
  BY <1>7
<1> QED BY <1>2, <1>3, <1>8, Zenon

LEMMA NotListedStep ==
  ASSUME OneThread, ShortNames, AbsoluteEntries(env), TypeOK, Aux, Reading, NotListed,
         NEW t \in Threads, Call(t) \/ AppClose(t) \/ Cancel(t) \/ LibStep(t)
  PROVE  NotListed'
<1>1. ListsMade(t) /\ env' = env
  BY StepsAlone, Zenon DEF Reading, Alone
<1>2. PastFiles(t) => ~Listed(file[t])
  BY Zenon DEF NotListed
<1>3. SUFFICES ASSUME PastFiles(t)' PROVE ~Listed(file'[t])
  <2>1. \A f : Listed(f)' <=> Listed(f)
    BY <1>1, Zenon DEF Listed
  <2> QED BY <2>1, Zenon DEF NotListed, OneThread
<1>4. CASE Call(t) \/ AppClose(t) \/ Cancel(t) \/ GetDebugFd(t) \/ CloseLog(t)
  <2>1. pc'[t] \in {"idle", "debug", "cancelled", "PREOPEN_FILES", "done"}
    BY <1>4, Zenon DEF Call, AppClose, Cancel, GetDebugFd, CloseLog, Goto, TypeOK
  <2> QED BY <1>3, <2>1, Zenon DEF PastFiles
<1>5. CASE NotSet(t)
  <2>1. pc[t] \in Var /\ env[pc[t]] = UNSET /\ file' = file
    BY <1>5, Zenon DEF NotSet
  <2>2. CASE pc[t] \in {"PREOPEN_FILES", "PREOPEN_FILE_FDS"}
    BY <2>1, <2>2, Zenon DEF Listed
  <2>3. CASE pc[t] \in {"PREOPEN_PATHS", "PREOPEN_PATH_FDS"}
    BY <1>2, <2>1, <2>3, Zenon DEF PastFiles
  <2> QED BY <2>1, <2>2, <2>3, Zenon DEF Var
<1>6. CASE BeginList(t)
  <2>1. UNCHANGED <<pc, fd, file>>
    BY <1>6, Zenon DEF BeginList
  <2> QED BY <1>2, <1>3, <2>1, Zenon DEF PastFiles
<1>7. CASE EndList(t)
  <2>1. pc[t] \in Var /\ pc'[t] = AfterList(pc[t]) /\ file' = file
    BY <1>7, Zenon DEF EndList, Goto, TypeOK
  <2>2. pc[t] \in {"PREOPEN_PATHS", "PREOPEN_PATH_FDS"}
    BY <1>3, <2>1, Zenon DEF PastFiles, AfterList, Var
  <2> QED BY <1>2, <2>1, <2>2, Zenon DEF PastFiles
<1>8. CASE PreopenFile(t)
  <2>1. file' = file
    BY <1>8, Zenon DEF PreopenFile
  <2>2. Listed(file[t]) => pc'[t] = "log preopen" /\ fd'[t] > 0
    BY <1>1, <1>8, ListedAnswered, Zenon
  <2> QED BY <1>3, <2>1, <2>2, Zenon DEF PastFiles
<1>9. CASE PreopenFromDir(t) \/ Openat(t) \/ LogOpen(t)
  <2>1. file' = file /\ pc[t] \in {"from dir", "openat", "log open"}
    BY <1>9, Zenon DEF PreopenFromDir, Openat, LogOpen
  <2> QED BY <1>2, <2>1, Zenon DEF PastFiles
<1>10. CASE LogPreopen(t)
  <2>1. file' = file /\ pc[t] = "log preopen" /\ pc'[t] = IF fd[t] > 0 THEN "done" ELSE "openat"
    BY <1>10, Zenon DEF LogPreopen, Goto, TypeOK
  <2> QED BY <1>2, <1>3, <2>1, Zenon DEF PastFiles
<1> QED BY <1>4, <1>5, <1>6, <1>7, <1>8, <1>9, <1>10, Zenon DEF LibStep

(* A descriptor preopen_file hands out is the one listed for the file.     *)
LEMMA FileAnswer ==
  ASSUME ShortNames, AbsoluteEntries(env), Paired(env), TypeOK, Aux,
         NEW t \in Threads, ListsMade(t), PreopenFile(t), fd'[t] > 0
  PROVE  /\ env.PREOPEN_FILES # UNSET /\ env.PREOPEN_FILE_FDS # UNSET
         /\ \E n \in 1..Len(env.PREOPEN_FILES) :
              /\ Resolve(env.PREOPEN_FILES[n]) = Resolve(file[t])
              /\ n <= Len(env.PREOPEN_FILE_FDS)
              /\ fd'[t] = AsInt(strtol(env.PREOPEN_FILE_FDS[n]))
<1> DEFINE names == env.PREOPEN_FILES
           fds == env.PREOPEN_FILE_FDS
           abs == abs_file(file[t], Cwd)
<1>1. /\ file[t] \in FileArgs /\ names # UNSET /\ names \in Seq(Path)
      /\ fds # UNSET /\ Len(fds) \in Nat
      /\ \E r \in -1..(Len(fds) - 1) :
           /\ find_matching_preopen_path(abs, names, fds, r)
           /\ LET n == IF r >= 0 THEN AsInt(strtol(fds[r + 1])) ELSE -1
              IN  /\ fd'[t] = IF n > 0 THEN n ELSE -1
                  /\ pc'[t] = IF n > 0 THEN "log preopen" ELSE "PREOPEN_PATHS"
  BY FileLookup, Zenon
<1>2. PICK r \in -1..(Len(fds) - 1) :
        /\ find_matching_preopen_path(abs, names, fds, r)
        /\ LET n == IF r >= 0 THEN AsInt(strtol(fds[r + 1])) ELSE -1
           IN  fd'[t] = IF n > 0 THEN n ELSE -1
  BY <1>1, Zenon
<1>3. \A n \in 1..Len(names) : names[n].root /\ Short(names[n])
  <2>1. "PREOPEN_FILES" \in {"PREOPEN_FILES", "PREOPEN_PATHS"}
    OBVIOUS
  <2> QED BY <1>1, <2>1, Zenon DEF AbsoluteEntries
<1>4. Len(fds) <= Len(names)
  BY <1>1, Zenon DEF Paired
<1>5. abs = NULL \/ /\ abs \in PathOver(Component \ LongComponent)
                    /\ Keep(abs.comps, Ignored) = Resolve(file[t])
  BY <1>1, AbsoluteResolves, Zenon
<1> HIDE DEF names, fds, abs
<1>6. r \in 0..(Len(fds) - 1) /\ fd'[t] = AsInt(strtol(fds[r + 1]))
  <2>1. r >= 0 /\ fd'[t] = AsInt(strtol(fds[r + 1]))
    BY <1>2, MinusOne, Zenon
  <2>2. Len(fds) \in Nat
    BY <1>1, Zenon
  <2> QED BY <2>1, <2>2
<1>7. /\ r + 1 \in 1..Len(names)
      /\ abs # NULL /\ abs.comps = names[r + 1].comps
  <2>1. abs \in PathOver(Component \ LongComponent) \cup {NULL}
    BY <1>5, Zenon
  <2>2. names \in Seq(Path) /\ Len(fds) \in Nat /\ find_matching_preopen_path(abs, names, fds, r)
    BY <1>1, <1>2, Zenon
  <2> QED BY <1>3, <1>4, <1>6, <2>1, <2>2, FoundEntry, Zenon
<1>8. Resolve(names[r + 1]) = Keep(names[r + 1].comps, Ignored)
  BY <1>3, <1>7 DEF Resolve, Ignored
<1>9. Resolve(names[r + 1]) = Resolve(file[t])
  BY <1>5, <1>7, <1>8
<1>10. r + 1 <= Len(fds)
  <2>1. r \in 0..(Len(fds) - 1) /\ Len(fds) \in Nat
    BY <1>1, <1>6, Zenon
  <2> QED BY <2>1
<1> QED BY <1>1, <1>6, <1>7, <1>9, <1>10, Zenon DEF names, fds

(* A descriptor preopen_from_dir opens is open on the directory listed.    *)
LEMMA DirAnswer ==
  ASSUME ShortNames, NoDotNames, AbsoluteEntries(env), Paired(env), TypeOK, Aux,
         NEW t \in Threads, ListsMade(t), NoAnswerYet(t), PreopenFromDir(t), fd'[t] > 0
  PROVE  /\ env.PREOPEN_PATHS # UNSET /\ env.PREOPEN_PATH_FDS # UNSET
         /\ \E n \in 1..Len(env.PREOPEN_PATHS) :
              /\ Resolve(env.PREOPEN_PATHS[n]) = DirOf(Resolve(file[t]), oflag[t])
              /\ fd'[t] \in Fd /\ fdt'[fd'[t]] # NULL
              /\ fdt'[fd'[t]].obj = Resolve(env.PREOPEN_PATHS[n])
<1> DEFINE names == env.PREOPEN_PATHS
           fds == env.PREOPEN_PATH_FDS
           isdir == "O_DIRECTORY" \in oflag[t]
           dir == dir_path(file[t], isdir, Cwd)
<1>1. pc[t] = "from dir" /\ fd[t] = -1
  BY Zenon DEF PreopenFromDir, NoAnswerYet
<1>2. /\ names # UNSET /\ list[t]["PREOPEN_PATHS"] = names
      /\ fds # UNSET /\ list[t]["PREOPEN_PATH_FDS"] = fds
  BY <1>1, Zenon DEF ListsMade
<1>3. file[t] \in FileArgs /\ isdir \in BOOLEAN
  <2>1. file[t] \in FileArgs
    BY <1>1, Zenon DEF Aux, Control
  <2>2. isdir \in BOOLEAN
    BY Membership, Zenon
  <2> QED BY <2>1, <2>2, Zenon
<1>4. names \in Seq(Path) /\ fds \in Seq(FdText)
  BY <1>2, EnvType DEF TypeOK, Env
<1>5. Len(fds) \in Nat
  BY <1>4, LenProperties
<1>6. PICK r \in -1..(Len(fds) - 1) :
        /\ find_matching_preopen_path(dir, names, fds, r)
        /\ IF r >= 0
           THEN \E f \in FdOrError, e \in Errno \cup {"OK"} :
                  /\ openat(dir, oflag[t], f, e)
                  /\ fd' = [fd EXCEPT ![t] = IF f > 0 THEN f ELSE -1]
           ELSE fd' = fd
  BY <1>2, Zenon DEF PreopenFromDir
<1>7. \A n \in 1..Len(names) : names[n].root /\ Short(names[n])
  <2>1. "PREOPEN_PATHS" \in {"PREOPEN_FILES", "PREOPEN_PATHS"}
    OBVIOUS
  <2> QED BY <1>2, <2>1, Zenon DEF AbsoluteEntries
<1>8. Len(fds) <= Len(names)
  BY <1>2, Zenon DEF Paired
<1>9. \/ dir = NULL
      \/ /\ dir \in PathOver(Component \ LongComponent) /\ (dir = EmptyString \/ dir.root)
         /\ Keep(dir.comps, Ignored) = DirOf(Resolve(file[t]), oflag[t])
  BY <1>3, DirResolves, Zenon
<1>10. dir = NULL \/ dir \in OpenedNames
  BY <1>3, DirPathOpened, Zenon
<1> HIDE DEF names, fds, isdir, dir
<1>11. r >= 0
  BY <1>1, <1>6, MinusOne, Zenon
<1>12. PICK f \in FdOrError, e \in Errno \cup {"OK"} :
         /\ openat(dir, oflag[t], f, e)
         /\ fd' = [fd EXCEPT ![t] = IF f > 0 THEN f ELSE -1]
  BY <1>6, <1>11, Zenon
<1>13. fd'[t] = f /\ f # -1
  <2>1. fd'[t] = IF f > 0 THEN f ELSE -1
    BY <1>12, Zenon DEF TypeOK
  <2>2. ~(-1 > 0)
    OBVIOUS
  <2> QED BY <2>1, <2>2, Zenon
<1>14. /\ f \in Fd /\ fdt' = [fdt EXCEPT ![f] = Opened(<<dir, oflag[t]>>)]
       /\ Opened(<<dir, oflag[t]>>) \in Entry
  BY <1>10, <1>12, <1>13, OpenatEffect, Zenon
<1>15. fdt'[f] = Opened(<<dir, oflag[t]>>) /\ fdt'[f] # NULL /\ fdt'[f].obj = Resolve(dir)
  <2>1. fdt'[f] = Opened(<<dir, oflag[t]>>)
    BY <1>14, Zenon DEF TypeOK, Table
  <2> QED BY <1>14, <2>1, OpenedObject, Open64Assumption
<1>16. dir # NULL /\ dir # EmptyString
  <2>1. e = "OK"
    BY <1>12, <1>13, Zenon DEF openat
  <2>2. OpenErrno(dir, oflag[t]) = "OK"
    BY <1>12, <2>1, Zenon DEF openat
  <2> QED BY <2>2 DEF OpenErrno
<1>17. /\ dir \in PathOver(Component \ LongComponent) /\ dir.root
       /\ Keep(dir.comps, Ignored) = DirOf(Resolve(file[t]), oflag[t])
  BY <1>9, <1>16, Zenon
<1>18. r \in 0..(Len(fds) - 1)
  BY <1>5, <1>11
<1>19. /\ r + 1 \in 1..Len(names)
       /\ dir.comps = names[r + 1].comps
  <2>1. find_matching_preopen_path(dir, names, fds, r)
    BY <1>6, Zenon
  <2>2. dir \in PathOver(Component \ LongComponent) \cup {NULL}
    BY <1>17, Zenon
  <2> QED BY <1>4, <1>5, <1>7, <1>8, <1>18, <2>1, <2>2, FoundEntry, Zenon
<1>20. /\ Resolve(dir) = Keep(dir.comps, Ignored)
       /\ Resolve(names[r + 1]) = Keep(names[r + 1].comps, Ignored)
  BY <1>7, <1>17, <1>19 DEF Resolve, Ignored
<1>21. /\ Resolve(names[r + 1]) = DirOf(Resolve(file[t]), oflag[t])
       /\ fdt'[f].obj = Resolve(names[r + 1])
  BY <1>15, <1>17, <1>19, <1>20
<1> QED BY <1>2, <1>13, <1>14, <1>15, <1>19, <1>21, Zenon DEF names, fds

LEMMA AnswerStep ==
  ASSUME OneThread, ShortNames, NoDotNames, AbsoluteEntries(env), Paired(env),
         TypeOK, Aux, Reading,
         NEW t \in Threads, Call(t) \/ AppClose(t) \/ Cancel(t) \/ LibStep(t)
  PROVE  AnswerIsConfigured'
<1>1. ListsMade(t) /\ NoAnswerYet(t) /\ env' = env
  BY StepsAlone, Zenon DEF Reading, Alone
<1>2. SUFFICES ASSUME pc'[t] = "log preopen", fd'[t] > 0
      PROVE \/ /\ env.PREOPEN_FILES # UNSET /\ env.PREOPEN_FILE_FDS # UNSET
               /\ \E n \in 1..Len(env.PREOPEN_FILES) :
                    /\ Resolve(env.PREOPEN_FILES[n]) = Resolve(file'[t])
                    /\ n <= Len(env.PREOPEN_FILE_FDS)
                    /\ fd'[t] = AsInt(strtol(env.PREOPEN_FILE_FDS[n]))
            \/ /\ env.PREOPEN_PATHS # UNSET /\ env.PREOPEN_PATH_FDS # UNSET
               /\ \E n \in 1..Len(env.PREOPEN_PATHS) :
                    /\ Resolve(env.PREOPEN_PATHS[n]) = DirOf(Resolve(file'[t]), oflag'[t])
                    /\ fd'[t] \in Fd /\ fdt'[fd'[t]] # NULL
                    /\ fdt'[fd'[t]].obj = Resolve(env.PREOPEN_PATHS[n])
  BY <1>1, Zenon DEF AnswerIsConfigured, OneThread, IsOpen
<1>3. CASE Call(t) \/ AppClose(t) \/ Cancel(t) \/ GetDebugFd(t) \/ LogPreopen(t) \/ Openat(t)
           \/ LogOpen(t) \/ CloseLog(t)
  <2>1. pc'[t] \in {"idle", "debug", "cancelled", "PREOPEN_FILES", "done", "openat",
                    "log open", "close log"}
    BY <1>3, Zenon DEF Call, AppClose, Cancel, GetDebugFd, LogPreopen, Openat, LogOpen, CloseLog,
                       Goto, TypeOK
  <2> QED BY <1>2, <2>1, Zenon
<1>4. CASE NotSet(t)
  <2>1. pc[t] \in Var /\ fd' = fd
    BY <1>4, Zenon DEF NotSet
  <2>2. fd'[t] = -1
    BY <1>1, <2>1, Zenon DEF NoAnswerYet
  <2> QED BY <1>2, <2>2, MinusOne, Zenon
<1>5. CASE BeginList(t)
  <2>1. pc[t] \in Var /\ pc' = pc
    BY <1>5, Zenon DEF BeginList
  <2> QED BY <1>2, <2>1, Zenon DEF Var
<1>6. CASE EndList(t)
  <2>1. pc[t] \in Var /\ pc'[t] = AfterList(pc[t])
    BY <1>6, Zenon DEF EndList, Goto, TypeOK
  <2> QED BY <1>2, <2>1, Zenon DEF AfterList, Var
<1>7. CASE PreopenFile(t)
  <2>1. file' = file
    BY <1>7, Zenon DEF PreopenFile
  <2> QED BY <1>1, <1>2, <1>7, <2>1, FileAnswer, Zenon
<1>8. CASE PreopenFromDir(t)
  <2>1. file' = file /\ oflag' = oflag
    BY <1>8, Zenon DEF PreopenFromDir
  <2> QED BY <1>1, <1>2, <1>8, <2>1, DirAnswer, Zenon
<1> QED BY <1>3, <1>4, <1>5, <1>6, <1>7, <1>8, Zenon DEF LibStep

-----------------------------------------------------------------------------
(* In a process with one thread the lists of a call are those of the       *)
(* environment, and nothing is answered before the lookups.                *)
THEOREM ListsRead == OneThread => (Spec => []Reading)
<1> SUFFICES ASSUME OneThread PROVE Spec => []Reading
  OBVIOUS
<1>1. Init => Reading
  BY Zenon DEF Init, Reading, ListsMade, NoAnswerYet
<1>2. IInv /\ Reading /\ [Next]_vars => Reading'
  <2> SUFFICES ASSUME IInv, Reading, [Next]_vars PROVE Reading'
    OBVIOUS
  <2>1. ASSUME NEW t \in Threads, Call(t) \/ AppClose(t) \/ Cancel(t) \/ LibStep(t)
        PROVE  Reading'
    BY <2>1, ReadStep, Zenon DEF IInv
  <2>2. CASE UNCHANGED vars
    BY <2>2, Zenon DEF vars, Reading, ListsMade, NoAnswerYet
  <2> QED BY <2>1, <2>2, Zenon DEF Next, LibStep
<1> QED BY Invariance, <1>1, <1>2, PTL DEF Spec

(* The process keeps the environment it was started with.                  *)
LEMMA EnvKept == ASSUME TypeOK, [Next]_vars PROVE env' = env
<1>1. ASSUME NEW t \in Threads, Call(t) \/ AppClose(t) \/ Cancel(t) \/ LibStep(t)
      PROVE  env' = env
  BY <1>1, StepsAlone, Zenon DEF Alone
<1>2. CASE UNCHANGED vars
  BY <1>2, Zenon DEF vars
<1> QED BY <1>1, <1>2, Zenon DEF Next, LibStep

(* One thread, names that fit get_path_component, lists of absolute names: *)
(* a file that PREOPEN_FILES lists with a usable descriptor is never       *)
(* opened by name, nor looked for among the directories, whatever else the *)
(* lists hold and however long they are.                                   *)
THEOREM ListedNotOpened ==
  OneThread /\ ShortNames => (Spec => [](AbsoluteEntries(env) => ListedFileNotOpened))
<1> SUFFICES ASSUME OneThread, ShortNames
             PROVE  Spec => [](AbsoluteEntries(env) => ListedFileNotOpened)
  OBVIOUS
<1> DEFINE Inv == AbsoluteEntries(env) => NotListed
<1>1. Init => Inv
  BY Zenon DEF Init, NotListed, PastFiles
<1>2. IInv /\ Reading /\ Inv /\ [Next]_vars => Inv'
  <2> SUFFICES ASSUME IInv, Reading, Inv, [Next]_vars, AbsoluteEntries(env)' PROVE NotListed'
    OBVIOUS
  <2>1. env' = env
    BY EnvKept, Zenon DEF IInv
  <2>2. AbsoluteEntries(env) /\ NotListed
    BY <2>1, Zenon DEF AbsoluteEntries
  <2>3. ASSUME NEW t \in Threads, Call(t) \/ AppClose(t) \/ Cancel(t) \/ LibStep(t)
        PROVE  NotListed'
    BY <2>2, <2>3, NotListedStep, Zenon DEF IInv
  <2>4. CASE UNCHANGED vars
    BY <2>2, <2>4, Zenon DEF vars, NotListed, PastFiles, Listed
  <2> QED BY <2>3, <2>4, Zenon DEF Next, LibStep
<1>3. Inv => (AbsoluteEntries(env) => ListedFileNotOpened)
  BY Zenon DEF NotListed, PastFiles, ListedFileNotOpened
<1> HIDE DEF Inv
<1> QED BY Invariance, ListsRead, <1>1, <1>2, <1>3, PTL DEF Spec

(* With no more numbers than names, and no name that ends in ".", in       *)
(* addition: a positive answer of preopen is the descriptor listed for     *)
(* the file the caller named, or open on the listed directory the file is  *)
(* in.  The name is the kernel's: both sides are resolved.                 *)
THEOREM AnswerCorrect ==
  OneThread /\ ShortNames /\ NoDotNames =>
    (Spec => [](AbsoluteEntries(env) /\ Paired(env) => AnswerIsConfigured))
<1> SUFFICES ASSUME OneThread, ShortNames, NoDotNames
             PROVE  Spec => [](AbsoluteEntries(env) /\ Paired(env) => AnswerIsConfigured)
  OBVIOUS
<1> DEFINE Inv == AbsoluteEntries(env) /\ Paired(env) => AnswerIsConfigured
<1>1. Init => Inv
  BY Zenon DEF Init, AnswerIsConfigured
<1>2. IInv /\ Reading /\ Inv /\ [Next]_vars => Inv'
  <2> SUFFICES ASSUME IInv, Reading, Inv, [Next]_vars, AbsoluteEntries(env)', Paired(env)'
               PROVE  AnswerIsConfigured'
    OBVIOUS
  <2>1. env' = env
    BY EnvKept, Zenon DEF IInv
  <2>2. AbsoluteEntries(env) /\ Paired(env) /\ AnswerIsConfigured
    BY <2>1, Zenon DEF AbsoluteEntries, Paired
  <2>3. ASSUME NEW t \in Threads, Call(t) \/ AppClose(t) \/ Cancel(t) \/ LibStep(t)
        PROVE  AnswerIsConfigured'
    BY <2>2, <2>3, AnswerStep, Zenon DEF IInv
  <2>4. CASE UNCHANGED vars
    BY <2>2, <2>4, Zenon DEF vars, AnswerIsConfigured, IsOpen
  <2> QED BY <2>3, <2>4, Zenon DEF Next, LibStep
<1> HIDE DEF Inv
<1>3. Spec => []Inv
  BY Invariance, ListsRead, <1>1, <1>2, PTL DEF Spec
<1> QED BY <1>3 DEF Inv
=============================================================================
