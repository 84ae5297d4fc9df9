--------------------------- MODULE FindMatchProofs ---------------------------
(***************************************************************************)
(* For every list, every name and every bound: the nested loops of         *)
(* find_matching_preopen_path return the first agreeing entry.             *)
(***************************************************************************)
EXTENDS FindMatch, PathProofs

-----------------------------------------------------------------------------
Inv == TypeOK /\ LoopInv /\ ReturnsFirstMatch

LEMMA InitInv == Init => Inv
<1> SUFFICES ASSUME Init PROVE Inv
  OBVIOUS
<1> USE FindMatchAssumption
<1>1. file_path \in Path \cup {NULL}
  <2>1. file \in PathOver(Component) /\ cwd \in PathOver(Component) \cup {NULL}
    BY DEF Init, Path, PathOver
  <2>2. get_absolute_path(file, cwd) \in PathOver(Component) \cup {NULL}
    <3>1. Empty \in {Empty}
      OBVIOUS
    <3> QED BY <2>1, <3>1, AbsoluteName, Zenon
  <2>3. remove_last_component(get_absolute_path(file, cwd)) \in PathOver(Component) \cup {NULL}
    BY <2>2, RemoveLastType, ComponentAssumption
  <2>4. file_path = Argument(caller, file, cwd) /\ caller \in Callers
    BY DEF Init
  <2> QED BY <2>2, <2>3, <2>4, Zenon DEF Argument, Callers, abs_file, dir_path, Path, PathOver
<1>2. TypeOK
  BY <1>1 DEF Init, TypeOK
<1>3. LoopInv /\ ReturnsFirstMatch
  BY DEF Init, LoopInv, ReturnsFirstMatch
<1> QED BY <1>2, <1>3 DEF Inv

LEMMA StepInv == Inv /\ [Next]_vars => Inv'
<1> SUFFICES ASSUME Inv, [Next]_vars PROVE Inv'
  OBVIOUS
<1> USE FindMatchAssumption
<1>1. TypeOK /\ LoopInv /\ ReturnsFirstMatch
  BY DEF Inv
<1>2. /\ file_path \in Path \cup {NULL} /\ path_count \in Nat /\ i \in Nat /\ depth \in Nat
      /\ path_count <= MAX_LIST_LEN
      /\ \A j \in 0..(MAX_LIST_LEN - 1) : preopen_paths[j] \in Path \cup {NULL}
  BY <1>1 DEF TypeOK
<1>3. CASE Descend
  <2>1. TypeOK'
    BY <1>1, <1>3 DEF TypeOK, Descend, args
  <2>2. ASSUME NEW d \in 0..depth
        PROVE  /\ get_path_component(file_path, d) # NULL
               /\ get_path_component(file_path, d) = get_path_component(preopen_paths[i], d)
    <3>1. CASE d = depth
      BY <1>3, <3>1 DEF Descend, file_component, preopen_component
    <3>2. CASE d # depth
      <4>1. d \in 0..(depth - 1)
        BY <1>2, <3>2
      <4> QED BY <1>1, <1>3, <4>1 DEF LoopInv, Descend
    <3> QED BY <3>1, <3>2
  <2>3. depth' - 1 = depth
    BY <1>2, <1>3 DEF Descend
  <2>4. LoopInv'
    BY <1>1, <1>3, <2>2, <2>3 DEF LoopInv, Descend, args
  <2>5. ReturnsFirstMatch'
    BY <1>3 DEF ReturnsFirstMatch, Descend
  <2> QED BY <2>1, <2>4, <2>5 DEF Inv
<1>4. CASE Match
  <2>1. i \in 0..(path_count - 1) /\ preopen_paths[i] \in Path \cup {NULL}
    BY <1>2, <1>4 DEF Match
  <2>2. TypeOK'
    BY <1>1, <1>4, <2>1 DEF TypeOK, Match, args
  <2>3. Agree(file_path, preopen_paths[i])
    <3>1. \A e \in 0..(depth - 1) :
            /\ get_path_component(file_path, e) # NULL
            /\ get_path_component(file_path, e) = get_path_component(preopen_paths[i], e)
      BY <1>1, <1>4 DEF LoopInv, Match
    <3>2. get_path_component(file_path, depth) = NULL /\ get_path_component(preopen_paths[i], depth) = NULL
      BY <1>4 DEF Match, file_component, preopen_component
    <3> QED BY <1>2, <2>1, <3>1, <3>2, EqualToTheEndAgree
  <2>4. LoopInv'
    BY <1>1, <1>4 DEF LoopInv, Match, args
  <2>5. ReturnsFirstMatch'
    BY <1>1, <1>4, <2>1, <2>3 DEF LoopInv, Match, ReturnsFirstMatch, IsFirstMatch, args
  <2> QED BY <2>2, <2>4, <2>5 DEF Inv
<1>5. CASE Mismatch
  <2>1. i \in 0..(path_count - 1) /\ preopen_paths[i] \in Path \cup {NULL}
    BY <1>2, <1>5 DEF Mismatch
  <2>2. TypeOK'
    BY <1>1, <1>5, <2>1 DEF TypeOK, Mismatch, args
  <2>3. ~Agree(file_path, preopen_paths[i])
    <3>1. \A e \in 0..(depth - 1) :
            /\ get_path_component(file_path, e) # NULL
            /\ get_path_component(file_path, e) = get_path_component(preopen_paths[i], e)
      BY <1>1, <1>5 DEF LoopInv, Mismatch
    <3>2. get_path_component(file_path, depth) # get_path_component(preopen_paths[i], depth)
      BY <1>5 DEF Mismatch, file_component, preopen_component
    <3> QED BY <1>2, <2>1, <3>1, <3>2, AgreeingPathsDoNotDiffer, Zenon
  <2>4. \A j \in 0..(i' - 1) : j \in 0..(i - 1) \/ j = i
    BY <1>2, <1>5 DEF Mismatch
  <2>5. LoopInv'
    <3>1. \A j \in 0..(i' - 1) : ~Agree(file_path, preopen_paths[j])
      BY <1>1, <2>3, <2>4 DEF LoopInv
    <3>2. 0..(depth' - 1) = {}
      BY <1>5 DEF Mismatch
    <3> QED BY <1>5, <3>1, <3>2 DEF LoopInv, Mismatch, args
  <2>6. ReturnsFirstMatch'
    BY <1>5 DEF ReturnsFirstMatch, Mismatch
  <2> QED BY <2>2, <2>5, <2>6 DEF Inv
<1>6. CASE NotFound
  <2>1. i = path_count
    BY <1>1, <1>6 DEF TypeOK, NotFound
  <2>2. TypeOK'
    BY <1>1, <1>2, <1>6 DEF TypeOK, NotFound, args
  <2>3. LoopInv'
    BY <1>1, <1>6 DEF LoopInv, NotFound, args
  <2>4. ReturnsFirstMatch'
    BY <1>1, <1>6, <2>1 DEF LoopInv, NotFound, ReturnsFirstMatch, IsFirstMatch, args
  <2> QED BY <2>2, <2>3, <2>4 DEF Inv
<1>7. CASE UNCHANGED vars
  BY <1>1, <1>7 DEF Inv, TypeOK, LoopInv, ReturnsFirstMatch, IsFirstMatch, vars
<1> QED BY <1>3, <1>4, <1>5, <1>6, <1>7 DEF Next

(* The arguments and counters of find_matching_preopen_path stay in range, *)
(* and no index outside the list is returned, for lists of every length.   *)
THEOREM LookupTypes == Spec => []TypeOK
<1>1. Inv => TypeOK
  BY DEF Inv
<1> QED BY <1>1, InitInv, StepInv, PTL DEF Spec

(* At every step of the two loops the entries passed over do not agree     *)
(* with the file name, and the current one agrees with it so far.          *)
THEOREM LookupLoop == Spec => []LoopInv
<1>1. Inv => LoopInv
  BY DEF Inv
<1> QED BY <1>1, InitInv, StepInv, PTL DEF Spec

(* find_matching_preopen_path returns the first entry that agrees with the *)
(* file name, or -1 when none does, whatever the list, the name, and what  *)
(* an uninitialised slot holds.                                            *)
THEOREM LookupCorrect == Spec => []ReturnsFirstMatch
<1>1. Inv => ReturnsFirstMatch
  BY DEF Inv
<1> QED BY <1>1, InitInv, StepInv, PTL DEF Spec

-----------------------------------------------------------------------------
(* The name that is looked up stays the one the caller made of its file.   *)
ArgInv == file_path = Argument(caller, file, cwd)

(* What the caller looks up leads to the file, or to its directory.        *)
LEMMA ArgumentNames ==
  ASSUME NEW c \in Callers, NEW f \in Path, NEW w \in Path \cup {NULL},
         Argument(c, f, w) # NULL, Short(f), Short(w)
  PROVE  /\ Argument(c, f, w) \in Path /\ Short(Argument(c, f, w))
         /\ Solid(Argument(c, f, w).comps) =
              IF c = "preopen_from_dir" THEN ParentPlace(Place(f, w)) ELSE Place(f, w)
<1> DEFINE C == Component \ LongComponent
           abs == get_absolute_path(f, w)
<1>1. Empty \in C /\ C \subseteq Component
  BY ComponentAssumption
<1>4. f \in PathOver(C) /\ w \in PathOver(C) \cup {NULL}
  BY ShortPathOver
<1> HIDE DEF C
<1>5. \/ /\ c = "preopen_from_dir" /\ Argument(c, f, w) = remove_last_component(abs)
      \/ c # "preopen_from_dir" /\ Argument(c, f, w) = abs
  BY Zenon DEF Callers, Argument, abs_file, dir_path
<1>6. abs # NULL
  BY <1>5 DEF remove_last_component
<1>7. abs \in PathOver(C) /\ Solid(abs.comps) = Place(f, w)
  <2>1. Empty \in {Empty}
    OBVIOUS
  <2> QED BY <1>4, <1>6, <2>1, AbsoluteName DEF Solid, Place, WithoutDotSlash
<1> HIDE DEF abs
<1>8. CASE c = "preopen_from_dir" /\ Argument(c, f, w) = remove_last_component(abs)
  <2>1. remove_last_component(abs) \in PathOver(C)
    BY <1>1, <1>7, <1>8, RemoveLastType
  <2>2. Solid(remove_last_component(abs).comps) = ParentPlace(Solid(abs.comps))
    <3>1. abs.comps \in Seq(C)
      BY <1>7 DEF PathOver
    <3>2. /\ Empty \in {Empty}
          /\ StrippedLen(abs.comps) # 0 => abs.comps[StrippedLen(abs.comps)] \notin {Empty}
      BY <3>1, StrippedLenRange
    <3> QED BY <1>1, <1>6, <1>7, <3>2, ParentName, Zenon DEF Solid, ParentPlace
  <2> QED BY <1>7, <1>8, <2>1, <2>2, PathOverShort DEF C
<1>9. CASE c # "preopen_from_dir" /\ Argument(c, f, w) = abs
  BY <1>7, <1>9, PathOverShort DEF C
<1> QED BY <1>5, <1>8, <1>9

LEMMA HitNames == Inv /\ ArgInv => HitNamesTarget
<1> SUFFICES ASSUME Inv, ArgInv, pc = "done", ret >= 0, file_path # NULL,
                    Short(file), Short(cwd), preopen_paths[ret] # NULL,
                    Short(preopen_paths[ret])
             PROVE  Solid(preopen_paths[ret].comps) =
                      IF caller = "preopen_from_dir" THEN ParentPlace(Place(file, cwd))
                      ELSE Place(file, cwd)
  BY DEF HitNamesTarget
<1> USE FindMatchAssumption
<1>1. /\ caller \in Callers /\ file \in Path /\ cwd \in Path \cup {NULL}
      /\ path_count \in 0..MAX_LIST_LEN /\ ret \in -1..(path_count - 1)
      /\ preopen_paths \in [0..(MAX_LIST_LEN - 1) -> Entries \cup {NULL}]
  BY DEF Inv, TypeOK
<1>2. ret \in 0..(MAX_LIST_LEN - 1)
  BY <1>1
<1>3. preopen_paths[ret] \in Path
  BY <1>1, <1>2
<1>4. Agree(file_path, preopen_paths[ret])
  BY <1>1 DEF Inv, ReturnsFirstMatch, IsFirstMatch
<1>5. /\ file_path \in Path /\ Short(file_path)
      /\ Solid(file_path.comps) =
           IF caller = "preopen_from_dir" THEN ParentPlace(Place(file, cwd))
           ELSE Place(file, cwd)
  BY <1>1, ArgumentNames DEF ArgInv
<1>6. file_path.comps = preopen_paths[ret].comps
  BY <1>3, <1>4, <1>5, AgreeingPathsEqual
<1> QED BY <1>5, <1>6

(* For every list, name, working directory and caller: an entry that is    *)
(* found names the file, or the directory it is in, as long as no          *)
(* component is too long for get_path_component to show.                   *)
THEOREM HitCorrect == Spec => []HitNamesTarget
<1>1. Init => ArgInv
  BY DEF Init, ArgInv
<1>2. ArgInv /\ [Next]_vars => ArgInv'
  BY DEF ArgInv, Next, Descend, Match, Mismatch, NotFound, args, vars
<1> QED BY <1>1, <1>2, HitNames, InitInv, StepInv, PTL DEF Spec
=============================================================================
