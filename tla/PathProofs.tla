----------------------------- MODULE PathProofs -----------------------------
(***************************************************************************)
(* Facts about the path functions of open64.c, for every path: what they   *)
(* return, where it leads, and when two paths agree.                       *)
(***************************************************************************)
EXTENDS PreopenPaths, PositionsProofs

(* StrippedLen is 0 or the place of a component; only empty ones follow.   *)
LEMMA StrippedLenRange ==
  ASSUME NEW C, NEW c \in Seq(C)
  PROVE  /\ StrippedLen(c) \in 0..Len(c)
         /\ StrippedLen(c) # 0 => c[StrippedLen(c)] # Empty
         /\ \A m \in (StrippedLen(c) + 1)..Len(c) : c[m] = Empty
<1> DEFINE solid == {n \in 1..Len(c) : c[n] # Empty}
           last == CHOOSE m \in solid : \A k \in solid : k <= m
<1>1. Len(c) \in Nat
  OBVIOUS
<1>2. CASE solid = {}
  <2>1. StrippedLen(c) = 0
    BY <1>2 DEF StrippedLen
  <2>2. \A m \in 1..Len(c) : c[m] = Empty
    BY <1>2
  <2> QED BY <1>1, <2>1, <2>2
<1>3. CASE solid # {}
  <2>1. solid \subseteq 0..Len(c)
    BY <1>1
  <2>2. \E m \in solid : \A k \in solid : k <= m
    <3> HIDE DEF solid
    <3> QED BY <1>1, <1>3, <2>1, LargestExists, Zenon
  <2>3. last \in solid /\ \A k \in solid : k <= last
    <3> HIDE DEF solid
    <3> QED BY <2>2
  <2>4. StrippedLen(c) = last
    BY <1>3 DEF StrippedLen
  <2> HIDE DEF last
  <2>5. last \in 1..Len(c) /\ c[last] # Empty
    BY <2>3
  <2>6. ASSUME NEW m \in (last + 1)..Len(c), c[m] # Empty PROVE FALSE
    <3>1. m \in 1..Len(c) /\ ~(m <= last)
      BY <1>1, <2>5
    <3> QED BY <2>3, <2>6, <3>1
  <2> QED BY <1>1, <2>4, <2>5, <2>6
<1> QED BY <1>2, <1>3

(* The path functions return paths, over the components they were given.   *)
PathOver(C) == [root : BOOLEAN, comps : Seq(C) \ {<<>>}]

LEMMA RemoveLastType ==
  ASSUME NEW C, Empty \in C, NEW p \in PathOver(C) \cup {NULL}
  PROVE  remove_last_component(p) \in PathOver(C) \cup {NULL}
<1>1. CASE p = NULL
  BY <1>1 DEF remove_last_component
<1>2. CASE p # NULL
  <2> DEFINE n == StrippedLen(p.comps)
  <2>1. p \in PathOver(C) /\ p.comps \in Seq(C)
    BY <1>2 DEF PathOver
  <2>2. n \in 0..Len(p.comps)
    BY <2>1, StrippedLenRange
  <2>3. CASE n <= 1
    <3>1. remove_last_component(p) = EmptyString
      BY <1>2, <2>3 DEF remove_last_component
    <3> QED BY <3>1 DEF EmptyString, PathOver
  <2>4. CASE n > 1
    <3> DEFINE s == SubSeq(p.comps, 1, n - 1)
    <3>1. remove_last_component(p) = [p EXCEPT !.comps = s]
      <4> HIDE DEF n
      <4>1. remove_last_component(p) =
              IF n <= 1 THEN EmptyString ELSE [p EXCEPT !.comps = s]
        BY <1>2 DEF remove_last_component, n
      <4>2. ~(n <= 1)
        BY <2>2, <2>4
      <4> QED BY <4>1, <4>2
    <3>2. s \in Seq(C) /\ Len(s) = n - 1
      <4> HIDE DEF n
      <4> QED BY <2>1, <2>2, <2>4, SubSeqProperties
    <3>3. s # <<>>
      <4> HIDE DEF s
      <4> QED BY <2>2, <2>4, <3>2
    <3> HIDE DEF s
    <3> QED BY <2>1, <3>1, <3>2, <3>3 DEF PathOver
  <2> QED BY <2>2, <2>3, <2>4
<1> QED BY <1>1, <1>2

(* A name made absolute leads where the name led, whatever components are  *)
(* ignored besides the empty one: a trailing slash that is cut off is one  *)
(* of them.                                                                *)
WithoutDotSlash(comps) ==
  IF Head(comps) = Dot /\ Len(comps) > 1 THEN Tail(comps) ELSE comps

LEMMA AbsoluteName ==
  ASSUME NEW C, NEW p \in PathOver(C), NEW w \in PathOver(C) \cup {NULL},
         get_absolute_path(p, w) # NULL, NEW drop, Empty \in drop
  PROVE  /\ get_absolute_path(p, w) \in PathOver(C) /\ get_absolute_path(p, w).root
         /\ Keep(get_absolute_path(p, w).comps, drop) =
              IF p.root THEN Keep(p.comps, drop)
              ELSE Keep(w.comps, drop) \o Keep(WithoutDotSlash(p.comps), drop)
<1>1. CASE p.root
  BY <1>1 DEF get_absolute_path
<1>2. CASE ~p.root
  <2> DEFINE rest == WithoutDotSlash(p.comps)
             all == w.comps \o rest
             cut == IF Len(all) > 1 /\ all[Len(all)] = Empty
                    THEN SubSeq(all, 1, Len(all) - 1) ELSE all
  <2>0. w # NULL
    BY <1>2, Zenon DEF get_absolute_path
  <2>1. /\ p.comps \in Seq(C) /\ p.comps # <<>>
        /\ w.comps \in Seq(C) /\ w.comps # <<>>
    BY <2>0 DEF PathOver
  <2>2. rest \in Seq(C)
    BY <2>1, HeadTailProperties DEF WithoutDotSlash
  <2>3. all \in Seq(C) /\ Len(all) = Len(w.comps) + Len(rest)
    <3> HIDE DEF rest
    <3> QED BY <2>1, <2>2, ConcatProperties
  <2>4. Len(all) \in Nat /\ Len(all) >= 1 /\ all # <<>>
    <3> HIDE DEF rest
    <3>1. Len(w.comps) \in Nat \ {0} /\ Len(rest) \in Nat
      BY <2>1, <2>2, EmptySeq
    <3>2. Len(all) \in Nat /\ Len(all) >= 1
      <4> HIDE DEF all
      <4> QED BY <2>3, <3>1
    <3> HIDE DEF all
    <3> QED BY <3>2
  <2>5. cut \in Seq(C) /\ cut # <<>> /\ Keep(cut, drop) = Keep(all, drop)
    <3> HIDE DEF all
    <3>1. CASE Len(all) > 1 /\ all[Len(all)] = Empty
      <4>1. cut = SubSeq(all, 1, Len(all) - 1)
        BY <3>1
      <4>2. cut \in Seq(C) /\ Keep(cut, drop) = Keep(all, drop)
        <5>1. all[Len(all)] \in drop
          BY <3>1
        <5> HIDE DEF cut
        <5> QED BY <2>3, <2>4, <4>1, <5>1, KeepCut, Zenon
      <4>3. Len(cut) = Len(all) - 1
        <5>1. ASSUME NEW k \in 1..(Len(all) - 1) PROVE all[k] \in C
          <6>1. k \in 1..Len(all)
            BY <2>4
          <6> QED BY <2>3, <6>1, ElementOfSeq, Zenon
        <5> HIDE DEF cut
        <5> QED BY <2>4, <3>1, <4>1, <5>1, SubSeqProperties
      <4> HIDE DEF cut
      <4> QED BY <2>4, <3>1, <4>2, <4>3
    <3>2. CASE ~(Len(all) > 1 /\ all[Len(all)] = Empty)
      <4>1. cut = all
        BY <3>2
      <4> HIDE DEF cut
      <4> QED BY <2>3, <2>4, <4>1
    <3> QED BY <3>1, <3>2
  <2>6. get_absolute_path(p, w) = IF Len(all) > PathMax THEN NULL
                                  ELSE [root |-> TRUE, comps |-> cut]
    BY <1>2, <2>0, Zenon DEF get_absolute_path, WithoutDotSlash
  <2>7. Keep(all, drop) = Keep(w.comps, drop) \o Keep(rest, drop)
    <3>1. \A q \in Seq(C) : \A t \in Seq(C) :
            Keep(q \o t, drop) = Keep(q, drop) \o Keep(t, drop)
      BY KeepConcat
    <3> HIDE DEF rest
    <3> QED BY <2>1, <2>2, <3>1, Zenon
  <2> HIDE DEF cut, all, rest
  <2>8. get_absolute_path(p, w) = [root |-> TRUE, comps |-> cut]
    BY <2>6
  <2>9. /\ [root |-> TRUE, comps |-> cut] \in PathOver(C)
        /\ [root |-> TRUE, comps |-> cut].comps = cut
        /\ [root |-> TRUE, comps |-> cut].root
    BY <2>5 DEF PathOver
  <2> QED BY <1>2, <2>5, <2>7, <2>8, <2>9, Zenon DEF rest
<1> QED BY <1>1, <1>2

(* Cutting a path at its last slash leads to the parent, whatever slashes  *)
(* the path ends in, unless the component cut off is itself ignored.       *)
LEMMA ParentName ==
  ASSUME NEW C, Empty \in C, NEW p \in PathOver(C), p # NULL, NEW drop, Empty \in drop,
         StrippedLen(p.comps) # 0 => p.comps[StrippedLen(p.comps)] \notin drop
  PROVE  Keep(remove_last_component(p).comps, drop)
           = SubSeq(Keep(p.comps, drop), 1, Len(Keep(p.comps, drop)) - 1)
<1> DEFINE c == p.comps
           n == StrippedLen(c)
           k == Keep(c, drop)
<1>1. c \in Seq(C) /\ Len(c) \in Nat
  BY DEF PathOver
<1>2. /\ n \in 0..Len(c)
      /\ n # 0 => c[n] \notin drop
      /\ \A m \in (n + 1)..Len(c) : c[m] = Empty
  <2>1. n # 0 => c[n] \notin drop
    OBVIOUS
  <2> HIDE DEF c
  <2>2. n \in 0..Len(c) /\ \A m \in (n + 1)..Len(c) : c[m] = Empty
    BY <1>1, StrippedLenRange
  <2> QED BY <2>1, <2>2
<1>3. k \in Seq(C)
  <2> HIDE DEF c
  <2> QED BY <1>1, KeepType
<1>4. remove_last_component(p) =
        IF n <= 1 THEN EmptyString ELSE [p EXCEPT !.comps = SubSeq(c, 1, n - 1)]
  BY DEF remove_last_component
<1>5. Keep(<<Empty>>, drop) = <<>>
  <2>1. <<Empty>> \in Seq(C) /\ \A m \in 1..Len(<<Empty>>) : <<Empty>>[m] \in drop
    OBVIOUS
  <2> QED BY <2>1, KeepNone, Zenon
<1> HIDE DEF c, n
<1>6. CASE n = 0
  <2>1. \A m \in 1..Len(c) : c[m] \in drop
    BY <1>2, <1>6
  <2>2. k = <<>>
    BY <1>1, <2>1, KeepNone
  <2>3. SubSeq(k, 1, Len(k) - 1) = <<>>
    BY <2>2
  <2>4. remove_last_component(p).comps = <<Empty>>
    BY <1>4, <1>6 DEF EmptyString
  <2> QED BY <1>5, <2>3, <2>4, Zenon DEF c
<1>7. CASE n # 0
  <2>1. n \in 1..Len(c) /\ c[n] \notin drop
    <3>1. n \in 1..Len(c)
      BY <1>1, <1>2, <1>7
    <3> QED BY <1>2, <1>7, <3>1
  <2>2. \A m \in (n + 1)..Len(c) : c[m] \in drop
    BY <1>2
  <2>3. Keep(SubSeq(c, 1, n - 1), drop) = SubSeq(k, 1, Len(k) - 1)
    BY <1>1, <2>1, <2>2, KeepFront, Zenon
  <2>4. CASE n = 1
    <3>1. SubSeq(c, 1, n - 1) = <<>>
      BY <1>1, <2>4
    <3>2. Keep(<<>>, drop) = <<>>
      <4>1. <<>> \in Seq(C) /\ \A m \in 1..Len(<<>>) : <<>>[m] \in drop
        OBVIOUS
      <4> QED BY <4>1, KeepNone, Zenon
    <3>3. remove_last_component(p).comps = <<Empty>>
      BY <1>4, <2>4 DEF EmptyString
    <3> QED BY <1>5, <2>3, <3>1, <3>2, <3>3, Zenon DEF c
  <2>5. CASE n # 1
    <3>1. ~(n <= 1)
      BY <2>1, <2>5
    <3>2. remove_last_component(p).comps = SubSeq(c, 1, n - 1)
      BY <1>4, <3>1, Zenon DEF PathOver
    <3> QED BY <2>3, <3>2, Zenon DEF c
  <2> QED BY <2>4, <2>5
<1> QED BY <1>6, <1>7

(* The paths all of whose components are shown.                            *)
LEMMA ShortPathOver ==
  ASSUME NEW p \in Path, Short(p)
  PROVE  p \in PathOver(Component \ LongComponent)
<1>1. p.comps \in Seq(Component) /\ p.comps # <<>> /\ p # NULL
  BY NullIsNoPath DEF Path
<1>2. \A n \in 1..Len(p.comps) : p.comps[n] \in Component \ LongComponent
  BY <1>1, ElementOfSeq DEF Short
<1>3. p.comps \in Seq(Component \ LongComponent)
  BY <1>1, <1>2
<1> QED BY <1>1, <1>3 DEF Path, PathOver

LEMMA PathOverShort ==
  ASSUME NEW p \in PathOver(Component \ LongComponent)
  PROVE  p \in Path /\ Short(p)
<1> DEFINE C == Component \ LongComponent
<1>1. p.comps \in Seq(C) /\ p.comps # <<>>
  BY DEF PathOver
<1>2. \A n \in 1..Len(p.comps) : p.comps[n] \in C
  <2> HIDE DEF C
  <2> QED BY <1>1, ElementOfSeq
<1>3. p.comps \in Seq(Component)
  BY <1>1, <1>2
<1> QED BY <1>1, <1>2, <1>3 DEF Path, PathOver, Short

(* Agreeing paths are equal where no component is too long to be shown.    *)
LEMMA AgreeingPathsEqual ==
  ASSUME NEW p \in Path, NEW q \in Path, Short(p), Short(q), Agree(p, q)
  PROVE  p.comps = q.comps
<1>1. p # NULL /\ q # NULL
  BY NullIsNoPath
<1>2. p.comps \in Seq(Component) /\ q.comps \in Seq(Component)
  BY DEF Path
<1>3. /\ \A n \in 1..Len(p.comps) : p.comps[n] \notin LongComponent
      /\ \A n \in 1..Len(q.comps) : q.comps[n] \notin LongComponent
  BY <1>1 DEF Short
<1>4. /\ Shown(p) = {n \in 1..Len(p.comps) : \A m \in 1..n : p.comps[m] \notin LongComponent}
      /\ Shown(q) = {n \in 1..Len(q.comps) : \A m \in 1..n : q.comps[m] \notin LongComponent}
  BY <1>1 DEF Shown
<1>5. Shown(p) = 1..Len(p.comps) /\ Shown(q) = 1..Len(q.comps)
  <2>1. Len(p.comps) \in Nat /\ Len(q.comps) \in Nat
    BY <1>2
  <2> QED BY <1>3, <1>4, <2>1
<1>6. Len(p.comps) = Len(q.comps)
  <2>1. 1..Len(p.comps) = 1..Len(q.comps)
    BY <1>5, Zenon DEF Agree
  <2>2. Len(p.comps) \in Nat /\ Len(q.comps) \in Nat
    BY <1>2
  <2>3. ASSUME NEW a \in Nat, NEW b \in Nat, 1..a = 1..b PROVE a = b
    <3>1. CASE a < b
      <4>1. b \in 1..b /\ b \notin 1..a
        BY <3>1
      <4> QED BY <2>3, <4>1
    <3>2. CASE b < a
      <4>1. a \in 1..a /\ a \notin 1..b
        BY <3>2
      <4> QED BY <2>3, <4>1
    <3> QED BY <3>1, <3>2
  <2> QED BY <2>1, <2>2, <2>3
<1>7. \A n \in 1..Len(p.comps) : p.comps[n] = q.comps[n]
  BY <1>5 DEF Agree
<1> QED BY <1>2, <1>6, <1>7, SeqEqual

-----------------------------------------------------------------------------
(* While get_path_component keeps returning components, they are the ones  *)
(* the path shows; the first NULL is where it stops showing any.           *)
LEMMA ShownPrefix ==
  ASSUME NEW p \in Path \cup {NULL}, NEW d \in Nat,
         \A e \in 0..(d - 1) : get_path_component(p, e) # NULL
  PROVE  /\ \A n \in 1..d : n \in Shown(p) /\ p.comps[n] = get_path_component(p, n - 1)
         /\ get_path_component(p, d) = NULL => Shown(p) = 1..d
         /\ get_path_component(p, d) # NULL =>
              d + 1 \in Shown(p) /\ p.comps[d + 1] = get_path_component(p, d)
<1> USE ComponentAssumption, NullIsNoPath
<1>1. CASE p = NULL
  <2>1. d = 0
    BY <1>1 DEF get_path_component
  <2> QED BY <1>1, <2>1 DEF Shown, get_path_component
<1>2. CASE p # NULL
  <2>1. p.comps \in Seq(Component) /\ Len(p.comps) \in Nat
    BY <1>2 DEF Path
  <2>2. \A n \in 1..Len(p.comps) : p.comps[n] \in Component
    BY <2>1, ElementOfSeq
  <2>3. \A e \in Nat : get_path_component(p, e) # NULL <=>
                         e < Len(p.comps) /\ p.comps[e + 1] \notin LongComponent
    BY <1>2, <2>1, <2>2 DEF get_path_component
  <2>4. \A e \in Nat : get_path_component(p, e) # NULL =>
                         p.comps[e + 1] = get_path_component(p, e)
    BY <1>2 DEF get_path_component
  <2>5. \A n \in 1..d : /\ n <= Len(p.comps) /\ p.comps[n] \notin LongComponent
                        /\ p.comps[n] = get_path_component(p, n - 1)
    <3>1. SUFFICES ASSUME NEW n \in 1..d
                   PROVE  /\ n <= Len(p.comps) /\ p.comps[n] \notin LongComponent
                          /\ p.comps[n] = get_path_component(p, n - 1)
      OBVIOUS
    <3>2. n - 1 \in 0..(d - 1) /\ n - 1 \in Nat /\ (n - 1) + 1 = n
      OBVIOUS
    <3>3. get_path_component(p, n - 1) # NULL
      BY <3>2
    <3> QED BY <2>1, <2>3, <2>4, <3>2, <3>3
  <2>6. Shown(p) = {n \in 1..Len(p.comps) :
                      \A m \in 1..n : p.comps[m] \notin LongComponent}
    BY <1>2 DEF Shown
  <2>7. \A n \in 1..d : n \in Shown(p)
    BY <2>1, <2>5, <2>6
  <2>8. ASSUME get_path_component(p, d) = NULL
        PROVE  Shown(p) = 1..d
    <3>1. ~(d < Len(p.comps) /\ p.comps[d + 1] \notin LongComponent)
      BY <2>3, <2>8
    <3>2. ASSUME NEW n \in Shown(p) PROVE n \in 1..d
      <4>1. n \in 1..Len(p.comps) /\ \A m \in 1..n : p.comps[m] \notin LongComponent
        BY <2>6
      <4>2. ASSUME n > d PROVE FALSE
        <5>1. d + 1 \in 1..n /\ d < Len(p.comps)
          BY <2>1, <4>1, <4>2
        <5> QED BY <3>1, <4>1, <5>1
      <4> QED BY <2>1, <4>1, <4>2
    <3> QED BY <2>7, <3>2, Zenon
  <2>9. ASSUME get_path_component(p, d) # NULL
        PROVE  d + 1 \in Shown(p)
    <3>1. d < Len(p.comps) /\ p.comps[d + 1] \notin LongComponent
      BY <2>3, <2>9
    <3>2. d + 1 \in 1..Len(p.comps)
      BY <2>1, <3>1
    <3>3. \A m \in 1..(d + 1) : m \in 1..d \/ m = d + 1
      OBVIOUS
    <3> QED BY <2>5, <2>6, <3>1, <3>2, <3>3
  <2> QED BY <2>4, <2>5, <2>7, <2>8, <2>9
<1> QED BY <1>1, <1>2

(* Two paths whose components are equal until both end agree.              *)
LEMMA EqualToTheEndAgree ==
  ASSUME NEW p \in Path \cup {NULL}, NEW q \in Path \cup {NULL}, NEW d \in Nat,
         \A e \in 0..(d - 1) : /\ get_path_component(p, e) # NULL
                               /\ get_path_component(p, e) = get_path_component(q, e),
         get_path_component(p, d) = NULL, get_path_component(q, d) = NULL
  PROVE  Agree(p, q)
<1>1. /\ Shown(p) = 1..d
      /\ \A n \in 1..d : p.comps[n] = get_path_component(p, n - 1)
  BY ShownPrefix
<1>2. /\ Shown(q) = 1..d
      /\ \A n \in 1..d : q.comps[n] = get_path_component(q, n - 1)
  BY ShownPrefix
<1>3. \A n \in 1..d : get_path_component(p, n - 1) = get_path_component(q, n - 1)
  <2>1. \A n \in 1..d : n - 1 \in 0..(d - 1)
    OBVIOUS
  <2> QED BY <2>1
<1> QED BY <1>1, <1>2, <1>3 DEF Agree

(* Agreeing paths have the same component, or both none, at the first      *)
(* depth not compared yet.                                                 *)
LEMMA AgreeingPathsDoNotDiffer ==
  ASSUME NEW p \in Path \cup {NULL}, NEW q \in Path \cup {NULL}, NEW d \in Nat,
         \A e \in 0..(d - 1) : /\ get_path_component(p, e) # NULL
                               /\ get_path_component(p, e) = get_path_component(q, e),
         Agree(p, q)
  PROVE  get_path_component(p, d) = get_path_component(q, d)
<1>1. /\ get_path_component(p, d) = NULL => Shown(p) = 1..d
      /\ get_path_component(p, d) # NULL =>
           d + 1 \in Shown(p) /\ p.comps[d + 1] = get_path_component(p, d)
  BY ShownPrefix
<1>2. /\ get_path_component(q, d) = NULL => Shown(q) = 1..d
      /\ get_path_component(q, d) # NULL =>
           d + 1 \in Shown(q) /\ q.comps[d + 1] = get_path_component(q, d)
  BY ShownPrefix
<1>3. d + 1 \notin 1..d
  OBVIOUS
<1> QED BY <1>1, <1>2, <1>3 DEF Agree
=============================================================================
