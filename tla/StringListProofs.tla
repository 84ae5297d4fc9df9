-------------------------- MODULE StringListProofs --------------------------
(***************************************************************************)
(* get_string_list for every set of strings and every MAX_LIST_LEN.        *)
(*                                                                         *)
(* Types and list lengths hold for any number of threads.  What the list   *)
(* holds is proved for the tokenising loops of one thread, which do not    *)
(* run into each other's calls: a second thread in get_string_list shares  *)
(* strtok's pointer, and the tokens of both lists are then mixed up        *)
(* (Open64 models what its callers make of such lists).                    *)
(***************************************************************************)
EXTENDS StringList, PositionsProofs

Bytes == Chars \cup {NUL}

(* Every actor belongs to one thread: the library's loop and, perhaps, a   *)
(* loop of the application that calls open between two tokens.             *)
OneThread == \E t : Actors \subseteq {t} \X {"lib", "app"}

-----------------------------------------------------------------------------
(* The inductive invariants.  Types: the ranges of the variables.          *)
Types ==
  /\ text \in [Actors -> Texts \cup {<<>>}]
  /\ buf \in [Actors -> Seq(Bytes)]
  /\ live \subseteq Actors
  /\ olds \in Pointer \cup {NULL}
  /\ pc \in [Actors -> {"idle", "load", "scan", "test", "done"}]
  /\ s \in [Actors -> Pointer \cup {NULL}]
  /\ token \in [Actors -> Pointer \cup {NULL}]
  /\ result_list \in [Actors -> Seq(Seq(Bytes)) \cup {NULL}]
  /\ terminator \in [Actors -> Int]

(* strtok has a pointer wherever it uses one, and the list is a list until *)
(* the loop gave it up.                                                    *)
LoopControl(a) ==
  /\ pc[a] = "scan" => s[a] \in Pointer
  /\ pc[a] \in {"test", "load"} => olds \in Pointer
  /\ \/ pc[a] = "done" /\ result_list[a] = NULL
     \/ /\ result_list[a] \in Seq(Seq(Bytes))
        /\ IsLib(a) => Len(result_list[a]) <= MAX_LIST_LEN

Control == \A a \in Actors : LoopControl(a)

TypeInv == Types /\ Control

InCall(a) == IsLib(a) /\ pc[a] \in {"scan", "test", "load"}

Here(a) == IF pc[a] = "scan" THEN s[a] ELSE olds

(* The starts of the tokens that stand before position p.                  *)
Before(t, p) == {n \in Starts(t) : n < p}

(* strtok works in a's own string, at the beginning, at the end or behind  *)
(* a separator, and has not touched what follows.                          *)
AtBoundary(a) ==
  LET p == Here(a).pos
  IN  /\ Here(a).buf = a /\ a \in live
      /\ p \in 1..(Len(text[a]) + 1)
      /\ p \in {1, Len(text[a]) + 1} \/ text[a][p - 1] = Colon
      /\ Len(buf[a]) = Len(text[a])
      /\ \A m \in p..Len(text[a]) : buf[a][m] = text[a][m]

(* The list holds the first tokens of the string.                          *)
HoldsFirst(a, n) ==
  /\ n <= Cardinality(Starts(text[a]))
  /\ Len(result_list[a]) = n
  /\ \A k \in 1..n : result_list[a][k] = Split(text[a])[k]

(* The list has the tokens up to strtok's place, or all but the last one,  *)
(* which strtok has just returned.                                         *)
ListSoFar(a) ==
  LET n == Cardinality(Before(text[a], Here(a).pos))
  IN  IF pc[a] = "test" /\ token[a] # NULL
      THEN /\ n >= 1 /\ HoldsFirst(a, n - 1)
           /\ StringAt(token[a]) = Split(text[a])[n]
      ELSE HoldsFirst(a, n) /\ (pc[a] = "test" => n = Cardinality(Starts(text[a])))

(* The finished list is the one ListIsSplit names, and NULL was stored     *)
(* behind its last element.                                                *)
ListRight(a) ==
  pc[a] = "done" /\ result_list[a] # NULL =>
    /\ result_list[a] = SubSeq(Split(text[a]), 1, Min({Len(Split(text[a])), MAX_LIST_LEN}))
    /\ terminator[a] = Len(result_list[a])

LoopOf(a) ==
  /\ InCall(a) => AtBoundary(a) /\ ListSoFar(a)
  /\ ListRight(a)

LoopInv == \A a \in Actors : IsLib(a) => LoopOf(a)

CallInv == TypeInv /\ LoopInv

-----------------------------------------------------------------------------
(* What Min and Max return.                                                *)
LEMMA MinIs ==
  ASSUME NEW S, S \subseteq Nat, NEW m \in S, \A k \in S : m <= k
  PROVE  Min(S) = m
<1>1. ASSUME NEW x \in S, \A y \in S : x <= y PROVE x = m
  <2>1. x <= m /\ m <= x /\ x \in Nat /\ m \in Nat
    BY <1>1
  <2> QED BY <2>1
<1>2. \E x \in S : \A y \in S : x =< y
  OBVIOUS
<1> QED BY <1>1, <1>2, Zenon DEF Min

LEMMA MinType ==
  ASSUME NEW S, S \subseteq Nat, S # {}
  PROVE  Min(S) \in S /\ \A k \in S : Min(S) <= k
<1>1. PICK m \in S : \A k \in S : m <= k
  BY LeastExists, Zenon
<1>2. Min(S) = m
  BY <1>1, MinIs, Zenon
<1> QED BY <1>1, <1>2

LEMMA MaxPair ==
  ASSUME NEW x \in Nat, NEW y \in Nat
  PROVE  Max({x, y}) \in {x, y} /\ Max({x, y}) >= x /\ Max({x, y}) >= y
<1>1. \E m \in {x, y} : \A k \in {x, y} : m >= k
  <2>1. x >= y \/ y >= x
    OBVIOUS
  <2>2. x >= x /\ y >= y
    OBVIOUS
  <2> QED BY <2>1, <2>2
<1>2. Max({x, y}) \in {x, y} /\ \A k \in {x, y} : Max({x, y}) >= k
  BY <1>1 DEF Max
<1> QED BY <1>2

LEMMA MinPair ==
  ASSUME NEW x \in Nat, NEW y \in Nat
  PROVE  Min({x, y}) = IF x <= y THEN x ELSE y
<1>1. CASE x <= y
  <2>1. \A k \in {x, y} : x <= k
    BY <1>1
  <2> QED BY <1>1, <2>1, MinIs
<1>2. CASE ~(x <= y)
  <2>1. \A k \in {x, y} : y <= k
    BY <1>2
  <2> QED BY <1>2, <2>1, MinIs
<1> QED BY <1>1, <1>2

-----------------------------------------------------------------------------
(* The bytes of a buffer: NUL from its end on.                             *)
LEMMA ByteType ==
  ASSUME Types, NEW b \in Actors, NEW n \in Nat \ {0}
  PROVE  /\ buf[b] \in Seq(Bytes) /\ Len(buf[b]) \in Nat
         /\ Byte(b, n) \in Bytes
         /\ n > Len(buf[b]) => Byte(b, n) = NUL
         /\ n <= Len(buf[b]) => Byte(b, n) = buf[b][n]
<1>1. buf[b] \in Seq(Bytes)
  BY DEF Types
<1>2. Len(buf[b]) \in Nat
  BY <1>1, LenProperties
<1>3. n <= Len(buf[b]) => buf[b][n] \in Bytes
  <2>1. n <= Len(buf[b]) => n \in 1..Len(buf[b])
    BY <1>2
  <2> QED BY <1>1, <2>1, ElementOfSeq
<1>4. NUL \in Bytes
  BY DEF Bytes
<1>5. n > Len(buf[b]) => ~(n <= Len(buf[b]))
  BY <1>2
<1> QED BY <1>1, <1>2, <1>3, <1>4, <1>5 DEF Byte

(* strspn stops at the first byte that is no separator.                    *)
LEMMA SpanStops ==
  ASSUME Types, NEW b \in Actors, NEW n \in Nat \ {0}
  PROVE  /\ Span(b, n) \in Nat \ {0} /\ n <= Span(b, n)
         /\ Byte(b, Span(b, n)) # Colon
         /\ \A m \in n..(Span(b, n) - 1) : Byte(b, m) = Colon
<1> DEFINE top == Max({n, Len(buf[b]) + 1})
           S == {m \in n..top : Byte(b, m) # Colon}
<1>1. Len(buf[b]) \in Nat
  BY ByteType
<1>2. top \in Nat /\ top >= n /\ top >= Len(buf[b]) + 1
  BY <1>1, MaxPair
<1> HIDE DEF top
<1>3. Byte(b, top) = NUL
  BY <1>1, <1>2, ByteType
<1>4. S \subseteq Nat /\ S # {}
  <2>1. top \in S
    BY <1>2, <1>3, StringListAssumption
  <2> QED BY <1>2, <2>1
<1>5. Span(b, n) = Min(S)
  BY DEF Span, top
<1>6. Min(S) \in S /\ \A k \in S : Min(S) <= k
  <2> HIDE DEF S
  <2> QED BY <1>4, MinType, Zenon
<1>7. Span(b, n) \in n..top /\ Byte(b, Span(b, n)) # Colon
  BY <1>5, <1>6
<1>8. ASSUME NEW m \in n..(Span(b, n) - 1) PROVE Byte(b, m) = Colon
  <2>1. m \in n..top /\ ~(Span(b, n) <= m)
    BY <1>2, <1>7
  <2>2. m \notin S
    BY <1>5, <1>6, <2>1
  <2> QED BY <2>1, <2>2
<1> QED BY <1>2, <1>7, <1>8

(* strcspn stops at the first separator or at the end.                     *)
LEMMA CSpanStops ==
  ASSUME Types, NEW b \in Actors, NEW n \in Nat \ {0}, Byte(b, n) \notin {Colon, NUL}
  PROVE  /\ CSpan(b, n) \in Nat \ {0} /\ n < CSpan(b, n) /\ CSpan(b, n) <= Len(buf[b]) + 1
         /\ Byte(b, CSpan(b, n)) \in {Colon, NUL}
         /\ \A m \in n..(CSpan(b, n) - 1) : Byte(b, m) \notin {Colon, NUL}
         /\ n <= Len(buf[b])
<1> DEFINE top == Len(buf[b]) + 1
           S == {m \in n..top : Byte(b, m) \in {Colon, NUL}}
<1>1. Len(buf[b]) \in Nat /\ n <= Len(buf[b])
  BY ByteType
<1>2. top \in Nat \ {0} /\ top > n /\ top > Len(buf[b])
  BY <1>1
<1>3. Byte(b, top) = NUL
  <2> HIDE DEF top
  <2> QED BY <1>2, ByteType
<1>4. S \subseteq Nat /\ S # {}
  <2>1. top \in S
    BY <1>2, <1>3
  <2> HIDE DEF top
  <2> QED BY <1>2, <2>1
<1>5. CSpan(b, n) = Min(S)
  BY DEF CSpan
<1>6. Min(S) \in S /\ \A k \in S : Min(S) <= k
  <2> HIDE DEF S
  <2> QED BY <1>4, MinType, Zenon
<1> HIDE DEF top
<1>7. CSpan(b, n) \in n..top /\ Byte(b, CSpan(b, n)) \in {Colon, NUL}
  BY <1>5, <1>6
<1>8. CSpan(b, n) # n
  BY <1>7
<1>9. ASSUME NEW m \in n..(CSpan(b, n) - 1) PROVE Byte(b, m) \notin {Colon, NUL}
  <2>1. m \in n..top /\ ~(CSpan(b, n) <= m)
    BY <1>2, <1>7
  <2>2. m \notin S
    BY <1>5, <1>6, <2>1
  <2> QED BY <2>1, <2>2
<1> QED BY <1>1, <1>2, <1>7, <1>8, <1>9 DEF top

(* A pointer's string ends at the first NUL.                               *)
LEMMA StringEnds ==
  ASSUME Types, NEW p \in Pointer
  PROVE  /\ StringAt(p) \in Seq(Bytes)
         /\ \A e \in Nat : (/\ p.pos <= e /\ Byte(p.buf, e) = NUL
                            /\ \A m \in p.pos..(e - 1) : Byte(p.buf, m) # NUL)
                           => StringAt(p) = SubSeq(buf[p.buf], p.pos, e - 1)
<1> DEFINE b == p.buf
           n == p.pos
           top == Max({n, Len(buf[b]) + 1})
           S == {m \in n..top : Byte(b, m) = NUL}
<1>1. b \in Actors /\ n \in Nat \ {0}
  BY DEF Pointer
<1>2. StringAt(p) = SubSeq(buf[b], n, Min(S) - 1)
  BY DEF StringAt
<1> HIDE DEF b, n
<1>3. Len(buf[b]) \in Nat
  BY <1>1, ByteType
<1>4. top \in Nat \ {0} /\ top >= n /\ top >= Len(buf[b]) + 1
  BY <1>1, <1>3, MaxPair
<1> HIDE DEF top
<1>5. top \in S
  <2>1. Byte(b, top) = NUL
    BY <1>1, <1>3, <1>4, ByteType
  <2> QED BY <1>1, <1>4, <2>1
<1>6. S \subseteq Nat /\ S # {}
  BY <1>1, <1>4, <1>5
<1>7. Min(S) \in S /\ \A k \in S : Min(S) <= k
  <2> HIDE DEF S
  <2> QED BY <1>6, MinType, Zenon
<1>8. Min(S) \in n..top /\ \A m \in n..(Min(S) - 1) : Byte(b, m) # NUL
  <2>1. Min(S) \in n..top
    BY <1>7
  <2>2. ASSUME NEW m \in n..(Min(S) - 1) PROVE Byte(b, m) # NUL
    <3> DEFINE x == Min(S)
    <3>1. x \in n..top /\ m \in n..(x - 1)
      BY <2>1
    <3> HIDE DEF x
    <3>2. m \in n..top /\ ~(x <= m)
      BY <1>1, <1>4, <3>1
    <3>3. m \notin S
      BY <1>7, <3>2 DEF x
    <3> QED BY <3>2, <3>3
  <2> QED BY <2>1, <2>2
<1>9. StringAt(p) \in Seq(Bytes)
  <2> DEFINE x == Min(S)
  <2>1. x \in Nat
    BY <1>1, <1>4, <1>8
  <2>2. ASSUME NEW m \in n..(x - 1) PROVE buf[b][m] \in Bytes
    <3>1. m \in Nat \ {0} /\ Byte(b, m) # NUL
      BY <1>1, <1>8
    <3>2. ~(m > Len(buf[b]))
      BY <1>1, <3>1, ByteType
    <3>3. m <= Len(buf[b])
      BY <1>3, <3>1, <3>2
    <3> QED BY <1>1, <3>1, <3>3, ByteType
  <2> HIDE DEF x
  <2>3. n \in Int /\ x - 1 \in Int
    BY <1>1, <2>1
  <2>4. SubSeq(buf[b], n, x - 1) \in Seq(Bytes)
    BY <2>2, <2>3, SubSeqProperties
  <2> QED BY <1>2, <2>4 DEF x
<1>10. ASSUME NEW e \in Nat, n <= e, Byte(b, e) = NUL, \A m \in n..(e - 1) : Byte(b, m) # NUL
       PROVE  Min(S) = e
  <2> DEFINE x == Min(S)
  <2>1. x \in Nat /\ n <= x /\ x <= top /\ Byte(b, x) = NUL
    BY <1>1, <1>4, <1>7, <1>8
  <2>2. \A m \in n..(x - 1) : Byte(b, m) # NUL
    BY <1>8
  <2> HIDE DEF x
  <2>3. ~(x < e)
    <3>1. x < e => x \in n..(e - 1)
      BY <1>1, <2>1
    <3> QED BY <1>10, <2>1, <3>1
  <2>4. ~(e < x)
    <3>1. e < x => e \in n..(x - 1)
      BY <1>1, <1>10, <2>1
    <3> QED BY <1>10, <2>2, <3>1
  <2>5. x = e
    BY <2>1, <2>3, <2>4
  <2> QED BY <2>5 DEF x
<1>11. ASSUME NEW e \in Nat, n <= e, Byte(b, e) = NUL, \A m \in n..(e - 1) : Byte(b, m) # NUL
       PROVE  StringAt(p) = SubSeq(buf[b], n, e - 1)
  BY <1>2, <1>10, <1>11, Zenon
<1> QED BY <1>9, <1>11 DEF b, n

(* The same, of every pointer.                                             *)
StringsEnd ==
  \A p \in Pointer : \A e \in Nat :
    (/\ p.pos <= e /\ Byte(p.buf, e) = NUL
     /\ \A m \in p.pos..(e - 1) : Byte(p.buf, m) # NUL)
    => StringAt(p) = SubSeq(buf[p.buf], p.pos, e - 1)

LEMMA StringEndsEverywhere == Types => StringsEnd
  BY StringEnds DEF StringsEnd

LEMMA SameStretch ==
  ASSUME NEW E, NEW u, NEW v, NEW i \in Int, NEW j \in Int,
         \A m \in i..j : u[m] \in E /\ u[m] = v[m]
  PROVE  SubSeq(u, i, j) = SubSeq(v, i, j)
<1> DEFINE x == SubSeq(u, i, j)
           y == SubSeq(v, i, j)
<1>1. /\ x \in Seq(E) /\ Len(x) = IF i <= j THEN j - i + 1 ELSE 0
      /\ \A m \in 1..(j - i + 1) : x[m] = u[i + m - 1]
  BY SubSeqProperties
<1>2. /\ y \in Seq(E) /\ Len(y) = IF i <= j THEN j - i + 1 ELSE 0
      /\ \A m \in 1..(j - i + 1) : y[m] = v[i + m - 1]
  BY SubSeqProperties
<1> HIDE DEF x, y
<1>3. Len(x) = Len(y) /\ \A m \in 1..Len(x) : x[m] = y[m]
  <2>1. ASSUME NEW m \in 1..Len(x) PROVE x[m] = y[m]
    <3>1. m \in 1..(j - i + 1) /\ i + m - 1 \in i..j
      BY <1>1
    <3> QED BY <1>1, <1>2, <3>1
  <2> QED BY <1>1, <1>2, <2>1
<1>4. x = y
  BY <1>1, <1>2, <1>3, SeqEqual
<1> QED BY <1>4 DEF x, y

-----------------------------------------------------------------------------
LEMMA InitTypes == Init => TypeInv
<1> SUFFICES ASSUME Init PROVE TypeInv
  OBVIOUS
<1> USE StringListAssumption
<1>1. Types
  <2>1. [a \in Actors |-> <<>>] \in [Actors -> Seq(Bytes)]
    OBVIOUS
  <2>2. [a \in Actors |-> <<>>] \in [Actors -> Seq(Seq(Bytes)) \cup {NULL}]
    OBVIOUS
  <2> QED BY <2>1, <2>2 DEF Init, Types
<1>2. Control
  BY DEF Init, Control, LoopControl
<1> QED BY <1>1, <1>2 DEF TypeInv

Act(b) == Start(b) \/ Step(b)

(* The step of another actor leaves a loop's own variables alone.          *)
LEMMA OthersKept ==
  ASSUME Types, NEW a \in Actors, NEW b \in Actors, a # b, Act(b)
  PROVE  /\ text'[a] = text[a] /\ pc'[a] = pc[a] /\ s'[a] = s[a] /\ token'[a] = token[a]
         /\ result_list'[a] = result_list[a] /\ terminator'[a] = terminator[a]
<1>1. CASE Start(b)
  BY <1>1 DEF Start, Types
<1>2. CASE Load(b)
  BY <1>2 DEF Load, Types
<1>3. CASE Scan(b)
  <2>1. /\ pc' = [pc EXCEPT ![b] = "test"]
        /\ UNCHANGED <<text, live, s, result_list, terminator>>
        /\ \E x : token' = [token EXCEPT ![b] = x]
    BY <1>3, Zenon DEF Scan
  <2> QED BY <2>1 DEF Types
<1>4. CASE Append1(b)
  BY <1>4 DEF Append1, Types
<1>5. CASE OutOfMemory(b)
  BY <1>5 DEF OutOfMemory, Types
<1>6. CASE Finish(b)
  BY <1>6 DEF Finish, Types
<1> QED BY <1>1, <1>2, <1>3, <1>4, <1>5, <1>6 DEF Act, Step

(* The bytes of a freed buffer are still bytes.                            *)
LEMMA FreedType ==
  ASSUME Types, NEW a \in Actors, FreeBuffer(a)
  PROVE  buf' \in [Actors -> Seq(Bytes)] /\ live' \subseteq Actors
<1>1. PICK g \in Texts \cup {buf[a]} : buf' = [buf EXCEPT ![a] = g]
  BY Zenon DEF FreeBuffer
<1>2. g \in Seq(Bytes)
  <2>1. Texts \subseteq Seq(Bytes)
    <3>1. ASSUME NEW t \in Texts PROVE t \in Seq(Bytes)
      <4>1. t \in Seq(Chars) /\ Chars \subseteq Bytes
        BY StringListAssumption DEF Bytes
      <4> QED BY <4>1, SeqMonotonic
    <3> QED BY <3>1
  <2>2. buf[a] \in Seq(Bytes)
    BY DEF Types
  <2> QED BY <1>1, <2>1, <2>2
<1>3. live' \subseteq Actors
  BY DEF FreeBuffer, Types
<1> QED BY <1>1, <1>2, <1>3 DEF Types

(* strtok returns a pointer or NULL, and saves a pointer.                  *)
LEMMA ScanTypes ==
  ASSUME TypeInv, NEW a \in Actors, Scan(a)
  PROVE  /\ olds' \in Pointer
         /\ token' \in [Actors -> Pointer \cup {NULL}]
         /\ buf' \in [Actors -> Seq(Bytes)]
<1> DEFINE b == s[a].buf
           start == Span(b, s[a].pos)
           end == CSpan(b, start)
<1>1. Types /\ s[a] \in Pointer
  BY DEF TypeInv, Control, LoopControl, Scan
<1>2. b \in Actors /\ s[a].pos \in Nat \ {0}
  BY <1>1 DEF Pointer
<1>3. start \in Nat \ {0} /\ Byte(b, start) # Colon
  BY <1>1, <1>2, SpanStops
<1>4. Byte(b, start) # NUL => /\ end \in Nat \ {0} /\ end <= Len(buf[b]) + 1
                              /\ Byte(b, end) \in {Colon, NUL}
  <2> HIDE DEF start
  <2>1. Byte(b, start) # NUL => Byte(b, start) \notin {Colon, NUL}
    BY <1>3
  <2> QED BY <1>1, <1>2, <1>3, <2>1, CSpanStops
<1>5. \/ /\ Byte(b, start) = NUL
         /\ olds' = [buf |-> b, pos |-> start]
         /\ token' = [token EXCEPT ![a] = NULL]
         /\ UNCHANGED buf
      \/ /\ Byte(b, start) # NUL /\ Byte(b, end) = NUL
         /\ olds' = [buf |-> b, pos |-> end]
         /\ token' = [token EXCEPT ![a] = [buf |-> b, pos |-> start]]
         /\ UNCHANGED buf
      \/ /\ Byte(b, start) # NUL /\ Byte(b, end) = Colon
         /\ olds' = [buf |-> b, pos |-> end + 1]
         /\ token' = [token EXCEPT ![a] = [buf |-> b, pos |-> start]]
         /\ buf' = [buf EXCEPT ![b][end] = NUL]
  BY DEF Scan
<1>6. token \in [Actors -> Pointer \cup {NULL}] /\ buf \in [Actors -> Seq(Bytes)]
  BY <1>1 DEF Types
<1> HIDE DEF b, start, end
<1>7. [buf |-> b, pos |-> start] \in Pointer
  BY <1>2, <1>3 DEF Pointer
<1>8. CASE Byte(b, start) = NUL
  BY <1>5, <1>6, <1>7, <1>8, Zenon
<1>9. CASE Byte(b, start) # NUL
  <2>1. [buf |-> b, pos |-> end] \in Pointer /\ [buf |-> b, pos |-> end + 1] \in Pointer
    BY <1>2, <1>4, <1>9 DEF Pointer
  <2>2. CASE Byte(b, end) = NUL
    <3>1. Colon # NUL
      BY StringListAssumption
    <3> QED BY <1>5, <1>6, <1>7, <1>9, <2>1, <2>2, <3>1, Zenon
  <2>3. CASE Byte(b, end) = Colon
    <3>1. Colon # NUL
      BY StringListAssumption
    <3>2. buf' = [buf EXCEPT ![b][end] = NUL]
      BY <1>5, <1>9, <2>3, <3>1
    <3>3. end <= Len(buf[b]) /\ buf[b] \in Seq(Bytes)
      BY <1>1, <1>2, <1>4, <1>9, <2>3, <3>1, ByteType
    <3>4. [buf[b] EXCEPT ![end] = NUL] \in Seq(Bytes)
      <4>1. NUL \in Bytes
        BY DEF Bytes
      <4>2. end \in 1..Len(buf[b])
        BY <1>1, <1>2, <1>4, <1>9, <3>3, ByteType
      <4> QED BY <3>3, <4>1, <4>2, ExceptSeq
    <3>5. buf' \in [Actors -> Seq(Bytes)]
      BY <1>2, <1>6, <3>2, <3>4
    <3> QED BY <1>5, <1>6, <1>7, <1>9, <2>1, <2>3, <3>1, <3>5, Zenon
  <2> QED BY <1>4, <1>9, <2>2, <2>3
<1> QED BY <1>8, <1>9

(* A step of another loop keeps a loop's control, because the saved        *)
(* pointer, once there, is only ever replaced by another.                  *)
LEMMA ControlOfOthers ==
  ASSUME TypeInv, NEW a \in Actors, Act(a), LoopControl(a)', olds' = olds \/ olds' \in Pointer
  PROVE  Control'
<1>1. ASSUME NEW x \in Actors PROVE LoopControl(x)'
  <2>1. CASE x = a
    BY <2>1
  <2>2. CASE x # a
    <3>1. LoopControl(x)
      BY DEF TypeInv, Control, LoopControl
    <3>2. pc'[x] = pc[x] /\ s'[x] = s[x] /\ result_list'[x] = result_list[x]
      BY <2>2, OthersKept DEF TypeInv
    <3> QED BY <3>1, <3>2 DEF LoopControl
  <2> QED BY <2>1, <2>2
<1> QED BY <1>1 DEF Control, LoopControl

LEMMA StepTypes ==
  ASSUME TypeInv, NEW a \in Actors, Act(a)
  PROVE  TypeInv'
<1> USE StringListAssumption
<1>1. Types /\ LoopControl(a)
  BY DEF TypeInv, Control, LoopControl
<1>2. CASE Start(a)
  <2>1. PICK t \in Texts : /\ text' = [text EXCEPT ![a] = t]
                           /\ buf' = [buf EXCEPT ![a] = t]
    BY <1>2, Zenon DEF Start
  <2>2. t \in Seq(Bytes)
    <3>1. t \in Seq(Chars) /\ Chars \subseteq Bytes
      BY DEF Bytes
    <3> QED BY <3>1, SeqMonotonic
  <2>3. [buf |-> a, pos |-> 1] \in Pointer
    BY DEF Pointer
  <2>4. <<>> \in Seq(Seq(Bytes)) /\ Len(<<>>) = 0
    BY EmptySeq
  <2>5. Types'
    <3>1. text' \in [Actors -> Texts \cup {<<>>}] /\ buf' \in [Actors -> Seq(Bytes)]
      BY <1>1, <2>1, <2>2 DEF Types
    <3>2. /\ s' = [s EXCEPT ![a] = [buf |-> a, pos |-> 1]]
          /\ token' = [token EXCEPT ![a] = NULL]
          /\ result_list' = [result_list EXCEPT ![a] = <<>>]
          /\ terminator' = [terminator EXCEPT ![a] = -1] /\ pc' = [pc EXCEPT ![a] = "scan"]
          /\ live' = live \cup {a} /\ olds' = olds
      BY <1>2, Zenon DEF Start
    <3>3. s' \in [Actors -> Pointer \cup {NULL}] /\ token' \in [Actors -> Pointer \cup {NULL}]
      BY <1>1, <2>3, <3>2 DEF Types
    <3>4. /\ result_list' \in [Actors -> Seq(Seq(Bytes)) \cup {NULL}]
          /\ terminator' \in [Actors -> Int]
      BY <1>1, <2>4, <3>2 DEF Types
    <3>5. pc' \in [Actors -> {"idle", "load", "scan", "test", "done"}] /\ live' \subseteq Actors
          /\ olds' \in Pointer \cup {NULL}
      BY <1>1, <3>2 DEF Types
    <3> QED BY <3>1, <3>3, <3>4, <3>5, Zenon DEF Types
  <2>6. LoopControl(a)'
    <3>1. pc'[a] = "scan" /\ s'[a] = [buf |-> a, pos |-> 1] /\ result_list'[a] = <<>>
      BY <1>1, <1>2 DEF Types, Start
    <3>2. Len(<<>>) <= MAX_LIST_LEN
      BY <2>4
    <3> QED BY <2>3, <2>4, <3>1, <3>2 DEF LoopControl
  <2>7. olds' = olds
    BY <1>2 DEF Start
  <2> QED BY <2>5, <2>6, <2>7, ControlOfOthers DEF TypeInv
<1>3. CASE Load(a)
  <2>1. Types'
    BY <1>1, <1>3 DEF Types, Load
  <2>2. LoopControl(a)'
    <3>1. pc[a] = "load" /\ olds \in Pointer /\ result_list[a] \in Seq(Seq(Bytes))
      BY <1>1, <1>3 DEF Load, LoopControl
    <3>2. pc'[a] = "scan" /\ s'[a] = olds /\ result_list' = result_list
      BY <1>1, <1>3 DEF Types, Load
    <3> QED BY <1>1, <3>1, <3>2 DEF LoopControl
  <2>3. olds' = olds
    BY <1>3 DEF Load
  <2> QED BY <2>1, <2>2, <2>3, ControlOfOthers DEF TypeInv
<1>4. CASE Scan(a)
  <2>1. /\ pc[a] = "scan" /\ pc' = [pc EXCEPT ![a] = "test"]
        /\ UNCHANGED <<text, live, s, result_list, terminator>>
    BY <1>4, Zenon DEF Scan
  <2>2. /\ olds' \in Pointer
        /\ token' \in [Actors -> Pointer \cup {NULL}]
        /\ buf' \in [Actors -> Seq(Bytes)]
    BY <1>4, ScanTypes
  <2>3. Types'
    BY <1>1, <2>1, <2>2, Zenon DEF Types
  <2>4. LoopControl(a)'
    <3>1. pc'[a] = "test" /\ result_list' = result_list
      BY <1>1, <2>1 DEF Types
    <3> QED BY <1>1, <2>1, <2>2, <3>1 DEF LoopControl
  <2> QED BY <2>2, <2>3, <2>4, ControlOfOthers DEF TypeInv
<1>5. CASE Append1(a)
  <2>1. token[a] \in Pointer /\ pc[a] = "test" /\ result_list[a] \in Seq(Seq(Bytes))
    BY <1>1, <1>5 DEF Append1, Types, LoopControl
  <2>2. StringAt(token[a]) \in Seq(Bytes)
    BY <1>1, <2>1, StringEnds
  <2> DEFINE new == Append(result_list[a], StringAt(token[a]))
  <2>3. new \in Seq(Seq(Bytes)) /\ Len(new) = Len(result_list[a]) + 1
    BY <2>1, <2>2, AppendProperties
  <2>4. /\ result_list' = [result_list EXCEPT ![a] = new]
        /\ pc' = [pc EXCEPT ![a] = "load"]
        /\ UNCHANGED <<text, buf, live, olds, s, token, terminator>>
        /\ IsLib(a) => Len(result_list[a]) < MAX_LIST_LEN
    BY <1>5 DEF Append1
  <2> HIDE DEF new
  <2>5. Types'
    BY <1>1, <2>3, <2>4 DEF Types
  <2>6. LoopControl(a)'
    <3>1. pc'[a] = "load" /\ result_list'[a] = new
      BY <1>1, <2>4 DEF Types
    <3>2. IsLib(a) => Len(new) <= MAX_LIST_LEN
      <4>1. Len(result_list[a]) \in Nat
        BY <2>1, LenProperties
      <4> QED BY <2>3, <2>4, <4>1
    <3> QED BY <1>1, <2>1, <2>3, <2>4, <3>1, <3>2 DEF LoopControl
  <2> QED BY <2>4, <2>5, <2>6, ControlOfOthers DEF TypeInv
<1>6. CASE OutOfMemory(a)
  <2>1. buf' \in [Actors -> Seq(Bytes)] /\ live' \subseteq Actors
    BY <1>1, <1>6, FreedType DEF OutOfMemory
  <2>2. Types'
    BY <1>1, <1>6, <2>1, Zenon DEF Types, OutOfMemory
  <2>3. LoopControl(a)'
    BY <1>1, <1>6 DEF Types, OutOfMemory, LoopControl
  <2>4. olds' = olds
    BY <1>6 DEF OutOfMemory
  <2> QED BY <2>2, <2>3, <2>4, ControlOfOthers DEF TypeInv
<1>7. CASE Finish(a)
  <2>1. buf' \in [Actors -> Seq(Bytes)] /\ live' \subseteq Actors
    <3>1. FreeBuffer(a) \/ UNCHANGED <<buf, live>>
      BY <1>7 DEF Finish
    <3>2. CASE FreeBuffer(a)
      BY <1>1, <3>2, FreedType
    <3>3. CASE UNCHANGED <<buf, live>>
      BY <1>1, <3>3 DEF Types
    <3> QED BY <3>1, <3>2, <3>3
  <2>2. /\ pc[a] = "test" /\ pc' = [pc EXCEPT ![a] = "done"]
        /\ terminator' = [terminator EXCEPT ![a] = Len(result_list[a])]
        /\ UNCHANGED <<text, olds, s, token, result_list>>
    BY <1>7 DEF Finish
  <2>3. result_list[a] \in Seq(Seq(Bytes)) /\ Len(result_list[a]) \in Int
    BY <1>1, <2>2, LenProperties DEF LoopControl
  <2>4. Types'
    BY <1>1, <2>1, <2>2, <2>3 DEF Types
  <2>5. LoopControl(a)'
    <3>1. pc'[a] = "done"
      BY <1>1, <2>2 DEF Types
    <3> QED BY <1>1, <2>2, <2>3, <3>1 DEF LoopControl
  <2> QED BY <2>2, <2>4, <2>5, ControlOfOthers DEF TypeInv
<1> QED BY <1>2, <1>3, <1>4, <1>5, <1>6, <1>7 DEF Act, Step

LEMMA NextTypes == TypeInv /\ [Next]_vars => TypeInv'
<1> SUFFICES ASSUME TypeInv, [Next]_vars PROVE TypeInv'
  OBVIOUS
<1>1. CASE Next
  <2>1. PICK a \in Actors : Act(a)
    BY <1>1 DEF Next, Act, Step
  <2> QED BY <2>1, StepTypes
<1>2. CASE UNCHANGED vars
  BY <1>2 DEF vars, TypeInv, Types, Control, LoopControl
<1> QED BY <1>1, <1>2

LEMMA TypesAreOK == TypeInv => TypeOK
<1> SUFFICES ASSUME TypeInv, NEW a \in Actors, IsLib(a), result_list[a] # NULL
             PROVE  Len(result_list[a]) <= MAX_LIST_LEN
  BY DEF TypeInv, Types, TypeOK
<1> QED BY DEF TypeInv, Control, LoopControl

(* Whatever loops run in whatever threads, and whatever the library's      *)
(* strtok does to the application's, pointers point into buffers and the   *)
(* array of MAX_LIST_LEN elements is never given one more.                 *)
THEOREM ListFitsArray == Spec => []TypeOK
<1> QED BY InitTypes, NextTypes, TypesAreOK, PTL DEF Spec

-----------------------------------------------------------------------------
(* Facts about a string and its tokens, apart from any program state.      *)
LEMMA StartsType ==
  ASSUME NEW t \in Seq(Chars)
  PROVE  /\ Starts(t) \subseteq Nat /\ IsFiniteSet(Starts(t))
         /\ Cardinality(Starts(t)) \in Nat
         /\ \A p : /\ IsFiniteSet(Before(t, p)) /\ Cardinality(Before(t, p)) \in Nat
                   /\ Cardinality(Before(t, p)) <= Cardinality(Starts(t))
<1>1. Len(t) \in Nat
  BY LenProperties
<1>2. Starts(t) \subseteq 1..Len(t)
  BY DEF Starts
<1>3. IsFiniteSet(Starts(t)) /\ Cardinality(Starts(t)) \in Nat
  BY <1>1, <1>2, AddLargest, Zenon
<1>4. \A p : Before(t, p) \in SUBSET Starts(t)
  BY DEF Before
<1>5. ASSUME NEW p
      PROVE  /\ IsFiniteSet(Before(t, p)) /\ Cardinality(Before(t, p)) \in Nat
             /\ Cardinality(Before(t, p)) <= Cardinality(Starts(t))
  <2>1. /\ IsFiniteSet(Before(t, p))
        /\ Cardinality(Before(t, p)) <= Cardinality(Starts(t))
    BY <1>3, <1>4, FS_Subset
  <2> QED BY <2>1, FS_CardinalityType
<1> QED BY <1>1, <1>2, <1>3, <1>5

(* No token starts before the string, and none in a run of separators.     *)
LEMMA NoneBefore ==
  ASSUME NEW t \in Seq(Chars)
  PROVE  Cardinality(Before(t, 1)) = 0
<1>1. Len(t) \in Nat
  BY LenProperties
<1>2. Before(t, 1) = {}
  BY <1>1 DEF Before, Starts
<1> QED BY <1>2, FS_EmptySet, Zenon

LEMMA NoneBehind ==
  ASSUME NEW t \in Seq(Chars), NEW p \in 1..(Len(t) + 1),
         \A m \in p..Len(t) : t[m] = Colon
  PROVE  Before(t, p) = Starts(t) /\ Before(t, Len(t) + 1) = Starts(t)
<1>1. Len(t) \in Nat
  BY LenProperties
<1>2. ASSUME NEW n \in Starts(t) PROVE n < p /\ n < Len(t) + 1
  <2>1. n \in 1..Len(t) /\ t[n] # Colon
    BY DEF Starts
  <2>2. n \notin p..Len(t)
    BY <2>1
  <2> QED BY <1>1, <2>1, <2>2
<1> QED BY <1>2 DEF Before

(* The place behind a token: the end, or behind the separator.             *)
Behind(t, end) == IF end = Len(t) + 1 THEN end ELSE end + 1

(* strtok's next token is the next one of the string.                      *)
LEMMA NextToken ==
  ASSUME NEW t \in Seq(Chars), NEW p \in 1..(Len(t) + 1),
         p \in {1, Len(t) + 1} \/ t[p - 1] = Colon,
         NEW start \in p..Len(t), t[start] # Colon,
         \A m \in p..(start - 1) : t[m] = Colon,
         NEW end \in (start + 1)..(Len(t) + 1),
         \A m \in start..(end - 1) : t[m] # Colon,
         end = Len(t) + 1 \/ t[end] = Colon
  PROVE  LET n == Cardinality(Before(t, Behind(t, end)))
         IN  /\ n = Cardinality(Before(t, p)) + 1
             /\ n \in 1..Cardinality(Starts(t))
             /\ Split(t)[n] = SubSeq(t, start, end - 1)
             /\ Behind(t, end) \in 1..(Len(t) + 1)
             /\ Behind(t, end) = Len(t) + 1 \/ t[Behind(t, end) - 1] = Colon
<1> DEFINE q == Behind(t, end)
           B == Before(t, p)
           C == Before(t, q)
<1>1. Len(t) \in Nat /\ p \in Nat /\ start \in Nat /\ end \in Nat /\ 1 <= p /\ p <= start
      /\ start < end /\ end <= Len(t) + 1
  BY LenProperties
<1>2. /\ q \in Nat /\ end <= q /\ q <= end + 1 /\ q \in 1..(Len(t) + 1)
      /\ q = end + 1 => t[end] = Colon /\ end <= Len(t)
      /\ q = Len(t) + 1 \/ t[q - 1] = Colon
  BY <1>1 DEF Behind
<1> HIDE DEF q
<1>3. start \in Starts(t)
  <2>1. start \in 1..Len(t)
    BY <1>1
  <2>2. start = 1 \/ t[start - 1] = Colon
    <3>1. CASE start = p
      BY <1>1, <3>1
    <3>2. CASE start # p
      <4>1. start - 1 \in p..(start - 1)
        BY <1>1, <3>2
      <4> QED BY <4>1
    <3> QED BY <3>1, <3>2
  <2> QED BY <2>1, <2>2 DEF Starts
<1>4. ASSUME NEW n \in Starts(t) PROVE n < p \/ n = start \/ ~(n < q)
  <2>1. n \in 1..Len(t) /\ t[n] # Colon /\ (n = 1 \/ t[n - 1] = Colon)
    BY DEF Starts
  <2>2. n \notin p..(start - 1)
    BY <2>1
  <2>3. ~(start < n /\ n < end)
    <3> SUFFICES ASSUME start < n, n < end PROVE FALSE
      OBVIOUS
    <3>1. n - 1 \in start..(end - 1) /\ n # 1
      BY <1>1, <2>1
    <3> QED BY <2>1, <3>1
  <2>4. ~(n = end /\ n < q)
    <3> SUFFICES ASSUME n = end, n < q PROVE FALSE
      OBVIOUS
    <3>1. q = end + 1
      BY <1>1, <1>2
    <3> QED BY <1>2, <2>1, <3>1
  <2> QED BY <1>1, <1>2, <2>1, <2>2, <2>3, <2>4
<1>5. \A n \in Starts(t) : n \in Nat
  BY <1>1 DEF Starts
<1>6. \A n \in Starts(t) : /\ n < q <=> n < p \/ n = start
                           /\ n <= start <=> n < p \/ n = start
  <2> SUFFICES ASSUME NEW n \in Starts(t)
               PROVE  /\ n < q <=> n < p \/ n = start
                      /\ n <= start <=> n < p \/ n = start
    OBVIOUS
  <2>1. n \in Nat /\ (n < p \/ n = start \/ ~(n < q))
    BY <1>4, <1>5
  <2> QED BY <1>1, <1>2, <2>1
<1>7. C = B \cup {start} /\ {n \in Starts(t) : n <= start} = C /\ start \notin B
  <2>1. C = B \cup {start}
    BY <1>3, <1>6, Zenon DEF Before
  <2>2. {n \in Starts(t) : n <= start} = C
    BY <1>6 DEF Before
  <2>3. start \notin B
    BY <1>1 DEF Before
  <2> QED BY <2>1, <2>2, <2>3
<1>8. /\ IsFiniteSet(B) /\ Cardinality(B) \in Nat
      /\ Cardinality(C) \in Nat /\ Cardinality(C) <= Cardinality(Starts(t))
      /\ Starts(t) \subseteq Nat /\ IsFiniteSet(Starts(t)) /\ Cardinality(Starts(t)) \in Nat
  BY StartsType
<1> HIDE DEF B, C
<1>9. Cardinality(C) = Cardinality(B) + 1
  <2>1. Cardinality(B \cup {start}) = IF start \in B THEN Cardinality(B) ELSE Cardinality(B) + 1
    BY <1>8, FS_AddElement, Zenon
  <2> QED BY <1>7, <2>1
<1>10. Cardinality(C) \in 1..Cardinality(Starts(t))
  BY <1>8, <1>9
<1>11. Nth(Starts(t), Cardinality(C)) = start
  <2>1. Rank(Starts(t), start) = Cardinality(C)
    BY <1>7, Zenon DEF Rank
  <2>2. Nth(Starts(t), Rank(Starts(t), start)) = start
    BY <1>3, <1>8, NthOfRank
  <2> QED BY <2>1, <2>2
<1>12. Stretch(t, start) = SubSeq(t, start, end - 1)
  <2> DEFINE S == {m \in start..(Len(t) + 1) : m = Len(t) + 1 \/ t[m] = Colon}
  <2>1. S \subseteq Nat /\ end \in S
    BY <1>1
  <2>2. ASSUME NEW k \in S PROVE end <= k
    <3>1. k \in start..(Len(t) + 1) /\ (k = Len(t) + 1 \/ t[k] = Colon)
      OBVIOUS
    <3>2. k \notin start..(end - 1)
      BY <1>1, <3>1
    <3> QED BY <1>1, <3>1, <3>2
  <2>3. Min(S) = end
    <3> HIDE DEF S
    <3> QED BY <2>1, <2>2, MinIs, Zenon
  <2> QED BY <2>3, Zenon DEF Stretch
<1>13. Split(t)[Cardinality(C)] = SubSeq(t, start, end - 1)
  BY <1>10, <1>11, <1>12 DEF Split
<1> QED BY <1>2, <1>9, <1>10, <1>13 DEF B, C, q

(* A list of the first tokens, all of them or as many as fit.              *)
LEMMA CutOff ==
  ASSUME NEW t \in Seq(Chars), NEW r \in Seq(Seq(Bytes)), NEW n \in Nat, NEW M \in Nat,
         n <= Cardinality(Starts(t)), Len(r) = n, \A k \in 1..n : r[k] = Split(t)[k],
         (n = Cardinality(Starts(t)) /\ n <= M) \/ n = M
  PROVE  /\ r = SubSeq(Split(t), 1, Min({Len(Split(t)), M}))
         /\ Len(Split(t)) = Cardinality(Starts(t))
<1> DEFINE K == Cardinality(Starts(t))
<1>1. K \in Nat
  BY StartsType
<1>2. Len(Split(t)) = K
  <2> HIDE DEF K
  <2>1. Split(t) = [k \in 1..K |-> Stretch(t, Nth(Starts(t), k))]
    BY DEF Split, K
  <2> QED BY <1>1, <2>1
<1> HIDE DEF K
<1>3. Min({K, M}) = n
  <2>1. Min({K, M}) = IF K <= M THEN K ELSE M
    BY <1>1, MinPair
  <2> QED BY <1>1, <2>1 DEF K
<1> DEFINE u == SubSeq(Split(t), 1, n)
<1>4. \A k \in 1..n : Split(t)[k] \in Seq(Bytes)
  BY ElementOfSeq
<1>5. /\ u \in Seq(Seq(Bytes)) /\ Len(u) = n
      /\ \A k \in 1..n : u[k] = Split(t)[k]
  <2>1. /\ u \in Seq(Seq(Bytes)) /\ Len(u) = IF 1 <= n THEN n - 1 + 1 ELSE 0
        /\ \A k \in 1..(n - 1 + 1) : u[k] = Split(t)[1 + k - 1]
    BY <1>4, SubSeqProperties
  <2> HIDE DEF u
  <2> QED BY <2>1
<1> HIDE DEF u
<1>6. r = u
  BY <1>5, SeqEqual
<1> QED BY <1>2, <1>3, <1>6, Zenon DEF u, K

-----------------------------------------------------------------------------
(* While a library call is splitting its string nothing else runs.         *)
LEMMA Alone ==
  ASSUME OneThread, NEW a \in Actors, IsLib(a), NEW b \in Actors, a # b, Act(b)
  PROVE  pc[a] \in {"idle", "done"}
<1>1. Running(b)
  BY DEF Act, Step, Start, Load, Scan, Append1, OutOfMemory, Finish
<1>2. PICK t : Actors \subseteq {t} \X {"lib", "app"}
  BY DEF OneThread
<1>3. a \in {t} \X {"lib", "app"} /\ b \in {t} \X {"lib", "app"}
  BY <1>2
<1>4. a[1] = b[1] /\ ~IsLib(b)
  BY <1>3 DEF IsLib
<1> QED BY <1>1, <1>4 DEF Running

LEMMA TextType ==
  ASSUME Types, NEW a \in Actors
  PROVE  text[a] \in Seq(Chars) /\ Len(text[a]) \in Nat
<1>1. text[a] \in Texts \cup {<<>>}
  BY DEF Types
<1>2. text[a] \in Seq(Chars)
  BY <1>1, EmptySeq, StringListAssumption, Zenon
<1> QED BY <1>2, LenProperties

LEMMA StartLoop ==
  ASSUME CallInv, NEW a \in Actors, IsLib(a), Start(a)
  PROVE  LoopOf(a)'
<1>1. Types
  BY DEF CallInv, TypeInv
<1>2. PICK t \in Texts : /\ text' = [text EXCEPT ![a] = t]
                         /\ buf' = [buf EXCEPT ![a] = t]
  BY Zenon DEF Start
<1>3. /\ text'[a] = t /\ buf'[a] = t
      /\ s'[a] = [buf |-> a, pos |-> 1] /\ pc'[a] = "scan"
      /\ result_list'[a] = <<>> /\ a \in live'
  BY <1>1, <1>2 DEF Types, Start
<1>4. t \in Seq(Chars) /\ Len(t) \in Nat
  BY LenProperties, StringListAssumption
<1>5. Here(a)' = [buf |-> a, pos |-> 1]
  BY <1>3 DEF Here
<1>6. AtBoundary(a)'
  <2>1. 1 \in 1..(Len(t) + 1)
    BY <1>4
  <2>2. Here(a)'.buf = a /\ Here(a)'.pos = 1
    BY <1>5
  <2> QED BY <1>3, <2>1, <2>2, Zenon DEF AtBoundary
<1>7. Cardinality(Before(t, 1)) = 0 /\ Cardinality(Starts(t)) \in Nat
  BY <1>4, NoneBefore, StartsType
<1>8. HoldsFirst(a, 0)'
  BY <1>3, <1>7 DEF HoldsFirst
<1>9. ListSoFar(a)'
  <2>1. Here(a)'.pos = 1
    BY <1>5
  <2>2. Cardinality(Before(text'[a], Here(a)'.pos)) = 0
    BY <1>3, <1>7, <2>1
  <2> QED BY <1>3, <1>8, <2>2 DEF ListSoFar
<1>10. ListRight(a)'
  BY <1>3 DEF ListRight
<1> QED BY <1>6, <1>9, <1>10 DEF LoopOf

LEMMA LoadLoop ==
  ASSUME CallInv, NEW a \in Actors, IsLib(a), Load(a)
  PROVE  LoopOf(a)'
<1>1. Types /\ AtBoundary(a) /\ ListSoFar(a) /\ pc[a] = "load"
  BY DEF CallInv, TypeInv, LoopInv, LoopOf, Load, InCall
<1>2. /\ pc'[a] = "scan" /\ s'[a] = olds
      /\ UNCHANGED <<text, buf, live, olds, token, result_list, terminator>>
  BY <1>1 DEF Types, Load
<1>3. Here(a) = olds /\ Here(a)' = olds
  BY <1>1, <1>2 DEF Here
<1>4. AtBoundary(a)'
  BY <1>1, <1>2, <1>3 DEF AtBoundary
<1>5. ListSoFar(a)'
  BY <1>1, <1>2, <1>3 DEF ListSoFar, HoldsFirst
<1>6. ListRight(a)'
  BY <1>2 DEF ListRight
<1> QED BY <1>4, <1>5, <1>6 DEF LoopOf

LEMMA AppendLoop ==
  ASSUME CallInv, NEW a \in Actors, IsLib(a), Append1(a)
  PROVE  LoopOf(a)'
<1>1. /\ Types /\ AtBoundary(a) /\ ListSoFar(a) /\ pc[a] = "test" /\ token[a] # NULL
      /\ result_list[a] \in Seq(Seq(Bytes)) /\ token[a] \in Pointer
  BY DEF CallInv, TypeInv, Types, Control, LoopControl, LoopInv, LoopOf, Append1, InCall
<1>2. /\ pc'[a] = "load" /\ result_list'[a] = Append(result_list[a], StringAt(token[a]))
      /\ UNCHANGED <<text, buf, live, olds, s, token, terminator>>
  BY <1>1 DEF Types, Append1
<1>3. Here(a) = olds /\ Here(a)' = olds
  BY <1>1, <1>2 DEF Here
<1>4. AtBoundary(a)'
  BY <1>1, <1>2, <1>3 DEF AtBoundary
<1> DEFINE n == Cardinality(Before(text[a], olds.pos))
           new == StringAt(token[a])
<1>5. n >= 1 /\ HoldsFirst(a, n - 1) /\ new = Split(text[a])[n]
  BY <1>1, <1>3 DEF ListSoFar
<1>6. n \in Nat /\ n <= Cardinality(Starts(text[a]))
  BY <1>1, TextType, StartsType
<1>7. new \in Seq(Bytes)
  BY <1>1, StringEnds
<1> HIDE DEF n, new
<1>8. /\ Len(result_list'[a]) = Len(result_list[a]) + 1
      /\ \A k \in 1..Len(result_list[a]) : result_list'[a][k] = result_list[a][k]
      /\ result_list'[a][Len(result_list[a]) + 1] = new
  <2> DEFINE r == result_list[a]
  <2> HIDE DEF r
  <2>1. r \in Seq(Seq(Bytes)) /\ result_list'[a] = Append(r, new)
    BY <1>1, <1>2 DEF r, new
  <2>2. /\ Len(Append(r, new)) = Len(r) + 1
        /\ \A k \in 1..Len(r) : Append(r, new)[k] = r[k]
        /\ Append(r, new)[Len(r) + 1] = new
    BY <1>7, <2>1, AppendProperties
  <2> QED BY <2>1, <2>2 DEF r
<1>9. Len(result_list[a]) = n - 1
  BY <1>5 DEF HoldsFirst
<1>10. HoldsFirst(a, n)'
  <2>1. ASSUME NEW k \in 1..n PROVE result_list'[a][k] = Split(text[a])[k]
    <3>1. CASE k = n
      BY <1>5, <1>6, <1>8, <1>9, <3>1
    <3>2. CASE k \in 1..(n - 1)
      BY <1>5, <1>8, <1>9, <3>2 DEF HoldsFirst
    <3> QED BY <1>6, <3>1, <3>2
  <2>2. Len(result_list'[a]) = n
    BY <1>6, <1>8, <1>9
  <2>3. n' = n
    BY <1>2 DEF n
  <2> QED BY <1>2, <1>6, <2>1, <2>2, <2>3 DEF HoldsFirst
<1>11. ListSoFar(a)'
  BY <1>2, <1>3, <1>10 DEF ListSoFar, n
<1>12. ListRight(a)'
  BY <1>2 DEF ListRight
<1> QED BY <1>4, <1>11, <1>12 DEF LoopOf

LEMMA EndLoop ==
  ASSUME CallInv, NEW a \in Actors, IsLib(a), OutOfMemory(a) \/ Finish(a)
  PROVE  LoopOf(a)'
<1>1. /\ Types /\ AtBoundary(a) /\ ListSoFar(a) /\ pc[a] = "test"
      /\ result_list[a] \in Seq(Seq(Bytes)) /\ Len(result_list[a]) <= MAX_LIST_LEN
  BY DEF CallInv, TypeInv, Control, LoopControl, LoopInv, LoopOf, OutOfMemory, Finish, InCall
<1>2. pc'[a] = "done"
  BY <1>1 DEF Types, OutOfMemory, Finish
<1>3. ~InCall(a)'
  BY <1>2 DEF InCall
<1>4. CASE OutOfMemory(a)
  <2>1. result_list'[a] = NULL
    BY <1>1, <1>4 DEF Types, OutOfMemory
  <2> QED BY <1>3, <2>1 DEF LoopOf, ListRight
<1>5. CASE Finish(a)
  <2>1. /\ token[a] = NULL \/ Len(result_list[a]) >= MAX_LIST_LEN
        /\ terminator'[a] = Len(result_list[a])
        /\ UNCHANGED <<text, result_list>>
    BY <1>1, <1>5 DEF Types, Finish
  <2> DEFINE n == Cardinality(Before(text[a], Here(a).pos))
             len == Len(result_list[a])
             K == Cardinality(Starts(text[a]))
  <2>2. text[a] \in Seq(Chars)
    BY <1>1, TextType
  <2>3. n \in Nat /\ K \in Nat /\ n <= K
    BY <2>2, StartsType
  <2>4. HoldsFirst(a, len) /\ (token[a] = NULL => len = K)
    <3>1. CASE token[a] = NULL
      BY <1>1, <3>1 DEF ListSoFar, HoldsFirst
    <3>2. CASE token[a] # NULL
      BY <1>1, <3>2 DEF ListSoFar, HoldsFirst
    <3> QED BY <3>1, <3>2
  <2>5. len \in Nat /\ MAX_LIST_LEN \in Nat
    BY <1>1, LenProperties, StringListAssumption
  <2>6. (len = K /\ len <= MAX_LIST_LEN) \/ len = MAX_LIST_LEN
    <3> HIDE DEF len, K
    <3> QED BY <1>1, <2>1, <2>4, <2>5 DEF len
  <2>7. len <= K /\ \A k \in 1..len : result_list[a][k] = Split(text[a])[k]
    BY <2>4 DEF HoldsFirst
  <2>8. result_list[a] = SubSeq(Split(text[a]), 1, Min({Len(Split(text[a])), MAX_LIST_LEN}))
    <3> DEFINE t == text[a]
               r == result_list[a]
    <3>1. t \in Seq(Chars) /\ r \in Seq(Seq(Bytes)) /\ Len(r) = len
      BY <1>1, <2>2
    <3>2. \A k \in 1..len : r[k] = Split(t)[k]
      BY <2>7
    <3>3. len <= Cardinality(Starts(t)) /\ ((len = Cardinality(Starts(t)) /\ len <= MAX_LIST_LEN) \/ len = MAX_LIST_LEN)
      BY <2>6, <2>7
    <3> HIDE DEF t, r, len
    <3>4. r = SubSeq(Split(t), 1, Min({Len(Split(t)), MAX_LIST_LEN}))
      BY <2>5, <3>1, <3>2, <3>3, CutOff, ZenonT(60)
    <3> QED BY <3>4 DEF t, r
  <2>9. ListRight(a)'
    BY <2>1, <2>8 DEF ListRight
  <2> QED BY <1>3, <2>9 DEF LoopOf
<1> QED BY <1>4, <1>5

(* strtok finds the next token of the string, or that there is none.       *)
LEMMA ScanLoop ==
  ASSUME CallInv, NEW a \in Actors, IsLib(a), Scan(a)
  PROVE  LoopOf(a)'
<1> DEFINE t == text[a]
           N == Len(t)
           p == s[a].pos
           start == Span(a, p)
           end == CSpan(a, start)
           K == Cardinality(Before(t, p))
<1>1. /\ TypeInv /\ Types /\ AtBoundary(a) /\ ListSoFar(a) /\ pc[a] = "scan"
      /\ s[a] \in Pointer
  BY DEF CallInv, TypeInv, Control, LoopControl, LoopInv, LoopOf, Scan, InCall
<1>2. Here(a) = s[a]
  BY <1>1 DEF Here
<1>3. /\ s[a].buf = a /\ a \in live
      /\ p \in 1..(N + 1)
      /\ p \in {1, N + 1} \/ t[p - 1] = Colon
      /\ Len(buf[a]) = N
      /\ \A m \in p..N : buf[a][m] = t[m]
  BY <1>1, <1>2 DEF AtBoundary
<1>4. HoldsFirst(a, K)
  BY <1>1, <1>2 DEF ListSoFar
<1>5. t \in Seq(Chars) /\ N \in Nat /\ p \in Nat \ {0}
  BY <1>1, <1>3, TextType
<1>6. /\ pc'[a] = "test"
      /\ UNCHANGED <<text, live, s, result_list, terminator>>
  BY <1>1, Zenon DEF Types, Scan
<1>7. \/ /\ Byte(a, start) = NUL
         /\ olds' = [buf |-> a, pos |-> start]
         /\ token' = [token EXCEPT ![a] = NULL]
         /\ UNCHANGED buf
      \/ /\ Byte(a, start) # NUL /\ Byte(a, end) = NUL
         /\ olds' = [buf |-> a, pos |-> end]
         /\ token' = [token EXCEPT ![a] = [buf |-> a, pos |-> start]]
         /\ UNCHANGED buf
      \/ /\ Byte(a, start) # NUL /\ Byte(a, end) = Colon
         /\ olds' = [buf |-> a, pos |-> end + 1]
         /\ token' = [token EXCEPT ![a] = [buf |-> a, pos |-> start]]
         /\ buf' = [buf EXCEPT ![a][end] = NUL]
  BY <1>3 DEF Scan
<1>8. /\ start \in Nat \ {0} /\ p <= start
      /\ Byte(a, start) # Colon
      /\ \A m \in p..(start - 1) : Byte(a, m) = Colon
  BY <1>1, <1>5, SpanStops
<1>9. Byte(a, start) # NUL =>
        /\ end \in Nat \ {0} /\ start < end /\ end <= N + 1
        /\ Byte(a, end) \in {Colon, NUL}
        /\ \A m \in start..(end - 1) : Byte(a, m) \notin {Colon, NUL}
        /\ start <= N
  <2> HIDE DEF start
  <2>1. Byte(a, start) # NUL => Byte(a, start) \notin {Colon, NUL}
    BY <1>8
  <2> QED BY <1>1, <1>3, <1>8, <2>1, CSpanStops
<1> HIDE DEF start, end, p, t, N
<1>bounds. N \in Nat /\ p \in Nat /\ 1 <= p /\ p <= N + 1 /\ Len(buf[a]) = N
  BY <1>3, <1>5
<1>10. \A m \in p..N : Byte(a, m) = t[m] /\ t[m] # NUL
  <2> SUFFICES ASSUME NEW m \in p..N PROVE Byte(a, m) = t[m] /\ t[m] # NUL
    OBVIOUS
  <2>1. m \in Nat \ {0} /\ m <= Len(buf[a]) /\ m \in 1..N
    BY <1>bounds
  <2>2. Byte(a, m) = buf[a][m]
    BY <1>1, <2>1, ByteType
  <2>3. t[m] \in Chars
    BY <1>5, <2>1, ElementOfSeq DEF N
  <2>4. NUL \notin Chars
    BY StringListAssumption
  <2> QED BY <1>3, <2>2, <2>3, <2>4
<1>11. Byte(a, N + 1) = NUL
  <2>1. N + 1 \in Nat \ {0} /\ N + 1 > Len(buf[a])
    BY <1>bounds
  <2> QED BY <1>1, <2>1, ByteType
<1>12. Colon # NUL
  BY StringListAssumption
<1>13. text'[a] = t /\ result_list'[a] = result_list[a] /\ a \in live'
  BY <1>3, <1>6 DEF t
<1>14. ListRight(a)'
  BY <1>6 DEF ListRight
<1>15. Here(a)' = olds'
  BY <1>6 DEF Here
<1>16. CASE Byte(a, start) = NUL
  <2>1. olds' = [buf |-> a, pos |-> start] /\ token'[a] = NULL /\ UNCHANGED buf
    <3>1. token \in [Actors -> Pointer \cup {NULL}]
      BY <1>1 DEF Types
    <3> QED BY <1>7, <1>16, <3>1
  <2>2. start = N + 1
    <3>1. ~(start <= N)
      <4>1. start <= N => start \in p..N
        BY <1>5, <1>8
      <4> QED BY <1>10, <1>16, <4>1
    <3>2. ~(N + 1 < start)
      <4>1. N + 1 < start => N + 1 \in p..(start - 1)
        BY <1>3, <1>5, <1>8
      <4> QED BY <1>8, <1>11, <1>12, <4>1
    <3> QED BY <1>5, <1>8, <3>1, <3>2
  <2>3. \A m \in p..N : t[m] = Colon
    <3>1. \A m \in p..N : m \in p..(start - 1)
      BY <1>3, <1>5, <2>2
    <3> QED BY <1>8, <1>10, <3>1
  <2>4. Before(t, p) = Starts(t) /\ Before(t, N + 1) = Starts(t)
    BY <1>3, <1>5, <2>3, NoneBehind DEF N
  <2>5. AtBoundary(a)'
    <3>1. Here(a)'.buf = a /\ Here(a)'.pos = N + 1
      BY <1>15, <2>1, <2>2
    <3>2. (N + 1)..N = {} /\ N + 1 \in 1..(N + 1)
      BY <1>5
    <3> QED BY <1>3, <1>13, <2>1, <3>1, <3>2 DEF AtBoundary, N
  <2>6. ListSoFar(a)'
    <3>1. Here(a)'.pos = N + 1
      BY <1>15, <2>1, <2>2
    <3>2. Before(text'[a], Here(a)'.pos) = Starts(t) /\ K = Cardinality(Starts(t))
      BY <1>13, <2>4, <3>1
    <3>3. HoldsFirst(a, Cardinality(Starts(t)))
      BY <1>4, <3>2
    <3>4. Cardinality(Before(text'[a], Here(a)'.pos)) = Cardinality(Starts(text'[a]))
      BY <1>13, <3>2
    <3>5. /\ Cardinality(Starts(text'[a])) <= Cardinality(Starts(text'[a]))
          /\ Len(result_list'[a]) = Cardinality(Starts(text'[a]))
          /\ \A k \in 1..Cardinality(Starts(text'[a])) : result_list'[a][k] = Split(text'[a])[k]
      BY <1>13, <3>3 DEF HoldsFirst, t
    <3> QED BY <1>6, <2>1, <3>4, <3>5 DEF ListSoFar, HoldsFirst
  <2> QED BY <1>14, <2>5, <2>6 DEF LoopOf
<1>17. CASE Byte(a, start) # NUL
  <2>1. /\ end \in Nat \ {0} /\ start < end /\ end <= N + 1
        /\ Byte(a, end) \in {Colon, NUL}
        /\ \A m \in start..(end - 1) : Byte(a, m) \notin {Colon, NUL}
        /\ start <= N
    BY <1>9, <1>17
  <2>2. start \in p..N /\ t[start] # Colon
    <3>1. start \in p..N
      BY <1>5, <1>8, <2>1
    <3> QED BY <1>8, <1>10, <3>1
  <2>3. \A m \in p..(start - 1) : t[m] = Colon
    <3>1. \A m \in p..(start - 1) : m \in p..N
      BY <1>5, <1>8, <2>1
    <3> QED BY <1>8, <1>10, <3>1
  <2>4. end \in (start + 1)..(N + 1) /\ \A m \in start..(end - 1) : t[m] # Colon /\ m \in p..N
    <3>1. \A m \in start..(end - 1) : m \in p..N
      BY <1>5, <1>8, <2>1
    <3> QED BY <1>5, <1>8, <1>10, <2>1, <3>1
  <2>5. /\ Byte(a, end) = NUL => end = N + 1
        /\ Byte(a, end) = Colon => end <= N /\ t[end] = Colon
    <3>1. end <= N => end \in p..N
      BY <1>5, <1>8, <2>1
    <3>2. end = N + 1 => Byte(a, end) # Colon
      BY <1>11, <1>12
    <3> QED BY <1>5, <1>10, <2>1, <3>1, <3>2
  <2>6. end = N + 1 \/ t[end] = Colon
    BY <2>1, <2>5
  <2> DEFINE q == Behind(t, end)
             n == Cardinality(Before(t, q))
  <2>7. /\ n = K + 1
        /\ n \in 1..Cardinality(Starts(t))
        /\ Split(t)[n] = SubSeq(t, start, end - 1)
        /\ q \in 1..(N + 1)
        /\ q = N + 1 \/ t[q - 1] = Colon
    <3> HIDE DEF K
    <3> QED BY <1>3, <1>5, <2>2, <2>3, <2>4, <2>6, NextToken, ZenonT(60) DEF N, K
  <2>8. /\ olds' = [buf |-> a, pos |-> q]
        /\ token'[a] = [buf |-> a, pos |-> start]
        /\ (Byte(a, end) = NUL /\ UNCHANGED buf)
           \/ (Byte(a, end) = Colon /\ buf' = [buf EXCEPT ![a][end] = NUL])
    <3>1. token \in [Actors -> Pointer \cup {NULL}]
      BY <1>1 DEF Types
    <3>2. CASE Byte(a, end) = NUL
      <4>1. q = end
        BY <2>5, <3>2 DEF Behind, N
      <4> QED BY <1>7, <1>12, <1>17, <3>1, <3>2, <4>1
    <3>3. CASE Byte(a, end) = Colon
      <4>1. q = end + 1
        BY <1>5, <2>5, <3>3 DEF Behind, N
      <4> QED BY <1>7, <1>12, <1>17, <3>1, <3>3, <4>1
    <3> QED BY <2>1, <3>2, <3>3
  <2> HIDE DEF q
  <2>9. /\ Len(buf'[a]) = N
        /\ \A m \in p..N : m # end => buf'[a][m] = t[m]
        /\ end <= N => buf'[a][end] = NUL
    <3>1. CASE Byte(a, end) = NUL
      BY <1>3, <1>5, <1>12, <2>5, <2>8, <3>1
    <3>2. CASE Byte(a, end) = Colon
      <4>1. buf \in [Actors -> Seq(Bytes)] /\ buf[a] \in Seq(Bytes) /\ end \in 1..Len(buf[a])
        <5>1. end <= N
          BY <2>5, <3>2
        <5>2. end \in 1..Len(buf[a])
          BY <1>bounds, <2>1, <5>1
        <5> QED BY <1>1, <5>2 DEF Types
      <4>2. buf'[a] = [buf[a] EXCEPT ![end] = NUL]
        BY <1>12, <2>8, <3>2, <4>1
      <4>3. /\ Len(buf'[a]) = Len(buf[a])
            /\ \A m \in 1..Len(buf[a]) : buf'[a][m] = IF m = end THEN NUL ELSE buf[a][m]
        <5>1. NUL \in Bytes
          BY DEF Bytes
        <5> DEFINE u == buf[a]
        <5> HIDE DEF u
        <5>2. u \in Seq(Bytes) /\ end \in 1..Len(u)
          BY <4>1 DEF u
        <5>3. /\ Len([u EXCEPT ![end] = NUL]) = Len(u)
              /\ \A m \in 1..Len(u) : [u EXCEPT ![end] = NUL][m] = IF m = end THEN NUL ELSE u[m]
          BY <5>1, <5>2, ExceptSeq
        <5> QED BY <4>2, <5>3 DEF u
      <4>4. \A m \in p..N : m \in 1..Len(buf[a])
        BY <1>bounds
      <4>5. \A m \in p..N : m # end => buf'[a][m] = t[m]
        BY <1>3, <4>3, <4>4
      <4> QED BY <1>3, <4>1, <4>3, <4>5
    <3> QED BY <2>1, <3>1, <3>2
  <2>10. AtBoundary(a)'
    <3>1. Here(a)'.buf = a /\ Here(a)'.pos = q
      BY <1>15, <2>8
    <3>2. \A m \in q..N : m \in p..N /\ m # end
      <4>1. q = N + 1 \/ q = end + 1
        BY <1>5, <2>1 DEF q, Behind, N
      <4> QED BY <1>5, <1>8, <2>1, <4>1
    <3>3. \A m \in q..N : buf'[a][m] = t[m]
      BY <2>9, <3>2
    <3> QED BY <1>13, <2>7, <2>9, <3>1, <3>3 DEF AtBoundary, N
  <2>11. StringAt(token[a])' = SubSeq(t, start, end - 1)
    <3>1. Types'
      <4>1. TypeInv'
        BY <1>1, StepTypes DEF Act, Step
      <4> QED BY <4>1 DEF TypeInv
    <3>2. token'[a] \in Pointer /\ token'[a].buf = a /\ token'[a].pos = start
      BY <1>8, <2>8 DEF Pointer
    <3>3. \A m \in Nat \ {0} : /\ m > Len(buf'[a]) => Byte(a, m)' = NUL
                               /\ m <= Len(buf'[a]) => Byte(a, m)' = buf'[a][m]
      <4> SUFFICES ASSUME NEW m \in Nat \ {0}
                   PROVE  /\ m > Len(buf'[a]) => Byte(a, m)' = NUL
                          /\ m <= Len(buf'[a]) => Byte(a, m)' = buf'[a][m]
        OBVIOUS
      <4>1. m > Len(buf'[a]) => ~(m <= Len(buf'[a]))
        BY <1>bounds, <2>9
      <4> QED BY <4>1 DEF Byte
    <3> PICK e \in Nat \ {0} : e = end
      BY <2>1
    <3>4. Byte(a, e)' = NUL
      <4>1. e <= N => buf'[a][e] = NUL
        BY <2>9
      <4>2. e <= N \/ e > N
        BY <1>5
      <4>3. /\ e > N => Byte(a, e)' = NUL
            /\ e <= N => Byte(a, e)' = buf'[a][e]
        BY <2>9, <3>3, Zenon
      <4> QED BY <4>1, <4>2, <4>3, Zenon
    <3>5. ASSUME NEW m \in start..(end - 1) PROVE Byte(a, m)' = t[m] /\ t[m] # NUL /\ buf'[a][m] = t[m]
      <4>1. m \in Nat \ {0} /\ m <= Len(buf'[a]) /\ m # end /\ m \in p..N
        <5>1. m \in p..N
          BY <2>4
        <5>2. m <= N /\ m \in Nat \ {0} /\ m # end
          BY <1>8, <1>bounds, <2>1, <5>1
        <5> QED BY <2>9, <5>1, <5>2
      <4> QED BY <1>10, <2>9, <3>3, <4>1
    <3>6. StringAt(token[a])' = SubSeq(buf'[a], start, e - 1)
      <4>1. (Types => StringsEnd)'
        BY StringEndsEverywhere, PTL
      <4>2. \A m \in start..(e - 1) : Byte(a, m)' # NUL
        BY <3>5
      <4>3. start <= e
        BY <1>8, <2>1
      <4> QED BY <3>1, <3>2, <3>4, <4>1, <4>2, <4>3 DEF StringsEnd
    <3>7. SubSeq(buf'[a], start, end - 1) = SubSeq(t, start, end - 1)
      <4>1. ASSUME NEW m \in start..(end - 1) PROVE t[m] \in Chars /\ t[m] = buf'[a][m]
        <5>1. m \in 1..Len(t)
          BY <1>5, <2>4 DEF N
        <5> QED BY <1>5, <3>5, <5>1, ElementOfSeq
      <4>2. start \in Int /\ end - 1 \in Int
        BY <1>8, <2>1
      <4> DEFINE d == end - 1
                 u == buf'[a]
      <4> HIDE DEF d, u
      <4>3. SubSeq(t, start, d) = SubSeq(u, start, d)
        BY <4>1, <4>2, SameStretch DEF d, u
      <4> QED BY <4>3, Zenon DEF d, u
    <3> QED BY <3>6, <3>7, Zenon
  <2>12. ListSoFar(a)'
    <3>1. Here(a)'.pos = q
      BY <1>15, <2>8
    <3>2. Cardinality(Before(text'[a], Here(a)'.pos)) = n
      BY <1>13, <3>1
    <3>3. n >= 1 /\ n - 1 = K /\ n - 1 <= Cardinality(Starts(t))
      <4>1. K \in Nat /\ Cardinality(Starts(t)) \in Nat
        BY <1>5, StartsType
      <4> HIDE DEF n, K
      <4> QED BY <2>7, <4>1
    <3>4. HoldsFirst(a, n - 1)
      BY <1>4, <3>3
    <3>5. /\ n - 1 <= Cardinality(Starts(text'[a]))
          /\ Len(result_list'[a]) = n - 1
          /\ \A k \in 1..(n - 1) : result_list'[a][k] = Split(text'[a])[k]
      <4> HIDE DEF n
      <4> QED BY <1>13, <3>3, <3>4 DEF HoldsFirst, t
    <3>6. StringAt(token[a])' = Split(text'[a])[n]
      BY <1>13, <2>7, <2>11
    <3>7. CASE token'[a] # NULL
      BY <1>6, <3>2, <3>3, <3>5, <3>6, <3>7 DEF ListSoFar, HoldsFirst
    <3>8. token'[a] # NULL
      BY <1>8, <2>8, NullIsNoPointer DEF Pointer
    <3> QED BY <3>7, <3>8
  <2> QED BY <1>14, <2>10, <2>12 DEF LoopOf
<1> QED BY <1>16, <1>17

-----------------------------------------------------------------------------
LEMMA InitCall == Init => CallInv
<1> SUFFICES ASSUME Init PROVE CallInv
  OBVIOUS
<1>1. TypeInv
  BY InitTypes
<1>2. LoopInv
  BY DEF Init, LoopInv, LoopOf, InCall, ListRight
<1> QED BY <1>1, <1>2 DEF CallInv

LEMMA ActCall ==
  ASSUME OneThread, CallInv, NEW b \in Actors, Act(b)
  PROVE  CallInv'
<1>1. TypeInv /\ Types
  BY DEF CallInv, TypeInv
<1>2. TypeInv'
  BY <1>1, StepTypes
<1>3. ASSUME NEW a \in Actors, IsLib(a) PROVE LoopOf(a)'
  <2>1. CASE a = b
    BY <1>3, <2>1, StartLoop, LoadLoop, ScanLoop, AppendLoop, EndLoop DEF Act, Step
  <2>2. CASE a # b
    <3>1. pc[a] \in {"idle", "done"}
      BY <1>3, <2>2, Alone
    <3>2. /\ text'[a] = text[a] /\ pc'[a] = pc[a]
          /\ result_list'[a] = result_list[a] /\ terminator'[a] = terminator[a]
      BY <1>1, <2>2, OthersKept
    <3>3. ListRight(a)
      BY <1>3 DEF CallInv, LoopInv, LoopOf
    <3>4. ListRight(a)'
      BY <3>2, <3>3, Zenon DEF ListRight
    <3> QED BY <3>1, <3>2, <3>4 DEF LoopOf, InCall
  <2> QED BY <2>1, <2>2
<1> QED BY <1>2, <1>3 DEF CallInv, LoopInv, LoopOf

LEMMA NextCall ==
  ASSUME OneThread
  PROVE  CallInv /\ [Next]_vars => CallInv'
<1> SUFFICES ASSUME CallInv, [Next]_vars PROVE CallInv'
  OBVIOUS
<1>1. CASE Next
  <2>1. PICK a \in Actors : Act(a)
    BY <1>1 DEF Next, Act, Step
  <2> QED BY <2>1, ActCall
<1>2. CASE UNCHANGED vars
  <2>1. TypeInv'
    BY <1>2, NextTypes DEF CallInv
  <2>2. LoopInv'
    <3> SUFFICES ASSUME NEW a \in Actors, IsLib(a) PROVE LoopOf(a)'
      BY DEF LoopInv, LoopOf
    <3>1. LoopOf(a)
      BY DEF CallInv, LoopInv, LoopOf
    <3>2. Here(a)' = Here(a) /\ InCall(a)' = InCall(a)
      BY <1>2 DEF vars, Here, InCall
    <3>3. AtBoundary(a)' = AtBoundary(a)
      BY <1>2, <3>2, Zenon DEF vars, AtBoundary
    <3>4. StringAt(token[a])' = StringAt(token[a])
      BY <1>2, Zenon DEF vars, StringAt, Byte
    <3>5. ListSoFar(a)' = ListSoFar(a)
      BY <1>2, <3>2, <3>4, Zenon DEF vars, ListSoFar, HoldsFirst
    <3>6. ListRight(a)' = ListRight(a)
      BY <1>2, Zenon DEF vars, ListRight
    <3> QED BY <3>1, <3>2, <3>3, <3>5, <3>6 DEF LoopOf
  <2> QED BY <2>1, <2>2 DEF CallInv
<1> QED BY <1>1, <1>2

LEMMA CallImplies ==
  ASSUME CallInv
  PROVE  ListIsSplit /\ ReadsLiveString /\ TerminatorInArray
<1>1. ListIsSplit
  BY DEF CallInv, LoopInv, LoopOf, ListRight, ListIsSplit
<1>2. ReadsLiveString
  <2> SUFFICES ASSUME NEW a \in Actors, IsLib(a), pc[a] = "scan" PROVE s[a].buf \in live
    BY DEF ReadsLiveString
  <2>1. AtBoundary(a)
    BY DEF CallInv, LoopInv, LoopOf, InCall
  <2> QED BY <2>1 DEF AtBoundary, Here
<1>3. TerminatorInArray
  <2> SUFFICES ASSUME NEW a \in Actors, IsLib(a), pc[a] = "done", result_list[a] # NULL
               PROVE  terminator[a] < MAX_LIST_LEN <=> Len(Split(text[a])) < MAX_LIST_LEN
    BY DEF TerminatorInArray
  <2> DEFINE K == Len(Split(text[a]))
             M == MAX_LIST_LEN
             m == Min({K, M})
  <2>1. /\ result_list[a] = SubSeq(Split(text[a]), 1, m)
        /\ terminator[a] = Len(result_list[a])
    BY Zenon DEF CallInv, LoopInv, LoopOf, ListRight
  <2>2. text[a] \in Seq(Chars)
    BY TextType DEF CallInv, TypeInv
  <2>3. Cardinality(Starts(text[a])) \in Nat
    BY <2>2, StartsType
  <2>4. K \in Nat /\ M \in Nat
    <3> DEFINE C == Cardinality(Starts(text[a]))
    <3>1. Split(text[a]) = [k \in 1..C |-> Stretch(text[a], Nth(Starts(text[a]), k))]
      BY DEF Split
    <3>2. C \in Nat
      BY <2>3
    <3> HIDE DEF C
    <3>3. K = C
      BY <3>1, <3>2
    <3> QED BY <3>2, <3>3, StringListAssumption
  <2>5. m = IF K <= M THEN K ELSE M
    <3> HIDE DEF K, M
    <3> QED BY <2>4, MinPair
  <2>6. result_list[a] \in Seq(Seq(Bytes))
    BY DEF CallInv, TypeInv, Control, LoopControl
  <2>7. Len(SubSeq(Split(text[a]), 1, m)) = m
    <3> HIDE DEF K, M, m
    <3>1. m \in Nat
      BY <2>4, <2>5
    <3> QED BY <3>1
  <2> HIDE DEF K, M, m
  <2>8. terminator[a] = m
    BY <2>1, <2>7, Zenon
  <2>9. terminator[a] < M <=> K < M
    BY <2>4, <2>5, <2>8
  <2> QED BY <2>9 DEF K, M
<1> QED BY <1>1, <1>2, <1>3

(* For every string and every size of the array, also beside a strtok loop *)
(* of the application that calls open between two of its tokens:           *)
(* get_string_list returns the tokens of its string in order, cut off at   *)
(* MAX_LIST_LEN.                                                           *)
THEOREM ListCorrect == OneThread => (Spec => []ListIsSplit)
<1> SUFFICES ASSUME OneThread PROVE Spec => []ListIsSplit
  OBVIOUS
<1>1. CallInv /\ [Next]_vars => CallInv'
  BY NextCall
<1>2. CallInv => ListIsSplit
  BY CallImplies
<1> QED BY <1>1, <1>2, InitCall, PTL DEF Spec

(* Inside get_string_list, strtok never follows the pointer that an        *)
(* earlier call, or the application, left behind: the string it reads is   *)
(* the one this call copied, and it has not been freed.                    *)
THEOREM ReadsLive == OneThread => (Spec => []ReadsLiveString)
<1> SUFFICES ASSUME OneThread PROVE Spec => []ReadsLiveString
  OBVIOUS
<1>1. CallInv /\ [Next]_vars => CallInv'
  BY NextCall
<1>2. CallInv => ReadsLiveString
  BY CallImplies
<1> QED BY <1>1, <1>2, InitCall, PTL DEF Spec

(* The NULL behind the list is inside the array exactly when the string    *)
(* has fewer than MAX_LIST_LEN tokens.                                     *)
THEOREM TerminatorPlace == OneThread => (Spec => []TerminatorInArray)
<1> SUFFICES ASSUME OneThread PROVE Spec => []TerminatorInArray
  OBVIOUS
<1>1. CallInv /\ [Next]_vars => CallInv'
  BY NextCall
<1>2. CallInv => TerminatorInArray
  BY CallImplies
<1> QED BY <1>1, <1>2, InitCall, PTL DEF Spec
=============================================================================
