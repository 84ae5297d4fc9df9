----------------------------- MODULE StringList -----------------------------
(***************************************************************************)
(* get_string_list of open64.c and the strtok it calls (string/strtok.c,   *)
(* string/strtok_r.c), byte by byte as far as separators go.               *)
(*                                                                         *)
(* strtok keeps its place in one static pointer, olds.  An actor is a      *)
(* tokenising loop in some thread: "lib" is get_string_list inside a call  *)
(* of open, "app" is a loop of the application that uses strtok on a       *)
(* string of its own and may call open between two tokens.  Each actor has *)
(* one buffer; the library's is a strdup of the environment string that    *)
(* is freed as soon as the list is built.                                  *)
(***************************************************************************)
EXTENDS Positions, FiniteSetsExt, Functions

CONSTANTS Actors,        \* a set of pairs <<thread, "lib" or "app">>
          Texts,         \* the strings to split
          Colon, NUL,    \* the separator and the terminating byte
          NULL,          \* the null pointer
          MAX_LIST_LEN   \* elements the result array has room for

Chars == UNION {Range(t) : t \in Texts}

(* A string holds no NUL: the terminating byte is not counted among them.  *)
ASSUME StringListAssumption ==
  /\ \A a \in Actors : a[2] \in {"lib", "app"}
  /\ Texts \subseteq Seq(Chars) /\ NUL \notin Chars
  /\ Colon # NUL
  /\ MAX_LIST_LEN \in Nat \ {0}

(* Where a pointer can point: into an actor's buffer, or behind its end.   *)
Pointer == [buf : Actors, pos : Nat \ {0}]

ASSUME NullIsNoPointer == NULL \notin Pointer

VARIABLES text,        \* text[a]: what a's buffer held before it was split
          buf,         \* buf[a]: the bytes of a's buffer
          live,        \* the actors whose buffer is allocated
          olds,        \* strtok's saved pointer, shared by everyone
          pc, s,       \* s[a]: the pointer strtok works from
          token,       \* token[a]: what strtok returned, or NULL
          result_list, \* result_list[a]: the copied tokens
          terminator   \* terminator[a]: index at which NULL was stored

vars == <<text, buf, live, olds, pc, s, token, result_list, terminator>>

IsLib(a) == a[2] = "lib"

(* The thread of an application loop executes the library's code while a   *)
(* call of open is in progress there, and open is called between tokens.   *)
Running(a) ==
  \A b \in Actors \ {a} :
    b[1] = a[1] => IF IsLib(a) THEN pc[b] \notin {"load", "scan"}
                               ELSE pc[b] \in {"idle", "done"}

Init ==
  /\ text = [a \in Actors |-> <<>>] /\ buf = text
  /\ live = {}
  /\ olds = NULL
  /\ pc = [a \in Actors |-> "idle"]
  /\ s = [a \in Actors |-> NULL] /\ token = s
  /\ result_list = [a \in Actors |-> <<>>]
  /\ terminator = [a \in Actors |-> -1]

-----------------------------------------------------------------------------
Byte(b, n) == IF n <= Len(buf[b]) THEN buf[b][n] ELSE NUL

(* The place reached from n by strspn (":") and by strcspn (":").          *)
Span(b, n) == Min({m \in n..Max({n, Len(buf[b]) + 1}) : Byte(b, m) # Colon})
CSpan(b, n) == Min({m \in n..(Len(buf[b]) + 1) : Byte(b, m) \in {Colon, NUL}})

(* The string a pointer points to: the bytes up to the next NUL.           *)
StringAt(p) ==
  LET end == Min({m \in p.pos..Max({p.pos, Len(buf[p.buf]) + 1}) : Byte(p.buf, m) = NUL})
  IN  SubSeq(buf[p.buf], p.pos, end - 1)

(* Mutant: the first call passes NULL too, so an older pointer is used.    *)
StartFromSaved(a) ==
  /\ pc[a] \in {"idle", "done"} /\ Running(a)
  /\ \E t \in Texts :
       /\ text' = [text EXCEPT ![a] = t]
       /\ buf' = [buf EXCEPT ![a] = t]
  /\ live' = live \cup {a}
  /\ s' = [s EXCEPT ![a] = IF olds = NULL THEN [buf |-> a, pos |-> 1] ELSE olds]
  /\ token' = [token EXCEPT ![a] = NULL]
  /\ result_list' = [result_list EXCEPT ![a] = <<>>]
  /\ terminator' = [terminator EXCEPT ![a] = -1]
  /\ pc' = [pc EXCEPT ![a] = "scan"]
  /\ UNCHANGED olds

(* A string is copied (the library strdups the environment) and strtok is  *)
(* called with it.  The result array is allocated here.                    *)
Start(a) ==
  /\ pc[a] \in {"idle", "done"} /\ Running(a)
  /\ \E t \in Texts :
       /\ text' = [text EXCEPT ![a] = t]
       /\ buf' = [buf EXCEPT ![a] = t]
  /\ live' = live \cup {a}
  /\ s' = [s EXCEPT ![a] = [buf |-> a, pos |-> 1]]
  /\ token' = [token EXCEPT ![a] = NULL]
  /\ result_list' = [result_list EXCEPT ![a] = <<>>]
  /\ terminator' = [terminator EXCEPT ![a] = -1]
  /\ pc' = [pc EXCEPT ![a] = "scan"]
  /\ UNCHANGED olds

(* strtok (NULL, ":"): the saved pointer is read.                          *)
Load(a) ==
  /\ pc[a] = "load" /\ Running(a)
  /\ s' = [s EXCEPT ![a] = olds]
  /\ pc' = [pc EXCEPT ![a] = "scan"]
  /\ UNCHANGED <<text, buf, live, olds, token, result_list, terminator>>

(* The rest of strtok_r: skip separators, end the token with a NUL, save   *)
(* the place behind it, return the token.                                  *)
Scan(a) ==
  LET b     == s[a].buf
      start == Span(b, s[a].pos)
      end   == CSpan(b, start)
  IN  /\ pc[a] = "scan" /\ Running(a)
      /\ \/ /\ Byte(b, start) = NUL
            /\ olds' = [buf |-> b, pos |-> start]
            /\ token' = [token EXCEPT ![a] = NULL]
            /\ UNCHANGED buf
         \/ /\ Byte(b, start) # NUL /\ Byte(b, end) = NUL
            /\ olds' = [buf |-> b, pos |-> end]
            /\ token' = [token EXCEPT ![a] = [buf |-> b, pos |-> start]]
            /\ UNCHANGED buf
         \/ /\ Byte(b, start) # NUL /\ Byte(b, end) = Colon
            /\ olds' = [buf |-> b, pos |-> end + 1]
            /\ token' = [token EXCEPT ![a] = [buf |-> b, pos |-> start]]
            /\ buf' = [buf EXCEPT ![b][end] = NUL]
      /\ pc' = [pc EXCEPT ![a] = "test"]
      /\ UNCHANGED <<text, live, s, result_list, terminator>>

(* Mutants: no test of cnt; the string is freed while it is being split.   *)
AppendUnbounded(a) ==
  /\ pc[a] = "test" /\ Running(a)
  /\ token[a] # NULL
  /\ result_list' = [result_list EXCEPT ![a] = Append(@, StringAt(token[a]))]
  /\ pc' = [pc EXCEPT ![a] = "load"]
  /\ UNCHANGED <<text, buf, live, olds, s, token, terminator>>

AppendFreesString(a) ==
  /\ pc[a] = "test" /\ Running(a)
  /\ token[a] # NULL
  /\ IsLib(a) => Len(result_list[a]) < MAX_LIST_LEN
  /\ result_list' = [result_list EXCEPT ![a] = Append(@, StringAt(token[a]))]
  /\ live' = live \ {a}
  /\ pc' = [pc EXCEPT ![a] = "load"]
  /\ UNCHANGED <<text, buf, olds, s, token, terminator>>

(* token && cnt < MAX_LIST_LEN: strdup the token and ask for the next.     *)
Append1(a) ==
  /\ pc[a] = "test" /\ Running(a)
  /\ token[a] # NULL
  /\ IsLib(a) => Len(result_list[a]) < MAX_LIST_LEN
  /\ result_list' = [result_list EXCEPT ![a] = Append(@, StringAt(token[a]))]
  /\ pc' = [pc EXCEPT ![a] = "load"]
  /\ UNCHANGED <<text, buf, live, olds, s, token, terminator>>

(* What a freed buffer reads as afterwards is not defined: its old bytes,  *)
(* or those of a later allocation.                                         *)
FreeBuffer(a) ==
  /\ live' = live \ {a}
  /\ \E g \in Texts \cup {buf[a]} : buf' = [buf EXCEPT ![a] = g]

(* strdup returned NULL: everything is freed and NULL is returned; the     *)
(* caller frees the string.                                                *)
OutOfMemory(a) ==
  /\ pc[a] = "test" /\ Running(a) /\ IsLib(a)
  /\ token[a] # NULL /\ Len(result_list[a]) < MAX_LIST_LEN
  /\ result_list' = [result_list EXCEPT ![a] = NULL]
  /\ pc' = [pc EXCEPT ![a] = "done"]
  /\ FreeBuffer(a)
  /\ UNCHANGED <<text, olds, s, token, terminator>>

(* Mutant: a full array does not end the loop.                             *)
FinishOnNull(a) ==
  /\ pc[a] = "test" /\ Running(a)
  /\ token[a] = NULL
  /\ terminator' = [terminator EXCEPT ![a] = Len(result_list[a])]
  /\ pc' = [pc EXCEPT ![a] = "done"]
  /\ IF IsLib(a) THEN FreeBuffer(a) ELSE UNCHANGED <<buf, live>>
  /\ UNCHANGED <<text, olds, s, token, result_list>>

(* Mutant: NULL is stored one element too far.                             *)
FinishOnePast(a) ==
  /\ pc[a] = "test" /\ Running(a)
  /\ token[a] = NULL \/ (IsLib(a) /\ Len(result_list[a]) >= MAX_LIST_LEN)
  /\ terminator' = [terminator EXCEPT ![a] = Len(result_list[a]) + 1]
  /\ pc' = [pc EXCEPT ![a] = "done"]
  /\ IF IsLib(a) THEN FreeBuffer(a) ELSE UNCHANGED <<buf, live>>
  /\ UNCHANGED <<text, olds, s, token, result_list>>

(* The loop ends; the library stores NULL behind the last element, and its *)
(* caller frees the string.                                                *)
Finish(a) ==
  /\ pc[a] = "test" /\ Running(a)
  /\ token[a] = NULL \/ (IsLib(a) /\ Len(result_list[a]) >= MAX_LIST_LEN)
  /\ terminator' = [terminator EXCEPT ![a] = Len(result_list[a])]
  /\ pc' = [pc EXCEPT ![a] = "done"]
  /\ IF IsLib(a) THEN FreeBuffer(a) ELSE UNCHANGED <<buf, live>>
  /\ UNCHANGED <<text, olds, s, token, result_list>>

Step(a) == Load(a) \/ Scan(a) \/ Append1(a) \/ OutOfMemory(a) \/ Finish(a)

Next == \E a \in Actors :
          Start(a) \/ Load(a) \/ Scan(a) \/ Append1(a) \/ OutOfMemory(a) \/ Finish(a)

Spec == Init /\ [][Next]_vars /\ \A a \in Actors : WF_vars(Step(a))

-----------------------------------------------------------------------------
(* Pointers point into buffers, and no list is longer than its array.      *)
TypeOK ==
  /\ live \subseteq Actors
  /\ olds \in Pointer \cup {NULL}
  /\ pc \in [Actors -> {"idle", "load", "scan", "test", "done"}]
  /\ \A a \in Actors :
       /\ text[a] \in Texts \cup {<<>>}
       /\ s[a] \in Pointer \cup {NULL} /\ token[a] \in Pointer \cup {NULL}
       /\ IsLib(a) /\ result_list[a] # NULL => Len(result_list[a]) <= MAX_LIST_LEN

(* The non-empty stretches between separators, in order: where they start, *)
(* and what stands there up to the next separator.                         *)
Starts(t) == {n \in 1..Len(t) : t[n] # Colon /\ (n = 1 \/ t[n - 1] = Colon)}

Stretch(t, n) ==
  SubSeq(t, n, Min({m \in n..(Len(t) + 1) : m = Len(t) + 1 \/ t[m] = Colon}) - 1)

Split(t) == [k \in 1..Cardinality(Starts(t)) |-> Stretch(t, Nth(Starts(t), k))]

(* get_string_list returns the tokens of the environment string, in order  *)
(* and without the empty ones, cut off at MAX_LIST_LEN, or NULL when       *)
(* memory ran out, whatever an earlier call left in strtok's pointer.      *)
ListIsSplit ==
  \A a \in Actors :
    IsLib(a) /\ pc[a] = "done" /\ result_list[a] # NULL =>
      result_list[a] = SubSeq(Split(text[a]), 1, Min({Len(Split(text[a])), MAX_LIST_LEN}))

(* Inside get_string_list, strtok only ever reads a string that is still   *)
(* allocated, although the pointer it saves outlives the string of every   *)
(* call.                                                                   *)
ReadsLiveString ==
  \A a \in Actors : IsLib(a) /\ pc[a] = "scan" => s[a].buf \in live

(* A tokenising loop that has begun comes to its end.                      *)
LoopEnds == \A a \in Actors : pc[a] = "scan" ~> pc[a] = "done"

(* "It is guaranteed that no other library function ever calls strtok      *)
(* behind your back" (manual/string.texi): a loop of the application finds *)
(* the tokens of its own string although it calls open between two tokens. *)
AppFindsItsTokens ==
  \A a \in Actors :
    ~IsLib(a) /\ pc[a] = "done" => result_list[a] = Split(text[a])

(* The NULL behind the list is inside the array of MAX_LIST_LEN elements   *)
(* exactly when the string has fewer tokens than that.  With 128 entries,  *)
(* which open64_modifications_doc.md says are supported, it is behind it.  *)
TerminatorInArray ==
  \A a \in Actors :
    IsLib(a) /\ pc[a] = "done" /\ result_list[a] # NULL =>
      (terminator[a] < MAX_LIST_LEN <=> Len(Split(text[a])) < MAX_LIST_LEN)
=============================================================================
