---------------------------- MODULE PreopenPaths ----------------------------
(***************************************************************************)
(* The pure path functions of sysdeps/unix/sysv/linux/open64.c.            *)
(*                                                                         *)
(* A C string that names a file is split at its slashes.  It is a record   *)
(* [root, comps]: root says whether the first byte is a slash, comps are   *)
(* the components (of what follows that slash when there is one), the      *)
(* empty component included: "/" is <<Empty>> with root, "/a//b" is        *)
(* <<"a", Empty, "b">> with root, the empty string is <<Empty>> without.   *)
(* Of a component's bytes only three facts matter to the code: whether it  *)
(* is empty, whether it is ".", and whether it has MAX_PATH_LEN bytes or   *)
(* more (LongComponent).                                                   *)
(***************************************************************************)
EXTENDS Integers, Sequences

CONSTANTS Component,      \* what can stand between two slashes
          LongComponent,  \* the components of MAX_PATH_LEN bytes or more
          Empty,          \* the empty component
          Dot,            \* the component "."
          PathMax,        \* PATH_MAX, counted in components
          NULL            \* the null pointer

ASSUME ComponentAssumption ==
  /\ Empty \in Component /\ Dot \in Component /\ Empty # Dot
  /\ LongComponent \subseteq Component \ {Empty, Dot}
  /\ NULL \notin Component
  /\ PathMax \in Nat

Path == [root : BOOLEAN, comps : Seq(Component) \ {<<>>}]

EmptyString == [root |-> FALSE, comps |-> <<Empty>>]

ASSUME NullIsNoPath == NULL \notin Path

-----------------------------------------------------------------------------
(* The component of path at depth n (from 0), or NULL: for the null        *)
(* pointer, past the last component, and for a component that does not fit *)
(* the buffer of MAX_PATH_LEN bytes.  The code skips the first byte of     *)
(* whatever string it is given: callers pass rooted strings, or the empty  *)
(* string made by remove_last_component, whose second byte is NUL as well. *)
get_path_component(path, n) ==
  IF path # NULL /\ n < Len(path.comps) /\ path.comps[n + 1] \notin LongComponent
  THEN path.comps[n + 1]
  ELSE NULL

(* Mutant: trailing slashes are not stripped.                              *)
UnstrippedLen(comps) == Len(comps)

(* The number of components left once the trailing slashes are gone.       *)
StrippedLen(comps) ==
  LET solid == {n \in 1..Len(comps) : comps[n] # Empty}
  IN  IF solid = {} THEN 0 ELSE CHOOSE n \in solid : \A m \in solid : m <= n

(* Cut at the last slash.  For a name directly below the root the cut is   *)
(* the first byte, and the byte the code then clears is the second one:    *)
(* the result is the empty string, not "/".                                *)
remove_last_component(path) ==
  IF path = NULL THEN NULL
  ELSE LET n == StrippedLen(path.comps)
       IN  IF n <= 1 THEN EmptyString
           ELSE [path EXCEPT !.comps = SubSeq(@, 1, n - 1)]

(* cwd is what getcwd returned, NULL when it failed.  A leading "./" is    *)
(* dropped, one trailing slash is dropped, nothing else is normalised.     *)
get_absolute_path(path, cwd) ==
  IF path.root THEN path
  ELSE IF cwd = NULL THEN NULL
  ELSE LET rest == IF Head(path.comps) = Dot /\ Len(path.comps) > 1
                   THEN Tail(path.comps) ELSE path.comps
           all  == cwd.comps \o rest
       IN  IF Len(all) > PathMax THEN NULL
           ELSE [root  |-> TRUE,
                 comps |-> IF Len(all) > 1 /\ all[Len(all)] = Empty
                           THEN SubSeq(all, 1, Len(all) - 1) ELSE all]

(* Mutant: the file is looked up by its directory.                         *)
FileByDirectory(file, cwd) == remove_last_component(get_absolute_path(file, cwd))

(* The name preopen_file looks up in PREOPEN_FILES.                        *)
abs_file(file, cwd) == get_absolute_path(file, cwd)

(* Mutant: O_DIRECTORY is not looked at.                                   *)
AlwaysParent(file, isdir, cwd) == remove_last_component(get_absolute_path(file, cwd))

(* The name preopen_from_dir looks up in PREOPEN_PATHS and then opens.     *)
dir_path(file, isdir, cwd) ==
  LET abs == get_absolute_path(file, cwd)
  IN  IF isdir THEN abs ELSE remove_last_component(abs)

-----------------------------------------------------------------------------
(* What find_matching_preopen_path computes, without its loop: the first   *)
(* index whose entry shows the same components as the file, where a path   *)
(* shows its components up to the first one that get_path_component does   *)
(* not return.  FindMatch models the loop and proves that it returns this. *)
Shown(path) ==
  IF path = NULL THEN {}
  ELSE {n \in 1..Len(path.comps) :
          \A m \in 1..n : path.comps[m] \notin LongComponent}

(* Every component of the path is shown.                                   *)
Short(p) == p = NULL \/ \A n \in 1..Len(p.comps) : p.comps[n] \notin LongComponent

Agree(p, q) ==
  /\ Shown(p) = Shown(q)
  /\ \A n \in Shown(p) : p.comps[n] = q.comps[n]

IsFirstMatch(path, paths, count, r) ==
  \/ /\ r \in 0..(count - 1) /\ Agree(path, paths[r])
     /\ \A j \in 0..(r - 1) : ~Agree(path, paths[j])
  \/ /\ r = -1
     /\ \A j \in 0..(count - 1) : ~Agree(path, paths[j])

=============================================================================
