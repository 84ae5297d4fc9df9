------------------------------ MODULE FindMatch ------------------------------
(***************************************************************************)
(* find_matching_preopen_path of open64.c, one action per pass of its      *)
(* inner loop, together with what its two callers do to the name first:    *)
(* preopen_file makes it absolute, preopen_from_dir also cuts off the last *)
(* component unless O_DIRECTORY is set.                                    *)
(***************************************************************************)
EXTENDS PreopenPaths, Positions

CONSTANTS Names,         \* names the application opens
          Entries,       \* paths that can stand in a PREOPEN list
          Cwds,          \* what getcwd can return (NULL: it failed)
          MAX_LIST_LEN   \* entries a list has room for

ASSUME FindMatchAssumption ==
  /\ Names \subseteq Path
  /\ Entries \subseteq {p \in Path : p.root}
  /\ Cwds \subseteq {p \in Path : p.root} \cup {NULL}
  /\ MAX_LIST_LEN \in Nat

VARIABLES file, caller, cwd,                   \* the call that is looked up
          file_path, preopen_paths, path_count,  \* arguments
          i, depth,                              \* the two loop counters
          pc, ret

vars == <<file, caller, cwd, file_path, preopen_paths, path_count, i, depth, pc, ret>>
args == <<file, caller, cwd, file_path, preopen_paths, path_count>>

Callers == {"preopen_file", "preopen_from_dir", "preopen_from_dir O_DIRECTORY"}

Argument(c, f, w) ==
  CASE c = "preopen_file" -> abs_file(f, w)
    [] c = "preopen_from_dir" -> dir_path(f, FALSE, w)
    [] c = "preopen_from_dir O_DIRECTORY" -> dir_path(f, TRUE, w)

(* path_count is the number of descriptors in the list of descriptors, not *)
(* the number of paths: slots past the paths hold NULL, and then whatever  *)
(* malloc left there, so any slot may hold any entry or NULL.              *)
Init ==
  /\ file \in Names
  /\ caller \in Callers
  /\ cwd \in Cwds
  /\ file_path = Argument(caller, file, cwd)
  /\ preopen_paths \in [0..(MAX_LIST_LEN - 1) -> Entries \cup {NULL}]
  /\ path_count \in 0..MAX_LIST_LEN
  /\ i = 0 /\ depth = 0
  /\ pc = "loop" /\ ret = -1

file_component == get_path_component(file_path, depth)
preopen_component == get_path_component(preopen_paths[i], depth)

(* Both components exist and are equal: one level deeper.                  *)
Descend ==
  /\ pc = "loop" /\ i < path_count
  /\ file_component # NULL /\ preopen_component # NULL
  /\ file_component = preopen_component
  /\ depth' = depth + 1
  /\ UNCHANGED <<args, i, pc, ret>>

(* Mutants: the entry's end is not tested; the index is one too large.     *)
MatchPrefix ==
  /\ pc = "loop" /\ i < path_count
  /\ file_component = NULL
  /\ ret' = i
  /\ pc' = "done"
  /\ UNCHANGED <<args, i, depth>>

MatchOffByOne ==
  /\ pc = "loop" /\ i < path_count
  /\ file_component = NULL /\ preopen_component = NULL
  /\ ret' = i + 1
  /\ pc' = "done"
  /\ UNCHANGED <<args, i, depth>>

(* Both paths ended (or show no more): return the index.                   *)
Match ==
  /\ pc = "loop" /\ i < path_count
  /\ file_component = NULL /\ preopen_component = NULL
  /\ ret' = i
  /\ pc' = "done"
  /\ UNCHANGED <<args, i, depth>>

(* Mutants: the entry is compared again from the top; the next entry is    *)
(* compared from the depth at which this one differed.                     *)
MismatchStays ==
  /\ pc = "loop" /\ i < path_count
  /\ file_component # preopen_component
  /\ depth' = 0
  /\ UNCHANGED <<args, i, pc, ret>>

MismatchKeepsDepth ==
  /\ pc = "loop" /\ i < path_count
  /\ file_component # preopen_component
  /\ i' = i + 1
  /\ UNCHANGED <<args, depth, pc, ret>>

(* One path ended, or the components differ: on to the next entry.         *)
Mismatch ==
  /\ pc = "loop" /\ i < path_count
  /\ file_component # preopen_component
  /\ i' = i + 1 /\ depth' = 0
  /\ UNCHANGED <<args, pc, ret>>

NotFound ==
  /\ pc = "loop" /\ i >= path_count
  /\ ret' = -1
  /\ pc' = "done"
  /\ UNCHANGED <<args, i, depth>>

Next == Descend \/ Match \/ Mismatch \/ NotFound

Spec == Init /\ [][Next]_vars

FairSpec == Spec /\ WF_vars(Next)

-----------------------------------------------------------------------------
(* The arguments never change, the counters stay within the list, and only *)
(* an index below path_count (or -1) is ever returned.                     *)
TypeOK ==
  /\ file \in Names /\ caller \in Callers /\ cwd \in Cwds
  /\ file_path \in Path \cup {NULL}
  /\ preopen_paths \in [0..(MAX_LIST_LEN - 1) -> Entries \cup {NULL}]
  /\ path_count \in 0..MAX_LIST_LEN
  /\ i \in 0..path_count /\ depth \in Nat
  /\ pc \in {"loop", "done"}
  /\ ret \in -1..(path_count - 1)

(* The loop's work so far: the entries before i do not agree with the      *)
(* file, and entry i agrees with it above the current depth.               *)
LoopInv ==
  /\ \A j \in 0..(i - 1) : ~Agree(file_path, preopen_paths[j])
  /\ pc = "loop" =>
       \A d \in 0..(depth - 1) :
         /\ i < path_count
         /\ get_path_component(file_path, d) # NULL
         /\ get_path_component(file_path, d) = get_path_component(preopen_paths[i], d)

(* The nested loops of find_matching_preopen_path return the first entry   *)
(* that shows exactly the components the file shows: no entry that is only *)
(* a prefix of the file, or the other way round, is ever taken, and an     *)
(* earlier entry is never passed over.                                     *)
ReturnsFirstMatch ==
  pc = "done" => IsFirstMatch(file_path, preopen_paths, path_count, ret)

Solid(comps) == Keep(comps, {Empty})

(* Where a name leads, read without looking at the code's string handling: *)
(* the non-empty components, below the working directory if relative.      *)
Place(f, w) ==
  IF f.root THEN Solid(f.comps)
  ELSE Solid(w.comps) \o Solid(IF Head(f.comps) = Dot /\ Len(f.comps) > 1
                               THEN Tail(f.comps) ELSE f.comps)

ParentPlace(place) == SubSeq(place, 1, Len(place) - 1)

(* What preopen_file and preopen_from_dir promise of a hit: whatever       *)
(* repeated, leading "./" or trailing slashes the name has, the entry that *)
(* was found names the file itself, or for preopen_from_dir without        *)
(* O_DIRECTORY the directory the file is in.  Components of MAX_PATH_LEN   *)
(* bytes are left out: they are not shown, and break it.                   *)
HitNamesTarget ==
  (pc = "done" /\ ret >= 0 /\ file_path # NULL /\ Short(file) /\ Short(cwd))
    => LET hit == preopen_paths[ret]
       IN  hit # NULL /\ Short(hit) =>
             Solid(hit.comps) = IF caller = "preopen_from_dir"
                                THEN ParentPlace(Place(file, cwd))
                                ELSE Place(file, cwd)

(* Every lookup returns: get_path_component comes to NULL in the end.      *)
LookupReturns == <>(pc = "done")
=============================================================================
