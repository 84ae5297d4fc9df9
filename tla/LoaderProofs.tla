---------------------------- MODULE LoaderProofs ----------------------------
(* Proofs about Loader, for every set of files and every start.            *)
EXTENDS Loader, TLAPS, SequenceTheorems, WellFoundedInduction

-----------------------------------------------------------------------------
(* The inductive invariant: TypeOK, and what follows.                      *)

(* Where the objects and the requests stand at each point.                 *)
Phase ==
  /\ loaded = <<>> => /\ pc \in {"start", "by path", "map", "exit", "fault"}
                      /\ todo = <<>> /\ base = 0
  /\ pc = "start" => loaded = <<>> /\ req = NULL
  /\ req # NULL => (req.why = "program" <=> loaded = <<>>)
  /\ \A k \in 1..Len(todo) : todo[k].why # "program"
  /\ pc \in {"listed", "verify", "search"} => req.name \in LibName
  /\ pc = "by path" => req.name \in PathName

(* The descriptor being worked on is the loader's own, or dl_exec_fd.      *)
Owned ==
  /\ pc = "listed" => fd = -1
  /\ pc \in {"verify", "search", "map"} /\ fd # -1 =>
       \/ fdt[fd] # NULL /\ fdt[fd].by = "ld"
       \/ pc = "map" /\ fd = dl_exec_fd /\ dl_exec_fd > 0

-----------------------------------------------------------------------------
(* The value of a failed open is no descriptor.                            *)
LEMMA ErrorNoFd == -1 \notin Fd
BY DEF Fd

(* Opening and closing change one descriptor.                              *)
LEMMA OpeningEffect ==
  ASSUME fdt \in Table, NEW f \in Fd, NEW obj \in File \cup Dir, NEW by \in {"ld", "app"},
         Opening(f, obj, by)
  PROVE  /\ fdt' \in Table
         /\ fdt'[f] = [obj |-> obj, by |-> by]
         /\ \A g \in Fd : g # f => fdt'[g] = fdt[g]
BY DEF Opening, Table, Entry

LEMMA ClosingEffect ==
  ASSUME fdt \in Table, NEW f, Closing(f)
  PROVE  /\ fdt' \in Table
         /\ f \in Fd => fdt'[f] = NULL
         /\ \A g \in Fd : g # f => fdt'[g] = fdt[g]
BY DEF Closing, IsOpen, Table

(* A queue of requests made by one loader for one reason.                  *)
RequestsOf(q, by, reason) ==
  /\ q \in Seq(Request)
  /\ \A k \in 1..Len(q) : q[k].loader = by /\ q[k].why = reason

(* A queue of requests made from a list of names.                          *)
LEMMA RequestsType ==
  ASSUME NEW names \in Seq(Name), NEW by \in Nat, NEW reason \in {"preload", "needed", "dlopen"}
  PROVE  RequestsOf(Requests(names, by, reason), by, reason)
<1>1. \A k \in 1..Len(names) : names[k] \in Name
  OBVIOUS
<1>2. \A k \in 1..Len(names) :
        [name |-> names[k], loader |-> by, why |-> reason] \in Request
  BY <1>1 DEF Request
<1> QED
  BY <1>2 DEF Requests, RequestsOf

(* An element of a joined sequence is one of its parts'.                   *)
LEMMA JoinElements ==
  ASSUME NEW S, NEW s \in Seq(S), NEW t \in Seq(S), NEW k \in 1..Len(s \o t)
  PROVE  \/ k \in 1..Len(s) /\ (s \o t)[k] = s[k]
         \/ k - Len(s) \in 1..Len(t) /\ (s \o t)[k] = t[k - Len(s)]
OBVIOUS

(* What openat finds in a listed directory is a file.                      *)
LEMMA InDirType ==
  ASSUME NEW t \in Table, NEW v, NEW n \in LibName, InDir(t, v, n) # NULL
  PROVE  InDir(t, v, n) \in File
<1>1. v \in Fd /\ t[v] # NULL /\ t[v].obj \in Dir /\ InDir(t, v, n) = Has[t[v].obj][n]
  BY DEF InDir
<1> QED
  BY <1>1, LoaderAssumption

(* A set of numbers has a least one.                                       *)
LEMMA LeastNumber ==
  ASSUME NEW T, T \subseteq Nat, T # {}
  PROVE  \E x \in T : \A y \in T : x <= y
<1> DEFINE less == OpToRel(<, Nat)
<1>1. IsWellFoundedOn(less, Nat)
  BY NatLessThanWellFounded, Zenon
<1>2. \E x \in T : \A y \in T : <<y, x>> \notin less
  <2> HIDE DEF less
  <2> QED  BY <1>1, WFMin, Zenon
<1>3. \A x, y \in Nat : <<y, x>> \notin less => ~(y < x)
  BY DEF OpToRel
<1>4. \A x, y \in Nat : ~(y < x) => x <= y
  OBVIOUS
<1> HIDE DEF less
<1> QED
  BY <1>2, <1>3, <1>4, Zenon

(* What a search finds is a file.                                          *)
LEMMA FirstFileType ==
  ASSUME NEW dirs, NEW n, FirstFile(dirs, n) # NULL
  PROVE  FirstFile(dirs, n) \in File
<1> DEFINE hits == {k \in 1..Len(dirs) :
                      Has[dirs[k]][n] \in File /\ Kind[Has[dirs[k]][n]] # "foreign"}
           least == CHOOSE k \in hits : \A j \in hits : k <= j
<1>1. hits # {} /\ FirstFile(dirs, n) = Has[dirs[least]][n]
  BY Zenon DEF FirstFile
<1>2. hits \subseteq Nat
  OBVIOUS
<1>3. \E k \in hits : \A j \in hits : k <= j
  <2> HIDE DEF hits
  <2> QED  BY <1>1, <1>2, LeastNumber, Zenon
<1>4. least \in hits
  <2> HIDE DEF hits
  <2> QED  BY <1>3
<1> QED
  BY <1>1, <1>4, Zenon

-----------------------------------------------------------------------------
(* TypeOK without its Boolean variable, for the arithmetic.                *)
Shape ==
  /\ fdt \in Table /\ openat_paths \in Seq(Int) /\ dl_exec_fd \in Int
  /\ loaded \in Seq(LinkMap) /\ todo \in Seq(Request)
  /\ fd \in Fd \cup {-1} /\ fd_ptr \in Nat \ {0} /\ base \in Nat /\ base <= Len(loaded)
  /\ \A i \in 1..Len(loaded) : loaded[i].loader < i
  /\ \A k \in 1..Len(todo) : todo[k].loader <= Len(loaded)
  /\ req # NULL => req \in Request /\ req.loader <= Len(loaded)

Control ==
  /\ cfg \in Configs /\ req \in Request \cup {NULL}
  /\ pc \in {"start", "init", "next", "listed", "verify", "search", "by path", "map",
             "running", "exit", "fault"}
  /\ (pc \in {"listed", "verify", "search", "by path", "map"}) => req # NULL
  /\ header \in File \cup {NULL} /\ lost \subseteq Fd /\ missed \in BOOLEAN

LEMMA TypeParts == Shape /\ Control <=> TypeOK
BY Zenon DEF TypeOK, Shape, Control

(* What an error leaves.                                                   *)
LEMMA SignalType ==
  ASSUME Shape, Phase, req # NULL, SignalError
  PROVE  /\ loaded' \in Seq(LinkMap) /\ todo' \in Seq(Request) /\ req' = NULL /\ base' = 0
         /\ pc' \in {"running", "next", "exit"}
         /\ \A i \in 1..Len(loaded') : loaded'[i].loader < i
         /\ \A k \in 1..Len(todo') : todo'[k].loader <= Len(loaded') /\ todo'[k].why # "program"
         /\ loaded' = <<>> => pc' = "exit" /\ todo' = <<>>
<1>1. CASE base > 0
  <2>0. base # 0
    BY <1>1 DEF Shape
  <2>1. loaded' = SubSeq(loaded, 1, base) /\ todo' = <<>> /\ pc' = "running"
    BY <1>1, <2>0, Zenon DEF SignalError
  <2>2. /\ SubSeq(loaded, 1, base) \in Seq(LinkMap)
        /\ Len(SubSeq(loaded, 1, base)) = base
        /\ \A i \in 1..base : SubSeq(loaded, 1, base)[i] = loaded[i]
    <3>1. base \in 1..Len(loaded) /\ loaded \in Seq(LinkMap)
      BY <1>1 DEF Shape
    <3> QED  BY <3>1
  <2>3. \A i \in 1..base : loaded[i].loader < i
    BY DEF Shape
  <2>4. SubSeq(loaded, 1, base) # <<>>
    BY <2>2, <2>0, Zenon
  <2>5. req' = NULL /\ base' = 0
    BY DEF SignalError
  <2> QED
    BY <2>1, <2>2, <2>3, <2>4, <2>5
<1>2. CASE ~(base > 0)
  <2>1. base = 0
    BY <1>2 DEF Shape
  <2>2. loaded' = loaded /\ req' = NULL /\ base' = 0
    BY <1>2, Zenon DEF SignalError
  <2>3. CASE req.why = "preload"
    <3>1. todo' = todo /\ pc' = "next"
      BY <1>2, <2>1, <2>3, Zenon DEF SignalError
    <3>2. loaded # <<>>
      BY <2>3, Zenon DEF Phase
    <3> QED
      BY <2>2, <3>1, <3>2, Zenon DEF Shape, Phase
  <2>4. CASE req.why # "preload"
    <3>1. todo' = <<>> /\ pc' = "exit"
      BY <1>2, <2>1, <2>4, Zenon DEF SignalError
    <3> QED
      BY <2>2, <3>1 DEF Shape
  <2> QED
    BY <2>3, <2>4
<1> QED
  BY <1>1, <1>2

LEMMA AsIntType == ASSUME NEW n \in Int PROVE AsInt(n) \in Int
BY LoaderAssumption DEF AsInt

-----------------------------------------------------------------------------
(* One lemma for each action: it keeps the types and the phases.           *)
LEMMA StartType ==
  ASSUME Shape, Control, Phase, Start
  PROVE  Shape' /\ Control' /\ Phase'
<1>0. cfg \in Config /\ (~cfg.direct => At[cfg.prog] # NULL)
  BY LoaderAssumption, Zenon DEF Control
<1>1. cfg.prog \in PathName /\ (cfg.exec_fd # UNSET => cfg.exec_fd \in Int)
  BY <1>0 DEF Config
<1>2. loaded = <<>> /\ todo = <<>> /\ base = 0 /\ pc = "start"
  BY Zenon DEF Start, Phase
<1>3. CASE ~cfg.direct
  <2>1. /\ loaded' = <<Object(At[cfg.prog], {}, 0)>> /\ pc' = "init"
        /\ UNCHANGED <<cfg, fdt, openat_paths, todo, fd, fd_ptr, header, base, lost, missed,
                       req, dl_exec_fd>>
    BY <1>3, Zenon DEF Start
  <2>2. Object(At[cfg.prog], {}, 0) \in LinkMap /\ Object(At[cfg.prog], {}, 0).loader = 0
    BY <1>0, <1>1, <1>3, LoaderAssumption DEF Object, LinkMap
  <2>6. req = NULL
    BY <1>2 DEF Phase
  <2>3. Shape'
    <3>1. loaded' \in Seq(LinkMap) /\ Len(loaded') = 1 /\ loaded'[1].loader = 0
      BY <2>1, <2>2
    <3>2. \A i \in 1..Len(loaded') : loaded'[i].loader < i
      BY <3>1
    <3> QED  BY <1>2, <2>1, <2>6, <3>1, <3>2 DEF Shape
  <2>4. Control'
    BY <2>1, Zenon DEF Control
  <2>5. loaded' # <<>>
    BY <2>1
  <2>7. Phase'
    BY <1>2, <2>1, <2>5, <2>6 DEF Phase
  <2> QED
    BY <2>3, <2>4, <2>7
<1>4. CASE cfg.direct /\ capsicum /\ cfg.exec_fd = UNSET
  <2>1. /\ pc' = "fault"
        /\ UNCHANGED <<cfg, fdt, openat_paths, todo, fd, fd_ptr, header, base, lost, missed,
                       req, dl_exec_fd, loaded>>
    BY <1>4, Zenon DEF Start
  <2>2. Shape'
    BY <2>1 DEF Shape
  <2>3. Control'
    BY <2>1, Zenon DEF Control
  <2>4. Phase'
    BY <1>2, <2>1 DEF Phase
  <2> QED
    BY <2>2, <2>3, <2>4
<1>5. CASE cfg.direct /\ (capsicum => cfg.exec_fd # UNSET)
  <2> DEFINE r == [name |-> cfg.prog, loader |-> 0, why |-> "program"]
  <2>1. /\ dl_exec_fd' = (IF capsicum THEN AsInt(cfg.exec_fd) ELSE 0)
        /\ req' = r /\ pc' = "by path"
        /\ UNCHANGED <<cfg, fdt, openat_paths, todo, fd, fd_ptr, header, base, lost, missed,
                       loaded>>
    BY <1>5, Zenon DEF Start
  <2>2. dl_exec_fd' \in Int
    <3>1. CASE capsicum
      BY <1>1, <1>5, <2>1, <3>1, AsIntType, Zenon
    <3>2. CASE ~capsicum
      <4>1. dl_exec_fd' = 0
        BY <2>1, <3>2, Zenon
      <4> QED  BY <4>1
    <3> QED  BY <3>1, <3>2
  <2>3. r \in Request /\ r.loader = 0 /\ r.why = "program" /\ r.name \in PathName
    BY <1>1 DEF Request, Name
  <2>4. r # NULL
    BY <2>3, LoaderAssumption
  <2> HIDE DEF r
  <2>5. Shape'
    BY <1>2, <2>1, <2>2, <2>3, Zenon DEF Shape
  <2>6. Control'
    BY <2>1, <2>3, <2>4, Zenon DEF Control
  <2>7. Phase'
    BY <1>2, <2>1, <2>3, Zenon DEF Phase
  <2> QED
    BY <2>5, <2>6, <2>7
<1> QED
  BY <1>3, <1>4, <1>5

(* A step that goes on with the request.                                   *)
LEMMA WorkStep ==
  ASSUME Shape, Control, Phase, req # NULL,
         UNCHANGED <<cfg, openat_paths, dl_exec_fd, loaded, todo, base, req>>,
         fdt' \in Table, fd' \in Fd \cup {-1}, fd_ptr' \in Nat \ {0},
         header' \in File \cup {NULL}, lost' \subseteq Fd, missed' \in BOOLEAN,
         pc' \in {"listed", "verify", "search", "map", "fault"},
         pc' \in {"listed", "verify", "search"} => loaded # <<>> /\ req.name \in LibName
  PROVE  Shape' /\ Control' /\ Phase'
<1>1. Shape'
  BY DEF Shape
<1>2. Control'
  BY Zenon DEF Control
<1>3. Phase'
  BY Zenon DEF Phase
<1> QED
  BY <1>1, <1>2, <1>3

(* A step that ends in an error.                                           *)
LEMMA SignalStep ==
  ASSUME Shape, Control, Phase, req # NULL, SignalError,
         UNCHANGED <<cfg, openat_paths, dl_exec_fd, fd_ptr, missed>>,
         fdt' \in Table, fd' \in Fd \cup {-1},
         header' \in File \cup {NULL}, lost' \subseteq Fd
  PROVE  Shape' /\ Control' /\ Phase'
<1> USE SignalType
<1>1. Shape'
  <2>1. base' \in Nat /\ base' <= Len(loaded')
    BY SignalType
  <2> QED  BY <2>1, Zenon DEF Shape
<1>2. Control'
  BY Zenon DEF Control
<1>3. Phase'
  BY Zenon DEF Phase
<1> QED
  BY <1>1, <1>2, <1>3

LEMMA InitType ==
  ASSUME Shape, Control, Phase, InitOpenatPaths
  PROVE  Shape' /\ Control' /\ Phase'
<1>0. cfg \in Config
  BY LoaderAssumption, Zenon DEF Control
<1>1. llpf \in Seq(Int) /\ fd_ptr <= Len(llpf)
  <2>1. llpf \in Fds
    BY <1>0 DEF Config, llpf
  <2> QED  BY <2>1, Zenon DEF InitOpenatPaths, Fds
<1>2. /\ UNCHANGED <<cfg, fdt, dl_exec_fd, loaded, todo, req, pc, fd, header, base, lost, missed>>
      /\ fd_ptr' = fd_ptr + 1
  BY Zenon DEF InitOpenatPaths
<1>3. openat_paths' \in Seq(Int)
  <2>1. openat_paths' = openat_paths \/ openat_paths' = Append(openat_paths, AsInt(llpf[fd_ptr]))
    BY Zenon DEF InitOpenatPaths
  <2>2. CASE openat_paths' = Append(openat_paths, AsInt(llpf[fd_ptr]))
    <3>1. llpf[fd_ptr] \in Int
      BY <1>1, <2>2 DEF Shape
    <3>2. AsInt(llpf[fd_ptr]) \in Int
      BY <3>1, AsIntType
    <3> QED  BY <2>2, <3>2 DEF Shape
  <2> QED
    BY <2>1, <2>2 DEF Shape
<1>4. Shape'
  BY <1>2, <1>3 DEF Shape
<1>5. Control'
  BY <1>2, Zenon DEF Control
<1>6. Phase'
  BY <1>2, Zenon DEF Phase
<1> QED
  BY <1>4, <1>5, <1>6

LEMMA LoadAllType ==
  ASSUME Shape, Control, Phase, LoadAll
  PROVE  Shape' /\ Control' /\ Phase'
<1> DEFINE first == Requests(cfg.preload, 1, "preload")
           then == Requests(Needed[loaded[1].file], 1, "needed")
<1>0. cfg \in Config
  BY LoaderAssumption, Zenon DEF Control
<1>1. cfg.preload \in Seq(Name)
  BY <1>0 DEF Config
<1>2. pc = "init" /\ loaded # <<>>
  BY DEF LoadAll, Phase
<1>3. loaded[1] \in LinkMap /\ 1 <= Len(loaded)
  BY <1>2 DEF Shape
<1>4. Needed[loaded[1].file] \in Seq(Name)
  BY <1>3, LoaderAssumption DEF LinkMap
<1>5. /\ first \in Seq(Request) /\ then \in Seq(Request)
      /\ \A k \in 1..Len(first) : first[k].loader = 1 /\ first[k].why = "preload"
      /\ \A k \in 1..Len(then) : then[k].loader = 1 /\ then[k].why = "needed"
  <2>1. 1 \in Nat
    OBVIOUS
  <2>2. RequestsOf(first, 1, "preload") /\ RequestsOf(then, 1, "needed")
    BY <1>1, <1>4, <2>1, RequestsType, Zenon
  <2> HIDE DEF first, then
  <2> QED BY <2>2, Zenon DEF RequestsOf
<1>6. todo' = first \o then
  BY Zenon DEF LoadAll
<1> HIDE DEF first, then
<1>7. todo' \in Seq(Request)
  BY <1>5, <1>6
<1>8. \A k \in 1..Len(todo') : todo'[k].loader = 1 /\ todo'[k].why # "program"
  BY <1>5, <1>6, JoinElements
<1>9. /\ UNCHANGED <<cfg, fdt, openat_paths, dl_exec_fd, loaded, req, fd, fd_ptr, header, base,
                     lost, missed>>
      /\ pc' = "next"
  BY Zenon DEF LoadAll
<1>10. Shape'
  BY <1>3, <1>7, <1>8, <1>9 DEF Shape
<1>11. Control'
  BY <1>9, Zenon DEF Control
<1>12. Phase'
  BY <1>2, <1>8, <1>9, Zenon DEF Phase
<1> QED
  BY <1>10, <1>11, <1>12

LEMMA NextRequestType ==
  ASSUME Shape, Control, Phase, NextRequest
  PROVE  Shape' /\ Control' /\ Phase'
<1>1. /\ pc = "next" /\ todo # <<>> /\ todo' = Tail(todo)
      /\ \/ req' = req /\ pc' = "next"
         \/ /\ req' = Head(todo)
            /\ pc' = IF Head(todo).name \in PathName THEN "by path"
                     ELSE IF openat_paths = <<>> THEN "search" ELSE "listed"
      /\ fd' = -1 /\ fd_ptr' = 1 /\ header' = NULL /\ missed' = FALSE
      /\ UNCHANGED <<cfg, fdt, openat_paths, dl_exec_fd, loaded, base, lost>>
  BY Zenon DEF NextRequest
<1>2. /\ Head(todo) \in Request /\ Head(todo) = todo[1] /\ 1 \in 1..Len(todo)
      /\ Tail(todo) \in Seq(Request)
      /\ \A k \in 1..Len(Tail(todo)) : Tail(todo)[k] = todo[k + 1] /\ k + 1 \in 1..Len(todo)
  <2>1. todo \in Seq(Request) /\ todo # <<>>
    BY <1>1, Zenon DEF Shape
  <2> QED  BY <2>1
<1>3. Head(todo).loader <= Len(loaded) /\ Head(todo).why # "program" /\ Head(todo) # NULL
  <2>1. todo[1].loader <= Len(loaded)
    BY <1>2, Zenon DEF Shape
  <2>2. todo[1].why # "program"
    BY <1>2, Zenon DEF Phase
  <2>3. Head(todo) # NULL
    BY <1>2, LoaderAssumption
  <2> QED  BY <1>2, <2>1, <2>2, <2>3, Zenon
<1>4. Shape'
  <2>1. /\ req' = req \/ req' = Head(todo)
        /\ todo' = Tail(todo) /\ fd' = -1 /\ fd_ptr' = 1
        /\ UNCHANGED <<fdt, openat_paths, dl_exec_fd, loaded, base>>
    BY <1>1, Zenon
  <2>2. \A k \in 1..Len(Tail(todo)) : Tail(todo)[k].loader <= Len(loaded)
    BY <1>2 DEF Shape
  <2>3. Tail(todo) \in Seq(Request)
    BY <1>2, Zenon
  <2>4. req' # NULL => req'.loader <= Len(loaded)
    BY <1>1, <1>2, <2>1, Zenon DEF Shape
  <2> QED  BY <1>3, <2>1, <2>2, <2>3, <2>4, SMTT(90) DEF Shape
<1>5. Control'
  BY <1>1, <1>2, <1>3, Zenon DEF Control
<1>6. loaded # <<>>
  BY <1>1, Zenon DEF Phase
<1>7. Head(todo).name \in PathName \/ Head(todo).name \in LibName
  BY <1>2 DEF Request, Name
<1>8. \A k \in 1..Len(todo') : todo'[k].why # "program"
  BY <1>1, <1>2, Zenon DEF Phase
<1>9. Phase'
  BY <1>1, <1>3, <1>6, <1>7, <1>8, Zenon DEF Phase
<1> QED
  BY <1>4, <1>5, <1>9

LEMMA FinishedType ==
  ASSUME Shape, Control, Phase, Finished
  PROVE  Shape' /\ Control' /\ Phase'
<1>1. /\ pc = "next" /\ pc' = "running" /\ base' = 0
      /\ UNCHANGED <<cfg, fdt, openat_paths, dl_exec_fd, loaded, todo, req, fd, fd_ptr, header,
                     lost, missed>>
  BY Zenon DEF Finished
<1>2. Shape'
  <2>1. loaded \in Seq(LinkMap)
    BY Zenon DEF Shape
  <2>2. 0 \in Nat /\ 0 <= Len(loaded)
    BY <2>1
  <2> QED BY <1>1, <2>2, Zenon DEF Shape
<1>3. Control'
  BY <1>1, Zenon DEF Control
<1>4. Phase'
  BY <1>1 DEF Phase
<1> QED
  BY <1>2, <1>3, <1>4

LEMMA OpenatType ==
  ASSUME Shape, Control, Phase, OpenatNext
  PROVE  Shape' /\ Control' /\ Phase'
<1> DEFINE file == InDir(fdt, Memory[fd_ptr], req.name)
<1>1. /\ pc = "listed" /\ req # NULL /\ loaded # <<>> /\ req.name \in LibName
      /\ UNCHANGED <<cfg, openat_paths, dl_exec_fd, loaded, todo, req, header, base, lost>>
      /\ header \in File \cup {NULL} /\ lost \subseteq Fd
  BY Zenon DEF OpenatNext, Control, Phase
<1>2. /\ pc' \in {"listed", "verify", "search", "map", "fault"}
      /\ missed' \in BOOLEAN
  BY Zenon DEF OpenatNext, Control, TableFull
<1>3. \/ UNCHANGED fd_ptr \/ fd_ptr' = fd_ptr + 1
  BY Zenon DEF OpenatNext
<1>4. \/ UNCHANGED <<fdt, fd>>
      \/ file # NULL /\ \E f \in Fd : Opening(f, file, "ld") /\ fd' = f
  BY Zenon DEF OpenatNext
<1>5. fdt' \in Table /\ fd' \in Fd \cup {-1}
  <2>1. fdt \in Table /\ fd \in Fd \cup {-1}
    BY DEF Shape
  <2>2. file # NULL => file \in File
    BY <1>1, <2>1, InDirType
  <2>3. \A f \in Fd : file \in File /\ Opening(f, file, "ld") => fdt' \in Table
    BY <2>1, OpeningEffect, Zenon
  <2> QED  BY <1>4, <2>1, <2>2, <2>3, Zenon
<1>6. fd_ptr' \in Nat \ {0}
  BY <1>3 DEF Shape
<1> QED
  BY <1>1, <1>2, <1>5, <1>6, WorkStep, Zenon

(* What verification accepts is a file.                                    *)
LEMMA VerdictOk ==
  ASSUME fdt \in Table, NEW v, Verdict(v) = "ok"
  PROVE  v \in Fd /\ fdt[v] # NULL /\ fdt[v].obj \in File /\ Kind[fdt[v].obj] # "foreign"
<1>1. IsOpen(v) /\ fdt[v].obj \notin Dir
  BY DEF Verdict
<1>2. fdt[v] \in Entry
  BY <1>1 DEF IsOpen, Table
<1> QED
  BY <1>1, <1>2 DEF Verdict, IsOpen, Entry

LEMMA VerifyType ==
  ASSUME Shape, Control, Phase, VerifyListed
  PROVE  Shape' /\ Control' /\ Phase'
<1>1. /\ pc = "verify" /\ req # NULL /\ loaded # <<>> /\ req.name \in LibName
      /\ UNCHANGED <<cfg, openat_paths, dl_exec_fd, fd_ptr, lost, missed>>
      /\ header \in File \cup {NULL} /\ lost \subseteq Fd /\ missed \in BOOLEAN
  BY Zenon DEF VerifyListed, Control, Phase
<1>2. fdt \in Table /\ fd \in Fd \cup {-1} /\ fd_ptr \in Nat \ {0} /\ -1 \in Fd \cup {-1}
  BY DEF Shape
<1>3. (\E f : Closing(f)) => fdt' \in Table
  BY <1>2, ClosingEffect
<1>4. CASE Closing(fd) /\ fd' = -1 /\ SignalError /\ UNCHANGED header
  BY <1>1, <1>2, <1>3, <1>4, SignalStep, Zenon
<1>5. CASE /\ Closing(fd) /\ fd' = -1 /\ pc' = "search"
           /\ UNCHANGED <<header, req, todo, loaded, base>>
  BY <1>1, <1>2, <1>3, <1>5, WorkStep, Zenon
<1>6. CASE /\ Verdict(fd) = "ok" /\ header' = fdt[fd].obj /\ pc' = "search"
           /\ UNCHANGED <<fdt, fd, req, todo, loaded, base>>
  <2>1. header' \in File
    BY <1>2, <1>6, VerdictOk
  <2> QED  BY <1>1, <1>2, <1>6, <2>1, WorkStep, Zenon
<1>7. CASE pc' = "search" /\ UNCHANGED <<fdt, fd, header, req, todo, loaded, base>>
  BY <1>1, <1>2, <1>7, WorkStep, Zenon
<1> QED
  BY <1>4, <1>5, <1>6, <1>7, Zenon DEF VerifyListed

(* What the searches by name do.                                           *)
LEMMA OpenAndVerifyCases ==
  ASSUME NEW file, file # NULL => file \in File, OpenAndVerify(file)
  PROVE  \/ SignalError /\ UNCHANGED <<fdt, fd, header>>
         \/ /\ file \in File /\ Kind[file] # "foreign"
            /\ \E f \in Fd : LowestFree(f) /\ Opening(f, file, "ld") /\ fd' = f
            /\ header' = file /\ pc' = "map"
            /\ UNCHANGED <<req, todo, loaded, base>>
BY Zenon DEF OpenAndVerify

LEMMA OpenAndVerifyType ==
  ASSUME Shape, Control, Phase, req # NULL,
         NEW file, file # NULL => file \in File, OpenAndVerify(file),
         UNCHANGED <<cfg, openat_paths, dl_exec_fd, fd_ptr, missed>>, lost' \subseteq Fd
  PROVE  Shape' /\ Control' /\ Phase'
<1>1. /\ fdt \in Table /\ fd \in Fd \cup {-1} /\ fd_ptr \in Nat \ {0}
      /\ header \in File \cup {NULL} /\ missed \in BOOLEAN
  BY Zenon DEF Shape, Control
<1>2. CASE SignalError /\ UNCHANGED <<fdt, fd, header>>
  BY <1>1, <1>2, SignalStep, Zenon
<1>3. CASE /\ file \in File
           /\ \E f \in Fd : LowestFree(f) /\ Opening(f, file, "ld") /\ fd' = f
           /\ header' = file /\ pc' = "map"
           /\ UNCHANGED <<req, todo, loaded, base>>
  <2>1. PICK f \in Fd : Opening(f, file, "ld") /\ fd' = f
    BY <1>3
  <2>2. fdt' \in Table
    BY <1>1, <1>3, <2>1, OpeningEffect, Zenon
  <2> QED  BY <1>1, <1>3, <2>1, <2>2, WorkStep, Zenon
<1> QED
  BY <1>2, <1>3, OpenAndVerifyCases, Zenon

LEMMA SearchType ==
  ASSUME Shape, Control, Phase, SearchPaths
  PROVE  Shape' /\ Control' /\ Phase'
<1>1. /\ pc = "search" /\ req # NULL
      /\ UNCHANGED <<cfg, openat_paths, dl_exec_fd, fd_ptr, missed>>
      /\ header \in File \cup {NULL} /\ lost \subseteq Fd /\ missed \in BOOLEAN
  BY Zenon DEF SearchPaths, Control
<1>2. fdt \in Table /\ fd \in Fd \cup {-1} /\ fd_ptr \in Nat \ {0}
  BY DEF Shape
<1>3. lost' \subseteq Fd
  BY <1>1, <1>2, Zenon DEF SearchPaths
<1>4. ASSUME NEW dirs, OpenAndVerify(FirstFile(dirs, req.name))
      PROVE  Shape' /\ Control' /\ Phase'
  <2>1. FirstFile(dirs, req.name) # NULL => FirstFile(dirs, req.name) \in File
    BY FirstFileType
  <2> QED  BY <1>1, <1>3, <1>4, <2>1, OpenAndVerifyType, Zenon
<1>5. CASE pc' = "map" /\ UNCHANGED <<fdt, fd, header, req, todo, loaded, base, lost>>
  BY <1>1, <1>2, <1>3, <1>5, WorkStep, Zenon
<1> QED
  BY <1>4, <1>5, Zenon DEF SearchPaths

LEMMA OpenPathType ==
  ASSUME Shape, Control, Phase, OpenPath
  PROVE  Shape' /\ Control' /\ Phase'
<1>1. /\ pc = "by path" /\ req # NULL /\ req.name \in PathName
      /\ UNCHANGED <<cfg, openat_paths, dl_exec_fd, fd_ptr, lost, missed>>
      /\ header \in File \cup {NULL} /\ lost \subseteq Fd /\ missed \in BOOLEAN
  BY Zenon DEF OpenPath, Control, Phase
<1>2. fdt \in Table /\ fd \in Fd \cup {-1} /\ fd_ptr \in Nat \ {0}
  BY DEF Shape
<1>3. CASE Closing(dl_exec_fd) /\ SignalError /\ UNCHANGED <<fd, header>>
  <2>1. fdt' \in Table
    BY <1>2, <1>3, ClosingEffect
  <2> QED  BY <1>1, <1>2, <1>3, <2>1, SignalStep, Zenon
<1>4. CASE /\ Verdict(dl_exec_fd) = "ok"
           /\ fd' = dl_exec_fd /\ header' = fdt[dl_exec_fd].obj /\ pc' = "map"
           /\ UNCHANGED <<fdt, req, todo, loaded, base>>
  <2>1. header' \in File /\ fd' \in Fd
    BY <1>2, <1>4, VerdictOk
  <2> QED  BY <1>1, <1>2, <1>4, <2>1, WorkStep, Zenon
<1>5. CASE OpenAndVerify(At[req.name])
  <2>1. At[req.name] # NULL => At[req.name] \in File
    BY <1>1, LoaderAssumption, Zenon
  <2> QED  BY <1>1, <1>5, <2>1, OpenAndVerifyType, Zenon
<1> QED
  BY <1>3, <1>4, <1>5, Zenon DEF OpenPath

(* A further name changes nothing else of the objects.                     *)
LEMMA AddNameEffect ==
  ASSUME Shape, req # NULL, NEW i \in 1..Len(loaded), AddName(i)
  PROVE  /\ loaded' \in Seq(LinkMap) /\ Len(loaded') = Len(loaded)
         /\ \A j \in 1..Len(loaded) : /\ loaded'[j].file = loaded[j].file
                                      /\ loaded'[j].loader = loaded[j].loader
<1> DEFINE obj == Object(loaded[i].file, loaded[i].names \cup {req.name}, loaded[i].loader)
<1>1. loaded' = [loaded EXCEPT ![i] = obj]
  BY DEF AddName
<1>2. req.name \in Name /\ loaded \in Seq(LinkMap)
  BY DEF Shape, Request
<1>3. loaded[i] \in LinkMap
  BY <1>2
<1>4. obj \in LinkMap /\ obj.file = loaded[i].file /\ obj.loader = loaded[i].loader
  BY <1>2, <1>3 DEF LinkMap, Object
<1> HIDE DEF obj
<1> QED
  BY <1>1, <1>2, <1>4

(* A new object is put behind the others.                                  *)
LEMMA NewObjectEffect ==
  ASSUME Shape, req # NULL, NewObject, fdt[fd].obj \in File
  PROVE  /\ loaded' \in Seq(LinkMap) /\ Len(loaded') = Len(loaded) + 1
         /\ \A j \in 1..Len(loaded) : loaded'[j] = loaded[j]
         /\ loaded'[Len(loaded) + 1].file = fdt[fd].obj
         /\ loaded'[Len(loaded) + 1].loader <= Len(loaded)
<1> DEFINE by == IF req.why = "dlopen" THEN 0 ELSE req.loader
           obj == Object(fdt[fd].obj, {req.name}, by)
<1>1. req.name \in Name /\ req.loader \in Nat /\ req.loader <= Len(loaded) /\ loaded \in Seq(LinkMap)
  BY DEF Shape, Request
<1>2. by \in Nat /\ by <= Len(loaded)
  BY <1>1
<1>3. loaded' = Append(loaded, obj)
  BY Zenon DEF NewObject
<1> HIDE DEF by
<1>4. obj \in LinkMap /\ obj.file = fdt[fd].obj /\ obj.loader = by
  BY <1>1, <1>2 DEF Object, LinkMap
<1> HIDE DEF obj
<1> QED
  BY <1>1, <1>2, <1>3, <1>4

LEMMA NewObjectType ==
  ASSUME Shape, Control, Phase, req # NULL, pc = "map", NewObject, fdt[fd].obj \in File,
         UNCHANGED <<cfg, openat_paths, dl_exec_fd, fd_ptr, header, lost, missed>>
  PROVE  Shape' /\ Control' /\ Phase'
<1> DEFINE more == Requests(Needed[fdt[fd].obj], Len(loaded) + 1, "needed")
<1>1. Needed[fdt[fd].obj] \in Seq(Name) /\ Len(loaded) + 1 \in Nat /\ todo \in Seq(Request)
  <2>1. Needed \in [File -> Seq(Name)]
    BY LoaderAssumption, Zenon
  <2>2. loaded \in Seq(LinkMap) /\ todo \in Seq(Request)
    BY Zenon DEF Shape
  <2>3. Len(loaded) \in Nat
    BY <2>2, LenProperties
  <2>4. Needed[fdt[fd].obj] \in Seq(Name)
    BY <2>1, Zenon
  <2>5. Len(loaded) + 1 \in Nat
    BY <2>3
  <2> QED BY <2>2, <2>4, <2>5, Zenon
<1>2. /\ more \in Seq(Request)
      /\ \A k \in 1..Len(more) : more[k].loader = Len(loaded) + 1 /\ more[k].why = "needed"
  <2>1. RequestsOf(more, Len(loaded) + 1, "needed")
    BY <1>1, RequestsType, Zenon
  <2> HIDE DEF more
  <2> QED BY <2>1, Zenon DEF RequestsOf
<1>3. Closing(fd) /\ fd' = -1 /\ req' = NULL /\ UNCHANGED base
  BY Zenon DEF NewObject
<1>4. \/ req.why = "program" /\ pc' = "init" /\ todo' = todo
      \/ req.why # "program" /\ pc' = "next" /\ todo' = todo \o more
  BY Zenon DEF NewObject
<1> HIDE DEF more
<1>5. fdt' \in Table
  BY <1>3, ClosingEffect DEF Shape
<1> DEFINE Fits(q) == /\ q \in Seq(Request)
                       /\ \A k \in 1..Len(q) : q[k].loader <= Len(loaded) + 1 /\ q[k].why # "program"
<1>6. Fits(todo')
  <2>1. Fits(todo)
    <3>1. /\ Len(loaded) \in Nat
          /\ \A k \in 1..Len(todo) : todo[k].loader <= Len(loaded) /\ todo[k].loader \in Nat
      <4>1. /\ loaded \in Seq(LinkMap)
            /\ \A k \in 1..Len(todo) : todo[k].loader <= Len(loaded)
        BY Zenon DEF Shape
      <4>2. \A k \in 1..Len(todo) : todo[k] \in Request
        BY <1>1
      <4>3. \A r \in Request : r.loader \in Nat
        BY DEF Request
      <4>4. \A k \in 1..Len(todo) : todo[k].loader \in Nat
        BY <4>2, <4>3, Zenon
      <4> QED  BY <4>1, <4>4
    <3>2. \A k \in 1..Len(todo) : todo[k].why # "program"
      BY Zenon DEF Phase
    <3> QED  BY <1>1, <3>1, <3>2
  <2>2. Fits(todo \o more)
    <3>1. todo \o more \in Seq(Request)
      BY <1>1, <1>2
    <3>2. ASSUME NEW k \in 1..Len(todo \o more)
          PROVE  (todo \o more)[k].loader <= Len(loaded) + 1 /\ (todo \o more)[k].why # "program"
      <4>1. \/ k \in 1..Len(todo) /\ (todo \o more)[k] = todo[k]
            \/ k - Len(todo) \in 1..Len(more) /\ (todo \o more)[k] = more[k - Len(todo)]
        BY <1>1, <1>2, JoinElements
      <4>2. CASE k \in 1..Len(todo) /\ (todo \o more)[k] = todo[k]
        BY <2>1, <4>2, Zenon
      <4>3. CASE k - Len(todo) \in 1..Len(more) /\ (todo \o more)[k] = more[k - Len(todo)]
        <5>1. (todo \o more)[k].loader = Len(loaded) + 1 /\ (todo \o more)[k].why = "needed"
          BY <1>2, <4>3, Zenon
        <5> QED BY <1>1, <5>1
      <4> QED  BY <4>1, <4>2, <4>3, Zenon
    <3> QED  BY <3>1, <3>2
  <2> HIDE DEF Fits
  <2> QED  BY <1>4, <2>1, <2>2, Zenon
<1>7. Shape'
  <2>0. /\ loaded' \in Seq(LinkMap) /\ Len(loaded') = Len(loaded) + 1
        /\ \A j \in 1..Len(loaded) : loaded'[j] = loaded[j]
        /\ loaded'[Len(loaded) + 1].loader <= Len(loaded)
    BY NewObjectEffect, Zenon
  <2>1. \A k \in 1..Len(todo') : todo'[k].loader <= Len(loaded')
    BY <1>6, <2>0
  <2>2. \A i \in 1..Len(loaded') : loaded'[i].loader < i
    <3>1. /\ \A i \in 1..Len(loaded) : loaded[i].loader < i
          /\ loaded \in Seq(LinkMap)
      BY DEF Shape
    <3>2. loaded'[Len(loaded) + 1] \in LinkMap
      <4>1. Len(loaded) + 1 \in 1..Len(loaded')
        BY <2>0, <3>1
      <4> QED  BY <2>0, <4>1
    <3>3. loaded'[Len(loaded) + 1].loader < Len(loaded) + 1
      BY <2>0, <3>1, <3>2 DEF LinkMap
    <3> QED  BY <2>0, <3>1, <3>3
  <2>3. base' \in Nat /\ base' <= Len(loaded') /\ fd' \in Fd \cup {-1}
    BY <1>3, NewObjectEffect DEF Shape
  <2> QED  BY <1>3, <1>5, <1>6, <2>1, <2>2, <2>3, NewObjectEffect, Zenon DEF Shape
<1>8. Control'
  BY <1>3, <1>4, Zenon DEF Control
<1>9. loaded' # <<>>
  <2>1. Len(loaded') # 0
    BY <1>1, NewObjectEffect
  <2> QED  BY <2>1
<1>10. \A k \in 1..Len(todo') : todo'[k].why # "program"
  BY <1>6
<1>11. Phase'
  BY <1>3, <1>4, <1>9, <1>10, Zenon DEF Phase
<1> QED
  BY <1>7, <1>8, <1>11

LEMMA MapType ==
  ASSUME Shape, Control, Phase, MapFromFd
  PROVE  Shape' /\ Control' /\ Phase'
<1>1. /\ pc = "map" /\ req # NULL
      /\ UNCHANGED <<cfg, openat_paths, dl_exec_fd, fd_ptr, header, lost, missed>>
      /\ header \in File \cup {NULL} /\ lost \subseteq Fd /\ missed \in BOOLEAN
  BY Zenon DEF MapFromFd, Control
<1>2. fdt \in Table /\ fd \in Fd \cup {-1} /\ fd_ptr \in Nat \ {0} /\ -1 \in Fd \cup {-1}
  BY DEF Shape
<1>3. (\E f : Closing(f)) => fdt' \in Table
  BY <1>2, ClosingEffect
<1>4. CASE fd' = -1 /\ SignalError /\ (UNCHANGED fdt \/ Closing(fd))
  BY <1>1, <1>2, <1>3, <1>4, SignalStep, Zenon
<1>5. CASE pc' = "fault" /\ fd' = -1 /\ UNCHANGED <<fdt, req, todo, loaded, base>>
  BY <1>1, <1>2, <1>5, WorkStep, Zenon
<1>6. ASSUME NEW i \in SameFile(fdt[fd].obj), AddName(i), req.why # "program"
      PROVE  Shape' /\ Control' /\ Phase'
  <2>1. i \in 1..Len(loaded)
    BY DEF SameFile, Shape
  <2>2. /\ Closing(fd) /\ fd' = -1 /\ req' = NULL /\ pc' = "next"
        /\ UNCHANGED <<todo, base>>
    BY <1>6, Zenon DEF AddName
  <2>3. /\ loaded' \in Seq(LinkMap) /\ Len(loaded') = Len(loaded)
        /\ \A j \in 1..Len(loaded) : loaded'[j].loader = loaded[j].loader
    BY <1>1, <1>6, <2>1, AddNameEffect
  <2>4. Shape'
    BY <1>1, <1>2, <1>3, <2>2, <2>3, Zenon DEF Shape
  <2>5. Control'
    BY <1>1, <2>2, Zenon DEF Control
  <2>6. loaded' # <<>>
    BY <2>1, <2>3 DEF Shape
  <2>7. Phase'
    BY <2>2, <2>6, Zenon DEF Phase
  <2> QED  BY <2>4, <2>5, <2>7
<1>7. CASE NewObject /\ IsOpen(fd) /\ fdt[fd].obj = header
  <2>1. fdt[fd] \in Entry
    BY <1>2, <1>7 DEF IsOpen, Table
  <2>2. fdt[fd].obj \in File
    BY <1>1, <1>7, <2>1, LoaderAssumption, SMTT(40) DEF Entry
  <2> QED  BY <1>1, <1>7, <2>2, NewObjectType
<1> QED
  BY <1>1, <1>4, <1>5, <1>6, <1>7, Zenon DEF MapFromFd

LEMMA AppType ==
  ASSUME Shape, Control, Phase, dlopen \/ AppOpen \/ AppClose
  PROVE  Shape' /\ Control' /\ Phase'
<1>1. CASE dlopen
  <2>1. /\ pc = "running" /\ pc' = "next" /\ base' = Len(loaded)
        /\ \E n \in AppNames : todo' = Requests(<<n>>, 1, "dlopen")
        /\ UNCHANGED <<cfg, fdt, openat_paths, dl_exec_fd, loaded, req, fd, fd_ptr, header, lost,
                       missed>>
    BY <1>1, Zenon DEF dlopen
  <2>2. PICK n \in AppNames : todo' = Requests(<<n>>, 1, "dlopen")
    BY <2>1
  <2>3. <<n>> \in Seq(Name)
    BY LoaderAssumption
  <2>4. /\ todo' \in Seq(Request)
        /\ \A k \in 1..Len(todo') : todo'[k].loader = 1 /\ todo'[k].why = "dlopen"
    <3>1. 1 \in Nat
      OBVIOUS
    <3>2. RequestsOf(todo', 1, "dlopen")
      BY <2>2, <2>3, <3>1, RequestsType, Zenon
    <3> QED BY <3>2, Zenon DEF RequestsOf
  <2>5. loaded # <<>>
    BY <2>1 DEF Phase
  <2>6. Shape'
    <3>1. loaded \in Seq(LinkMap)
      BY Zenon DEF Shape
    <3>2. Len(loaded) \in Nat /\ 1 <= Len(loaded)
      BY <2>5, <3>1
    <3>3. \A k \in 1..Len(todo') : todo'[k].loader <= Len(loaded)
      BY <2>4, <3>2, Zenon
    <3>4. Len(loaded) <= Len(loaded)
      BY <3>2
    <3> QED BY <2>1, <2>4, <3>2, <3>3, <3>4, ZenonT(40) DEF Shape
  <2>7. Control'
    BY <2>1, Zenon DEF Control
  <2>8. Phase'
    BY <2>1, <2>4, <2>5 DEF Phase
  <2> QED  BY <2>6, <2>7, <2>8
<1>2. CASE AppOpen \/ AppClose
  <2>1. UNCHANGED <<cfg, openat_paths, dl_exec_fd, loaded, todo, req, pc, fd, fd_ptr, header,
                    base, lost, missed>>
    BY <1>2, Zenon DEF AppOpen, AppClose
  <2>2. fdt' \in Table
    <3>1. CASE AppOpen
      BY <3>1, OpeningEffect, LoaderAssumption, Zenon DEF AppOpen, Shape
    <3>2. CASE AppClose
      BY <3>2 DEF AppClose, Shape, Table
    <3> QED  BY <1>2, <3>1, <3>2
  <2>3. Shape'
    BY <2>1, <2>2 DEF Shape
  <2>4. Control' /\ Phase'
    BY <2>1, Zenon DEF Control, Phase
  <2> QED  BY <2>3, <2>4
<1> QED
  BY <1>1, <1>2

(* The types and the phases are kept by every step.                        *)
LEMMA TypeStep ==
  ASSUME TypeOK, Phase, [Next]_vars
  PROVE  TypeOK' /\ Phase'
<1>1. Shape /\ Control
  BY TypeParts
<1>2. CASE Next
  <2>1. Shape' /\ Control' /\ Phase'
    BY <1>1, <1>2, StartType, InitType, LoadAllType, NextRequestType, FinishedType, OpenatType,
       VerifyType, SearchType, OpenPathType, MapType, AppType, Zenon DEF Next
  <2> QED  BY <2>1, TypeParts, PTL
<1>3. CASE UNCHANGED vars
  <2>1. UNCHANGED <<cfg, fdt, openat_paths, dl_exec_fd, loaded, todo, req, pc, fd, fd_ptr, header,
                    base, lost, missed>>
    BY <1>3 DEF vars
  <2>2. TypeOK'
    BY <2>1, ZenonT(30) DEF TypeOK
  <2>3. Phase'
    BY <2>1, Zenon DEF Phase
  <2> QED  BY <2>2, <2>3
<1> QED
  BY <1>2, <1>3

LEMMA TypeInit == ASSUME Init PROVE TypeOK /\ Phase
<1>1. cfg \in Config /\ cfg \in Configs
  BY LoaderAssumption, Zenon DEF Init
<1>2. fdt \in Table
  <2>1. cfg.table \in StartTable
    BY <1>1 DEF Config
  <2>2. fdt = cfg.table
    BY Zenon DEF Init
  <2> QED  BY <2>1, <2>2 DEF StartTable, Table, Entry
<1>3. Shape
  BY <1>2 DEF Init, Shape
<1>4. Control
  BY <1>1, Zenon DEF Init, Control
<1>5. Phase
  BY DEF Init, Phase
<1> QED
  BY <1>3, <1>4, <1>5, TypeParts

(* The state of the loader has its type, and a request never points at an  *)
(* object that a failed dlopen has removed.                                *)
THEOREM TypeCorrect == Spec => []TypeOK
<1>1. Init => TypeOK /\ Phase
  BY TypeInit
<1>2. (TypeOK /\ Phase) /\ [Next]_vars => (TypeOK /\ Phase)'
  BY TypeStep
<1> QED
  BY <1>1, <1>2, PTL DEF Spec

-----------------------------------------------------------------------------
(* Descriptors.  What the loader opened and does not hold has been lost.   *)
AllLost == \A f \in Fd : fdt[f] # NULL /\ fdt[f].by = "ld" => f \in lost
Held == {"verify", "search", "map"}

LEMMA IdleAllLost ==
  ASSUME LoaderFdsAccounted, pc \notin Held \cup {"fault"}
  PROVE  AllLost
BY Zenon DEF LoaderFdsAccounted, AllLost, Held

LEMMA NoFdAllLost ==
  ASSUME LoaderFdsAccounted, pc # "fault", fd \notin Fd \/ fdt[fd] = NULL
  PROVE  AllLost
BY Zenon DEF LoaderFdsAccounted, AllLost

LEMMA CloseFdAllLost ==
  ASSUME fdt \in Table, LoaderFdsAccounted, pc # "fault", Closing(fd), lost' = lost
  PROVE  AllLost'
<1> SUFFICES ASSUME NEW f \in Fd, fdt'[f] # NULL, fdt'[f].by = "ld"
             PROVE  f \in lost
  BY Zenon DEF AllLost
<1>1. f # fd /\ fdt'[f] = fdt[f]
  BY ClosingEffect, Zenon
<1> QED
  BY <1>1, Zenon DEF LoaderFdsAccounted

LEMMA AllLostAccounted ==
  AllLost => LoaderFdsAccounted
BY Zenon DEF LoaderFdsAccounted, AllLost

(* Opening the descriptor to hold.                                         *)
LEMMA OpenHeld ==
  ASSUME fdt \in Table, NEW f \in Fd, NEW file \in File, Opening(f, file, "ld"), fd' = f,
         pc' \in {"verify", "map"},
         \A g \in Fd : fdt[g] # NULL /\ fdt[g].by = "ld" => g \in lost'
  PROVE  LoaderFdsAccounted' /\ Owned'
<1>1. /\ fdt'[f] = [obj |-> file, by |-> "ld"]
      /\ \A g \in Fd : g # f => fdt'[g] = fdt[g]
      /\ fdt' \in Table
  BY OpeningEffect, Zenon
<1>2. [obj |-> file, by |-> "ld"] # NULL
  BY LoaderAssumption DEF Entry
<1>3. LoaderFdsAccounted'
  BY <1>1, Zenon DEF LoaderFdsAccounted
<1>4. Owned'
  <2>1. pc' # "listed"
    BY Zenon
  <2>2. fdt'[f] # NULL /\ fdt'[f].by = "ld"
    <3>1. [obj |-> file, by |-> "ld"].by = "ld"
      OBVIOUS
    <3> QED BY <1>1, <1>2, <3>1, Zenon
  <2> QED BY <2>1, <2>2, Zenon DEF Owned
<1> QED
  BY <1>3, <1>4

LEMMA SignalPc == ASSUME SignalError PROVE pc' \notin Held \cup {"listed", "fault"}
BY Zenon DEF SignalError, Held

LEMMA NotHeldOwned == ASSUME pc \notin Held \cup {"listed"} PROVE Owned
BY Zenon DEF Owned, Held

LEMMA OpenAndVerifyOwn ==
  ASSUME fdt \in Table, NEW file, file # NULL => file \in File, OpenAndVerify(file),
         \A g \in Fd : fdt[g] # NULL /\ fdt[g].by = "ld" => g \in lost'
  PROVE  LoaderFdsAccounted' /\ Owned'
<1>1. CASE SignalError /\ UNCHANGED <<fdt, fd, header>>
  <2>1. LoaderFdsAccounted'
    BY <1>1, Zenon DEF LoaderFdsAccounted
  <2>2. Owned'
    BY <1>1, SignalPc, Zenon DEF Owned, Held
  <2> QED  BY <2>1, <2>2
<1>2. ASSUME file \in File, NEW f \in Fd, Opening(f, file, "ld"), fd' = f, pc' = "map"
      PROVE  LoaderFdsAccounted' /\ Owned'
  BY <1>2, OpenHeld, Zenon
<1>3. \/ SignalError /\ UNCHANGED <<fdt, fd, header>>
      \/ /\ file \in File /\ pc' = "map"
         /\ \E f \in Fd : Opening(f, file, "ld") /\ fd' = f
  BY Zenon DEF OpenAndVerify
<1> QED
  BY <1>1, <1>2, <1>3, Zenon

LEMMA OwnStep ==
  ASSUME TypeOK, Phase, Owned, LoaderFdsAccounted, [Next]_vars
  PROVE  Owned' /\ LoaderFdsAccounted'
<1>0. Shape /\ fdt \in Table /\ fd \in Fd \cup {-1} /\ -1 \notin Fd
  <2>1. Shape
    BY TypeParts, Zenon
  <2> QED BY <2>1, ErrorNoFd, Zenon DEF Shape
<1>1. CASE UNCHANGED <<fdt, lost>> /\ pc \notin Held \cup {"fault", "listed"}
           /\ (pc' \in Held \cup {"listed"} => fd' = -1)
  <2>1. AllLost'
    BY <1>1, IdleAllLost, Zenon DEF AllLost
  <2>2. Owned'
    BY <1>1, Zenon DEF Owned, Held
  <2> QED  BY <2>1, <2>2, AllLostAccounted, PTL
<1>2. CASE Start \/ InitOpenatPaths \/ LoadAll \/ NextRequest \/ Finished \/ dlopen
  <2>1. UNCHANGED <<fdt, lost>> /\ pc \notin Held \cup {"fault", "listed"}
           /\ (pc' \in Held \cup {"listed"} => fd' = -1)
    BY <1>2, Zenon DEF Start, InitOpenatPaths, LoadAll, NextRequest, Finished, dlopen, Held
  <2> QED  BY <1>1, <2>1
<1>3. CASE OpenatNext
  <2>1. pc = "listed" /\ UNCHANGED lost /\ AllLost /\ fd = -1
    <3>1. pc = "listed" /\ UNCHANGED lost
      BY <1>3, Zenon DEF OpenatNext
    <3> QED  BY <3>1, IdleAllLost, Zenon DEF Held, Owned
  <2>2. CASE UNCHANGED <<fdt, fd>>
    <3>1. LoaderFdsAccounted'
      BY <2>1, <2>2, Zenon DEF AllLost, LoaderFdsAccounted
    <3>2. Owned'
      BY <2>1, <2>2, Zenon DEF Owned
    <3> QED  BY <3>1, <3>2
  <2>3. ASSUME NEW f \in Fd, Opening(f, InDir(fdt, Memory[fd_ptr], req.name), "ld"), fd' = f,
               InDir(fdt, Memory[fd_ptr], req.name) # NULL, pc' = "verify"
        PROVE  Owned' /\ LoaderFdsAccounted'
    <3>1. req.name \in LibName
      BY <2>1, Zenon DEF Phase
    <3>2. InDir(fdt, Memory[fd_ptr], req.name) \in File
      BY <1>0, <2>3, <3>1, InDirType
    <3>3. \A g \in Fd : fdt[g] # NULL /\ fdt[g].by = "ld" => g \in lost'
      BY <2>1, Zenon DEF AllLost
    <3> QED  BY <1>0, <2>3, <3>2, <3>3, OpenHeld, Zenon
  <2> QED  BY <1>3, <2>2, <2>3, Zenon DEF OpenatNext
<1>4. CASE VerifyListed
  <2>1. pc = "verify" /\ UNCHANGED <<lost, dl_exec_fd>>
    BY <1>4, Zenon DEF VerifyListed
  <2>2. CASE Closing(fd) /\ fd' = -1
    <3>1. AllLost'
      BY <1>0, <2>1, <2>2, CloseFdAllLost, Zenon
    <3>2. Owned'
      BY <1>4, <2>2, Zenon DEF Owned, VerifyListed, SignalError
    <3> QED  BY <3>1, <3>2, AllLostAccounted, PTL
  <2>3. CASE UNCHANGED <<fdt, fd>> /\ pc' = "search"
    <3>1. LoaderFdsAccounted'
      BY <2>1, <2>3, Zenon DEF LoaderFdsAccounted
    <3>2. Owned'
      BY <2>1, <2>3, Zenon DEF Owned
    <3> QED  BY <3>1, <3>2
  <2> QED  BY <1>4, <2>2, <2>3, Zenon DEF VerifyListed
<1>5. CASE SearchPaths
  <2>1. pc = "search" /\ UNCHANGED dl_exec_fd
    BY <1>5, Zenon DEF SearchPaths
  <2>2. ASSUME NEW dirs, OpenAndVerify(FirstFile(dirs, req.name)),
               \A g \in Fd : fdt[g] # NULL /\ fdt[g].by = "ld" => g \in lost'
        PROVE  Owned' /\ LoaderFdsAccounted'
    BY <1>0, <2>2, FirstFileType, OpenAndVerifyOwn, Zenon
  <2>5. CASE pc' = "map" /\ UNCHANGED <<fdt, fd, lost>>
    <3>1. LoaderFdsAccounted'
      BY <2>1, <2>5, Zenon DEF LoaderFdsAccounted
    <3>2. Owned'
      BY <2>1, <2>5, Zenon DEF Owned
    <3> QED  BY <3>1, <3>2
  <2>3. CASE lost' = (IF fd = -1 THEN lost ELSE lost \cup {fd})
    <3>1. \A g \in Fd : fdt[g] # NULL /\ fdt[g].by = "ld" => g \in lost'
      BY <1>0, <2>1, <2>3, Zenon DEF LoaderFdsAccounted
    <3> QED  BY <1>5, <2>2, <2>5, <3>1, Zenon DEF SearchPaths
  <2>4. CASE fd = -1 /\ UNCHANGED lost
    <3>1. \A g \in Fd : fdt[g] # NULL /\ fdt[g].by = "ld" => g \in lost'
      BY <1>0, <2>1, <2>4, Zenon DEF LoaderFdsAccounted
    <3> QED  BY <1>5, <2>2, <2>4, <3>1, Zenon DEF SearchPaths
  <2> QED  BY <1>5, <2>3, <2>4, <2>5, Zenon DEF SearchPaths
<1>6. CASE OpenPath
  <2>1. pc = "by path" /\ UNCHANGED <<lost, dl_exec_fd>> /\ req.name \in PathName
    BY <1>6, Zenon DEF OpenPath, Phase
  <2>2. AllLost
    BY <2>1, IdleAllLost, Zenon DEF Held
  <2>3. CASE Closing(dl_exec_fd) /\ SignalError
    <3>1. \A g \in Fd : fdt'[g] # NULL => fdt'[g] = fdt[g]
      BY <1>0, <2>3, ClosingEffect, Zenon
    <3>2. LoaderFdsAccounted'
      BY <2>1, <2>2, <3>1, Zenon DEF AllLost, LoaderFdsAccounted
    <3> QED  BY <2>3, <3>2, SignalPc, NotHeldOwned, Zenon DEF Owned, Held
  <2>4. CASE /\ dl_exec_fd > 0 /\ fd' = dl_exec_fd /\ pc' = "map" /\ UNCHANGED fdt
    <3>1. LoaderFdsAccounted'
      BY <2>1, <2>2, <2>4, Zenon DEF AllLost, LoaderFdsAccounted
    <3>2. Owned'
      BY <2>1, <2>4, Zenon DEF Owned
    <3> QED  BY <3>1, <3>2
  <2>5. CASE OpenAndVerify(At[req.name])
    <3>1. At[req.name] # NULL => At[req.name] \in File
      BY <2>1, LoaderAssumption, Zenon
    <3>2. \A g \in Fd : fdt[g] # NULL /\ fdt[g].by = "ld" => g \in lost'
      BY <2>1, <2>2, Zenon DEF AllLost
    <3> QED  BY <1>0, <2>5, <3>1, <3>2, OpenAndVerifyOwn, Zenon
  <2> QED  BY <1>6, <2>3, <2>4, <2>5, Zenon DEF OpenPath
<1>7. CASE MapFromFd
  <2>1. pc = "map" /\ UNCHANGED <<lost, dl_exec_fd>>
    BY <1>7, Zenon DEF MapFromFd
  <2>2. CASE pc' = "fault"
    BY <2>2, Zenon DEF LoaderFdsAccounted, Owned
  <2>3. CASE ~IsOpen(fd) /\ SignalError /\ UNCHANGED fdt
    <3>1. AllLost
      BY <2>1, <2>3, NoFdAllLost, Zenon DEF IsOpen
    <3>2. LoaderFdsAccounted'
      BY <2>1, <2>3, <3>1, Zenon DEF AllLost, LoaderFdsAccounted
    <3> QED  BY <2>3, <3>2, SignalPc, Zenon DEF Owned, Held
  <2>4. CASE Closing(fd) /\ pc' \notin Held \cup {"listed"}
    <3>1. AllLost'
      BY <1>0, <2>1, <2>4, CloseFdAllLost, Zenon
    <3>2. LoaderFdsAccounted'
      BY <3>1, AllLostAccounted, PTL
    <3> QED  BY <2>4, <3>2, Zenon DEF Owned, Held
  <2>5. \A i \in Nat : AddName(i) => Closing(fd) /\ pc' = "next"
    BY Zenon DEF AddName
  <2>6. NewObject => Closing(fd) /\ pc' \in {"next", "init"}
    BY Zenon DEF NewObject
  <2>7. \A i \in SameFile(fdt[fd].obj) : i \in Nat
    BY DEF SameFile
  <2> QED  BY <1>7, <2>2, <2>3, <2>4, <2>5, <2>6, <2>7, SignalPc, Zenon DEF MapFromFd, Held
<1>8. CASE AppOpen
  <2>1. UNCHANGED <<pc, fd, lost, dl_exec_fd>>
    BY <1>8, Zenon DEF AppOpen
  <2>2. PICK f \in Fd, o \in AppFiles : fdt[f] = NULL /\ Opening(f, o, "app")
    BY <1>8, Zenon DEF AppOpen, LowestFree
  <2>a. o \in File \cup Dir
    BY LoaderAssumption
  <2>b. /\ fdt'[f] = [obj |-> o, by |-> "app"]
        /\ \A g \in Fd : g # f => fdt'[g] = fdt[g]
    BY <1>0, <2>2, <2>a, OpeningEffect, Zenon
  <2>3. /\ fdt'[f].by = "app"
        /\ \A g \in Fd : g # f => fdt'[g] = fdt[g]
    BY <2>b
  <2>4. LoaderFdsAccounted'
    <3>1. \A g \in Fd : fdt'[g].by = "ld" => fdt'[g] = fdt[g]
      BY <2>3
    <3> QED  BY <2>1, <3>1, Zenon DEF LoaderFdsAccounted
  <2>5. Owned'
    <3>1. fd # -1 /\ fdt[fd] # NULL => fdt'[fd] = fdt[fd]
      BY <1>0, <2>2, <2>3, Zenon
    <3> QED  BY <2>1, <3>1, Zenon DEF Owned
  <2> QED  BY <2>4, <2>5
<1>9. CASE AppClose
  <2>1. UNCHANGED <<pc, fd, lost, dl_exec_fd>>
    BY <1>9, Zenon DEF AppClose
  <2>2. PICK f \in Fd : /\ fdt[f].by \in {"app", "inherited"}
                        /\ fdt' = [fdt EXCEPT ![f] = NULL]
    BY <1>9, Zenon DEF AppClose
  <2>3. fdt'[f] = NULL /\ fdt[f].by # "ld" /\ \A g \in Fd : g # f => fdt'[g] = fdt[g]
    BY <1>0, <2>2 DEF Table
  <2>4. LoaderFdsAccounted'
    BY <2>1, <2>3, Zenon DEF LoaderFdsAccounted
  <2>5. Owned'
    BY <1>0, <2>1, <2>3, Zenon DEF Owned
  <2> QED  BY <2>4, <2>5
<1>10. CASE UNCHANGED vars
  <2>1. UNCHANGED <<fdt, pc, fd, lost, dl_exec_fd>>
    BY <1>10 DEF vars
  <2> QED  BY <2>1, Zenon DEF LoaderFdsAccounted, Owned
<1> QED
  BY <1>2, <1>3, <1>4, <1>5, <1>6, <1>7, <1>8, <1>9, <1>10, Zenon DEF Next

(* The descriptors the loader opened, and who owns the one it works on.    *)
THEOREM DescriptorInvariant == Spec => [](TypeOK /\ Phase /\ Owned /\ LoaderFdsAccounted)
<1>1. Init => TypeOK /\ Phase /\ Owned /\ LoaderFdsAccounted
  <2>1. ASSUME Init PROVE Owned
    <3>1. pc = "start" /\ fd = -1
      BY <2>1, Zenon DEF Init
    <3> QED  BY <3>1 DEF Owned
  <2>2. ASSUME Init PROVE LoaderFdsAccounted
    <3>1. cfg \in Configs /\ fdt = cfg.table
      BY <2>2, Zenon DEF Init
    <3>2. cfg.table \in StartTable
      BY <3>1, LoaderAssumption DEF Config
    <3>3. \A f \in Fd : fdt[f] # NULL => fdt[f].by = "inherited"
      BY <3>1, <3>2 DEF StartTable
    <3> QED  BY <3>3 DEF LoaderFdsAccounted
  <2> QED  BY <2>1, <2>2, TypeInit
<1>2. (TypeOK /\ Phase /\ Owned /\ LoaderFdsAccounted) /\ [Next]_vars
        => (TypeOK /\ Phase /\ Owned /\ LoaderFdsAccounted)'
  BY TypeStep, OwnStep
<1> QED
  BY <1>1, <1>2, PTL DEF Spec

(* No path through the search, the verification and the mapping loses a    *)
(* descriptor, but the RPATH loop that overwrites one.                     *)
THEOREM DescriptorsAccounted == Spec => []LoaderFdsAccounted
BY DescriptorInvariant, PTL

-----------------------------------------------------------------------------
(* What the loader leaves alone and what it finds, from the types, phases  *)
(* and owners above.                                                       *)

(* What a step of the loader does to the descriptors.                      *)
LEMMA FdtEffect ==
  ASSUME LoaderStep
  PROVE  \/ UNCHANGED fdt
         \/ \E f \in Fd : fdt[f] = NULL /\ \E o : Opening(f, o, "ld")
         \/ Closing(fd) /\ pc \in Held
         \/ Closing(dl_exec_fd) /\ dl_exec_fd > 0
<1>1. CASE Start \/ InitOpenatPaths \/ LoadAll \/ NextRequest \/ Finished
  BY <1>1, Zenon DEF Start, InitOpenatPaths, LoadAll, NextRequest, Finished
<1>2. CASE OpenatNext
  BY <1>2, Zenon DEF OpenatNext, LowestFree
<1>3. CASE VerifyListed
  BY <1>3, Zenon DEF VerifyListed, Held
<1>4. ASSUME NEW file, OpenAndVerify(file)
      PROVE  UNCHANGED fdt \/ \E f \in Fd : fdt[f] = NULL /\ \E o : Opening(f, o, "ld")
  BY <1>4, Zenon DEF OpenAndVerify, LowestFree
<1>5. CASE SearchPaths
  BY <1>4, <1>5, Zenon DEF SearchPaths
<1>6. CASE OpenPath
  BY <1>4, <1>6, Zenon DEF OpenPath
<1>7. CASE MapFromFd
  BY <1>7, Zenon DEF MapFromFd, AddName, NewObject, Held
<1> QED
  BY <1>1, <1>2, <1>3, <1>5, <1>6, <1>7, Zenon DEF LoaderStep

(* Loading closes and replaces none of the descriptors that are not the    *)
(* loader's own, dl_exec_fd excepted.                                      *)
THEOREM ForeignFdsUntouched == Spec => AppFdsUntouched
<1>1. ASSUME TypeOK, Owned, LoaderStep, NEW f \in Fd, fdt[f] # NULL, fdt[f].by # "ld",
             f # dl_exec_fd \/ dl_exec_fd = 0
      PROVE  fdt'[f] = fdt[f]
  <2>0. fdt \in Table
    BY <1>1, Zenon DEF TypeOK
  <2>1. CASE \E g \in Fd : fdt[g] = NULL /\ \E o : Opening(g, o, "ld")
    BY <1>1, <2>0, <2>1 DEF Opening, Table
  <2>2. CASE Closing(fd) /\ pc \in Held
    <3>1. fd # -1 => f # fd \/ (fd = dl_exec_fd /\ dl_exec_fd > 0)
      BY <1>1, <2>2, Zenon DEF Owned, Held
    <3>2. f # fd
      BY <1>1, <3>1 DEF Fd
    <3> QED  BY <1>1, <2>0, <2>2, <3>2, ClosingEffect, Zenon
  <2>3. CASE Closing(dl_exec_fd) /\ dl_exec_fd > 0
    <3>1. f # dl_exec_fd
      BY <1>1, <2>3
    <3> QED  BY <1>1, <2>0, <2>3, <3>1, ClosingEffect, Zenon
  <2> QED  BY <1>1, <2>1, <2>2, <2>3, FdtEffect, Zenon
<1>2. TypeOK /\ Owned /\ [Next]_vars =>
        [LoaderStep =>
          \A f \in Fd : fdt[f] # NULL /\ fdt[f].by # "ld" /\ (f # dl_exec_fd \/ dl_exec_fd = 0)
            => fdt'[f] = fdt[f]]_vars
  BY <1>1, Zenon
<1>3. Spec => [](TypeOK /\ Owned)
  BY DescriptorInvariant, PTL
<1> QED
  BY <1>2, <1>3, PTL DEF Spec, AppFdsUntouched

-----------------------------------------------------------------------------
(* What a step does to the objects.                                        *)
LEMMA LoadedEffect ==
  ASSUME [Next]_vars
  PROVE  \/ UNCHANGED loaded
         \/ Start
         \/ SignalError
         \/ pc = "map" /\ \E i \in SameFile(fdt[fd].obj) : AddName(i)
         \/ /\ pc = "map" /\ NewObject /\ IsOpen(fd) /\ fdt[fd].obj = header
            /\ req.why = "program" \/ SameFile(header) = {}
<1>1. CASE InitOpenatPaths \/ LoadAll \/ NextRequest \/ Finished \/ OpenatNext
  BY <1>1, Zenon DEF InitOpenatPaths, LoadAll, NextRequest, Finished, OpenatNext
<1>2. CASE VerifyListed
  BY <1>2, Zenon DEF VerifyListed
<1>3. ASSUME NEW file, OpenAndVerify(file)
      PROVE  UNCHANGED loaded \/ SignalError
  BY <1>3, Zenon DEF OpenAndVerify
<1>4. CASE SearchPaths
  BY <1>3, <1>4, Zenon DEF SearchPaths
<1>5. CASE OpenPath
  BY <1>3, <1>5, Zenon DEF OpenPath
<1>6. CASE MapFromFd
  BY <1>6, Zenon DEF MapFromFd
<1>7. CASE dlopen \/ AppOpen \/ AppClose
  BY <1>7, Zenon DEF dlopen, AppOpen, AppClose
<1>8. CASE UNCHANGED vars
  BY <1>8 DEF vars
<1> QED
  BY <1>1, <1>2, <1>4, <1>5, <1>6, <1>7, <1>8, Zenon DEF Next

(* The file that is mapped is a file.                                      *)
LEMMA MappedFile ==
  ASSUME TypeOK, IsOpen(fd), fdt[fd].obj = header
  PROVE  fdt[fd].obj \in File
<1>1. fdt \in Table /\ header \in File \cup {NULL}
  BY Zenon DEF TypeOK
<1>2. fdt[fd] \in Entry
  BY <1>1 DEF IsOpen, Table
<1>3. fdt[fd].obj \in File \cup Dir
  BY <1>2 DEF Entry
<1> QED
  BY <1>1, <1>3, LoaderAssumption

LEMMA MappedStep ==
  ASSUME TypeOK, Phase, MappedOnce, [Next]_vars
  PROVE  MappedOnce'
<1>0. Shape /\ Control /\ loaded \in Seq(LinkMap) /\ base \in Nat /\ base <= Len(loaded)
  BY TypeParts DEF Shape
<1>1. CASE UNCHANGED loaded
  BY <1>1, Zenon DEF MappedOnce
<1>2. CASE Start
  <2>1. loaded = <<>>
    BY <1>2, Zenon DEF Start, Phase
  <2>2. loaded' = <<>> \/ \E x : loaded' = <<x>>
    BY <1>2, <2>1, Zenon DEF Start
  <2>3. CASE loaded' = <<>>
    <3>1. 2..Len(loaded') = {}
      BY <2>3
    <3> QED  BY <3>1 DEF MappedOnce
  <2>4. ASSUME NEW x, loaded' = <<x>>
        PROVE  MappedOnce'
    <3>1. Len(loaded') = 1
      BY <2>4
    <3>2. 2..Len(loaded') = {}
      BY <3>1
    <3> QED  BY <3>2 DEF MappedOnce
  <2> QED  BY <2>2, <2>3, <2>4
<1>3. CASE SignalError
  <2>1. CASE base > 0
    <3>1. loaded' = SubSeq(loaded, 1, base)
      BY <1>3, <2>1, Zenon DEF SignalError
    <3>2. Len(loaded') = base /\ \A i \in 1..base : loaded'[i] = loaded[i]
      BY <1>0, <3>1
    <3> QED  BY <1>0, <3>2 DEF MappedOnce
  <2>2. CASE ~(base > 0)
    BY <1>1, <1>3, <2>2, Zenon DEF SignalError
  <2> QED  BY <2>1, <2>2
<1>4. CASE pc = "map" /\ \E i \in SameFile(fdt[fd].obj) : AddName(i)
  <2>1. PICK i \in 1..Len(loaded) : AddName(i)
    BY <1>4 DEF SameFile
  <2>2. req # NULL
    BY <1>0, <1>4, Zenon DEF Control
  <2>3. Len(loaded') = Len(loaded) /\ \A j \in 1..Len(loaded) : loaded'[j].file = loaded[j].file
    BY <1>0, <2>1, <2>2, AddNameEffect
  <2> QED  BY <2>3 DEF MappedOnce
<1>5. CASE /\ pc = "map" /\ NewObject /\ IsOpen(fd) /\ fdt[fd].obj = header
           /\ req.why = "program" \/ SameFile(header) = {}
  <2>1. req # NULL /\ fdt[fd].obj \in File /\ (req.why = "program" => loaded = <<>>)
    BY <1>0, <1>5, MappedFile, Zenon DEF Control, Phase
  <2>2. /\ Len(loaded') = Len(loaded) + 1
        /\ \A j \in 1..Len(loaded) : loaded'[j] = loaded[j]
        /\ loaded'[Len(loaded) + 1].file = header
    BY <1>0, <1>5, <2>1, NewObjectEffect
  <2>3. CASE loaded = <<>>
    <3>1. 2..Len(loaded') = {}
      BY <2>2, <2>3
    <3> QED  BY <3>1 DEF MappedOnce
  <2>4. CASE SameFile(header) = {}
    <3>1. \A j \in 2..Len(loaded) : loaded[j].file # header
      BY <2>4 DEF SameFile
    <3> QED  BY <1>0, <2>2, <3>1 DEF MappedOnce
  <2> QED  BY <1>5, <2>1, <2>3, <2>4
<1> QED
  BY <1>1, <1>2, <1>3, <1>4, <1>5, LoadedEffect, Zenon

(* Whatever names and descriptors lead to a library, it is mapped once.    *)
THEOREM LibrariesMappedOnce == Spec => []MappedOnce
<1>1. Init => MappedOnce
  <2>1. Init => loaded = <<>>
    BY Zenon DEF Init
  <2>2. loaded = <<>> => 2..Len(loaded) = {}
    OBVIOUS
  <2> QED  BY <2>1, <2>2 DEF MappedOnce
<1>2. TypeOK /\ Phase /\ MappedOnce /\ [Next]_vars => MappedOnce'
  BY MappedStep
<1> QED
  BY <1>1, <1>2, DescriptorInvariant, PTL DEF Spec

-----------------------------------------------------------------------------
(* Until the program is mapped the descriptors are those of the start, and *)
(* the one behind "--" is used.                                            *)
ByExecFd == cfg.direct /\ cfg.env_fds # UNSET /\ cfg.exec_fd # UNSET

ExecKnown ==
  /\ pc # "start" /\ ByExecFd => dl_exec_fd = AsInt(cfg.exec_fd)
  /\ loaded = <<>> /\ pc \in {"start", "by path"} => fdt = cfg.table
  /\ loaded = <<>> /\ pc = "map" /\ dl_exec_fd > 0 => fdt = cfg.table /\ fd = dl_exec_fd

(* The first object stays the first.                                       *)
LEMMA FirstStays ==
  ASSUME TypeOK, Phase, [Next]_vars, loaded # <<>>
  PROVE  loaded' # <<>> /\ loaded'[1].file = loaded[1].file
<1>0. Shape /\ Control /\ loaded \in Seq(LinkMap) /\ base \in Nat /\ base <= Len(loaded)
  BY TypeParts DEF Shape
<1>a. Len(loaded) >= 1 /\ Len(loaded) \in Nat
  BY <1>0
<1>1. CASE UNCHANGED loaded
  BY <1>1, Zenon
<1>2. CASE Start
  BY <1>2, Zenon DEF Start, Phase
<1>3. CASE SignalError
  <2>1. CASE base > 0
    <3>1. loaded' = SubSeq(loaded, 1, base)
      BY <1>3, <2>1, Zenon DEF SignalError
    <3>2. Len(loaded') = base /\ \A i \in 1..base : loaded'[i] = loaded[i]
      BY <1>0, <3>1
    <3> QED  BY <1>0, <2>1, <3>2
  <2>2. CASE ~(base > 0)
    BY <1>1, <1>3, <2>2, Zenon DEF SignalError
  <2> QED  BY <2>1, <2>2
<1>4. CASE pc = "map" /\ \E i \in SameFile(fdt[fd].obj) : AddName(i)
  <2>1. PICK i \in 1..Len(loaded) : AddName(i)
    BY <1>4 DEF SameFile
  <2>2. req # NULL
    BY <1>0, <1>4, Zenon DEF Control
  <2>3. Len(loaded') = Len(loaded) /\ \A j \in 1..Len(loaded) : loaded'[j].file = loaded[j].file
    BY <1>0, <2>1, <2>2, AddNameEffect
  <2> QED  BY <1>a, <2>3
<1>5. CASE /\ pc = "map" /\ NewObject /\ IsOpen(fd) /\ fdt[fd].obj = header
           /\ req.why = "program" \/ SameFile(header) = {}
  <2>1. req # NULL /\ fdt[fd].obj \in File
    BY <1>0, <1>5, MappedFile, Zenon DEF Control
  <2>2. /\ Len(loaded') = Len(loaded) + 1
        /\ \A j \in 1..Len(loaded) : loaded'[j] = loaded[j]
    BY <1>0, <1>5, <2>1, NewObjectEffect
  <2> QED  BY <1>a, <2>2
<1> QED
  BY <1>1, <1>2, <1>3, <1>4, <1>5, LoadedEffect, Zenon

LEMMA ExecStep ==
  ASSUME TypeOK, Phase, ExecKnown, [Next]_vars
  PROVE  ExecKnown'
<1>1. CASE Start
  <2>1. /\ pc = "start" /\ UNCHANGED <<cfg, fdt>> /\ loaded = <<>>
        /\ pc' \in {"init", "fault", "by path"}
        /\ pc' = "init" => ~cfg.direct
        /\ pc' = "fault" => cfg.exec_fd = UNSET
        /\ pc' = "by path" => dl_exec_fd' = (IF capsicum THEN AsInt(cfg.exec_fd) ELSE 0)
    BY <1>1, Zenon DEF Start, Phase
  <2>2. ByExecFd => capsicum
    BY Zenon DEF ByExecFd, capsicum
  <2> QED  BY <2>1, <2>2, Zenon DEF ExecKnown, ByExecFd
<1>2. CASE OpenPath /\ loaded = <<>>
  <2>1. pc = "by path" /\ UNCHANGED <<cfg, dl_exec_fd>> /\ fdt = cfg.table
    BY <1>2, Zenon DEF OpenPath, ExecKnown
  <2>2. CASE dl_exec_fd > 0 /\ fd' = dl_exec_fd /\ UNCHANGED fdt
    BY <2>1, <2>2, Zenon DEF ExecKnown, ByExecFd
  <2>3. CASE SignalError
    BY <2>1, <2>3, SignalPc, Zenon DEF ExecKnown, ByExecFd, Held, SignalError
  <2>4. CASE ~(dl_exec_fd > 0) /\ OpenAndVerify(At[req.name]) /\ ~SignalError
    BY <2>1, <2>4, Zenon DEF ExecKnown, ByExecFd, OpenAndVerify
  <2>5. dl_exec_fd <= 0 => ~(dl_exec_fd > 0)
    <3>1. dl_exec_fd \in Int
      BY Zenon DEF TypeOK
    <3> QED  BY <3>1
  <2> QED  BY <1>2, <2>2, <2>3, <2>4, <2>5, Zenon DEF OpenPath
<1>3. CASE MapFromFd /\ loaded = <<>>
  <2>1. pc = "map" /\ UNCHANGED <<cfg, dl_exec_fd>>
    BY <1>3, Zenon DEF MapFromFd
  <2>2. pc' \notin {"start", "by path", "map"}
    BY <1>3, Zenon DEF MapFromFd, AddName, NewObject, SignalError
  <2> QED  BY <2>1, <2>2, Zenon DEF ExecKnown, ByExecFd
<1>4. CASE loaded # <<>> /\ ~Start /\ UNCHANGED <<cfg, dl_exec_fd>> /\ pc # "start"
  <2>1. loaded' # <<>>
    BY <1>4, FirstStays
  <2> QED  BY <1>4, <2>1, Zenon DEF ExecKnown, ByExecFd
<1>5. ~Start => UNCHANGED <<cfg, dl_exec_fd>>
  <2>1. UNCHANGED vars => UNCHANGED <<cfg, dl_exec_fd>>
    BY DEF vars
  <2> QED
    BY <2>1, Zenon DEF Next, InitOpenatPaths, LoadAll, NextRequest, Finished, OpenatNext,
       VerifyListed, SearchPaths, OpenPath, MapFromFd, dlopen, AppOpen, AppClose
<1>6. CASE loaded = <<>> /\ (InitOpenatPaths \/ LoadAll \/ NextRequest \/ Finished
           \/ OpenatNext \/ VerifyListed \/ SearchPaths \/ dlopen \/ AppOpen \/ AppClose)
  <2>1. pc \in {"start", "by path", "map", "exit", "fault"} /\ base = 0
    BY <1>6, Zenon DEF Phase
  <2>2. ~(0 > 0)
    OBVIOUS
  <2>3. ~(base > 0)
    BY <2>1, <2>2, Zenon
  <2> QED
    BY <1>6, <2>1, <2>3, Zenon DEF InitOpenatPaths, LoadAll, NextRequest, Finished,
       OpenatNext, VerifyListed, SearchPaths, dlopen, AppOpen, AppClose, Running
<1>7. CASE UNCHANGED vars
  <2>1. UNCHANGED <<cfg, pc, fdt, fd, loaded, dl_exec_fd>>
    BY <1>7 DEF vars
  <2> QED  BY <2>1, Zenon DEF ExecKnown, ByExecFd
<1>8. loaded # <<>> => pc # "start"
  BY Zenon DEF Phase
<1> QED
  BY <1>1, <1>2, <1>3, <1>4, <1>5, <1>6, <1>7, <1>8, Zenon DEF Next

LEMMA ProgramStep ==
  ASSUME TypeOK, Phase, ExecKnown, ProgramIsExecFd, [Next]_vars
  PROVE  ProgramIsExecFd'
<1>0. Shape /\ Control /\ loaded \in Seq(LinkMap) /\ dl_exec_fd \in Int
  BY TypeParts DEF Shape
<1>1. cfg' = cfg
  <2>1. UNCHANGED vars => cfg' = cfg
    BY DEF vars
  <2> QED
    BY <2>1, Zenon DEF Next, Start, InitOpenatPaths, LoadAll, NextRequest, Finished,
       OpenatNext, VerifyListed, SearchPaths, OpenPath, MapFromFd, dlopen, AppOpen, AppClose
<1>2. CASE loaded # <<>>
  <2>1. loaded'[1].file = loaded[1].file
    BY <1>2, FirstStays
  <2> QED  BY <1>1, <1>2, <2>1, Zenon DEF ProgramIsExecFd
<1>3. CASE loaded = <<>> /\ loaded' = <<>>
  BY <1>3, Zenon DEF ProgramIsExecFd
<1>4. CASE loaded = <<>> /\ Start
  BY <1>1, <1>4, Zenon DEF Start, ProgramIsExecFd
<1>5. CASE /\ loaded = <<>> /\ pc = "map" /\ NewObject /\ IsOpen(fd) /\ fdt[fd].obj = header
  <2>1. req # NULL /\ fdt[fd].obj \in File /\ pc # "start"
    BY <1>0, <1>5, MappedFile, Zenon DEF Control
  <2>2. /\ Len(loaded) = 0
        /\ loaded'[Len(loaded) + 1].file = fdt[fd].obj
    BY <1>0, <1>5, <2>1, NewObjectEffect
  <2>3. loaded'[1].file = fdt[fd].obj
    BY <2>2
  <2>4. ByExecFd /\ AsInt(cfg.exec_fd) > 0 => fdt = cfg.table /\ fd = AsInt(cfg.exec_fd)
    BY <1>5, <2>1, Zenon DEF ExecKnown
  <2> QED  BY <1>1, <2>3, <2>4, Zenon DEF ProgramIsExecFd, ByExecFd
<1>6. CASE loaded = <<>> /\ SignalError
  <2>1. base = 0
    BY <1>6, Zenon DEF Phase
  <2>2. ~(0 > 0)
    OBVIOUS
  <2> QED  BY <1>3, <1>6, <2>1, <2>2, Zenon DEF SignalError
<1>7. CASE loaded = <<>> /\ \E i \in SameFile(fdt[fd].obj) : AddName(i)
  <2>1. SameFile(fdt[fd].obj) = {}
    BY <1>7 DEF SameFile
  <2> QED  BY <1>7, <2>1
<1> QED
  BY <1>2, <1>3, <1>4, <1>5, <1>6, <1>7, LoadedEffect, Zenon

(* A program given by descriptor is the file of that descriptor.           *)
THEOREM ProgramByDescriptor == Spec => []ProgramIsExecFd
<1>1. Init => ExecKnown /\ ProgramIsExecFd
  <2>1. Init => pc = "start" /\ fdt = cfg.table /\ loaded = <<>>
    BY Zenon DEF Init
  <2> QED  BY <2>1, Zenon DEF ExecKnown, ProgramIsExecFd
<1>2. TypeOK /\ Phase /\ ExecKnown /\ ProgramIsExecFd /\ [Next]_vars
        => ExecKnown' /\ ProgramIsExecFd'
  BY ExecStep, ProgramStep
<1> QED
  BY <1>1, <1>2, DescriptorInvariant, PTL DEF Spec

-----------------------------------------------------------------------------
(* The search of the listed directories.  While it goes on, none of those  *)
(* it has passed has the name; then the descriptor is off what the first   *)
(* one has, until it is closed as one for another machine.                 *)
Relevant == ListKept /\ ~missed /\ ListHas(req.name)
Hit == ListHit(cfg.table, openat_paths, req.name)
HoldsHit == fd \in Fd /\ fdt[fd] # NULL /\ fdt[fd].obj = Hit

Scan ==
  /\ pc \in {"listed", "verify"} => header = NULL
  /\ pc = "map" /\ req.name \in LibName => fd \in Fd /\ fdt[fd] # NULL /\ fdt[fd].by = "ld"
  /\ pc = "listed" /\ ListKept /\ ~missed =>
       \A j \in 1..Len(openat_paths) :
          j < fd_ptr => InDir(cfg.table, openat_paths[j], req.name) = NULL
  /\ pc = "verify" /\ Relevant => HoldsHit
  /\ pc = "search" /\ Relevant =>
       \/ HoldsHit /\ (header # NULL => Kind[Hit] # "foreign")
       \/ fd = -1 /\ Kind[Hit] = "foreign"

Positive == \A k \in 1..Len(openat_paths) : openat_paths[k] > 0

(* No step makes an inherited descriptor.                                  *)
LEMMA InheritedBack ==
  ASSUME TypeOK, [Next]_vars, NEW f \in Fd, fdt'[f] # NULL, fdt'[f].by = "inherited"
  PROVE  fdt'[f] = fdt[f]
<1>0. fdt \in Table
  BY Zenon DEF TypeOK
<1>1. CASE UNCHANGED fdt
  BY <1>1
<1>2. ASSUME NEW g \in Fd, NEW o, NEW by \in {"ld", "app"}, Opening(g, o, by)
      PROVE  fdt'[f] = fdt[f]
  <2>1. fdt' = [fdt EXCEPT ![g] = [obj |-> o, by |-> by]]
    BY <1>2 DEF Opening
  <2>2. f # g
    BY <1>0, <1>2, <2>1 DEF Table
  <2> QED  BY <1>0, <2>1, <2>2 DEF Table
<1>3. ASSUME NEW g, Closing(g)
      PROVE  fdt'[f] = fdt[f]
  BY <1>0, <1>3, ClosingEffect
<1>4. CASE LoaderStep
  BY <1>1, <1>2, <1>3, <1>4, FdtEffect, Zenon
<1>5. CASE dlopen \/ AppOpen
  BY <1>1, <1>2, <1>5, Zenon DEF dlopen, AppOpen
<1>6. CASE AppClose
  <2>1. PICK g \in Fd : fdt' = [fdt EXCEPT ![g] = NULL]
    BY <1>6, Zenon DEF AppClose
  <2> QED  BY <1>0, <2>1 DEF Table
<1>7. CASE UNCHANGED vars
  BY <1>1, <1>7 DEF vars
<1> QED
  BY <1>4, <1>5, <1>6, <1>7, Zenon DEF Next, LoaderStep

LEMMA KeptBack ==
  ASSUME TypeOK, [Next]_vars, UNCHANGED <<cfg, openat_paths>>, ListKept'
  PROVE  ListKept
<1>1. cfg.table \in StartTable
  <2>1. cfg \in Configs
    BY Zenon DEF TypeOK
  <2> QED  BY <2>1, LoaderAssumption DEF Config
<1>2. \A v \in Fd : cfg.table[v] # NULL => cfg.table[v].by = "inherited"
  BY <1>1 DEF StartTable
<1> SUFFICES ASSUME NEW k \in 1..Len(openat_paths), openat_paths[k] \in Fd
             PROVE  /\ cfg.table[openat_paths[k]] # NULL
                    /\ fdt[openat_paths[k]] = cfg.table[openat_paths[k]]
  BY Zenon DEF ListKept
<1>3. /\ cfg.table[openat_paths[k]] # NULL
      /\ fdt'[openat_paths[k]] = cfg.table[openat_paths[k]]
  BY Zenon DEF ListKept
<1> QED
  BY <1>2, <1>3, InheritedBack, Zenon

(* While they are kept, the directories are those of the start.            *)
LEMMA InDirKept ==
  ASSUME ListKept, NEW k \in 1..Len(openat_paths), NEW n
  PROVE  InDir(fdt, openat_paths[k], n) = InDir(cfg.table, openat_paths[k], n)
BY Zenon DEF ListKept, InDir

(* The hit is that of the first directory with the name.                   *)
LEMMA ListHitIs ==
  ASSUME NEW t, NEW fds \in Seq(Int), NEW n, NEW k \in 1..Len(fds), InDir(t, fds[k], n) # NULL,
         \A j \in 1..(k - 1) : InDir(t, fds[j], n) = NULL
  PROVE  ListHit(t, fds, n) = InDir(t, fds[k], n)
<1> DEFINE P(x) == /\ InDir(t, fds[x], n) # NULL
                   /\ \A j \in 1..(x - 1) : InDir(t, fds[j], n) = NULL
           c == CHOOSE x \in 1..Len(fds) : P(x)
<1>1. c \in 1..Len(fds) /\ P(c)
  <2>1. \E x \in 1..Len(fds) : P(x)
    OBVIOUS
  <2> HIDE DEF P
  <2> QED  BY <2>1
<1>2. ~(c < k) /\ ~(k < c)
  <2> HIDE DEF c
  <2> QED  BY <1>1
<1>3. c = k
  <2> HIDE DEF c, P
  <2> QED  BY <1>1, <1>2
<1>4. ListHit(t, fds, n) = InDir(t, fds[c], n)
  BY Zenon DEF ListHit
<1> QED
  BY <1>3, <1>4

(* The memory the loop reads: the array, and what is behind it.            *)
LEMMA MemoryIs ==
  ASSUME TypeOK, NEW k \in Nat \ {0}
  PROVE  k <= Len(openat_paths) => k <= Len(Memory) /\ Memory[k] = openat_paths[k]
<1>1. openat_paths \in Seq(Int) /\ cfg \in Configs
  BY Zenon DEF TypeOK
<1>2. cfg.beyond \in Seq(Int)
  BY <1>1, LoaderAssumption DEF Config
<1> QED
  BY <1>1, <1>2 DEF Memory

(* One lemma for each action that the search goes through.                 *)
LEMMA ScanIdle ==
  ASSUME pc \notin {"listed", "verify", "search", "map"}
  PROVE  Scan /\ ListDecides
BY Zenon DEF Scan, ListDecides

LEMMA ScanNextRequest ==
  ASSUME TypeOK, NextRequest
  PROVE  Scan' /\ ListDecides'
<1>1. pc' \in {"next", "by path", "search", "listed"} /\ header' = NULL /\ fd_ptr' = 1
      /\ UNCHANGED openat_paths /\ (pc' = "search" => openat_paths = <<>>)
  BY Zenon DEF NextRequest
<1>2. ListDecides'
  BY <1>1, Zenon DEF ListDecides
<1>3. \A j \in 1..Len(openat_paths) : ~(j < fd_ptr')
  <2>1. openat_paths \in Seq(Int) /\ fd_ptr' = 1
    BY <1>1, Zenon DEF TypeOK
  <2> QED  BY <2>1
<1>4. openat_paths = <<>> => 1..Len(openat_paths) = {}
  OBVIOUS
<1>5. pc' = "search" => ~ListHas(req.name)'
  BY <1>1, <1>4 DEF ListHas
<1> QED
  BY <1>1, <1>2, <1>3, <1>5, Zenon DEF Scan, Relevant

LEMMA ScanOpenat ==
  ASSUME TypeOK, Phase, Positive, Scan, OpenatNext
  PROVE  Scan' /\ ListDecides'
<1>0. /\ pc = "listed" /\ header = NULL /\ req.name \in LibName
      /\ UNCHANGED <<cfg, openat_paths, req, header>>
  BY Zenon DEF OpenatNext, Scan, Phase
<1>1. openat_paths \in Seq(Int) /\ fd_ptr \in Nat \ {0} /\ fdt \in Table
  BY Zenon DEF TypeOK
<1>2. pc' # "map" => ListDecides'
  BY Zenon DEF ListDecides
<1>a. [Next]_vars
  BY Zenon DEF Next
<1>b. ListKept' => ListKept
  BY <1>0, <1>a, KeptBack, Zenon
<1>c. ListHas(req.name)' => ListHas(req.name)
  BY <1>0, Zenon DEF ListHas
<1>d. ListKept /\ ~missed => \A j \in 1..Len(openat_paths) :
          j < fd_ptr => InDir(cfg.table, openat_paths[j], req.name) = NULL
  BY <1>0, Zenon DEF Scan
<1>3. CASE pc' = "fault"
  BY <1>3, ScanIdle, Zenon DEF Scan, ListDecides
<1>4. CASE pc' = "search" /\ fd_ptr <= Len(Memory) /\ Memory[fd_ptr] = -1 /\ UNCHANGED missed
  <2>1. ~(fd_ptr <= Len(openat_paths))
    <3> SUFFICES ASSUME fd_ptr <= Len(openat_paths) PROVE FALSE
      OBVIOUS
    <3>1. openat_paths[fd_ptr] = -1 /\ fd_ptr \in 1..Len(openat_paths)
      BY <1>1, <1>4, MemoryIs
    <3>2. openat_paths[fd_ptr] > 0
      BY <3>1, Zenon DEF Positive
    <3> QED  BY <3>1, <3>2
  <2>2. \A j \in 1..Len(openat_paths) : j < fd_ptr
    BY <1>1, <2>1
  <2>3. ListKept /\ ~missed => ~ListHas(req.name)
    BY <1>d, <2>2, Zenon DEF ListHas
  <2>4. ~Relevant'
    BY <1>4, <1>b, <1>c, <2>3, Zenon DEF Relevant
  <2> QED  BY <1>2, <1>4, <2>4, Zenon DEF Scan
<1>5. CASE /\ fd_ptr <= Len(Memory)
           /\ InDir(fdt, Memory[fd_ptr], req.name) = NULL \/ TableFull
           /\ fd_ptr' = fd_ptr + 1 /\ missed' = (missed \/ TableFull) /\ pc' = "listed"
  <2>1. ASSUME ListKept', ~missed', NEW j \in 1..Len(openat_paths), j < fd_ptr'
        PROVE  InDir(cfg.table, openat_paths[j], req.name) = NULL
    <3>1. ListKept /\ ~missed /\ InDir(fdt, Memory[fd_ptr], req.name) = NULL
      BY <1>5, <1>b, <2>1, Zenon
    <3>2. CASE j < fd_ptr
      BY <1>d, <3>1, <3>2, Zenon
    <3>3. CASE j = fd_ptr
      <4>1. Memory[fd_ptr] = openat_paths[j]
        <5>1. fd_ptr <= Len(openat_paths)
          BY <1>1, <3>3
        <5>2. Memory[fd_ptr] = openat_paths[fd_ptr]
          BY <1>1, <5>1, MemoryIs, Zenon
        <5> QED BY <3>3, <5>2, Zenon
      <4> QED  BY <3>1, <4>1, InDirKept, Zenon
    <3>4. j < fd_ptr \/ j = fd_ptr
      <4>1. fd_ptr' = fd_ptr + 1
        BY <1>5, Zenon
      <4> QED  BY <1>1, <2>1, <4>1
    <3> QED  BY <3>2, <3>3, <3>4
  <2> QED  BY <1>0, <1>2, <1>5, <2>1, Zenon DEF Scan
<1>6. CASE /\ fd_ptr <= Len(Memory) /\ InDir(fdt, Memory[fd_ptr], req.name) # NULL
           /\ \E f \in Fd : LowestFree(f) /\ fd' = f
                /\ Opening(f, InDir(fdt, Memory[fd_ptr], req.name), "ld")
           /\ pc' = "verify" /\ UNCHANGED missed
  <2> DEFINE file == InDir(fdt, Memory[fd_ptr], req.name)
  <2>1. PICK f \in Fd : fd' = f /\ Opening(f, file, "ld")
    BY <1>6, Zenon
  <2>2. file \in File
    BY <1>0, <1>1, <1>6, InDirType
  <2> HIDE DEF file
  <2>3. fdt'[f] = [obj |-> file, by |-> "ld"]
    BY <1>1, <2>1, <2>2, OpeningEffect, Zenon
  <2>4. fdt'[f].obj = file /\ fdt'[f] # NULL
    <3>1. [obj |-> file, by |-> "ld"].obj = file
      OBVIOUS
    <3>2. [obj |-> file, by |-> "ld"] \in Entry
      BY <2>2 DEF Entry
    <3>3. NULL \notin Entry
      BY LoaderAssumption, Zenon
    <3> QED BY <2>3, <3>1, <3>2, <3>3, Zenon
  <2>5. ASSUME Relevant' PROVE file = Hit'
    <3>1. ListKept /\ ~missed /\ ListHas(req.name)
      BY <1>6, <1>b, <1>c, <2>5, Zenon DEF Relevant
    <3>2. \A j \in 1..Len(openat_paths) :
             j < fd_ptr => InDir(cfg.table, openat_paths[j], req.name) = NULL
      BY <1>d, <3>1, Zenon
    <3>3. fd_ptr \in 1..Len(openat_paths)
      <4>1. PICK j \in 1..Len(openat_paths) : InDir(cfg.table, openat_paths[j], req.name) # NULL
        BY <3>1, Zenon DEF ListHas
      <4>2. ~(j < fd_ptr)
        BY <3>2, <4>1, Zenon
      <4> QED  BY <1>1, <4>1, <4>2
    <3>4. Memory[fd_ptr] = openat_paths[fd_ptr]
      BY <1>1, <3>3, MemoryIs
    <3>5. file = InDir(cfg.table, openat_paths[fd_ptr], req.name) /\ file # NULL
      BY <1>6, <3>1, <3>3, <3>4, InDirKept, Zenon DEF file
    <3>6. \A j \in 1..(fd_ptr - 1) : InDir(cfg.table, openat_paths[j], req.name) = NULL
      <4>1. \A j \in 1..(fd_ptr - 1) : j \in 1..Len(openat_paths) /\ j < fd_ptr
        BY <1>1, <3>3
      <4> QED  BY <3>2, <4>1, Zenon
    <3>7. ListHit(cfg.table, openat_paths, req.name) = file
      BY <1>1, <3>3, <3>5, <3>6, ListHitIs
    <3> QED  BY <1>0, <3>7, Zenon DEF Hit
  <2> QED  BY <1>0, <1>2, <1>6, <2>1, <2>4, <2>5, Zenon DEF Scan, HoldsHit
<1> QED
  BY <1>0, <1>3, <1>4, <1>5, <1>6, Zenon DEF OpenatNext

LEMMA ScanVerify ==
  ASSUME TypeOK, Scan, VerifyListed
  PROVE  Scan' /\ ListDecides'
<1>0. pc = "verify" /\ header = NULL /\ UNCHANGED <<cfg, openat_paths, missed>>
  BY Zenon DEF VerifyListed, Scan
<1>1. fdt \in Table
  BY Zenon DEF TypeOK
<1>2. [Next]_vars
  BY Zenon DEF Next
<1>3. CASE SignalError
  <2>1. pc' \notin {"listed", "verify", "search", "map"}
    BY <1>3, SignalPc, Zenon DEF Held
  <2> QED  BY <2>1, Zenon DEF Scan, ListDecides
<1>4. CASE pc' = "search" /\ UNCHANGED req
  <2>1. ASSUME Relevant' PROVE Relevant /\ HoldsHit /\ Hit' = Hit
    <3>1. ListKept
      BY <1>0, <1>2, <2>1, KeptBack, Zenon DEF Relevant
    <3>2. Relevant
      BY <1>0, <1>4, <2>1, <3>1, Zenon DEF Relevant, ListHas
    <3> QED  BY <1>0, <1>4, <3>2, Zenon DEF Scan, Hit
  <2>2. CASE Verdict(fd) = "skip" /\ fd' = -1
    <3>1. IsOpen(fd) /\ Kind[fdt[fd].obj] = "foreign"
      BY <2>2 DEF Verdict
    <3>2. Relevant' => Kind[Hit'] = "foreign"
      BY <2>1, <3>1, Zenon DEF HoldsHit
    <3> QED  BY <1>4, <2>2, <3>2, Zenon DEF Scan, ListDecides
  <2>3. CASE Verdict(fd) = "ok" /\ UNCHANGED <<fdt, fd>>
    <3>1. Kind[fdt[fd].obj] # "foreign"
      BY <1>1, <2>3, VerdictOk
    <3>2. Relevant' => HoldsHit' /\ Kind[Hit'] # "foreign"
      BY <2>1, <2>3, <3>1, Zenon DEF HoldsHit
    <3> QED  BY <1>4, <3>2, Zenon DEF Scan, ListDecides
  <2>4. CASE UNCHANGED <<fdt, fd, header>>
    <3>1. Relevant' => HoldsHit'
      BY <2>1, <2>4, Zenon DEF HoldsHit
    <3> QED  BY <1>0, <1>4, <2>4, <3>1, Zenon DEF Scan, ListDecides
  <2> QED  BY <1>4, <2>2, <2>3, <2>4, <1>3, Zenon DEF VerifyListed
<1> QED
  BY <1>3, <1>4, Zenon DEF VerifyListed

(* A search by path opens the file it looks for.                           *)
LEMMA OpenedFile ==
  ASSUME fdt \in Table, NEW file, file # NULL => file \in File, OpenAndVerify(file)
  PROVE  \/ pc' \notin {"listed", "verify", "search", "map"}
         \/ /\ pc' = "map" /\ UNCHANGED <<req, loaded>>
            /\ fd' \in Fd /\ fdt'[fd'] # NULL /\ fdt'[fd'].by = "ld" /\ fdt'[fd'].obj = file
<1>1. CASE SignalError
  BY <1>1, SignalPc, Zenon DEF Held
<1>2. CASE /\ file \in File /\ pc' = "map" /\ UNCHANGED <<req, loaded>>
           /\ \E f \in Fd : Opening(f, file, "ld") /\ fd' = f
  <2>1. PICK f \in Fd : Opening(f, file, "ld") /\ fd' = f
    BY <1>2
  <2>2. fdt'[f] = [obj |-> file, by |-> "ld"]
    BY <1>2, <2>1, OpeningEffect, Zenon
  <2>3. fdt'[f].obj = file /\ fdt'[f].by = "ld" /\ fdt'[f] # NULL
    <3>1. [obj |-> file, by |-> "ld"].obj = file /\ [obj |-> file, by |-> "ld"].by = "ld"
      OBVIOUS
    <3>2. [obj |-> file, by |-> "ld"] \in Entry
      BY <1>2 DEF Entry
    <3>3. NULL \notin Entry
      BY LoaderAssumption, Zenon
    <3> QED BY <2>2, <3>1, <3>2, <3>3, Zenon
  <2> QED  BY <1>2, <2>1, <2>3, Zenon
<1> QED
  BY <1>1, <1>2, OpenAndVerifyCases, Zenon

LEMMA ScanSearch ==
  ASSUME TypeOK, Owned, Scan, SearchPaths
  PROVE  Scan' /\ ListDecides'
<1> DEFINE chain == Chain(loaded, req.loader)
           rest == Rest(loaded, req.loader)
<1>0. pc = "search" /\ UNCHANGED <<cfg, openat_paths, missed>>
  BY Zenon DEF SearchPaths
<1>1. fdt \in Table /\ fd \in Fd \cup {-1} /\ -1 \notin Fd
  BY TypeParts, ErrorNoFd, Zenon DEF Shape
<1>2. [Next]_vars
  BY Zenon DEF Next
<1>3. CASE pc' \notin {"listed", "verify", "search", "map"}
  BY <1>3, Zenon DEF Scan, ListDecides
<1>4. ASSUME UNCHANGED req, Relevant' PROVE Relevant /\ Hit' = Hit
  <2>1. ListKept
    BY <1>0, <1>2, <1>4, KeptBack, Zenon DEF Relevant
  <2> QED  BY <1>0, <1>4, <2>1, Zenon DEF Relevant, ListHas, Hit
<1>5. ASSUME /\ pc' = "map" /\ UNCHANGED <<req, loaded>>
             /\ fd' \in Fd /\ fdt'[fd'] # NULL /\ fdt'[fd'].by = "ld",
             Relevant' /\ header' # NULL =>
                fdt'[fd'].obj = ToFind(loaded, Hit, req.name, req.loader)
      PROVE  Scan' /\ ListDecides'
  <2>1. Scan'
    BY <1>5, Zenon DEF Scan
  <2>2. ListDecides'
    BY <1>4, <1>5, Zenon DEF ListDecides, Relevant, Hit
  <2> QED  BY <2>1, <2>2
<1>6. CASE chain # <<>> /\ OpenAndVerify(FirstFile(chain \o rest, req.name))
  <2>1. FirstFile(chain \o rest, req.name) # NULL => FirstFile(chain \o rest, req.name) \in File
    BY FirstFileType
  <2>2. ToFind(loaded, Hit, req.name, req.loader) = FirstFile(chain \o rest, req.name)
    BY <1>6, Zenon DEF ToFind
  <2> HIDE DEF chain, rest
  <2> QED  BY <1>1, <1>3, <1>5, <1>6, <2>1, <2>2, OpenedFile, Zenon
<1>7. CASE chain = <<>> /\ fd = -1 /\ OpenAndVerify(FirstFile(rest, req.name))
  <2>1. FirstFile(rest, req.name) # NULL => FirstFile(rest, req.name) \in File
    BY FirstFileType
  <2>2. ASSUME UNCHANGED req, Relevant'
        PROVE  ToFind(loaded, Hit, req.name, req.loader) = FirstFile(rest, req.name)
    <3>1. Kind[Hit] = "foreign"
      BY <1>0, <1>1, <1>4, <1>7, <2>2, Zenon DEF Scan, HoldsHit
    <3> QED  BY <1>7, <3>1, Zenon DEF ToFind
  <2> HIDE DEF chain, rest
  <2> QED  BY <1>1, <1>3, <1>5, <1>7, <2>1, <2>2, OpenedFile, Zenon
<1>8. CASE chain = <<>> /\ fd # -1 /\ pc' = "map" /\ UNCHANGED <<fdt, fd, header, req, loaded>>
  <2>1. fd \in Fd /\ fdt[fd] # NULL /\ fdt[fd].by = "ld"
    BY <1>0, <1>1, <1>8, Zenon DEF Owned
  <2>2. ASSUME Relevant', header' # NULL
        PROVE  fdt[fd].obj = ToFind(loaded, Hit, req.name, req.loader)
    <3>1. HoldsHit /\ Kind[Hit] # "foreign"
      BY <1>0, <1>4, <1>8, <2>2, Zenon DEF Scan
    <3> QED  BY <1>8, <3>1, Zenon DEF ToFind, HoldsHit
  <2> QED  BY <1>5, <1>8, <2>1, <2>2, Zenon
<1> QED
  BY <1>6, <1>7, <1>8, Zenon DEF SearchPaths

LEMMA ScanPath ==
  ASSUME TypeOK, Phase, OpenPath
  PROVE  Scan' /\ ListDecides'
<1>1. pc = "by path" /\ req.name \in PathName /\ fdt \in Table
  BY Zenon DEF OpenPath, Phase, TypeOK
<1>2. req.name \notin LibName
  BY <1>1, LoaderAssumption, Zenon
<1>3. CASE pc' \notin {"listed", "verify", "search", "map"}
  BY <1>3, Zenon DEF Scan, ListDecides
<1>4. CASE pc' = "map" /\ UNCHANGED req
  BY <1>2, <1>4, Zenon DEF Scan, ListDecides
<1>5. CASE OpenAndVerify(At[req.name])
  <2>1. At[req.name] # NULL => At[req.name] \in File
    BY <1>1, LoaderAssumption, Zenon
  <2> QED  BY <1>1, <1>3, <1>4, <1>5, <2>1, OpenedFile, Zenon
<1> QED
  BY <1>3, <1>4, <1>5, SignalPc, Zenon DEF OpenPath, Held

(* The application leaves alone what the loader has opened.                *)
LEMMA AppKeepsOwn ==
  ASSUME fdt \in Table, AppOpen \/ AppClose, NEW f \in Fd, fdt[f] # NULL, fdt[f].by = "ld"
  PROVE  fdt'[f] = fdt[f]
<1>1. CASE AppOpen
  <2>1. PICK g \in Fd, o \in AppFiles : fdt[g] = NULL /\ Opening(g, o, "app")
    BY <1>1, Zenon DEF AppOpen, LowestFree
  <2> QED  BY <2>1 DEF Opening, Table
<1>2. CASE AppClose
  <2>1. PICK g \in Fd : /\ fdt[g].by \in {"app", "inherited"}
                        /\ fdt' = [fdt EXCEPT ![g] = NULL]
    BY <1>2, Zenon DEF AppClose
  <2> QED  BY <2>1 DEF Table
<1> QED
  BY <1>1, <1>2

LEMMA ScanApp ==
  ASSUME TypeOK, Owned, Scan, ListDecides, AppOpen \/ AppClose
  PROVE  Scan' /\ ListDecides'
<1>0. /\ fdt \in Table /\ fd \in Fd \cup {-1}
      /\ UNCHANGED <<cfg, openat_paths, loaded, req, pc, fd, fd_ptr, header, missed>>
  BY Zenon DEF TypeOK, AppOpen, AppClose
<1>1. ListKept' => ListKept
  BY <1>0, KeptBack, Zenon DEF Next
<1>2. Relevant' => Relevant
  BY <1>0, <1>1, Zenon DEF Relevant, ListHas
<1>3. Hit' = Hit
  BY <1>0, Zenon DEF Hit
<1>4. fd \in Fd /\ fdt[fd] # NULL /\ fdt[fd].by = "ld" => fdt'[fd'] = fdt[fd]
  BY <1>0, AppKeepsOwn, Zenon
<1>5. CASE pc \in {"verify", "search"}
  <2>1. fd \in Fd => fdt[fd] # NULL /\ fdt[fd].by = "ld"
    BY <1>5, ErrorNoFd, Zenon DEF Owned
  <2>2. HoldsHit => HoldsHit'
    BY <1>0, <1>3, <1>4, <2>1, Zenon DEF HoldsHit
  <2> QED  BY <1>0, <1>2, <1>3, <1>5, <2>2, Zenon DEF Scan, ListDecides
<1>6. CASE pc = "map"
  <2>1. Scan'
    BY <1>0, <1>4, <1>6, Zenon DEF Scan
  <2>2. ListDecides'
    <3> SUFFICES ASSUME header # NULL, req.name \in LibName, Relevant'
                 PROVE  fdt'[fd].obj = ToFind(loaded, Hit, req.name, req.loader)
      BY <1>0, <1>6, Zenon DEF ListDecides, Relevant, Hit
    <3>1. fd \in Fd /\ fdt[fd] # NULL /\ fdt[fd].by = "ld"
      BY <1>6, Zenon DEF Scan
    <3> QED  BY <1>0, <1>2, <1>4, <1>6, <3>1, Zenon DEF ListDecides, Relevant, Hit
  <2> QED  BY <2>1, <2>2
<1>7. CASE pc \notin {"verify", "search", "map"}
  BY <1>0, <1>1, <1>7, Zenon DEF Scan, ListDecides
<1> QED
  BY <1>5, <1>6, <1>7

LEMMA ScanStep ==
  ASSUME TypeOK, Phase, Owned, Positive, Scan, ListDecides, [Next]_vars
  PROVE  Scan' /\ ListDecides'
<1>1. CASE Start \/ InitOpenatPaths \/ LoadAll \/ Finished \/ MapFromFd \/ dlopen
  <2>1. pc' \notin {"listed", "verify", "search", "map"}
    BY <1>1, Zenon DEF Start, InitOpenatPaths, LoadAll, Finished, MapFromFd, dlopen,
       AddName, NewObject, SignalError
  <2> QED  BY <2>1, Zenon DEF Scan, ListDecides
<1>2. CASE UNCHANGED vars
  <2>1. UNCHANGED <<cfg, fdt, openat_paths, loaded, req, pc, fd, fd_ptr, header, missed>>
    BY <1>2 DEF vars
  <2> QED
    BY <2>1, Zenon DEF Scan, ListDecides, Relevant, Hit, HoldsHit, ListKept, ListHas
<1> QED
  BY <1>1, <1>2, ScanNextRequest, ScanOpenat, ScanVerify, ScanSearch, ScanPath, ScanApp,
     Zenon DEF Next

(* Only numbers above 0 get into the array.                                *)
LEMMA PositiveStep ==
  ASSUME TypeOK, Phase, Positive, [Next]_vars
  PROVE  Positive'
<1>1. CASE UNCHANGED openat_paths
  BY <1>1, Zenon DEF Positive
<1>2. CASE InitOpenatPaths
  <2> DEFINE v == AsInt(llpf[fd_ptr])
  <2>0. openat_paths \in Seq(Int) /\ openat_paths' \in Seq(Int)
    <3>1. TypeOK'
      BY TypeStep, Zenon
    <3> QED  BY <3>1, Zenon DEF TypeOK
  <2>1. CASE Keep(v) /\ openat_paths' = Append(openat_paths, v)
    <3>1. v > 0
      BY <2>1 DEF Keep
    <3> HIDE DEF v
    <3> QED  BY <2>0, <2>1, <3>1 DEF Positive
  <2> QED  BY <1>1, <1>2, <2>1, Zenon DEF InitOpenatPaths
<1>3. CASE UNCHANGED vars
  BY <1>1, <1>3 DEF vars
<1> QED
  BY <1>1, <1>2, <1>3, Zenon DEF Next, Start, LoadAll, NextRequest, Finished, OpenatNext,
     VerifyListed, SearchPaths, OpenPath, MapFromFd, dlopen, AppOpen, AppClose

(* The listed directories decide what is mapped.                           *)
THEOREM ListedFirst == Spec => []ListDecides
<1>1. Init => Positive /\ Scan /\ ListDecides
  <2>1. Init => openat_paths = <<>> /\ pc = "start"
    BY Zenon DEF Init
  <2>2. openat_paths = <<>> => Positive
    BY DEF Positive
  <2> QED  BY <2>1, <2>2, Zenon DEF Scan, ListDecides
<1>2. TypeOK /\ Phase /\ Owned /\ Positive /\ Scan /\ ListDecides /\ [Next]_vars
        => Positive' /\ Scan' /\ ListDecides'
  BY ScanStep, PositiveStep
<1> QED
  BY <1>1, <1>2, DescriptorInvariant, PTL DEF Spec
=============================================================================
