------------------------------ MODULE PosixOpen ------------------------------
(***************************************************************************)
(* What the manual promises of open (manual/llio.texi): a call either      *)
(* "creates and returns a new file descriptor for the file named", at a    *)
(* number that was free, in one step that nothing else can see half of,    *)
(* or it returns -1 and leaves the table as it was.  Only close frees a    *)
(* number.  Which errors there are is left open.                           *)
(***************************************************************************)
EXTENDS Integers

CONSTANTS Threads, Fd, Request, NULL,
          Target(_)    \* the open file a request asks for

VARIABLES tab, phase, req, res

absvars == <<tab, phase, req, res>>

Init ==
  /\ DOMAIN tab = Fd
  /\ phase = [t \in Threads |-> "idle"]
  /\ req = [t \in Threads |-> NULL]
  /\ res = [t \in Threads |-> -1]

Call(t) ==
  /\ phase[t] = "idle"
  /\ \E r \in Request : req' = [req EXCEPT ![t] = r]
  /\ phase' = [phase EXCEPT ![t] = "called"]
  /\ UNCHANGED <<tab, res>>

Succeed(t) ==
  /\ phase[t] = "called"
  /\ \E f \in Fd :
       /\ tab[f] = NULL
       /\ tab' = [tab EXCEPT ![f] = Target(req[t])]
       /\ res' = [res EXCEPT ![t] = f]
  /\ phase' = [phase EXCEPT ![t] = "answered"]
  /\ UNCHANGED req

Fail(t) ==
  /\ phase[t] = "called"
  /\ phase' = [phase EXCEPT ![t] = "answered"]
  /\ UNCHANGED <<tab, req, res>>

Return(t) ==
  /\ phase[t] = "answered"
  /\ phase' = [phase EXCEPT ![t] = "returned"]
  /\ UNCHANGED <<tab, req, res>>

Close(t) ==
  /\ phase[t] = "returned"
  /\ tab' = IF res[t] >= 0 THEN [tab EXCEPT ![res[t]] = NULL] ELSE tab
  /\ phase' = [phase EXCEPT ![t] = "idle"]
  /\ req' = [req EXCEPT ![t] = NULL]
  /\ res' = [res EXCEPT ![t] = -1]

Next == \E t \in Threads : Call(t) \/ Succeed(t) \/ Fail(t) \/ Return(t) \/ Close(t)

Spec == Init /\ [][Next]_absvars
=============================================================================
