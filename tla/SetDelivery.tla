---------------------------- MODULE SetDelivery ----------------------------
(***************************************************************************)
(* What the delivery of scheduled messages promises for each message set,  *)
(* whatever the schedules, handlers, worker and broker do to get there: a  *)
(* set that is due is handed over once or dropped for good, and only a     *)
(* restart of the backend, which makes the broker deliver the job in hand  *)
(* again, makes a set due that had been handed over.  A set that is due    *)
(* may become contested, when two requests set out to have it sent: of     *)
(* such a set nothing more is promised.                                    *)
(***************************************************************************)
EXTENDS Integers

CONSTANT MsgSet

VARIABLES
    state,      \* state[m]: where message set m stands
    copies,     \* copies[m]: times m was handed over
    restarts    \* restarts of the backend so far

vars == <<state, copies, restarts>>

State == {"none", "due", "handed", "dropped", "contested"}

TypeOK ==
    /\ state \in [MsgSet -> State]
    /\ copies \in [MsgSet -> Nat]
    /\ restarts \in Nat

Init ==
    /\ state = [m \in MsgSet |-> "none"]
    /\ copies = [m \in MsgSet |-> 0]
    /\ restarts = 0

Set(M, st) == state' = [m \in MsgSet |-> IF m \in M THEN st ELSE state[m]]

(* A run creates its sets, to be sent or (a run that failed) never to be.   *)
Create(M, st) ==
    /\ \A m \in M : state[m] = "none"
    /\ st \in {"due", "dropped"}
    /\ Set(M, st)
    /\ UNCHANGED <<copies, restarts>>

Hand(m) ==
    /\ state[m] \in {"due", "contested"}
    /\ Set({m}, IF state[m] = "due" THEN "handed" ELSE "contested")
    /\ copies' = [copies EXCEPT ![m] = @ + 1]
    /\ UNCHANGED restarts

(* Sets that are stopped, late, in error or forgotten.                      *)
Drop(M) ==
    /\ \A m \in M : state[m] = "due"
    /\ state' = [m \in MsgSet |-> IF m \notin M THEN state[m]
                                  ELSE IF copies[m] = 0 THEN "dropped" ELSE "handed"]
    /\ UNCHANGED <<copies, restarts>>

(* Two requests set out to have these sent.                                 *)
Contest(M) ==
    /\ \A m \in M : state[m] = "due"
    /\ Set(M, "contested")
    /\ UNCHANGED <<copies, restarts>>

(* R: handed over, with the job not acknowledged; D: due, and lost with the *)
(* request that had them in hand.                                           *)
Restart(R, D) ==
    /\ \A m \in R : state[m] = "handed"
    /\ \A m \in D : state[m] = "due"
    /\ state' = [m \in MsgSet |->
                    IF m \in R THEN "due"
                    ELSE IF m \notin D THEN state[m]
                    ELSE IF copies[m] = 0 THEN "dropped" ELSE "handed"]
    /\ restarts' = restarts + 1
    /\ UNCHANGED copies

Next ==
    \/ \E M \in SUBSET MsgSet, st \in {"due", "dropped"} : Create(M, st)
    \/ \E m \in MsgSet : Hand(m)
    \/ \E M \in SUBSET MsgSet : Drop(M) \/ Contest(M)
    \/ \E R, D \in SUBSET MsgSet : Restart(R, D)

Spec == Init /\ [][Next]_vars
=============================================================================
