-------------------- MODULE ScheduleRefinementProofs --------------------
(***************************************************************************)
(* ScheduleMessages implements SetDelivery: a creation is a run's, a       *)
(* hand-over is Deliver, a contest is the selection of a resume, a restart *)
(* is a restart, and every other step drops sets or stutters.              *)
(***************************************************************************)
EXTENDS ScheduleDeliveryProofs

USE DEF dbVars, workerVars, boundVars

LEMMA OnwardDrops ==
  ASSUME TypeInv, DeliveryInv, Onward
  PROVE  Delivery!Next
<1> DEFINE M == {m \in MsgSet \ contested : ToBeSent(m) /\ ~ToBeSent(m)'}
<1>1. \A m \in MsgSet \ contested : ToBeSent(m) => owner[m] # None
  BY DEF DeliveryInv, SetInv
<1>2. \A m \in M : DeliveryState[m] = "due"
  BY <1>1 DEF DeliveryState
<1>3. DeliveryState' = [m \in MsgSet |->
                          IF m \notin M THEN DeliveryState[m]
                          ELSE IF published[m] = 0 THEN "dropped" ELSE "handed"]
  <2>1. \A m \in M : owner[m] # None /\ ~ToBeSent(m)'
    BY <1>1
  <2>2. \A m \in M : published[m] > 0 <=> published[m] # 0
    BY DEF TypeInv, TypeOK
  <2>3. \A m \in MsgSet \ (M \cup contested) : ToBeSent(m)' <=> ToBeSent(m)
    BY DEF Onward
  <2>4. QED
    BY <2>1, <2>2, <2>3 DEF Onward, DeliveryState
<1>4. Delivery!Drop(M)
  BY <1>2, <1>3 DEF Delivery!Drop, Onward
<1>5. QED
  BY <1>4 DEF Delivery!Next

(* A resume selects paused sets; those another resume has are contested.    *)
LEMMA SelectContests ==
  ASSUME TypeInv, DeliveryInv, NEW r \in Slot, ResumeSelect(r)
  PROVE  Delivery!Next
<1> DEFINE M == contested' \ contested
<1>1. /\ UNCHANGED <<owner, setStatus, published, restarts>>
      /\ contested \subseteq contested'
  BY DEF ResumeSelect
<1>2. \A m \in M : m \in MsgSet /\ setStatus[m] = "pausing"
  BY DEF ResumeSelect, SetsOf
<1>3. \A m \in M : ToBeSent(m) /\ owner[m] # None
  BY <1>2 DEF ToBeSent, DeliveryInv, SetInv
<1>4. \A m \in M : DeliveryState[m] = "due" /\ DeliveryState'[m] = "contested"
  BY <1>1, <1>2, <1>3 DEF DeliveryState
<1>5. \A m \in MsgSet \ contested' : ToBeSent(m)' <=> ToBeSent(m)
  BY SelectDelivery
<1>6. \A m \in MsgSet \ M : DeliveryState'[m] = DeliveryState[m]
  BY <1>1, <1>5 DEF DeliveryState
<1>7. DeliveryState' = [m \in MsgSet |-> IF m \in M THEN "contested" ELSE DeliveryState[m]]
  BY <1>4, <1>6 DEF DeliveryState
<1>8. Delivery!Contest(M)
  BY <1>1, <1>4, <1>7 DEF Delivery!Contest, Delivery!Set
<1>9. M \in SUBSET MsgSet
  BY <1>2
<1>10. QED
  BY <1>8, <1>9 DEF Delivery!Next

LEMMA RunCreates ==
  ASSUME TypeInv, DeliveryInv, NEW r \in Slot, RunSets(r) \/ RunSetsFail(r)
  PROVE  Delivery!Next
<1>1. /\ UNCHANGED <<setStatus, held, task, job, published, restarts, contested>>
      /\ req[r].op \in {"run", "runHttp"} /\ req[r].at = "sets"
  BY DEF RunSets, RunSetsFail, NewSets, In
<1>2. req[r].s \in Schedule /\ req[r].s # None
  BY <1>1, ConstantsAssumption DEF TypeInv, Working
<1>3. PICK M \in SUBSET Free :
         /\ owner' = [m \in MsgSet |-> IF m \in M THEN req[r].s ELSE owner[m]]
         /\ \/ GotoWith(r, "save", M)
            \/ Catch(r)
  BY DEF RunSets, RunSetsFail, NewSets
<1>4. /\ \A q \in Slot : q # r => req'[q] = req[q]
      /\ req'[r].op = req[r].op /\ req'[r].at = "save"
      /\ req'[r].ids = M \/ req'[r].ids = req[r].ids
  BY <1>3, SlotChange DEF Catch
<1>5. \A m \in MsgSet : ~Holds(r, m) /\ (Holds(r, m)' <=> req[r].op = "run" /\ m \in req'[r].ids)
  BY <1>1, <1>4 DEF Holds
<1>6. \A m \in MsgSet, q \in Slot \ {r} : Holds(q, m)' <=> Holds(q, m)
  BY <1>4 DEF Holds
<1>7. \A m \in MsgSet : ToBeSent(m)' <=> ToBeSent(m) \/ Holds(r, m)'
  BY <1>1, <1>4, <1>5, <1>6 DEF ToBeSent
<1>8. \A m \in MsgSet : Holds(r, m)' => m \in M
  BY <1>1, <1>4, <1>5 DEF DeliveryInv, SlotInv, In
<1>9. M \in SUBSET MsgSet /\ \A m \in M : /\ m \notin contested
                                         /\ DeliveryState[m] = "none" /\ ~ToBeSent(m)
                                         /\ ~(published[m] > 0)
  BY DEF Free, DeliveryInv, SetInv, DeliveryState
<1>10. \A m \in MsgSet \ M : DeliveryState'[m] = DeliveryState[m]
  BY <1>1, <1>3, <1>7, <1>8 DEF DeliveryState
<1>11. \A m \in M : DeliveryState'[m] = IF Holds(r, m)' THEN "due" ELSE "dropped"
  BY <1>1, <1>2, <1>3, <1>7, <1>9 DEF DeliveryState
<1>12. (\A m \in M : Holds(r, m)') \/ (\A m \in M : ~Holds(r, m)')
  BY <1>1, <1>4, <1>5, <1>9 DEF DeliveryInv, SlotInv, In
<1>13. PICK st \in {"due", "dropped"} : \A m \in M : DeliveryState'[m] = st
  BY <1>11, <1>12
<1>14. DeliveryState' = [m \in MsgSet |-> IF m \in M THEN st ELSE DeliveryState[m]]
  BY <1>10, <1>13 DEF DeliveryState
<1>15. Delivery!Create(M, st)
  BY <1>1, <1>9, <1>14 DEF Delivery!Create, Delivery!Set
<1>16. QED
  BY <1>9, <1>15 DEF Delivery!Next

LEMMA DeliverHands ==
  ASSUME TypeInv, DeliveryInv, NEW m \in MsgSet, Deliver(m)
  PROVE  Delivery!Next
<1>1. /\ UNCHANGED <<owner, req, restarts, held, job, contested>>
      /\ task[m].at \in {"send", "report"}
      /\ setStatus' = [setStatus EXCEPT ![m] = "sending"]
      /\ published' = [published EXCEPT ![m] = @ + 1] /\ published[m] \in Nat
      /\ task' = [task EXCEPT ![m].at = "save", ![m].was = "sending"]
  BY DEF Deliver, Sendable, TypeInv, TypeOK
<1>2. \A n \in MsgSet, r \in Slot : Holds(r, n)' <=> Holds(r, n)
  BY <1>1 DEF Holds
<1>3. task'[m].at = "save" /\ setStatus'[m] = "sending" /\ published'[m] > 0
  BY <1>1 DEF TypeInv, TypeOK, Task
<1>4. owner[m] # None /\ (m \in contested \/ (ToBeSent(m) /\ ~ToBeSent(m)'))
  BY <1>1, <1>2, <1>3 DEF ToBeSent, DeliveryInv, SetInv
<1>5. \A n \in MsgSet \ {m} : /\ ToBeSent(n)' <=> ToBeSent(n)
                              /\ published'[n] = published[n]
  BY <1>1, <1>2 DEF ToBeSent, TypeInv, TypeOK
<1>6. /\ DeliveryState[m] = IF m \in contested THEN "contested" ELSE "due"
      /\ DeliveryState'[m] = IF m \in contested THEN "contested" ELSE "handed"
  BY <1>1, <1>3, <1>4 DEF DeliveryState
<1>7. DeliveryState' = [n \in MsgSet |-> 
                          IF n \in {m} THEN IF DeliveryState[m] = "due" THEN "handed" ELSE "contested"
                          ELSE DeliveryState[n]]
  BY <1>1, <1>5, <1>6 DEF DeliveryState
<1>8. Delivery!Hand(m)
  BY <1>1, <1>6, <1>7 DEF Delivery!Hand, Delivery!Set
<1>9. QED
  BY <1>8 DEF Delivery!Next

LEMMA RestartRestarts ==
  ASSUME TypeInv, DeliveryInv, DeliveryInv', Restart
  PROVE  Delivery!Next
<1> DEFINE R == {m \in MsgSet \ contested : ~ToBeSent(m) /\ ToBeSent(m)'}
           D == {m \in MsgSet \ contested : ToBeSent(m) /\ ~ToBeSent(m)'}
<1>1. UNCHANGED <<owner, setStatus, job, published, contested>> /\ restarts' = restarts + 1
  BY DEF Restart
<1>2. \A r \in Slot, m \in MsgSet : ~Holds(r, m)'
  BY BlankFields DEF Restart, TypeInv, TypeOK, Request, Holds
<1>3. \A m \in MsgSet \ contested : ToBeSent(m) \/ ToBeSent(m)' => owner[m] # None
  BY <1>1 DEF DeliveryInv, SetInv
<1>4. \A m \in R : published[m] > 0
  BY <1>1, <1>2 DEF ToBeSent, DeliveryInv, SetInv, Restart, TypeInv, TypeOK, Task
<1>5. \A m \in MsgSet : published[m] > 0 <=> published[m] # 0
  BY DEF TypeInv, TypeOK
<1>6. /\ \A m \in R : DeliveryState[m] = "handed"
      /\ \A m \in D : DeliveryState[m] = "due"
  BY <1>3, <1>4 DEF DeliveryState
<1>7. DeliveryState' = [m \in MsgSet |->
                          IF m \in R THEN "due"
                          ELSE IF m \notin D THEN DeliveryState[m]
                          ELSE IF published[m] = 0 THEN "dropped" ELSE "handed"]
  BY <1>1, <1>3, <1>5 DEF DeliveryState
<1>8. Delivery!Restart(R, D)
  BY <1>1, <1>6, <1>7 DEF Delivery!Restart
<1>9. QED
  BY <1>8 DEF Delivery!Next

LEMMA DeliveryNext ==
  ASSUME TypeInv, DeliveryInv, [Next]_vars
  PROVE  [Delivery!Next]_(Delivery!vars)
<1>1. DeliveryInv'
  BY DeliveryStep
<1>2. CASE UNCHANGED vars
  <2>1. \A m \in MsgSet : ToBeSent(m)' <=> ToBeSent(m)
    BY <1>2 DEF vars, ToBeSent, Holds
  <2>2. UNCHANGED DeliveryState
    BY <1>2, <2>1 DEF vars, DeliveryState
  <2>3. QED
    BY <1>2, <2>2 DEF vars, Delivery!vars
<1>3. CASE Onward
  BY <1>3, OnwardDrops
<1>4. ASSUME NEW r \in Slot, RunSets(r) \/ RunSetsFail(r) \/ ResumeSelect(r)
      PROVE  Delivery!Next
  BY <1>4, RunCreates, SelectContests
<1>5. ASSUME NEW m \in MsgSet, Deliver(m)
      PROVE  Delivery!Next
  BY <1>5, DeliverHands
<1>6. CASE Restart
  BY <1>1, <1>6, RestartRestarts
<1>7. QED
  BY <1>2, <1>3, <1>4, <1>5, <1>6, OperatorDelivery, WorkerDelivery, HandlerDelivery,
     SendDelivery, RingCentralDelivery, FailureDelivery DEF Next

(* Every behaviour of the schedules, operators, handlers, worker and        *)
(* RingCentral is one of SetDelivery: a set is due until it is handed over, *)
(* dropped or contested by two resumes, and of the first two only the job   *)
(* in hand at a restart comes back.                                         *)
THEOREM ImplementsSetDelivery == Spec => DeliversSets
<1>1. Init => Delivery!Init
  <2>1. ASSUME Init
        PROVE  \A m \in MsgSet : DeliveryState[m] = "none"
    BY <2>1 DEF Init, DeliveryState
  <2>2. QED
    BY <2>1 DEF Init, Delivery!Init, DeliveryState
<1>2. TypeInv /\ DeliveryInv /\ [Next]_vars => [Delivery!Next]_(Delivery!vars)
  BY DeliveryNext
<1>3. QED
  BY <1>1, <1>2, DeliveryInvariant, TypeInvariant, PTL DEF Spec, DeliversSets, Delivery!Spec
=============================================================================
