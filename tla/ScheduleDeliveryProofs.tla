---------------------- MODULE ScheduleDeliveryProofs ----------------------
(***************************************************************************)
(* Why a message set is handed over once, and a stopped one never, unless  *)
(* two resumes contest it: the invariant DeliveryInv of ScheduleMessages,  *)
(* for every value of the constants.  And why a schedule that can be read  *)
(* is known to the worker.                                                 *)
(***************************************************************************)
EXTENDS ScheduleMessagesProofs

USE DEF dbVars, workerVars, boundVars

LEMMA BlankFields ==
  /\ NoRequest.op = "none" /\ NoRequest.at = "idle" /\ NoRequest.s = None
  /\ NoRequest.ids = {}
  BY DEF NoRequest

(* The variables that DeliveryInv looks at, other than req.                 *)
Still == UNCHANGED <<owner, setStatus, held, task, job, published, restarts, contested>>

(* No set becomes due: a step that is not a creation, a delivery, a restart *)
(* or the selection of a resume leaves each set as it was, or drops it.     *)
Onward ==
    /\ UNCHANGED <<owner, published, restarts, contested>>
    /\ \A m \in MsgSet \ contested : ToBeSent(m)' => ToBeSent(m)


(* A slot that ends up with no set in hand, or with those it had to give to *)
(* the worker, disturbs nothing.                                            *)
LEMMA LetGo ==
  ASSUME TypeInv, DeliveryInv, NEW r \in Slot, Still,
         \A q \in Slot : q # r => req'[q] = req[q],
         req'[r].ids \subseteq req[r].ids,
         \/ \A m \in MsgSet : ~Holds(r, m)'
         \/ In(r, "run", "save") /\ In(r, "run", "reply")',
         req'[r].op \in {"stop", "pause", "resume"} => r \in Operator,
         req'[r].at = "redeliver" \/ In(r, "run", "sets")' => req'[r].ids = {}
  PROVE  DeliveryInv' /\ Onward
<1>1. SlotInv'
  BY DEF DeliveryInv, SlotInv, In
<1>2. ASSUME NEW m \in MsgSet \ contested
      PROVE  SetInv(m)' /\ (ToBeSent(m)' => ToBeSent(m))
  <2>1. SetInv(m)
    BY DEF DeliveryInv
  <2>2. ToBeSent(m)' => ToBeSent(m)
    BY DEF Still, ToBeSent, Holds, In
  <2>3. QED
    BY <2>1, <2>2 DEF Still, SetInv, Holds, In
<1>3. QED
  BY <1>1, <1>2 DEF DeliveryInv, Still, Onward

(* What the helpers that change one slot do to it.                          *)
LEMMA SlotChange ==
  ASSUME TypeInv, NEW r \in Slot
  PROVE  /\ Finish(r) =>
               /\ \A q \in Slot : q # r => req'[q] = req[q]
               /\ req'[r] = NoRequest
         /\ \A at : Goto(r, at) =>
               /\ \A q \in Slot : q # r => req'[q] = req[q]
               /\ req'[r].op = req[r].op /\ req'[r].at = at
               /\ req'[r].ids = req[r].ids /\ req'[r].s = req[r].s
         /\ \A at, M : GotoWith(r, at, M) =>
               /\ \A q \in Slot : q # r => req'[q] = req[q]
               /\ req'[r].op = req[r].op /\ req'[r].at = at
               /\ req'[r].ids = M
         /\ \A row : SaveAs(r, row) =>
               /\ \A q \in Slot : q # r => req'[q] = req[q]
               /\ req'[r].op = req[r].op /\ req'[r].at = "save"
               /\ req'[r].ids = req[r].ids
  BY DEF TypeInv, TypeOK, Request, Finish, Goto, GotoWith, SaveAs

-----------------------------------------------------------------------------
(* Requests of operators *)

LEMMA EnterDelivery ==
  ASSUME TypeInv, DeliveryInv, NEW o \in Operator, NEW c, NEW s, NEW row,
         NEW at \in At \ {"redeliver"}, Enter(o, c, at, s, row), Still
  PROVE  DeliveryInv' /\ Onward
<1>1. o \in Slot
  BY DEF Slot
<1>2. /\ \A q \in Slot : q # o => req'[q] = req[q]
      /\ req'[o].ids = {} /\ req'[o].at = at
  BY <1>1 DEF Enter, TypeInv, TypeOK
<1>3. \A m \in MsgSet : ~Holds(o, m)'
  BY <1>2 DEF Holds
<1>4. QED
  BY <1>1, <1>2, <1>3, LetGo

LEMMA OperatorDelivery ==
  ASSUME TypeInv, DeliveryInv, NEW o \in Operator, OperatorStep(o)
  PROVE  DeliveryInv' /\ Onward
<1>1. PICK s \in Schedule :
         \/ \E p \in Plan, retry \in BOOLEAN : CreateScheduleMessage(o, s, p, retry)
         \/ UpdateScheduleMessage(o, s)
         \/ StopScheduleMessage(o, s)
         \/ PauseScheduleMessage(o, s)
         \/ ResumeScheduleMessage(o, s)
         \/ DeleteScheduleMessage(o, s)
         \/ GetPullingSchedule(o, s)
         \/ RunOverHttp(o, s)
  BY DEF OperatorStep
<1>2. Still
  BY <1>1 DEF Still, CreateScheduleMessage, UpdateScheduleMessage, StopScheduleMessage,
     PauseScheduleMessage, ResumeScheduleMessage, DeleteScheduleMessage,
     GetPullingSchedule, RunOverHttp
<1>3. \E c, row : \E at \in At \ {"redeliver"} : Enter(o, c, at, s, row)
  BY <1>1 DEF At, CreateScheduleMessage, UpdateScheduleMessage, StopScheduleMessage,
     PauseScheduleMessage, ResumeScheduleMessage, DeleteScheduleMessage,
     GetPullingSchedule, RunOverHttp
<1>4. QED
  BY <1>2, <1>3, EnterDelivery
-----------------------------------------------------------------------------
(* Handlers in progress *)

LEMMA HandlerLetsGo ==
  ASSUME TypeInv, DeliveryInv, NEW r \in Slot,
         \/ AskCreate(r) \/ CommitCreate(r) \/ SaveSnapshot(r) \/ RedeliverRun(r)
         \/ DetectCount(r) \/ CommitBackup(r)
         \/ \E p \in Plan, retry, ofBackup \in BOOLEAN : AskUpdate(r, p, retry, ofBackup)
  PROVE  DeliveryInv' /\ Onward
<1>1. CASE AskCreate(r)
  <2>1. Still
    BY <1>1 DEF AskCreate, Still
  <2>2. \/ req'[r] = NoRequest
        \/ req'[r].op = req[r].op /\ req'[r].at = "commit" /\ req'[r].ids = req[r].ids
    BY <1>1, SlotChange DEF AskCreate
  <2>3. \A q \in Slot : q # r => req'[q] = req[q]
    BY <1>1, SlotChange DEF AskCreate
  <2>4. req[r].op \in {"create", "detect"}
    BY <1>1 DEF AskCreate, In
  <2>5. QED
    BY <2>1, <2>2, <2>3, <2>4, BlankFields, LetGo DEF Holds, In
<1>2. CASE CommitCreate(r)
  <2>1. Still
    BY <1>2 DEF CommitCreate, Still
  <2>2. req'[r] = NoRequest /\ \A q \in Slot : q # r => req'[q] = req[q]
    BY <1>2, SlotChange DEF CommitCreate
  <2>3. QED
    BY <2>1, <2>2, BlankFields, LetGo DEF Holds, In
<1>3. CASE SaveSnapshot(r)
  <2>1. Still
    BY <1>3 DEF SaveSnapshot, Still
  <2>2. \/ req'[r] = NoRequest
        \/ /\ req[r].op = "run" /\ req[r].at = "save"
           /\ req'[r].op = "run" /\ req'[r].at = "reply" /\ req'[r].ids = req[r].ids
    BY <1>3, SlotChange DEF SaveSnapshot
  <2>3. \A q \in Slot : q # r => req'[q] = req[q]
    BY <1>3, SlotChange DEF SaveSnapshot
  <2>4. CASE req'[r] = NoRequest
    BY <2>1, <2>3, <2>4, BlankFields, LetGo DEF Holds, In
  <2>5. CASE req'[r] # NoRequest
    BY <2>1, <2>2, <2>3, <2>5, LetGo DEF In
  <2>6. QED
    BY <2>4, <2>5
<1>4. CASE RedeliverRun(r)
  <2>1. Still
    BY <1>4 DEF RedeliverRun, Still
  <2>2. req'[r] = NoRequest \/ req'[r] = RunRequest(req[r].s)
    BY <1>4 DEF RedeliverRun, TypeInv, TypeOK
  <2>3. \A q \in Slot : q # r => req'[q] = req[q]
    BY <1>4 DEF RedeliverRun, TypeInv, TypeOK
  <2>4. req'[r].op \in {"none", "run"} /\ req'[r].at \in {"idle", "sets"} /\ req'[r].ids = {}
    BY <2>2, BlankFields DEF RunRequest
  <2>5. QED
    BY <2>1, <2>3, <2>4, LetGo DEF Holds, In
<1>5. CASE DetectCount(r)
  <2>1. Still
    BY <1>5 DEF DetectCount, Still
  <2>2. /\ \A q \in Slot : q # r => req'[q] = req[q]
        /\ req'[r].op \in {"none", "detect"} /\ req'[r].at \in {"idle", "ask"}
        /\ req'[r].ids = {}
    BY <1>5, BlankFields, SlotChange DEF DetectCount, TypeInv, TypeOK
  <2>3. QED
    BY <2>1, <2>2, LetGo DEF Holds, In
<1>6. CASE CommitBackup(r)
  <2>1. Still
    BY <1>6 DEF CommitBackup, Still
  <2>2. req'[r] = NoRequest /\ \A q \in Slot : q # r => req'[q] = req[q]
    BY <1>6, SlotChange DEF CommitBackup
  <2>3. QED
    BY <2>1, <2>2, BlankFields, LetGo DEF Holds, In
<1>7. ASSUME NEW p \in Plan, NEW retry \in BOOLEAN, NEW ofBackup \in BOOLEAN,
             AskUpdate(r, p, retry, ofBackup)
      PROVE  DeliveryInv' /\ Onward
  <2>1. Still
    BY <1>7 DEF AskUpdate, Still
  <2>2. \E row : SaveAs(r, row)
    BY <1>7 DEF AskUpdate, UpdateRow, Catch
  <2>3. /\ \A q \in Slot : q # r => req'[q] = req[q]
        /\ req'[r].op = req[r].op /\ req'[r].at = "save" /\ req'[r].ids = req[r].ids
    BY <2>2, SlotChange
  <2>4. req[r].op = "update"
    BY <1>7 DEF AskUpdate, In
  <2>5. QED
    BY <2>1, <2>3, <2>4, LetGo DEF Holds, In
<1>8. QED
  BY <1>1, <1>2, <1>3, <1>4, <1>5, <1>6, <1>7

(* The worker has removed the queued jobs of a schedule: the request has    *)
(* them in hand, or has lost them with the answer.                          *)
LEMMA DequeuedDelivery ==
  ASSUME TypeInv, DeliveryInv, NEW r \in Slot,
         AskStop(r) \/ AskPause(r)
  PROVE  DeliveryInv' /\ Onward
<1> USE DEF In
<1>1. /\ UNCHANGED <<owner, setStatus, held, task, published, restarts, contested>>
      /\ req[r].op \in {"stop", "pause"} /\ req[r].at = "ask"
  BY DEF AskStop, AskPause
<1>2. PICK M \in {{}, Queued(req[r].s)} :
         job' = [m \in MsgSet |-> IF m \in M THEN "none" ELSE job[m]]
  BY DEF AskStop, AskPause, Dequeue, TypeInv, TypeOK
<1>3. /\ \A q \in Slot : q # r => req'[q] = req[q]
      /\ req'[r].op = req[r].op
  BY SlotChange DEF AskStop, AskPause, Catch
<1>4. \/ req'[r].at = "save" /\ req'[r].ids = req[r].ids
      \/ /\ req'[r].at = "sets" /\ req'[r].ids = Queued(req[r].s)
         /\ job' = [m \in MsgSet |-> IF m \in Queued(req[r].s) THEN "none" ELSE job[m]]
  BY SlotChange DEF AskStop, AskPause, Catch, Dequeue, Answer
<1>5. req[r].s \in Schedule /\ req[r].s # None
  BY <1>1, ConstantsAssumption DEF TypeInv, Working
<1>6. SlotInv'
  BY <1>1, <1>3, <1>4 DEF DeliveryInv, SlotInv
<1>7. ASSUME NEW m \in MsgSet \ contested
      PROVE  SetInv(m)' /\ (ToBeSent(m)' => ToBeSent(m))
  <2>1. SetInv(m)
    BY DEF DeliveryInv
  <2>2. m \in Queued(req[r].s) => owner[m] = req[r].s /\ job[m] = "queued"
    BY DEF Queued, SetsOf
  <2>3. job'[m] = job[m] \/ (m \in Queued(req[r].s) /\ job'[m] = "none")
    BY <1>2
  <2>4. \A q \in Slot \ {r} : Holds(q, m)' <=> Holds(q, m)
    BY <1>3 DEF Holds
  <2>5. ~Holds(r, m)
    BY <1>1 DEF Holds
  <2>6. Holds(r, m)' => m \in Queued(req[r].s) /\ job'[m] = "none"
    BY <1>1, <1>3, <1>4 DEF Holds
  <2>7. (\A q \in Slot : m \notin req[q].ids) /\ m \notin Queued(req[r].s)
           => \A q \in Slot : m \notin req'[q].ids
    BY <1>3, <1>4
  <2>8. ToBeSent(m)' => ToBeSent(m)
    BY <1>1, <2>2, <2>3, <2>4, <2>6, <1>3 DEF ToBeSent
  <2>9. QED
    BY <1>1, <1>3, <1>5, <2>1, <2>2, <2>3, <2>4, <2>5, <2>6, <2>7, <2>8
       DEF SetInv, ToBeSent
<1>8. QED
  BY <1>1, <1>6, <1>7 DEF DeliveryInv, Onward

(* stop: the sets in hand were in the queue, the paused ones in the table;  *)
(* a resume that has selected those will mark them waiting.                 *)
LEMMA StopDelivery ==
  ASSUME TypeInv, DeliveryInv, NEW r \in Slot, StopSets(r)
  PROVE  DeliveryInv' /\ Onward
<1> USE DEF In
<1>1. /\ UNCHANGED <<owner, held, task, job, published, restarts, contested>>
      /\ req[r].op = "stop" /\ req[r].at = "sets"
  BY DEF StopSets
<1>2. /\ \A q \in Slot : q # r => req'[q] = req[q]
      /\ req'[r].op = "stop" /\ req'[r].at = "save" /\ req'[r].ids = req[r].ids
  BY <1>1, SlotChange DEF StopSets
<1>3. SlotInv'
  BY <1>1, <1>2 DEF DeliveryInv, SlotInv
<1>4. ASSUME NEW m \in MsgSet \ contested
      PROVE  SetInv(m)' /\ (ToBeSent(m)' => ToBeSent(m))
  <2>1. SetInv(m)
    BY DEF DeliveryInv
  <2>2. \/ setStatus'[m] = setStatus[m]
        \/ setStatus'[m] = "stopped" /\ Holds(r, m)
        \/ setStatus'[m] = "stopped" /\ setStatus[m] = "pausing" /\ owner[m] = req[r].s
    BY <1>1 DEF StopSets, Mark, SetsOf, Holds
  <2>3. \A q \in Slot : Holds(q, m)' => q # r /\ Holds(q, m)
    BY <1>2 DEF Holds
  <2>4. setStatus'[m] = "stopped" =>
           /\ job[m] = "none" /\ owner[m] # None
           /\ \A q \in Slot : Holds(q, m)' => In(q, "resume", "sets")'
    BY <1>1, <1>2, <2>1, <2>2, <2>3 DEF SetInv, ToBeSent, Holds
  <2>5. setStatus'[m] = "pausing" => setStatus[m] = "pausing"
    BY <2>2
  <2>6. \A q \in Slot : Holds(q, m)' => (In(q, "resume", "sets")' <=> In(q, "resume", "sets"))
    BY <1>2, <2>3
  <2>7. QED
    BY <1>1, <1>2, <2>1, <2>2, <2>3, <2>4, <2>5, <2>6 DEF SetInv, ToBeSent
<1>5. QED
  BY <1>1, <1>3, <1>4 DEF DeliveryInv, Onward

LEMMA PauseDelivery ==
  ASSUME TypeInv, DeliveryInv, NEW r \in Slot, PauseSets(r)
  PROVE  DeliveryInv' /\ Onward
<1> USE DEF In
<1>1. /\ UNCHANGED <<owner, held, task, job, published, restarts, contested>>
      /\ req[r].op = "pause" /\ req[r].at = "sets"
  BY DEF PauseSets
<1>2. /\ \A q \in Slot : q # r => req'[q] = req[q]
      /\ req'[r].op = "pause" /\ req'[r].at = "save" /\ req'[r].ids = req[r].ids
  BY <1>1, SlotChange DEF PauseSets
<1>3. SlotInv'
  BY <1>1, <1>2 DEF DeliveryInv, SlotInv
<1>4. ASSUME NEW m \in MsgSet \ contested
      PROVE  SetInv(m)' /\ (ToBeSent(m)' => ToBeSent(m))
  <2>1. SetInv(m)
    BY DEF DeliveryInv
  <2>2. \/ setStatus'[m] = setStatus[m] /\ m \notin req[r].ids
        \/ setStatus'[m] = "pausing" /\ Holds(r, m)
    BY <1>1 DEF PauseSets, Mark, Holds
  <2>3. \A q \in Slot : Holds(q, m)' => q # r /\ Holds(q, m)
    BY <1>2 DEF Holds
  <2>4. \A q \in Slot \ {r} : Holds(q, m) => Holds(q, m)'
    BY <1>2 DEF Holds
  <2>5. Holds(r, m) => job[m] = "none" /\ owner[m] # None /\ ToBeSent(m)
    BY <1>1, <2>1 DEF SetInv, ToBeSent
  <2>6. QED
    BY <1>1, <1>2, <2>1, <2>2, <2>3, <2>4, <2>5 DEF SetInv, ToBeSent, Holds
<1>5. QED
  BY <1>1, <1>3, <1>4 DEF DeliveryInv, Onward

(* resume: the paused sets come into the request's hands; those that        *)
(* another resume has in hand become contested.                             *)
LEMMA SelectDelivery ==
  ASSUME TypeInv, DeliveryInv, NEW r \in Slot, ResumeSelect(r)
  PROVE  /\ DeliveryInv'
         /\ \A m \in MsgSet \ contested' : ToBeSent(m)' <=> ToBeSent(m)
<1> USE DEF In
<1>1. /\ UNCHANGED <<owner, setStatus, held, task, job, published, restarts>>
      /\ req[r].op = "resume" /\ req[r].at = "select"
      /\ contested \subseteq contested'
  BY DEF ResumeSelect
<1>2. /\ \A q \in Slot : q # r => req'[q] = req[q]
      /\ req'[r].op = "resume" /\ req'[r].at = "sets"
      /\ req'[r].ids = {m \in SetsOf(req[r].s) : setStatus[m] = "pausing"}
  BY <1>1, SlotChange DEF ResumeSelect
<1>3. \A m \in contested' \ contested : setStatus[m] = "pausing" /\ m \in MsgSet
  BY DEF ResumeSelect, SetsOf
<1>4. \A m \in MsgSet \ contested' : m \in req'[r].ids => m \notin InHandOfResume
  BY <1>2 DEF ResumeSelect
<1>5. SlotInv'
  BY <1>1, <1>2 DEF DeliveryInv, SlotInv
<1>6. \A m \in contested' : owner'[m] # None
  BY <1>1, <1>3 DEF DeliveryInv, SetInv, ToBeSent
<1>7. ASSUME NEW m \in MsgSet \ contested'
      PROVE  SetInv(m)' /\ (ToBeSent(m)' <=> ToBeSent(m))
  <2>1. SetInv(m)
    BY <1>1 DEF DeliveryInv
  <2>2. \A q \in Slot \ {r} : Holds(q, m)' <=> Holds(q, m)
    BY <1>2 DEF Holds
  <2>3. m \in req'[r].ids => setStatus[m] = "pausing" /\ owner[m] = req[r].s
    BY <1>2 DEF SetsOf
  <2>4. Holds(r, m)' <=> m \in req'[r].ids
    BY <1>2 DEF Holds
  <2>5. ~Holds(r, m)
    BY <1>1 DEF Holds
  <2>6. m \in req'[r].ids =>
           job[m] = "none" /\ owner[m] # None /\ \A q \in Slot : ~Holds(q, m)
    <3>1. m \in req'[r].ids => \A q \in Slot : Holds(q, m) => In(q, "resume", "sets")
      BY <2>1, <2>3 DEF SetInv
    <3>2. m \in req'[r].ids => \A q \in Slot : ~Holds(q, m)
      BY <1>4, <3>1 DEF InHandOfResume, Holds
    <3>3. QED
      BY <2>1, <2>3, <3>2 DEF SetInv, ToBeSent
  <2>7. ToBeSent(m)' <=> ToBeSent(m)
    BY <1>1, <1>2, <2>2, <2>3, <2>4, <2>5 DEF ToBeSent
  <2>8. \A q \in Slot \ {r} : In(q, "resume", "sets")' <=> In(q, "resume", "sets")
    BY <1>2
  <2>9. owner[m] = None => \A q \in Slot : m \notin req'[q].ids
    BY <1>2, <2>1, <2>6 DEF SetInv
  <2>10. \A q \in Slot : Holds(q, m)' =>
            job[m] = "none" /\ (q = r \/ (Holds(q, m) /\ ~Holds(r, m)'))
    BY <2>1, <2>2, <2>4, <2>6 DEF SetInv
  <2>11. QED
    BY <1>1, <1>2, <2>1, <2>2, <2>6, <2>7, <2>8, <2>9, <2>10 DEF SetInv
<1>8. QED
  BY <1>5, <1>6, <1>7 DEF DeliveryInv

LEMMA ResumeDelivery ==
  ASSUME TypeInv, DeliveryInv, NEW r \in Slot, ResumeSets(r)
  PROVE  DeliveryInv' /\ Onward
<1> USE DEF In
<1>1. /\ UNCHANGED <<owner, held, task, job, published, restarts, contested>>
      /\ req[r].op = "resume" /\ req[r].at = "sets"
  BY DEF ResumeSets
<1>2. /\ \A q \in Slot : q # r => req'[q] = req[q]
      /\ req'[r].op = "resume" /\ req'[r].at = "ask" /\ req'[r].ids = req[r].ids
  BY <1>1, SlotChange DEF ResumeSets
<1>3. SlotInv'
  BY <1>1, <1>2 DEF DeliveryInv, SlotInv
<1>4. ASSUME NEW m \in MsgSet \ contested
      PROVE  SetInv(m)' /\ (ToBeSent(m)' => ToBeSent(m))
  <2>1. SetInv(m)
    BY DEF DeliveryInv
  <2>2. \A q \in Slot : Holds(q, m)' <=> Holds(q, m)
    BY <1>1, <1>2 DEF Holds
  <2>3. \/ setStatus'[m] = setStatus[m] /\ ~Holds(r, m)
        \/ setStatus'[m] = "waiting" /\ Holds(r, m)
    BY <1>1 DEF ResumeSets, Mark, Holds
  <2>4. \A q \in Slot : q # r => (In(q, "resume", "sets")' <=> In(q, "resume", "sets"))
    BY <1>2
  <2>5. ToBeSent(m)' => ToBeSent(m)
    BY <1>1, <1>2, <2>2, <2>3 DEF ToBeSent
  <2>6. QED
    BY <1>1, <1>2, <2>1, <2>2, <2>3, <2>4, <2>5 DEF SetInv
<1>5. QED
  BY <1>1, <1>3, <1>4 DEF DeliveryInv, Onward

(* The worker queues the jobs of the sets in hand.                          *)
LEMMA EnqueuedDelivery ==
  ASSUME TypeInv, DeliveryInv, NEW r \in Slot,
         AskResume(r) \/ RunReply(r)
  PROVE  DeliveryInv' /\ Onward
<1> USE DEF In
<1>1. /\ UNCHANGED <<owner, setStatus, held, task, published, restarts, contested>>
      /\ \/ req[r].op = "resume" /\ req[r].at = "ask"
         \/ req[r].op = "run" /\ req[r].at = "reply"
  BY DEF AskResume, RunReply
<1>2. /\ \A q \in Slot : q # r => req'[q] = req[q]
      /\ \/ req'[r].op = req[r].op /\ req'[r].at = "save" /\ req'[r].ids = req[r].ids
            /\ req[r].op = "resume"
         \/ req'[r] = NoRequest
  BY <1>1, SlotChange DEF AskResume, RunReply, Catch
<1>3. \/ UNCHANGED job
      \/ job' = [m \in MsgSet |-> IF m \in req[r].ids /\ job[m] = "none" THEN "queued"
                                                                      ELSE job[m]]
  BY DEF AskResume, RunReply, Enqueue
<1>4. SlotInv'
  BY <1>1, <1>2, BlankFields DEF DeliveryInv, SlotInv
<1>5. ASSUME NEW m \in MsgSet \ contested
      PROVE  SetInv(m)' /\ (ToBeSent(m)' => ToBeSent(m))
  <2>1. SetInv(m)
    BY DEF DeliveryInv
  <2>2. /\ m \in req[r].ids <=> Holds(r, m)
        /\ ~Holds(r, m)'
    BY <1>1, <1>2, BlankFields DEF Holds
  <2>3. \A q \in Slot : Holds(q, m)' <=> q # r /\ Holds(q, m)
    BY <1>2, <2>2 DEF Holds
  <2>4. \/ job'[m] = job[m]
        \/ job'[m] = "queued" /\ Holds(r, m)
    BY <1>3, <2>2
  <2>5. Holds(r, m) => /\ job[m] = "none" /\ owner[m] # None /\ ToBeSent(m)
                       /\ setStatus[m] \notin {"pausing", "stopped"}
                       /\ \A q \in Slot : ~Holds(q, m)'
    BY <1>1, <2>1, <2>3 DEF SetInv, ToBeSent
  <2>6. ToBeSent(m)' => ToBeSent(m)
    BY <1>1, <1>2, <2>3, <2>4, <2>5 DEF ToBeSent
  <2>7. (\A q \in Slot : m \notin req[q].ids) => \A q \in Slot : m \notin req'[q].ids
    BY <1>2, BlankFields
  <2>8. QED
    BY <1>1, <1>2, <2>1, <2>3, <2>4, <2>5, <2>6, <2>7 DEF SetInv
<1>6. QED
  BY <1>1, <1>4, <1>5 DEF DeliveryInv, Onward

(* A run creates sets that nobody has: their first holder is the run.       *)
LEMMA CreatedDelivery ==
  ASSUME TypeInv, DeliveryInv, NEW r \in Slot,
         RunSets(r) \/ RunSetsFail(r)
  PROVE  DeliveryInv'
<1> USE DEF In
<1>1. /\ UNCHANGED <<setStatus, held, task, job, published, restarts, contested>>
      /\ req[r].op \in {"run", "runHttp"} /\ req[r].at = "sets"
  BY DEF RunSets, RunSetsFail, NewSets
<1>2. req[r].s \in Schedule /\ req[r].s # None
  BY <1>1, ConstantsAssumption DEF TypeInv, Working
<1>3. PICK M \in SUBSET Free :
         /\ owner' = [m \in MsgSet |-> IF m \in M THEN req[r].s ELSE owner[m]]
         /\ \/ GotoWith(r, "save", M)
            \/ Catch(r)
  BY DEF RunSets, RunSetsFail, NewSets
<1>4. /\ \A q \in Slot : q # r => req'[q] = req[q]
      /\ req'[r].op = req[r].op /\ req'[r].at = "save"
      /\ req'[r].ids = M \/ req'[r].ids = req[r].ids
  BY <1>3, SlotChange DEF Catch
<1>5. SlotInv'
  BY <1>1, <1>4 DEF DeliveryInv, SlotInv
<1>6. ASSUME NEW m \in MsgSet \ contested
      PROVE  SetInv(m)'
  <2>1. SetInv(m)
    BY DEF DeliveryInv
  <2>2. /\ m \in M => owner[m] = None /\ owner'[m] # None
        /\ m \notin M => owner'[m] = owner[m]
    BY <1>2, <1>3 DEF Free
  <2>3. \A q \in Slot \ {r} : Holds(q, m)' <=> Holds(q, m)
    BY <1>4 DEF Holds
  <2>4. ~Holds(r, m) /\ (Holds(r, m)' => m \in req'[r].ids)
    BY <1>1 DEF Holds
  <2>5. owner[m] = None => /\ published[m] = 0 /\ ~ToBeSent(m) /\ job[m] = "none"
                           /\ setStatus[m] \notin {"pausing", "stopped"}
                           /\ \A q \in Slot : ~Holds(q, m) /\ m \notin req[q].ids
    BY <2>1 DEF SetInv, ToBeSent, Holds, TypeInv, TypeOK
  <2>6. Holds(r, m)' => m \in M
    BY <1>1, <1>4, <2>4 DEF Holds, DeliveryInv, SlotInv
  <2>7. ToBeSent(m)' => ToBeSent(m) \/ m \in M
    BY <1>1, <1>4, <2>3, <2>6 DEF ToBeSent
  <2>8. owner'[m] = None => \A q \in Slot : m \notin req'[q].ids
    BY <1>4, <2>2, <2>5
  <2>9. CASE m \in M
    BY <1>1, <2>1, <2>2, <2>3, <2>4, <2>5, <2>9 DEF SetInv, TypeInv, TypeOK
  <2>10. CASE m \notin M
    <3>1. \A q \in Slot : Holds(q, m)' => q # r /\ Holds(q, m) /\ req'[q] = req[q]
      BY <1>4, <2>3, <2>6, <2>10
    <3>2. ToBeSent(m)' => ToBeSent(m)
      BY <2>7, <2>10
    <3>3. owner'[m] = owner[m]
      BY <2>2, <2>10
    <3>4. QED
      BY <1>1, <2>1, <2>8, <3>1, <3>2, <3>3 DEF SetInv
  <2>11. QED
    BY <2>9, <2>10
<1>7. \A m \in contested' : owner'[m] # None
  BY <1>1, <1>2, <1>3 DEF DeliveryInv, TypeInv, TypeOK
<1>8. QED
  BY <1>1, <1>5, <1>6, <1>7 DEF DeliveryInv

LEMMA HandlerDelivery ==
  ASSUME TypeInv, DeliveryInv, NEW r \in Slot, HandlerStep(r)
  PROVE  DeliveryInv' /\ (Onward \/ RunSets(r) \/ ResumeSelect(r))
  BY HandlerLetsGo, DequeuedDelivery, StopDelivery, PauseDelivery, SelectDelivery, ResumeDelivery,
     EnqueuedDelivery, CreatedDelivery DEF HandlerStep

-----------------------------------------------------------------------------
(* Calls of the worker *)

LEMMA WorkerDelivery ==
  ASSUME TypeInv, DeliveryInv, NEW c \in Call, NEW s \in Schedule,
         FireTimer(c, s) \/ DetectFailed(c, s)
  PROVE  DeliveryInv' /\ Onward
<1>1. c \in Slot
  BY DEF Slot
<1>2. Still
  BY DEF FireTimer, DetectFailed, Still
<1>3. /\ \A q \in Slot : q # c => req'[q] = req[q]
      /\ req[c] = NoRequest
      /\ \/ req'[c] = NoRequest
         \/ req'[c].op \in {"run", "detect"} /\ req'[c].at \in {"sets", "count"}
            /\ req'[c].ids = {}
  BY <1>1 DEF FireTimer, DetectFailed, RunRequest, TypeInv, TypeOK
<1>4. QED
  BY <1>1, <1>2, <1>3, BlankFields, LetGo DEF Holds, In

-----------------------------------------------------------------------------
(* sendScheduleMessage: no request changes, and one set alone, except for   *)
(* the report of lateness.                                                  *)

Apart(m) == \A n \in MsgSet \ {m} :
    /\ setStatus'[n] = setStatus[n] /\ held'[n] = held[n] /\ task'[n] = task[n]
    /\ job'[n] = job[n] /\ published'[n] = published[n]

LEMMA OneSet ==
  ASSUME TypeInv, DeliveryInv, UNCHANGED <<owner, req, restarts, contested>>,
         NEW m \in MsgSet, Apart(m), m \in contested \/ SetInv(m)'
  PROVE  /\ DeliveryInv'
         /\ UNCHANGED published /\ (m \in contested \/ (ToBeSent(m)' => ToBeSent(m))) => Onward
<1>1. SlotInv'
  BY DEF DeliveryInv, SlotInv, In
<1>2. ASSUME NEW n \in MsgSet \ contested, n # m
      PROVE  SetInv(n)' /\ (ToBeSent(n)' => ToBeSent(n))
  <2>1. SetInv(n)
    BY <1>2 DEF DeliveryInv
  <2>2. /\ setStatus'[n] = setStatus[n] /\ held'[n] = held[n] /\ task'[n] = task[n]
        /\ job'[n] = job[n] /\ published'[n] = published[n]
    BY <1>2 DEF Apart
  <2>3. \A r \in Slot : /\ Holds(r, n)' <=> Holds(r, n)
                        /\ In(r, "resume", "sets")' <=> In(r, "resume", "sets")
    BY DEF Holds, In
  <2>4. ToBeSent(n)' => ToBeSent(n)
    BY <2>2, <2>3 DEF ToBeSent
  <2>5. QED
    BY <2>1, <2>2, <2>3, <2>4 DEF SetInv
<1>3. \A n \in contested' : owner'[n] # None
  BY DEF DeliveryInv
<1>4. QED
  BY <1>1, <1>2, <1>3 DEF DeliveryInv, Onward

(* The report of lateness also changes the rows of other sets, none of them  *)
(* to a status that would have them sent.                                   *)
LEMMA LateDelivery ==
  ASSUME TypeInv, DeliveryInv, NEW m \in MsgSet, LateSets(m)
  PROVE  DeliveryInv' /\ Onward
<1> USE DEF Elsewhere
<1>1. /\ UNCHANGED <<owner, req, restarts, held, job, published, contested>>
      /\ task[m].at = "late" /\ task' = [task EXCEPT ![m].at = "hold"]
  BY DEF LateSets, Step
<1>2. SlotInv'
  BY <1>1 DEF DeliveryInv, SlotInv, In
<1>3. ASSUME NEW n \in MsgSet \ contested
      PROVE  SetInv(n)' /\ (ToBeSent(n)' => ToBeSent(n))
  <2>1. SetInv(n)
    BY DEF DeliveryInv
  <2>2. setStatus'[n] \in {setStatus[n], "late"}
    BY DEF LateSets, Mark
  <2>3. /\ task'[n].was = task[n].was
        /\ task'[n].at = task[n].at \/ (task[n].at = "late" /\ task'[n].at = "hold")
    BY <1>1 DEF TypeInv, TypeOK, Task
  <2>4. \A r \in Slot : /\ Holds(r, n)' <=> Holds(r, n)
                        /\ In(r, "resume", "sets")' <=> In(r, "resume", "sets")
    BY <1>1 DEF Holds, In
  <2>5. ToBeSent(n)' => ToBeSent(n)
    BY <1>1, <2>2, <2>3, <2>4 DEF ToBeSent
  <2>6. QED
    BY <1>1, <2>1, <2>2, <2>3, <2>4, <2>5 DEF SetInv
<1>4. \A n \in contested' : owner'[n] # None
  BY <1>1 DEF DeliveryInv
<1>5. QED
  BY <1>1, <1>2, <1>3, <1>4 DEF DeliveryInv, Onward

(* Of a contested set nothing is claimed, but its steps keep to it.         *)
LEMMA ContestedDelivery ==
  ASSUME TypeInv, DeliveryInv, NEW m \in contested, SendStep(m), ~LateSets(m)
  PROVE  DeliveryInv' /\ (Onward \/ Deliver(m))
<1>1. m \in MsgSet
  BY DEF TypeInv, TypeOK
<1>2. UNCHANGED <<owner, req, restarts, contested>> /\ Apart(m)
  BY <1>1 DEF SendStep, SendScheduleMessage, RedeliverSend, ReportError, ReportLate, SaveHeld,
     HeldCommit, ReportLast, Deliver, SaveSet, Begin, Step, Elsewhere, Apart, TypeInv, TypeOK
<1>3. UNCHANGED published \/ Deliver(m)
  BY DEF SendStep, SendScheduleMessage, RedeliverSend, ReportError, ReportLate, SaveHeld,
     HeldCommit, ReportLast, SaveSet
<1>4. QED
  BY <1>1, <1>2, <1>3, OneSet

LEMMA ClearDelivery ==
  ASSUME TypeInv, DeliveryInv, NEW m \in MsgSet \ contested, SendStep(m), ~LateSets(m)
  PROVE  DeliveryInv' /\ (Onward \/ Deliver(m))
<1> USE DEF Elsewhere, Apart
<1>1. SetInv(m) /\ task[m] \in Task
  BY DEF DeliveryInv, TypeInv, TypeOK
<1>2. NoTask.at = "idle" /\ NoTask.was = "waiting"
  BY DEF NoTask
<1>3. ASSUME UNCHANGED req
      PROVE  \A r \in Slot : /\ Holds(r, m)' <=> Holds(r, m)
                             /\ In(r, "resume", "sets")' <=> In(r, "resume", "sets")
  BY <1>3 DEF Holds, In
<1>4. job[m] # "none" => setStatus[m] \notin {"pausing", "stopped"} /\ owner[m] # None
  BY <1>1 DEF SetInv, ToBeSent, TypeInv, TypeOK
<1>5. task[m].at # "idle" => job[m] = "sending"
  BY <1>1 DEF SetInv
<1>6. ASSUME NEW t \in Report, SendScheduleMessage(m, t)
      PROVE  DeliveryInv' /\ (Onward \/ Deliver(m))
  <2>1. /\ UNCHANGED <<owner, req, restarts, setStatus, held, published, contested>> /\ Apart(m)
        /\ job[m] = "queued" /\ job'[m] = "sending"
        /\ task'[m].at = "report" /\ task'[m].was = setStatus[m]
    BY <1>6 DEF SendScheduleMessage, Begin, TypeInv, TypeOK
  <2>2. SetInv(m)' /\ (ToBeSent(m)' => ToBeSent(m))
    BY <1>1, <1>3, <1>4, <2>1 DEF SetInv, ToBeSent
  <2>3. QED
    BY <2>1, <2>2, OneSet
<1>7. CASE RedeliverSend(m)
  <2>1. /\ UNCHANGED <<owner, req, restarts, setStatus, held, published, job, contested>> /\ Apart(m)
        /\ task[m].at = "redeliver"
        /\ task'[m].at = "report" /\ task'[m].was = setStatus[m]
    BY <1>7 DEF RedeliverSend, Begin, TypeInv, TypeOK
  <2>2. SetInv(m)' /\ (ToBeSent(m)' => ToBeSent(m))
    BY <1>1, <1>3, <1>4, <1>5, <2>1 DEF SetInv, ToBeSent
  <2>3. QED
    BY <2>1, <2>2, OneSet
<1>8. CASE ReportError(m) \/ ReportLate(m) \/ ReportLast(m)
  <2>1. /\ UNCHANGED <<owner, req, restarts, setStatus, held, published, job, contested>> /\ Apart(m)
        /\ task[m].at = "report" /\ task'[m].at \in {"hold", "late", "send"}
        /\ task'[m].was \in {task[m].was, "error"}
    BY <1>1, <1>8 DEF ReportError, ReportLate, ReportLast, Step, TypeInv, TypeOK, Task
  <2>2. SetInv(m)' /\ (ToBeSent(m)' => ToBeSent(m))
    BY <1>1, <1>3, <1>4, <1>5, <2>1 DEF SetInv, ToBeSent
  <2>3. QED
    BY <2>1, <2>2, OneSet
<1>9. CASE SaveHeld(m)
  <2>1. /\ UNCHANGED <<owner, req, restarts, setStatus, published, contested>> /\ Apart(m)
        /\ task[m].at = "hold" /\ task'[m].at = "idle" /\ task'[m].was = "waiting"
        /\ job'[m] = "none" /\ held'[m] \in {held[m], task[m].was}
    BY <1>2, <1>9 DEF SaveHeld, TypeInv, TypeOK
  <2>2. ToBeSent(m)' => ToBeSent(m)
    BY <1>3, <2>1 DEF ToBeSent
  <2>3. SetInv(m)'
    BY <1>1, <1>3, <1>4, <1>5, <2>1, <2>2 DEF SetInv
  <2>4. QED
    BY <2>1, <2>2, <2>3, OneSet
<1>10. CASE HeldCommit(m)
  <2>1. /\ UNCHANGED <<owner, req, restarts, task, job, published, contested>> /\ Apart(m)
        /\ setStatus'[m] = held[m] /\ held'[m] = "none"
    BY <1>10 DEF HeldCommit, TypeInv, TypeOK
  <2>2. ToBeSent(m)' => ToBeSent(m)
    BY <1>1, <1>3, <2>1 DEF ToBeSent, SetInv
  <2>3. SetInv(m)'
    BY <1>1, <1>3, <2>1, <2>2 DEF SetInv
  <2>4. QED
    BY <2>1, <2>2, <2>3, OneSet
<1>11. CASE Deliver(m)
  <2>1. /\ UNCHANGED <<owner, req, restarts, held, job, contested>> /\ Apart(m)
        /\ task[m].at \in {"send", "report"}
        /\ setStatus'[m] = "sending" /\ published'[m] = published[m] + 1
        /\ task'[m].at = "save" /\ task'[m].was = "sending"
    BY <1>1, <1>11 DEF Deliver, Sendable, TypeInv, TypeOK, Task
  <2>2. ToBeSent(m) /\ ~ToBeSent(m)'
    BY <1>1, <1>3, <1>5, <2>1 DEF ToBeSent, SetInv
  <2>3. published[m] \in Nat /\ restarts \in Nat
    BY ConstantsAssumption DEF TypeInv, TypeOK
  <2>4. SetInv(m)'
    BY <1>1, <1>3, <1>4, <1>5, <2>1, <2>2, <2>3 DEF SetInv
  <2>5. QED
    BY <1>11, <2>1, <2>4, OneSet
<1>12. CASE SaveSet(m)
  <2>1. /\ UNCHANGED <<owner, req, restarts, held, published, contested>> /\ Apart(m)
        /\ task[m].at = "save" /\ task'[m].at = "idle" /\ task'[m].was = "waiting"
        /\ job'[m] = "none" /\ setStatus'[m] = task[m].was
    BY <1>2, <1>12 DEF SaveSet, TypeInv, TypeOK
  <2>2. ToBeSent(m)' => ToBeSent(m)
    BY <1>1, <1>3, <2>1 DEF ToBeSent, SetInv
  <2>3. SetInv(m)'
    BY <1>1, <1>3, <1>4, <1>5, <2>1, <2>2 DEF SetInv
  <2>4. QED
    BY <2>1, <2>2, <2>3, OneSet
<1>13. QED
  BY <1>6, <1>7, <1>8, <1>9, <1>10, <1>11, <1>12 DEF SendStep

LEMMA SendDelivery ==
  ASSUME TypeInv, DeliveryInv, NEW m \in MsgSet, SendStep(m)
  PROVE  DeliveryInv' /\ (Onward \/ Deliver(m))
  BY LateDelivery, ContestedDelivery, ClearDelivery

-----------------------------------------------------------------------------
(* RingCentral, failures and restarts *)

LEMMA RingCentralDelivery ==
  ASSUME TypeInv, DeliveryInv, NEW m \in MsgSet, RingCentralStep(m)
  PROVE  DeliveryInv' /\ Onward
<1>1. m \in contested \/ SetInv(m)
  BY DEF DeliveryInv
<1>2. /\ UNCHANGED <<owner, req, restarts, held, task, job, published, contested>> /\ Apart(m)
      /\ setStatus'[m] \in {"sent", "error"}
  BY DEF RingCentralStep, UpdateOutboundMessage, UpdateOutboundList, SendMessageError,
         Mark, Outside, Apart
<1>3. \A r \in Slot : /\ Holds(r, m)' <=> Holds(r, m)
                      /\ In(r, "resume", "sets")' <=> In(r, "resume", "sets")
  BY <1>2 DEF Holds, In
<1>4. ToBeSent(m)' => ToBeSent(m)
  BY <1>2, <1>3 DEF ToBeSent
<1>5. m \in contested \/ SetInv(m)'
  BY <1>1, <1>2, <1>3, <1>4 DEF SetInv
<1>6. QED
  BY <1>2, <1>4, <1>5, OneSet

LEMMA FailureDelivery ==
  ASSUME TypeInv, DeliveryInv, Failure
  PROVE  DeliveryInv' /\ (Onward \/ Restart \/ \E r \in Slot : RunSetsFail(r))
<1> USE DEF Elsewhere, Apart
<1>1. ASSUME NEW m \in MsgSet, HeldRollback(m) \/ DeliverFails(m)
      PROVE  DeliveryInv' /\ Onward
  <2>1. (m \in contested \/ SetInv(m)) /\ NoTask.at = "idle" /\ NoTask.was = "waiting"
    BY DEF DeliveryInv, NoTask
  <2>2. /\ UNCHANGED <<owner, req, restarts, published, contested>> /\ Apart(m)
        /\ setStatus'[m] \in {setStatus[m], "error"}
        /\ held'[m] \in {held[m], "none"}
        /\ \/ task'[m] = task[m] /\ job'[m] = job[m]
           \/ /\ task'[m].at = "idle" /\ task'[m].was = "waiting" /\ job'[m] = "none"
              /\ task[m].at # "idle"
    BY <1>1, <2>1 DEF HeldRollback, DeliverFails, Sendable, TypeInv, TypeOK
  <2>3. \A r \in Slot : /\ Holds(r, m)' <=> Holds(r, m)
                        /\ In(r, "resume", "sets")' <=> In(r, "resume", "sets")
    BY <2>2 DEF Holds, In
  <2>4. ToBeSent(m)' => ToBeSent(m)
    BY <2>2, <2>3 DEF ToBeSent
  <2>5. m \in contested \/ SetInv(m)'
    BY <2>1, <2>2, <2>3, <2>4 DEF SetInv
  <2>6. QED
    BY <2>2, <2>4, <2>5, OneSet
<1>2. CASE Restart
  <2>0. restarts \in Nat
    BY ConstantsAssumption DEF TypeInv, TypeOK
  <2>1. UNCHANGED <<owner, setStatus, job, published, contested>> /\ restarts' = restarts + 1
    BY <1>2 DEF Restart
  <2>2. \A r \in Slot : /\ req'[r].ids = {}
                        /\ req'[r].op \in {"run", "none"} /\ req'[r].at \in {"redeliver", "idle"}
    BY <1>2, BlankFields DEF Restart, TypeInv, TypeOK, Request
  <2>3. SlotInv'
    BY <2>2 DEF SlotInv, In
  <2>4. ASSUME NEW m \in MsgSet \ contested
        PROVE  SetInv(m)'
    <3>1. SetInv(m)
      BY DEF DeliveryInv
    <3>2. /\ held'[m] = "none" /\ task'[m].was = task[m].was
          /\ \/ task'[m].at = "idle" /\ task[m].at = "idle"
             \/ task'[m].at = "redeliver" /\ task[m].at # "idle"
      BY <1>2 DEF Restart, TypeInv, TypeOK, Task
    <3>3. \A r \in Slot : ~Holds(r, m)' /\ m \notin req'[r].ids
      BY <2>2 DEF Holds
    <3>4. published[m] \in Nat /\ published[m] <= 1 + restarts
      BY <3>1 DEF SetInv, TypeInv, TypeOK
    <3>5. owner[m] = None => ~ToBeSent(m)'
      BY <2>1, <3>1, <3>2, <3>3 DEF SetInv, ToBeSent
    <3>6. QED
      BY <2>0, <2>1, <3>1, <3>2, <3>3, <3>4, <3>5 DEF SetInv
  <2>5. \A m \in contested' : owner'[m] # None
    BY <2>1 DEF DeliveryInv
  <2>6. QED
    BY <1>2, <2>1, <2>3, <2>4, <2>5 DEF DeliveryInv
<1>3. QED
  BY <1>1, <1>2, CreatedDelivery DEF Failure

-----------------------------------------------------------------------------
(* The invariant and what follows from it *)

LEMMA DeliveryInit == Init => DeliveryInv
<1> SUFFICES ASSUME Init
             PROVE  DeliveryInv
  OBVIOUS
<1>1. /\ \A r \in Slot : req[r] = NoRequest
      /\ \A m \in MsgSet : /\ owner[m] = None /\ setStatus[m] = "waiting"
                           /\ held[m] = "none" /\ task[m] = NoTask
                           /\ job[m] = "none" /\ published[m] = 0
      /\ restarts = 0 /\ contested = {}
  BY DEF Init
<1>2. \A m \in MsgSet : task[m].at = "idle" /\ task[m].was = "waiting"
  BY <1>1 DEF NoTask
<1>3. SlotInv
  BY <1>1, BlankFields DEF SlotInv, In
<1>4. ASSUME NEW m \in MsgSet \ contested
      PROVE  SetInv(m)
  BY <1>1, <1>2, BlankFields DEF SetInv, ToBeSent, Holds
<1>5. QED
  BY <1>1, <1>3, <1>4 DEF DeliveryInv

LEMMA DeliveryStep ==
  ASSUME TypeInv, DeliveryInv, [Next]_vars
  PROVE  DeliveryInv'
<1>1. CASE Next
  BY <1>1, OperatorDelivery, WorkerDelivery, HandlerDelivery, SendDelivery,
     RingCentralDelivery, FailureDelivery DEF Next
<1>2. CASE UNCHANGED vars
  BY <1>2 DEF vars, DeliveryInv, SlotInv, SetInv, ToBeSent, Holds, In
<1>3. QED
  BY <1>1, <1>2

LEMMA DeliveryInvariant == Spec => []DeliveryInv
<1>1. TypeInv /\ DeliveryInv /\ [Next]_vars => DeliveryInv'
  BY DeliveryStep
<1>2. QED
  BY <1>1, DeliveryInit, TypeInvariant, PTL DEF Spec

(* A message set is handed to RingCentral at most once, and once more for   *)
(* each restart, whatever the numbers of operators, schedules, sets, worker *)
(* calls, failures and restarts: every handler that takes a set over takes  *)
(* it from the one place that had it.  The one exception is in the          *)
(* statement: a set that two resumes have selected.                         *)
THEOREM PublishedOnce == Spec => []PublishedOncePerDelivery
<1>1. DeliveryInv => PublishedOncePerDelivery
  BY DEF DeliveryInv, SetInv, PublishedOncePerDelivery
<1>2. QED
  BY <1>1, DeliveryInvariant, PTL

(* Deliver never publishes a set whose row says stopped, unless two resumes *)
(* have selected it: such a set has no job, so no handler of it is in       *)
(* progress, and whoever else has it in hand will mark it first.            *)
THEOREM StoppedStays == Spec => StoppedNeverSent
<1>1. ASSUME TypeInv, DeliveryInv, [Next]_vars, NEW m \in MsgSet \ contested, setStatus[m] = "stopped"
      PROVE  published'[m] = published[m]
  <2>1. task[m].at = "idle"
    BY <1>1 DEF DeliveryInv, SetInv
  <2>2. ASSUME NEW n \in MsgSet, Deliver(n)
        PROVE  n # m
    BY <2>1, <2>2 DEF Deliver, Sendable
  <2>3. ASSUME NEW n \in MsgSet, SendStep(n) \/ RingCentralStep(n)
        PROVE  published'[m] = published[m]
    BY <1>1, <2>2, <2>3 DEF SendStep, SendScheduleMessage, RedeliverSend, ReportError,
       ReportLate, LateSets, SaveHeld, HeldCommit, ReportLast, SaveSet, Deliver,
       RingCentralStep, UpdateOutboundMessage, UpdateOutboundList, SendMessageError,
       Outside, TypeInv, TypeOK
  <2>4. ASSUME NEW o \in Operator, OperatorStep(o)
        PROVE  UNCHANGED published
    BY <2>4 DEF OperatorStep, CreateScheduleMessage, UpdateScheduleMessage,
       StopScheduleMessage, PauseScheduleMessage, ResumeScheduleMessage,
       DeleteScheduleMessage, GetPullingSchedule, RunOverHttp
  <2>5. ASSUME NEW r \in Slot, HandlerStep(r)
        PROVE  UNCHANGED published
    BY <2>5 DEF HandlerStep, AskCreate, CommitCreate, AskUpdate, AskStop, StopSets,
       AskPause, PauseSets, ResumeSelect, ResumeSets, AskResume, SaveSnapshot,
       RedeliverRun, RunSets, NewSets, RunReply, DetectCount, CommitBackup
  <2>6. ASSUME NEW c \in Call, NEW s \in Schedule, FireTimer(c, s) \/ DetectFailed(c, s)
        PROVE  UNCHANGED published
    BY <2>6 DEF FireTimer, DetectFailed
  <2>7. ASSUME Failure
        PROVE  UNCHANGED published
    BY <2>7 DEF Failure, RunSetsFail, NewSets, HeldRollback, DeliverFails, Elsewhere, Restart
  <2>8. CASE UNCHANGED vars
    BY <2>8 DEF vars
  <2>9. QED
    BY <1>1, <2>3, <2>4, <2>5, <2>6, <2>7, <2>8 DEF Next
<1>2. TypeInv /\ DeliveryInv /\ [Next]_vars
         => [\A m \in MsgSet \ contested :
               setStatus[m] = "stopped" => published'[m] = published[m]]_vars
  BY <1>1
<1>3. QED
  BY <1>2, DeliveryInvariant, TypeInvariant, PTL DEF Spec, StoppedNeverSent

-----------------------------------------------------------------------------
(* What the worker knows *)

(* A request that is about to commit a new row has the worker's answer.     *)
KnownInv ==
    /\ present \subseteq told
    /\ \A r \in Slot : req[r].at = "commit" => req[r].s \in told

LEMMA KnownStep ==
  ASSUME TypeInv, KnownInv, [Next]_vars
  PROVE  KnownInv'
<1> USE DEF KnownInv, TypeInv, TypeOK
<1>1. ASSUME NEW o \in Operator, OperatorStep(o)
      PROVE  KnownInv'
  <2>1. UNCHANGED <<present, told>>
    BY <1>1 DEF OperatorStep, CreateScheduleMessage, UpdateScheduleMessage,
       StopScheduleMessage, PauseScheduleMessage, ResumeScheduleMessage,
       DeleteScheduleMessage, GetPullingSchedule, RunOverHttp
  <2>2. PICK c, s, row : \E at \in At \ {"commit"} : Enter(o, c, at, s, row)
    BY <1>1 DEF OperatorStep, At, CreateScheduleMessage, UpdateScheduleMessage,
       StopScheduleMessage, PauseScheduleMessage, ResumeScheduleMessage,
       DeleteScheduleMessage, GetPullingSchedule, RunOverHttp
  <2>3. QED
    BY <2>1, <2>2 DEF Enter, Slot
<1>2. ASSUME NEW r \in Slot, AskCreate(r)
      PROVE  KnownInv'
  <2>1. UNCHANGED present /\ told \subseteq told'
    BY <1>2 DEF AskCreate
  <2>2. \A q \in Slot : q # r => req'[q] = req[q]
    BY <1>2, SlotChange DEF AskCreate
  <2>3. req'[r] = NoRequest \/ (req'[r].s = req[r].s /\ req[r].s \in told')
    BY <1>2, SlotChange DEF AskCreate
  <2>4. QED
    BY <2>1, <2>2, <2>3, BlankFields
<1>3. ASSUME NEW r \in Slot, CommitCreate(r) \/ CommitBackup(r)
      PROVE  KnownInv'
  <2>1. UNCHANGED told /\ present' = present \cup {req[r].s} /\ req[r].at = "commit"
    BY <1>3 DEF CommitCreate, CommitBackup, In
  <2>2. req'[r] = NoRequest /\ \A q \in Slot : q # r => req'[q] = req[q]
    BY <1>3, SlotChange DEF CommitCreate, CommitBackup
  <2>3. QED
    BY <2>1, <2>2, BlankFields
<1>4. ASSUME NEW r \in Slot, HandlerStep(r) \/ RunSetsFail(r),
             ~AskCreate(r), ~CommitCreate(r), ~CommitBackup(r)
      PROVE  KnownInv'
  <2>1. UNCHANGED <<present, told>>
    BY <1>4 DEF HandlerStep, AskUpdate, AskStop, StopSets, AskPause, PauseSets,
       ResumeSelect, ResumeSets, AskResume, SaveSnapshot, RedeliverRun, RunSets,
       NewSets, RunReply, DetectCount, RunSetsFail
  <2>2. req'[r].at # "commit" /\ \A q \in Slot : q # r => req'[q] = req[q]
    <3>1. CASE RedeliverRun(r)
      BY <3>1, BlankFields DEF RedeliverRun, RunRequest
    <3>2. CASE DetectCount(r)
      BY <3>2, SlotChange, BlankFields DEF DetectCount
    <3>3. CASE ~RedeliverRun(r) /\ ~DetectCount(r)
      <4>1. \/ Finish(r)
            \/ \E at \in At \ {"commit"} : Goto(r, at)
            \/ \E M : \E at \in At \ {"commit"} : GotoWith(r, at, M)
            \/ \E row : SaveAs(r, row)
        BY <1>4, <3>3 DEF HandlerStep, AskUpdate, UpdateRow, Catch, AskStop, StopSets,
           AskPause, PauseSets, ResumeSelect, ResumeSets, AskResume, SaveSnapshot,
           RunSets, RunReply, RunSetsFail, At
      <4>2. QED
        BY <4>1, SlotChange, BlankFields
    <3>4. QED
      BY <3>1, <3>2, <3>3
  <2>3. QED
    BY <2>1, <2>2
<1>5. ASSUME NEW c \in Call, NEW s \in Schedule, FireTimer(c, s) \/ DetectFailed(c, s)
      PROVE  KnownInv'
  BY <1>5 DEF FireTimer, DetectFailed, RunRequest, Slot
<1>6. ASSUME NEW m \in MsgSet, SendStep(m) \/ RingCentralStep(m) \/ HeldRollback(m) \/ DeliverFails(m)
      PROVE  KnownInv'
  <2>1. UNCHANGED <<present, told, req>>
    BY <1>6 DEF SendStep, SendScheduleMessage, RedeliverSend, ReportError,
       ReportLate, LateSets, SaveHeld, HeldCommit, ReportLast, SaveSet, Deliver,
       RingCentralStep, UpdateOutboundMessage, UpdateOutboundList, SendMessageError,
       Outside, Elsewhere, HeldRollback, DeliverFails
  <2>2. QED
    BY <2>1
<1>7. CASE Restart
  BY <1>7, BlankFields DEF Restart, Request
<1>8. CASE UNCHANGED vars
  BY <1>8 DEF vars
<1>9. QED
  BY <1>1, <1>2, <1>3, <1>4, <1>5, <1>6, <1>7, <1>8 DEF Next, Failure

(* The row of a schedule is visible only once the worker has accepted the   *)
(* schedule, for any number of operators and whatever calls are lost: create *)
(* and retry commit after the answer, and an answer other than true ends    *)
(* the request.                                                             *)
THEOREM VisibleIsKnown == Spec => []VisibleIsKnownToWorker
<1>1. Init => KnownInv
  BY BlankFields DEF Init, KnownInv
<1>2. TypeInv /\ KnownInv /\ [Next]_vars => KnownInv'
  BY KnownStep
<1>3. KnownInv => VisibleIsKnownToWorker
  BY DEF KnownInv, VisibleIsKnownToWorker
<1>4. QED
  BY <1>1, <1>2, <1>3, TypeInvariant, PTL DEF Spec
=============================================================================
