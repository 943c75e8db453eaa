---------------------- MODULE ScheduleMessagesProofs ----------------------
(***************************************************************************)
(* Type correctness of ScheduleMessages, for every value of its constants. *)
(***************************************************************************)
EXTENDS ScheduleMessages, TLAPS

USE DEF dbVars, workerVars, boundVars

LEMMA BlankRequest == NoRequest \in Request /\ NoRequest.snap \in Row
  BY ConstantsAssumption DEF NoRequest, NewRow, Row, Request, Op, At, SendStatus

LEMMA BlankTask == NoTask \in Task
  BY DEF NoTask, Task, SetStatus

-----------------------------------------------------------------------------
(* Changing one field of a row, a request or a task. *)

LEMMA RowParts ==
  ASSUME NEW row \in Row
  PROVE  /\ row.plan \in Plan
         /\ row.sendStatus \in SendStatus
         /\ row.backupOf \in Schedule \cup {None}
         /\ \A st \in SendStatus : [row EXCEPT !.sendStatus = st] \in Row
         /\ [row EXCEPT !.status = "delete"] \in Row
         /\ [row EXCEPT !.isIssue = TRUE] \in Row
         /\ [row EXCEPT !.isBackup = TRUE] \in Row
         /\ \A p \in Plan, retry \in BOOLEAN :
               [row EXCEPT !.plan = p, !.canRetry = retry] \in Row
  BY DEF Row

LEMMA RowNew ==
  ASSUME NEW p \in Plan, NEW retry \in BOOLEAN
  PROVE  NewRow(p, retry) \in Row
  BY DEF NewRow, Row, SendStatus

LEMMA RowOfBackup ==
  ASSUME NEW s \in Schedule, NEW row \in Row
  PROVE  BackupRow(s, row) \in Row
  BY DEF BackupRow, Row, SendStatus

LEMMA RequestParts ==
  ASSUME NEW q \in Request
  PROVE  /\ q.s \in Schedule \cup {None}
         /\ q.snap \in Row
         /\ q.ids \subseteq MsgSet
         /\ \A at \in At : [q EXCEPT !.at = at] \in Request
         /\ \A at \in At, M \in SUBSET MsgSet :
               [q EXCEPT !.at = at, !.ids = M] \in Request
         /\ \A at \in At, row \in Row :
               [q EXCEPT !.at = at, !.snap = row] \in Request
  BY DEF Request

LEMMA TaskParts ==
  ASSUME NEW t \in Task
  PROVE  /\ t.was \in SetStatus
         /\ t.report \in {"other", "last", "late", "error"}
         /\ \A at \in {"idle", "report", "late", "send", "hold", "save", "redeliver"} :
               /\ [t EXCEPT !.at = at] \in Task
               /\ \A st \in SetStatus : [t EXCEPT !.at = at, !.was = st] \in Task
  BY DEF Task

-----------------------------------------------------------------------------
(* Type correctness.  TypeOK alone is not inductive: what a handler adds to *)
(* present or told has to be a schedule, so a slot in use must name one.    *)

Working == \A r \in Slot : req[r].op # "none" => req[r].s \in Schedule

TypeInv == TypeOK /\ Working

LEMMA EnterType ==
  ASSUME TypeInv, NEW o \in Operator, NEW c \in Op, NEW at \in At,
         NEW s \in Schedule, NEW row \in Row, Enter(o, c, at, s, row)
  PROVE  /\ req' \in [Slot -> Request] /\ Working'
         /\ requests' \in 0..MaxRequests
<1>1. [op |-> c, at |-> at, s |-> s, snap |-> row, ids |-> {}] \in Request
  BY DEF Request
<1>2. req' \in [Slot -> Request]
  BY <1>1 DEF TypeInv, TypeOK, Enter, Slot
<1>3. Working'
  BY DEF TypeInv, TypeOK, Working, Enter, Slot
<1>4. requests' \in 0..MaxRequests
  BY ConstantsAssumption DEF TypeInv, TypeOK, Enter
<1>5. QED
  BY <1>2, <1>3, <1>4

LEMMA OperatorType ==
  ASSUME TypeInv, NEW o \in Operator, OperatorStep(o)
  PROVE  TypeInv'
<1> USE EnterType DEF TypeInv, Op, At
<1>0. \A s \in Schedule : sch[s] \in Row
  BY DEF TypeOK
<1>1. ASSUME NEW s \in Schedule, NEW p \in Plan, NEW retry \in BOOLEAN,
             CreateScheduleMessage(o, s, p, retry)
      PROVE  TypeInv'
  <2>1. NewRow(p, retry) \in Row
    BY RowNew
  <2>2. QED
    BY <1>1, <2>1 DEF CreateScheduleMessage, TypeOK
<1>2. ASSUME NEW s \in Schedule, UpdateScheduleMessage(o, s)
      PROVE  TypeInv'
  BY <1>0, <1>2 DEF UpdateScheduleMessage, TypeOK
<1>3. ASSUME NEW s \in Schedule, StopScheduleMessage(o, s)
      PROVE  TypeInv'
  BY <1>0, <1>3 DEF StopScheduleMessage, TypeOK
<1>4. ASSUME NEW s \in Schedule, PauseScheduleMessage(o, s)
      PROVE  TypeInv'
  <2>1. [sch[s] EXCEPT !.sendStatus = "pausing"] \in Row
    BY <1>0, RowParts DEF SendStatus
  <2>2. QED
    BY <1>4, <2>1 DEF PauseScheduleMessage, TypeOK
<1>5. ASSUME NEW s \in Schedule, ResumeScheduleMessage(o, s)
      PROVE  TypeInv'
  <2>1. [sch[s] EXCEPT !.sendStatus = "sending"] \in Row
    BY <1>0, RowParts DEF SendStatus
  <2>2. QED
    BY <1>5, <2>1 DEF ResumeScheduleMessage, TypeOK
<1>6. ASSUME NEW s \in Schedule, DeleteScheduleMessage(o, s)
      PROVE  TypeInv'
  <2>1. [sch[s] EXCEPT !.status = "delete"] \in Row
    BY <1>0, RowParts
  <2>2. QED
    BY <1>6, <2>1 DEF DeleteScheduleMessage, TypeOK
<1>7. ASSUME NEW s \in Schedule, GetPullingSchedule(o, s)
      PROVE  TypeInv'
  <2>1. [sch[s] EXCEPT !.sendStatus = "error"] \in Row
    BY <1>0, RowParts DEF SendStatus
  <2>2. QED
    BY <1>7, <2>1 DEF GetPullingSchedule, TypeOK
<1>8. ASSUME NEW s \in Schedule, RunOverHttp(o, s)
      PROVE  TypeInv'
  <2>1. [sch[s] EXCEPT !.sendStatus = "sending"] \in Row
    BY <1>0, RowParts DEF SendStatus
  <2>2. QED
    BY <1>8, <2>1 DEF RunOverHttp, TypeOK
<1>9. QED
  BY <1>1, <1>2, <1>3, <1>4, <1>5, <1>6, <1>7, <1>8 DEF OperatorStep

-----------------------------------------------------------------------------

(* How a handler leaves its slot. *)
LEMMA SlotType ==
  ASSUME TypeInv, NEW r \in Slot
  PROVE  /\ Finish(r) => req' \in [Slot -> Request] /\ Working'
         /\ \A at \in At : Goto(r, at) => req' \in [Slot -> Request] /\ Working'
         /\ \A at \in At, M \in SUBSET MsgSet :
               GotoWith(r, at, M) => req' \in [Slot -> Request] /\ Working'
         /\ \A row \in Row : SaveAs(r, row) => req' \in [Slot -> Request] /\ Working'
<1> USE DEF TypeInv, TypeOK, Working
<1>0. req[r] \in Request
  OBVIOUS
<1>1. ASSUME Finish(r)
      PROVE  req' \in [Slot -> Request] /\ Working'
  BY <1>1, BlankRequest DEF Finish, NoRequest
<1>2. ASSUME NEW at \in At, Goto(r, at)
      PROVE  req' \in [Slot -> Request] /\ Working'
  <2>1. [req[r] EXCEPT !.at = at] \in Request
    BY <1>0, RequestParts
  <2>2. req' \in [Slot -> Request]
    BY <1>2, <2>1 DEF Goto
  <2>3. \A q \in Slot : req'[q].op = req[q].op /\ req'[q].s = req[q].s
    BY <1>0, <1>2 DEF Goto, Request
  <2>4. QED
    BY <2>2, <2>3
<1>3. ASSUME NEW at \in At, NEW M \in SUBSET MsgSet, GotoWith(r, at, M)
      PROVE  req' \in [Slot -> Request] /\ Working'
  <2>1. [req[r] EXCEPT !.at = at, !.ids = M] \in Request
    BY <1>0, RequestParts
  <2>2. req' \in [Slot -> Request]
    BY <1>3, <2>1 DEF GotoWith
  <2>3. \A q \in Slot : req'[q].op = req[q].op /\ req'[q].s = req[q].s
    BY <1>0, <1>3 DEF GotoWith, Request
  <2>4. QED
    BY <2>2, <2>3
<1>4. ASSUME NEW row \in Row, SaveAs(r, row)
      PROVE  req' \in [Slot -> Request] /\ Working'
  <2>1. [req[r] EXCEPT !.at = "save", !.snap = row] \in Request
    BY <1>0, RequestParts DEF At
  <2>2. req' \in [Slot -> Request]
    BY <1>4, <2>1 DEF SaveAs
  <2>3. \A q \in Slot : req'[q].op = req[q].op /\ req'[q].s = req[q].s
    BY <1>0, <1>4 DEF SaveAs, Request
  <2>4. QED
    BY <2>2, <2>3
<1>5. QED
  BY <1>1, <1>2, <1>3, <1>4

LEMMA CatchType ==
  ASSUME TypeInv, NEW r \in Slot, Catch(r)
  PROVE  req' \in [Slot -> Request] /\ Working'
<1>1. [req[r].snap EXCEPT !.sendStatus = "error"] \in Row
  BY RequestParts, RowParts DEF TypeInv, TypeOK, SendStatus
<1>2. QED
  BY <1>1, SlotType DEF Catch

LEMMA RunType ==
  ASSUME NEW s \in Schedule, sch[s] \in Row
  PROVE  RunRequest(s) \in Request
<1>1. [sch[s] EXCEPT !.sendStatus = "sending"] \in Row
  BY RowParts DEF SendStatus
<1>2. QED
  BY <1>1 DEF RunRequest, Request, Op, At

LEMMA RowChanged ==
  ASSUME NEW row \in Row, NEW p \in Plan, NEW retry \in BOOLEAN, NEW ofBackup \in BOOLEAN
  PROVE  [row EXCEPT !.plan = p, !.canRetry = IF ofBackup THEN @ ELSE retry] \in Row
<1>1. CASE ofBackup
  BY <1>1 DEF Row
<1>2. CASE ~ofBackup
  BY <1>2 DEF Row
<1>3. QED
  BY <1>1, <1>2

LEMMA RowsMarked ==
  ASSUME NEW f \in [Schedule -> Row], NEW s
  PROVE  [f EXCEPT ![s].isBackup = TRUE] \in [Schedule -> Row]
<1>1. CASE s \in Schedule
  BY <1>1, RowParts
<1>2. CASE s \notin Schedule
  BY <1>2
<1>3. QED
  BY <1>1, <1>2

LEMMA RowsAtIssue ==
  ASSUME NEW f \in [Schedule -> Row], NEW s
  PROVE  [f EXCEPT ![s].isIssue = TRUE] \in [Schedule -> Row]
<1>1. CASE s \in Schedule
  BY <1>1, RowParts
<1>2. CASE s \notin Schedule
  BY <1>2
<1>3. QED
  BY <1>1, <1>2

LEMMA RowsSent ==
  ASSUME NEW f \in [Schedule -> Row], NEW s, NEW st \in SendStatus
  PROVE  [f EXCEPT ![s].sendStatus = st] \in [Schedule -> Row]
<1>1. CASE s \in Schedule
  BY <1>1, RowParts
<1>2. CASE s \notin Schedule
  BY <1>2
<1>3. QED
  BY <1>1, <1>2

LEMMA HandlerType ==
  ASSUME TypeInv, NEW r \in Slot, HandlerStep(r)
  PROVE  TypeInv'
<1> USE SlotType, CatchType, RequestParts, RowParts DEF TypeInv, At, In
<1>0. req[r] \in Request /\ (req[r].op # "none" => req[r].s \in Schedule)
  BY DEF TypeOK, Working
<1>1. CASE AskCreate(r)
  <2>1. timer' \in [Schedule -> Plan \cup {None}] /\ told' \subseteq Schedule
    BY <1>0, <1>1 DEF AskCreate, TypeOK
  <2>2. req' \in [Slot -> Request] /\ Working'
    BY <1>1 DEF AskCreate
  <2>3. QED
    BY <1>1, <2>1, <2>2 DEF AskCreate, TypeOK
<1>2. CASE CommitCreate(r)
  BY <1>0, <1>2 DEF CommitCreate, TypeOK
<1>3. ASSUME NEW p \in Plan, NEW retry \in BOOLEAN, NEW ofBackup \in BOOLEAN,
             AskUpdate(r, p, retry, ofBackup)
      PROVE  TypeInv'
  <2>1. timer' \in [Schedule -> Plan \cup {None}]
    BY <1>0, <1>3 DEF AskUpdate, TypeOK
  <2>2. ASSUME UpdateRow(r, p, retry, ofBackup)
        PROVE  req' \in [Slot -> Request] /\ Working'
    <3>1. [req[r].snap EXCEPT !.plan = p,
                              !.canRetry = IF ofBackup THEN @ ELSE retry] \in Row
      BY <1>0, RowChanged
    <3>2. QED
      BY <2>2, <3>1 DEF UpdateRow
  <2>3. req' \in [Slot -> Request] /\ Working'
    BY <1>3, <2>2 DEF AskUpdate
  <2>4. QED
    BY <1>3, <2>1, <2>3 DEF AskUpdate, TypeOK
<1>4. CASE AskStop(r)
  <2>1. Queued(req[r].s) \in SUBSET MsgSet
    BY DEF Queued, SetsOf
  <2>2. req' \in [Slot -> Request] /\ Working'
    BY <1>4, <2>1 DEF AskStop
  <2>3. QED
    BY <1>4, <2>2 DEF AskStop, Dequeue, TypeOK
<1>5. CASE StopSets(r)
  <2>1. [req[r].snap EXCEPT !.sendStatus = "stopped"] \in Row
    BY <1>0 DEF SendStatus
  <2>2. req' \in [Slot -> Request] /\ Working'
    BY <1>5, <2>1 DEF StopSets
  <2>3. setStatus' \in [MsgSet -> SetStatus]
    BY <1>5 DEF StopSets, Mark, TypeOK, SetStatus
  <2>4. QED
    BY <1>5, <2>2, <2>3 DEF StopSets, TypeOK
<1>6. CASE AskPause(r)
  <2>1. Queued(req[r].s) \in SUBSET MsgSet
    BY DEF Queued, SetsOf
  <2>2. req' \in [Slot -> Request] /\ Working'
    BY <1>6, <2>1 DEF AskPause
  <2>3. QED
    BY <1>6, <2>2 DEF AskPause, Dequeue, TypeOK
<1>7. CASE PauseSets(r)
  <2>1. setStatus' \in [MsgSet -> SetStatus]
    BY <1>7 DEF PauseSets, Mark, TypeOK, SetStatus
  <2>2. QED
    BY <1>7, <2>1 DEF PauseSets, TypeOK
<1>8. CASE ResumeSelect(r)
  <2>1. {m \in SetsOf(req[r].s) : setStatus[m] = "pausing"} \in SUBSET MsgSet
    BY DEF SetsOf
  <2>2. req' \in [Slot -> Request] /\ Working'
    BY <1>8, <2>1 DEF ResumeSelect
  <2>3. contested' \subseteq MsgSet
    BY <1>8 DEF ResumeSelect, SetsOf, TypeOK
  <2>4. QED
    BY <1>8, <2>2, <2>3 DEF ResumeSelect, TypeOK
<1>9. CASE ResumeSets(r)
  <2>1. setStatus' \in [MsgSet -> SetStatus]
    BY <1>9 DEF ResumeSets, Mark, TypeOK, SetStatus
  <2>2. QED
    BY <1>9, <2>1 DEF ResumeSets, TypeOK
<1>10. CASE AskResume(r)
  <2>1. req' \in [Slot -> Request] /\ Working'
    BY <1>10 DEF AskResume
  <2>2. QED
    BY <1>10, <2>1 DEF AskResume, Enqueue, TypeOK
<1>11. CASE SaveSnapshot(r)
  <2>1. req' \in [Slot -> Request] /\ Working'
    BY <1>11 DEF SaveSnapshot
  <2>2. QED
    BY <1>0, <1>11, <2>1 DEF SaveSnapshot, TypeOK
<1>12. CASE RedeliverRun(r)
  <2>1. req[r].s \in Schedule
    BY <1>0, <1>12 DEF RedeliverRun
  <2>2. sch[req[r].s] \in Row
    BY <2>1 DEF TypeOK
  <2>3. RunRequest(req[r].s) \in Request
    BY <2>1, <2>2, RunType
  <2>4. req' \in [Slot -> Request]
    BY <1>12, <2>3, BlankRequest DEF RedeliverRun, TypeOK
  <2>5. Working'
    BY <1>12, <2>1 DEF RedeliverRun, TypeOK, Working, RunRequest, NoRequest
  <2>6. QED
    BY <1>12, <2>4, <2>5 DEF RedeliverRun, TypeOK
<1>13. CASE RunSets(r)
  <2>1. req' \in [Slot -> Request] /\ Working'
    BY <1>13 DEF RunSets, Free
  <2>2. owner' \in [MsgSet -> Schedule \cup {None}]
    BY <1>0, <1>13 DEF RunSets, NewSets, TypeOK
  <2>3. QED
    BY <1>13, <2>1, <2>2 DEF RunSets, NewSets, TypeOK
<1>14. CASE RunReply(r)
  BY <1>14 DEF RunReply, Enqueue, TypeOK
<1>15. CASE DetectCount(r)
  <2>1. req[r].s \in Schedule /\ req[r].snap \in Row
    BY <1>0, <1>15 DEF DetectCount
  <2>2. BackupRow(req[r].s, req[r].snap) \in Row
    BY <2>1, RowOfBackup
  <2>3. ASSUME NEW b \in Schedule
        PROVE  [op |-> "detect", at |-> "ask", s |-> b,
                snap |-> BackupRow(req[r].s, req[r].snap), ids |-> {}] \in Request
    BY <2>2 DEF Request, Op
  <2>4. CASE Finish(r) /\ UNCHANGED used
    BY <1>15, <2>4 DEF DetectCount, TypeOK
  <2>5. ASSUME NEW b \in Schedule, used' = used \cup {b},
               req' = [req EXCEPT ![r] = [op |-> "detect", at |-> "ask", s |-> b,
                                          snap |-> BackupRow(req[r].s, req[r].snap),
                                          ids |-> {}]]
        PROVE  TypeInv'
    <3>1. req' \in [Slot -> Request]
      BY <2>3, <2>5 DEF TypeOK
    <3>2. Working'
      BY <2>5 DEF TypeOK, Working
    <3>3. QED
      BY <1>15, <2>5, <3>1, <3>2 DEF DetectCount, TypeOK
  <2>6. QED
    BY <1>15, <2>4, <2>5 DEF DetectCount
<1>16. CASE CommitBackup(r)
  <2>1. req' \in [Slot -> Request] /\ Working'
    BY <1>16 DEF CommitBackup
  <2>2. req[r].s \in Schedule /\ req[r].snap \in Row
    BY <1>0, <1>16 DEF CommitBackup
  <2>3. [sch EXCEPT ![req[r].s] = req[r].snap] \in [Schedule -> Row]
    BY <2>2 DEF TypeOK
  <2>4. sch' \in [Schedule -> Row]
    BY <1>16, <2>3, RowsMarked DEF CommitBackup
  <2>5. QED
    BY <1>16, <2>1, <2>2, <2>4 DEF CommitBackup, TypeOK
<1>17. QED
  BY <1>1, <1>2, <1>3, <1>4, <1>5, <1>6, <1>7, <1>8, <1>9, <1>10, <1>11, <1>12,
     <1>13, <1>14, <1>15, <1>16 DEF HandlerStep

-----------------------------------------------------------------------------

LEMMA WorkerType ==
  ASSUME TypeInv, NEW c \in Call, NEW s \in Schedule, FireTimer(c, s) \/ DetectFailed(c, s)
  PROVE  TypeInv'
<1> USE DEF TypeInv
<1>0. sch[s] \in Row /\ c \in Slot
  BY DEF TypeOK, Slot
<1>1. CASE FireTimer(c, s)
  <2>1. timer' \in [Schedule -> Plan \cup {None}]
    BY <1>1 DEF FireTimer, TypeOK
  <2>2. RunRequest(s) \in Request
    BY <1>0, RunType
  <2>3. RunRequest(s).s = s
    BY DEF RunRequest
  <2>4. req' \in [Slot -> Request] /\ Working'
    BY <1>0, <1>1, <2>2, <2>3 DEF FireTimer, TypeOK, Working
  <2>5. QED
    BY <1>1, <2>1, <2>4 DEF FireTimer, TypeOK
<1>2. CASE DetectFailed(c, s)
  <2>1. [op |-> "detect", at |-> "count", s |-> s, snap |-> sch[s], ids |-> {}] \in Request
    BY <1>0 DEF Request, Op, At
  <2>2. req' \in [Slot -> Request] /\ Working'
    BY <1>0, <1>2, <2>1 DEF DetectFailed, TypeOK, Working
  <2>3. QED
    BY <1>2, <2>2 DEF DetectFailed, TypeOK
<1>3. QED
  BY <1>1, <1>2

LEMMA TaskBegun ==
  ASSUME NEW t \in {"other", "last", "late", "error"}, NEW st \in SetStatus, NEW p
  PROVE  [at |-> "report", report |-> t, was |-> st, cron |-> p \in CronPlan] \in Task
<1>1. (p \in CronPlan) \in BOOLEAN
  OBVIOUS
<1>2. QED
  BY <1>1 DEF Task

LEMMA CopyCounted ==
  ASSUME NEW f \in [MsgSet -> Nat], NEW m \in MsgSet
  PROVE  [f EXCEPT ![m] = @ + 1] \in [MsgSet -> Nat]
  OBVIOUS

LEMMA SendType ==
  ASSUME TypeInv, NEW m \in MsgSet, SendStep(m)
  PROVE  TypeInv'
<1> USE TaskParts, BlankTask DEF TypeInv, TypeOK, Working, Elsewhere
<1>1. ASSUME NEW t \in {"other", "last", "late", "error"}, Begin(m, t)
      PROVE  task' \in [MsgSet -> Task]
  BY <1>1, TaskBegun DEF Begin
<1>2. ASSUME NEW at \in {"late", "send", "hold"}, Step(m, at)
      PROVE  task' \in [MsgSet -> Task]
  BY <1>2 DEF Step
<1>3. ASSUME NEW st \in SendStatus, SetSendStatus(m, st)
      PROVE  sch' \in [Schedule -> Row]
  BY <1>3, RowsSent DEF SetSendStatus
<1>4. ASSUME NEW t \in Report, SendScheduleMessage(m, t)
      PROVE  TypeInv'
  BY <1>1, <1>4, ConstantsAssumption DEF SendScheduleMessage
<1>5. CASE RedeliverSend(m)
  BY <1>1, <1>5 DEF RedeliverSend
<1>6. CASE ReportError(m)
  <2>1. sch' \in [Schedule -> Row]
    BY <1>6, RowsAtIssue DEF ReportError
  <2>2. task' \in [MsgSet -> Task]
    BY <1>6 DEF ReportError, SetStatus
  <2>3. QED
    BY <1>6, <2>1, <2>2 DEF ReportError
<1>7. CASE ReportLate(m)
  BY <1>2, <1>3, <1>7 DEF ReportLate, SendStatus
<1>8. CASE LateSets(m)
  BY <1>2, <1>8 DEF LateSets, Mark, SetStatus
<1>9. CASE SaveHeld(m)
  BY <1>9 DEF SaveHeld
<1>10. CASE HeldCommit(m)
  BY <1>10 DEF HeldCommit
<1>11. CASE ReportLast(m)
  BY <1>2, <1>3, <1>11 DEF ReportLast, SendStatus
<1>12. CASE Deliver(m)
  <2>1. task' \in [MsgSet -> Task]
    BY <1>12 DEF Deliver, SetStatus
  <2>2. setStatus' \in [MsgSet -> SetStatus] /\ ex' \in [MsgSet -> ExStatus]
    BY <1>12 DEF Deliver, SetStatus, ExStatus
  <2>3. published' \in [MsgSet -> Nat]
    BY <1>12, CopyCounted DEF Deliver
  <2>4. QED
    BY <1>12, <2>1, <2>2, <2>3 DEF Deliver
<1>13. CASE SaveSet(m)
  BY <1>13 DEF SaveSet
<1>14. QED
  BY <1>4, <1>5, <1>6, <1>7, <1>8, <1>9, <1>10, <1>11, <1>12, <1>13 DEF SendStep

LEMMA RingCentralType ==
  ASSUME TypeInv, NEW m \in MsgSet, RingCentralStep(m)
  PROVE  TypeInv'
<1> USE DEF TypeInv, TypeOK, Working, Outside, Mark, SetStatus, ExStatus
<1>1. CASE UpdateOutboundMessage(m)
  BY <1>1 DEF UpdateOutboundMessage
<1>2. ASSUME NEW x \in Outcome, UpdateOutboundList(m, x)
      PROVE  TypeInv'
  BY <1>2, ConstantsAssumption DEF UpdateOutboundList
<1>3. CASE SendMessageError(m)
  BY <1>3 DEF SendMessageError
<1>4. QED
  BY <1>1, <1>2, <1>3 DEF RingCentralStep

LEMMA FailureType ==
  ASSUME TypeInv, Failure
  PROVE  TypeInv'
<1> USE DEF TypeInv
<1>1. ASSUME NEW r \in Slot, RunSetsFail(r)
      PROVE  TypeInv'
  <2>1. req' \in [Slot -> Request] /\ Working'
    BY <1>1, CatchType DEF RunSetsFail
  <2>2. req[r].s \in Schedule
    BY <1>1 DEF RunSetsFail, In, Working
  <2>3. owner' \in [MsgSet -> Schedule \cup {None}]
    BY <1>1, <2>2 DEF RunSetsFail, NewSets, TypeOK
  <2>4. QED
    BY <1>1, <2>1, <2>3 DEF RunSetsFail, NewSets, TypeOK
<1>2. ASSUME NEW m \in MsgSet, HeldRollback(m)
      PROVE  TypeInv'
  BY <1>2 DEF HeldRollback, Elsewhere, TypeOK, Working
<1>3. ASSUME NEW m \in MsgSet, DeliverFails(m)
      PROVE  TypeInv'
  <2>1. setStatus' \in [MsgSet -> SetStatus]
    BY <1>3 DEF DeliverFails, SetStatus, TypeOK
  <2>2. QED
    BY <1>3, <2>1, BlankTask DEF DeliverFails, Elsewhere, TypeOK, Working
<1>4. CASE Restart
  <2>1. \A r \in Slot : [req[r] EXCEPT !.at = "redeliver", !.ids = {}] \in Request
    BY RequestParts DEF TypeOK, At
  <2>2. req' \in [Slot -> Request]
    BY <1>4, <2>1, BlankRequest DEF Restart
  <2>3. \A r \in Slot : req'[r].op # "none" => req'[r].s = req[r].s /\ req[r].op # "none"
    BY <1>4 DEF Restart, NoRequest, TypeOK, Request
  <2>4. Working'
    BY <2>3 DEF Working
  <2>5. task' \in [MsgSet -> Task]
    BY <1>4, TaskParts DEF Restart, TypeOK
  <2>6. held' \in [MsgSet -> SetStatus \cup {"none"}]
    BY <1>4 DEF Restart
  <2>7. restarts' \in 0..MaxRestarts
    <3>1. restarts \in 0..MaxRestarts /\ restarts < MaxRestarts /\ restarts' = restarts + 1
      BY <1>4 DEF Restart, TypeOK
    <3>2. QED
      BY <3>1, ConstantsAssumption
  <2>8. QED
    BY <1>4, <2>2, <2>4, <2>5, <2>6, <2>7 DEF Restart, TypeOK
<1>5. QED
  BY <1>1, <1>2, <1>3, <1>4 DEF Failure

LEMMA InitType == Init => TypeInv
<1> SUFFICES ASSUME Init PROVE TypeInv
  OBVIOUS
<1>1. sch \in [Schedule -> Row] /\ req \in [Slot -> Request] /\ Working
  BY BlankRequest DEF Init, Working, NoRequest
<1>2. setStatus \in [MsgSet -> SetStatus] /\ ex \in [MsgSet -> ExStatus]
  BY DEF Init, SetStatus, ExStatus
<1>3. requests \in 0..MaxRequests /\ restarts \in 0..MaxRestarts
  BY ConstantsAssumption DEF Init
<1>4. QED
  BY <1>1, <1>2, <1>3, BlankTask DEF Init, TypeInv, TypeOK

LEMMA StepType == TypeInv /\ [Next]_vars => TypeInv'
<1> SUFFICES ASSUME TypeInv, [Next]_vars PROVE TypeInv'
  OBVIOUS
<1>1. CASE UNCHANGED vars
  BY <1>1 DEF TypeInv, TypeOK, Working, vars
<1>2. CASE Next
  BY <1>2, OperatorType, HandlerType, WorkerType, SendType, RingCentralType, FailureType
     DEF Next
<1>3. QED
  BY <1>1, <1>2

LEMMA TypeInvariant == Spec => []TypeInv
  BY InitType, StepType, PTL DEF Spec

(* Every behaviour keeps every variable of its type: a handler never puts a  *)
(* status in a row, or a request in a slot, that the code has no name for.   *)
THEOREM TypeCorrect == Spec => []TypeOK
<1>1. TypeInv => TypeOK
  BY DEF TypeInv
<1>2. QED
  BY <1>1, TypeInvariant, PTL
=============================================================================
