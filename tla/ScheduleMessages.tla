------------------------- MODULE ScheduleMessages -------------------------
(***************************************************************************)
(* Scheduled (bulk) text messages: the schedules and message sets that the *)
(* backend keeps in Postgres, the handlers of ScheduleMessagesService and  *)
(* MessagesService that change them, and the two services at the other end *)
(* of the message bus, the worker (timers and send jobs) and RingCentral.  *)
(*                                                                         *)
(* Every await of a handler is a step boundary.  A handler reads a row,    *)
(* keeps the whole row in memory and writes it back with save(): TypeORM   *)
(* then rewrites every column that differs from the copy, so a save is a   *)
(* write of the row as it was read, whatever has happened to it since.     *)
(***************************************************************************)
EXTENDS Integers, FiniteSets

CONSTANTS
    Schedule,     \* identifiers of schedules (uuids, never used twice)
    MsgSet,       \* identifiers of message sets
    Plan,         \* when a schedule runs: a date or a cron expression
    CronPlan,     \* the plans that are cron expressions
    Operator,     \* slots for the HTTP requests the backend serves at once
    Call,         \* slots for the worker's calls it serves at once
    FileRows,     \* rows of the customer file of a schedule
    Command,      \* the requests that operators make
    Report,       \* the reports that the worker attaches to a send job
    Outcome,      \* what RingCentral reports of a message it has accepted
    Fault,        \* the failures that happen
    MaxRequests,  \* bound on the requests operators make
    MaxRestarts,  \* bound on the restarts of the backend
    None          \* no schedule, no plan

ASSUME ConstantsAssumption ==
    /\ CronPlan \subseteq Plan
    /\ Plan # {}
    /\ None \notin Schedule \cup Plan
    /\ FileRows \in Nat
    /\ Report \subseteq {"other", "last", "late", "error"}
    /\ Command \subseteq {"create", "update", "stop", "pause", "resume", "delete",
                          "pull", "runHttp"}
    /\ Outcome \subseteq {"queued", "delivered", "failed"}
    /\ MaxRequests \in Nat
    /\ MaxRestarts \in Nat

VARIABLES
    (***********************************************************************)
    (* Postgres, as every connection sees it                               *)
    (***********************************************************************)
    present,      \* the schedules whose row is committed
    sch,          \* sch[s]: the row of schedule s
    owner,        \* owner[m]: the schedule that message set m belongs to
    setStatus,    \* setStatus[m]: messageSetStatus
    ex,           \* ex[m]: exMessageStatus of the message attached to m
    held,         \* held[m]: a status written to m by a transaction that
                  \* was released without a commit, and locks the row
    (***********************************************************************)
    (* The handlers in progress                                            *)
    (***********************************************************************)
    req,          \* req[r]: the request or call in slot r
    task,         \* task[m]: the sendScheduleMessage handler of set m
    (***********************************************************************)
    (* The worker                                                          *)
    (***********************************************************************)
    timer,        \* timer[s]: what will start s: a plan, or None
    job,          \* job[m]: the send job of m: none, queued or sending
    (***********************************************************************)
    (* History and bounds                                                  *)
    (***********************************************************************)
    used,         \* the schedule identifiers generated so far
    told,         \* the schedules the worker has accepted so far
    published,    \* published[m]: times m was handed to RingCentral
    requests,     \* requests operators have made
    restarts,     \* restarts of the backend so far
    contested     \* the sets that two resumes have had in hand at once

dbVars     == <<present, sch, owner, setStatus, ex, held>>
workerVars == <<timer, job>>
boundVars  == <<used, told, requests, restarts, contested>>
vars == <<present, sch, owner, setStatus, ex, held, req, task, timer, job,
          used, told, published, requests, restarts, contested>>

-----------------------------------------------------------------------------
(* Values *)

SendStatus == {"waiting", "sending", "pausing", "stopped", "done", "error", "timeout"}
SetStatus  == {"waiting", "sending", "sent", "pausing", "stopped", "error", "late"}
ExStatus   == {"none", "queued", "delivered", "failed"}

Row == [sendStatus : SendStatus,
        status     : {"active", "delete"},
        plan       : Plan,
        canRetry   : BOOLEAN,
        isIssue    : BOOLEAN,
        isBackup   : BOOLEAN,
        backupOf   : Schedule \cup {None}]

NewRow(p, retry) == [sendStatus |-> "waiting", status |-> "active", plan |-> p,
                     canRetry |-> retry, isIssue |-> FALSE, isBackup |-> FALSE,
                     backupOf |-> None]

(* A backup is built field by field from the schedule it retries: canRetry  *)
(* is not among the fields, and stays null.                                 *)
BackupRow(s, row) == [row EXCEPT !.sendStatus = "waiting", !.canRetry = FALSE,
                                 !.isBackup = FALSE, !.backupOf = s]

Slot == Operator \cup Call

Op == {"none", "create", "update", "stop", "pause", "resume", "delete", "pull",
       "run", "runHttp", "detect"}
At == {"idle", "select", "sets", "ask", "save", "commit", "reply", "count",
       "redeliver"}

(* A request in progress: what it is, where it is, the schedule it is about, *)
(* the row it has in memory and the message sets it has in hand.             *)
Request == [op : Op, at : At, s : Schedule \cup {None}, snap : Row,
            ids : SUBSET MsgSet]

NoRequest == [op |-> "none", at |-> "idle", s |-> None,
              snap |-> NewRow(CHOOSE p \in Plan : TRUE, FALSE), ids |-> {}]

Task == [at     : {"idle", "report", "late", "send", "hold", "save", "redeliver"},
         report : {"other", "last", "late", "error"},
         was    : SetStatus,
         cron   : BOOLEAN]

NoTask == [at |-> "idle", report |-> "other", was |-> "waiting", cron |-> FALSE]

Free      == {m \in MsgSet : owner[m] = None}
SetsOf(s) == {m \in MsgSet : owner[m] = s}
Failed(s) == {m \in SetsOf(s) : ex[m] = "failed"}
Unlocked(M) == \A m \in M : held[m] = "none"

Init ==
    /\ present = {}
    /\ sch = [s \in Schedule |-> NoRequest.snap]
    /\ owner = [m \in MsgSet |-> None]
    /\ setStatus = [m \in MsgSet |-> "waiting"]
    /\ ex = [m \in MsgSet |-> "none"]
    /\ held = [m \in MsgSet |-> "none"]
    /\ req = [r \in Slot |-> NoRequest]
    /\ task = [m \in MsgSet |-> NoTask]
    /\ timer = [s \in Schedule |-> None]
    /\ job = [m \in MsgSet |-> "none"]
    /\ used = {}
    /\ told = {}
    /\ published = [m \in MsgSet |-> 0]
    /\ requests = 0
    /\ restarts = 0
    /\ contested = {}

-----------------------------------------------------------------------------
(* Steps of a handler *)

(* A row whose status is not deleted and whose sendStatus the handler's     *)
(* where clause accepts.                                                    *)
Readable(s, statuses) ==
    /\ s \in present
    /\ sch[s].status = "active"
    /\ sch[s].sendStatus \in statuses

In(r, op, at) == req[r].op = op /\ req[r].at = at

(* An operator's request c about schedule s enters slot o.                  *)
Enter(o, c, at, s, row) ==
    /\ c \in Command
    /\ req[o] = NoRequest
    /\ requests < MaxRequests
    /\ requests' = requests + 1
    /\ req' = [req EXCEPT ![o] = [op |-> c, at |-> at, s |-> s, snap |-> row,
                                  ids |-> {}]]

Goto(r, at)        == req' = [req EXCEPT ![r].at = at]
GotoWith(r, at, M) == req' = [req EXCEPT ![r].at = at, ![r].ids = M]
Finish(r)          == req' = [req EXCEPT ![r] = NoRequest]

(* The row in memory becomes this one, and is saved next.                   *)
SaveAs(r, row) == req' = [req EXCEPT ![r].at = "save", ![r].snap = row]

(* catch: sendStatus = ERROR in memory, then the finally clause saves it.   *)
Catch(r) == SaveAs(r, [req[r].snap EXCEPT !.sendStatus = "error"])

(* A call to the worker: done and answered, done with the answer lost (the  *)
(* producer turns that into a TimeoutError), or not done at all.            *)
Answer == IF "rpc" \in Fault THEN {"ok", "lost", "refused"} ELSE {"ok"}

-----------------------------------------------------------------------------
(* createScheduleMessage: the row is inserted in a transaction that commits *)
(* only after the worker has answered.                                      *)

CreateScheduleMessage(o, s, p, retry) ==
    /\ s \notin used
    /\ Enter(o, "create", "ask", s, NewRow(p, retry))
    /\ used' = used \cup {s}
    /\ UNCHANGED <<dbVars, workerVars, task, told, published, restarts, contested>>

(* Mutant: an answer other than true is not taken for a failure.            *)
AskCreateUnchecked(r) ==
    /\ In(r, "create", "ask") \/ In(r, "detect", "ask")
    /\ \E a \in Answer :
         IF a = "refused"
         THEN UNCHANGED <<timer, told>>
         ELSE /\ timer' = [timer EXCEPT ![req[r].s] = req[r].snap.plan]
              /\ told' = told \cup {req[r].s}
    /\ Goto(r, "commit")
    /\ UNCHANGED <<dbVars, task, job, used, published, requests, restarts, contested>>

(* The call to the worker of createScheduleMessage and of                   *)
(* _createBackupScheduleMessage: anything but an answer rolls back.         *)
AskCreate(r) ==
    /\ In(r, "create", "ask") \/ In(r, "detect", "ask")
    /\ \E a \in Answer :
         /\ IF a = "refused"
            THEN UNCHANGED <<timer, told>>
            ELSE /\ timer' = [timer EXCEPT ![req[r].s] = req[r].snap.plan]
                 /\ told' = told \cup {req[r].s}
         /\ IF a = "ok" THEN Goto(r, "commit") ELSE Finish(r)
    /\ UNCHANGED <<dbVars, task, job, used, published, requests, restarts, contested>>

CommitCreate(r) ==
    /\ In(r, "create", "commit")
    /\ present' = present \cup {req[r].s}
    /\ sch' = [sch EXCEPT ![req[r].s] = req[r].snap]
    /\ Finish(r)
    /\ UNCHANGED <<owner, setStatus, ex, held, workerVars, boundVars, task, published>>

-----------------------------------------------------------------------------
(* save(): the row in memory replaces the row in the table.  The worker's   *)
(* run call then answers with the sets created; every other handler ends.   *)

SaveSnapshot(r) ==
    /\ req[r].at = "save"
    /\ sch' = [sch EXCEPT ![req[r].s] = req[r].snap]
    /\ IF req[r].op = "run" /\ req[r].snap.sendStatus # "error"
       THEN Goto(r, "reply")
       ELSE Finish(r)
    /\ UNCHANGED <<present, owner, setStatus, ex, held, workerVars, boundVars, task, published>>

-----------------------------------------------------------------------------
(* updateScheduleMessage *)

UpdateScheduleMessage(o, s) ==
    /\ Readable(s, {"waiting"})
    /\ Enter(o, "update", "ask", s, sch[s])
    /\ UNCHANGED <<dbVars, workerVars, task, used, told, published, restarts, contested>>

(* The worker is told only of a new plan.  A request that names the         *)
(* schedule a backup retries changes the plan and the name alone.           *)
UpdateRow(r, p, retry, ofBackup) ==
    SaveAs(r, [req[r].snap EXCEPT !.plan = p,
                                  !.canRetry = IF ofBackup THEN @ ELSE retry])

AskUpdate(r, p, retry, ofBackup) ==
    /\ In(r, "update", "ask")
    /\ IF p = req[r].snap.plan
       THEN UpdateRow(r, p, retry, ofBackup) /\ UNCHANGED timer
       ELSE \E a \in Answer :
              /\ timer' = IF a = "refused" THEN timer
                                           ELSE [timer EXCEPT ![req[r].s] = p]
              /\ IF a = "ok" THEN UpdateRow(r, p, retry, ofBackup) ELSE Catch(r)
    /\ UNCHANGED <<dbVars, boundVars, task, job, published>>

-----------------------------------------------------------------------------
(* stopScheduleMessage *)

(* The jobs that the worker has not handed to the backend yet.              *)
Queued(s) == {m \in SetsOf(s) : job[m] = "queued"}
Dequeue(M) == job' = [m \in MsgSet |-> IF m \in M THEN "none" ELSE job[m]]

(* A job for each, unless the worker holds one of that set: its answers to  *)
(* stop and pause name jobs by their sets.                                  *)
Enqueue(M) == job' = [m \in MsgSet |-> IF m \in M /\ job[m] = "none" THEN "queued"
                                                                     ELSE job[m]]

StopScheduleMessage(o, s) ==
    /\ Readable(s, {"pausing", "waiting", "sending"})
    /\ Enter(o, "stop", "ask", s, sch[s])
    /\ UNCHANGED <<dbVars, workerVars, task, used, told, published, restarts, contested>>

AskStop(r) ==
    /\ In(r, "stop", "ask")
    /\ \E a \in Answer :
         /\ IF a = "refused"
            THEN UNCHANGED <<timer, job>>
            ELSE /\ timer' = [timer EXCEPT ![req[r].s] = None]
                 /\ Dequeue(Queued(req[r].s))
         /\ IF a = "ok" THEN GotoWith(r, "sets", Queued(req[r].s)) ELSE Catch(r)
    /\ UNCHANGED <<dbVars, boundVars, task, published>>

(* UPDATE message_sets SET messageSetStatus = st WHERE id IN M: it waits    *)
(* for the rows that another transaction has locked.                        *)
Mark(M, st) ==
    /\ Unlocked(M)
    /\ setStatus' = [m \in MsgSet |-> IF m \in M THEN st ELSE setStatus[m]]

(* Mutant: every waiting set of the schedule, with a job in flight or not.  *)
StopWaitingSets(r) ==
    /\ In(r, "stop", "sets")
    /\ Mark({m \in SetsOf(req[r].s) : setStatus[m] \in {"waiting", "pausing"}}, "stopped")
    /\ SaveAs(r, [req[r].snap EXCEPT !.sendStatus = "stopped"])
    /\ UNCHANGED <<present, sch, owner, ex, held, workerVars, boundVars, task, published>>

(* The sets whose jobs the worker removed; if there were none, those that   *)
(* an earlier pause had taken from the worker.                              *)
StopSets(r) ==
    /\ In(r, "stop", "sets")
    /\ LET paused == {m \in SetsOf(req[r].s) : setStatus[m] = "pausing"}
       IN  Mark(IF req[r].ids # {} THEN req[r].ids ELSE paused, "stopped")
    /\ SaveAs(r, [req[r].snap EXCEPT !.sendStatus = "stopped"])
    /\ UNCHANGED <<present, sch, owner, ex, held, workerVars, boundVars, task, published>>

-----------------------------------------------------------------------------
(* pauseScheduleMessage: the save comes three seconds after the rest. *)

PauseScheduleMessage(o, s) ==
    /\ Readable(s, {"sending"})
    /\ Enter(o, "pause", "ask", s, [sch[s] EXCEPT !.sendStatus = "pausing"])
    /\ UNCHANGED <<dbVars, workerVars, task, used, told, published, restarts, contested>>

(* Mutant: the sets are marked whatever the worker has answered.            *)
AskPauseUnchecked(r) ==
    /\ In(r, "pause", "ask")
    /\ \E a \in Answer : IF a = "refused" THEN UNCHANGED job ELSE Dequeue(Queued(req[r].s))
    /\ GotoWith(r, "sets", Queued(req[r].s))
    /\ UNCHANGED <<dbVars, boundVars, task, timer, published>>

AskPause(r) ==
    /\ In(r, "pause", "ask")
    /\ \E a \in Answer :
         /\ IF a = "refused" THEN UNCHANGED job ELSE Dequeue(Queued(req[r].s))
         /\ IF a = "ok" THEN GotoWith(r, "sets", Queued(req[r].s)) ELSE Catch(r)
    /\ UNCHANGED <<dbVars, boundVars, task, timer, published>>

(* Mutant: the rows of the sets taken from the worker are not updated.      *)
PauseNoSets(r) ==
    /\ In(r, "pause", "sets")
    /\ Goto(r, "save")
    /\ UNCHANGED <<dbVars, workerVars, boundVars, task, published>>

PauseSets(r) ==
    /\ In(r, "pause", "sets")
    /\ Mark(req[r].ids, "pausing")
    /\ Goto(r, "save")
    /\ UNCHANGED <<present, sch, owner, ex, held, workerVars, boundVars, task, published>>

-----------------------------------------------------------------------------
(* resumeScheduleMessage *)

ResumeScheduleMessage(o, s) ==
    /\ Readable(s, {"pausing"})
    /\ Enter(o, "resume", "select", s, [sch[s] EXCEPT !.sendStatus = "sending"])
    /\ UNCHANGED <<dbVars, workerVars, task, used, told, published, restarts, contested>>

(* Mutant: the query does not ask for paused sets.                          *)
ResumeSelectAll(r) ==
    /\ In(r, "resume", "select")
    /\ GotoWith(r, "sets", SetsOf(req[r].s))
    /\ UNCHANGED <<dbVars, workerVars, boundVars, task, published>>

(* Nothing marks the sets as taken until the next step: a second resume     *)
(* that comes in between selects them too.                                  *)
InHandOfResume == {m \in MsgSet : \E q \in Slot : In(q, "resume", "sets") /\ m \in req[q].ids}

ResumeSelect(r) ==
    /\ In(r, "resume", "select")
    /\ LET paused == {m \in SetsOf(req[r].s) : setStatus[m] = "pausing"}
       IN  /\ GotoWith(r, "sets", paused)
           /\ contested' = contested \cup (paused \cap InHandOfResume)
    /\ UNCHANGED <<dbVars, workerVars, task, used, told, published, requests, restarts>>

ResumeSets(r) ==
    /\ In(r, "resume", "sets")
    /\ Mark(req[r].ids, "waiting")
    /\ Goto(r, "ask")
    /\ UNCHANGED <<present, sch, owner, ex, held, workerVars, boundVars, task, published>>

AskResume(r) ==
    /\ In(r, "resume", "ask")
    /\ \E a \in Answer :
         /\ IF a = "refused" THEN UNCHANGED job ELSE Enqueue(req[r].ids)
         /\ IF a = "ok" THEN Goto(r, "save") ELSE Catch(r)
    /\ UNCHANGED <<dbVars, boundVars, task, timer, published>>

-----------------------------------------------------------------------------
(* deleteScheduleMessage and the first half of getPullingSchedule.  The     *)
(* worker is not told of either.                                            *)

DeleteScheduleMessage(o, s) ==
    /\ Readable(s, {"stopped", "done", "error", "timeout"})
    /\ Enter(o, "delete", "save", s, [sch[s] EXCEPT !.status = "delete"])
    /\ UNCHANGED <<dbVars, workerVars, task, used, told, published, restarts, contested>>

(* One row of the loop over the waiting schedules, deleted ones included,   *)
(* whose time is more than five minutes past.                               *)
GetPullingSchedule(o, s) ==
    /\ s \in present
    /\ sch[s].sendStatus = "waiting"
    /\ Enter(o, "pull", "save", s, [sch[s] EXCEPT !.sendStatus = "error"])
    /\ UNCHANGED <<dbVars, workerVars, task, used, told, published, restarts, contested>>

-----------------------------------------------------------------------------
(* runScheduleMessage: called by the worker when a timer fires, or over     *)
(* HTTP, where no one queues jobs for the sets it creates.                  *)

Runnable(s) == Readable(s, {"waiting", "timeout"})

RunRequest(s) == [op |-> "run", at |-> "sets", s |-> s,
                  snap |-> [sch[s] EXCEPT !.sendStatus = "sending"], ids |-> {}]

(* A one-off timer is spent whatever the backend answers; the call of a     *)
(* schedule that cannot run ends in NotFound.                               *)
FireTimer(c, s) ==
    /\ timer[s] # None
    /\ req[c] = NoRequest
    /\ timer' = IF timer[s] \in CronPlan THEN timer ELSE [timer EXCEPT ![s] = None]
    /\ IF Runnable(s) THEN req' = [req EXCEPT ![c] = RunRequest(s)]
                      ELSE UNCHANGED req
    /\ UNCHANGED <<dbVars, boundVars, task, job, published>>

(* After a restart the broker delivers the unacknowledged call again.       *)
RedeliverRun(c) ==
    /\ In(c, "run", "redeliver")
    /\ req' = [req EXCEPT ![c] = IF Runnable(req[c].s) THEN RunRequest(req[c].s)
                                                       ELSE NoRequest]
    /\ UNCHANGED <<dbVars, workerVars, boundVars, task, published>>

RunOverHttp(o, s) ==
    /\ Runnable(s)
    /\ Enter(o, "runHttp", "sets", s, [sch[s] EXCEPT !.sendStatus = "sending"])
    /\ UNCHANGED <<dbVars, workerVars, task, used, told, published, restarts, contested>>

(* A set per row of the customer file, or per failed message of the         *)
(* schedule that this one retries.                                          *)
Wanted(r) == LET of == req[r].snap.backupOf
             IN  IF of = None THEN FileRows ELSE Cardinality(Failed(of))

NewSets(r, M) ==
    /\ owner' = [m \in MsgSet |-> IF m \in M THEN req[r].s ELSE owner[m]]
    /\ UNCHANGED <<present, sch, setStatus, ex, held, workerVars, boundVars, task, published>>

RunSets(r) ==
    /\ In(r, "run", "sets") \/ In(r, "runHttp", "sets")
    /\ \E M \in SUBSET Free :
         /\ Cardinality(M) = Wanted(r)
         /\ NewSets(r, M)
         /\ GotoWith(r, "save", M)

(* Each set is saved on its own: when the file cannot be read or one save   *)
(* fails, the sets that were saved stay.                                    *)
RunSetsFail(r) ==
    /\ "sets" \in Fault
    /\ In(r, "run", "sets") \/ In(r, "runHttp", "sets")
    /\ \E M \in SUBSET Free :
         /\ Cardinality(M) < Wanted(r)
         /\ NewSets(r, M)
    /\ Catch(r)

(* The worker receives the ids and queues a job for each.                   *)
RunReply(c) ==
    /\ In(c, "run", "reply")
    /\ Enqueue(req[c].ids)
    /\ Finish(c)
    /\ UNCHANGED <<dbVars, boundVars, task, timer, published>>

-----------------------------------------------------------------------------
(* _detectFailedScheduleMessageToRetry and _createBackupScheduleMessage, for *)
(* one row of the loop over the schedules that are done and not retried.    *)

DetectFailed(c, s) ==
    /\ req[c] = NoRequest
    /\ s \in present
    /\ sch[s].sendStatus = "done"
    /\ ~sch[s].isBackup
    /\ sch[s].canRetry
    /\ req' = [req EXCEPT ![c] = [op |-> "detect", at |-> "count", s |-> s,
                                   snap |-> sch[s], ids |-> {}]]
    /\ UNCHANGED <<dbVars, workerVars, boundVars, task, published>>

(* Nothing is retried while any message of any schedule is queued outside.  *)
DetectCount(c) ==
    /\ In(c, "detect", "count")
    /\ IF (\A m \in MsgSet : ex[m] # "queued") /\ Failed(req[c].s) # {} /\ used # Schedule
       THEN \E b \in Schedule \ used :
              /\ used' = used \cup {b}
              /\ req' = [req EXCEPT ![c] = [op |-> "detect", at |-> "ask", s |-> b,
                                             snap |-> BackupRow(req[c].s, req[c].snap),
                                             ids |-> {}]]
       ELSE Finish(c) /\ UNCHANGED used
    /\ UNCHANGED <<dbVars, workerVars, task, told, published, requests, restarts, contested>>

(* The commit shows the backup and the isBackup column of its original.     *)
CommitBackup(c) ==
    /\ In(c, "detect", "commit")
    /\ present' = present \cup {req[c].s}
    /\ sch' = [sch EXCEPT ![req[c].s] = req[c].snap,
                          ![req[c].snap.backupOf].isBackup = TRUE]
    /\ Finish(c)
    /\ UNCHANGED <<owner, setStatus, ex, held, workerVars, boundVars, task, published>>

-----------------------------------------------------------------------------
(* sendScheduleMessage: the worker hands over the job of set m.             *)

Elsewhere == UNCHANGED <<present, owner, ex, req, timer, boundVars>>

Begin(m, t) == task' = [task EXCEPT ![m] = [at |-> "report", report |-> t,
                                            was |-> setStatus[m],
                                            cron |-> sch[owner[m]].plan \in CronPlan]]
Step(m, at) == task' = [task EXCEPT ![m].at = at]

(* The worker calls a job the last when it holds no other of that schedule. *)
SendScheduleMessage(m, t) ==
    /\ job[m] = "queued"
    /\ t = "last"  => Queued(owner[m]) = {m}
    /\ t = "other" => Queued(owner[m]) # {m}
    /\ t \in Report
    /\ job' = [job EXCEPT ![m] = "sending"]
    /\ Begin(m, t)
    /\ Elsewhere /\ UNCHANGED <<sch, setStatus, held, published>>

RedeliverSend(m) ==
    /\ task[m].at = "redeliver"
    /\ Begin(m, task[m].report)
    /\ Elsewhere /\ UNCHANGED <<sch, setStatus, held, job, published>>

(* UPDATE schedule_messages SET sendStatus = st, outside the transaction.   *)
SetSendStatus(m, st) == sch' = [sch EXCEPT ![owner[m]].sendStatus = st]

ReportError(m) ==
    /\ task[m].at = "report" /\ task[m].report = "error"
    /\ sch' = [sch EXCEPT ![owner[m]].isIssue = TRUE]
    /\ task' = [task EXCEPT ![m].at = "hold", ![m].was = "error"]
    /\ Elsewhere /\ UNCHANGED <<setStatus, held, job, published>>

ReportLate(m) ==
    /\ task[m].at = "report" /\ task[m].report = "late"
    /\ SetSendStatus(m, "timeout")
    /\ Step(m, "late")
    /\ Elsewhere /\ UNCHANGED <<setStatus, held, job, published>>

(* Every set of the schedule that is not waiting becomes late.              *)
LateSets(m) ==
    /\ task[m].at = "late"
    /\ Mark({n \in SetsOf(owner[m]) : setStatus[n] # "waiting"}, "late")
    /\ Step(m, "hold")
    /\ Elsewhere /\ UNCHANGED <<sch, held, job, published>>

(* After a report of an error or of lateness the set is saved in the        *)
(* transaction that was started on entry, and the connection goes back to   *)
(* the pool with that transaction open.                                     *)
SaveHeld(m) ==
    /\ task[m].at = "hold"
    /\ Unlocked({m})
    /\ held' = IF task[m].was = setStatus[m] THEN held
                                             ELSE [held EXCEPT ![m] = task[m].was]
    /\ job' = [job EXCEPT ![m] = "none"]
    /\ task' = [task EXCEPT ![m] = NoTask]
    /\ Elsewhere /\ UNCHANGED <<sch, setStatus, published>>

(* The next transaction on that connection commits the write with its own,  *)
(* or rolls it back with its own.                                           *)
HeldCommit(m) ==
    /\ held[m] # "none"
    /\ setStatus' = [setStatus EXCEPT ![m] = held[m]]
    /\ held' = [held EXCEPT ![m] = "none"]
    /\ Elsewhere /\ UNCHANGED <<sch, task, job, published>>

HeldRollback(m) ==
    /\ "db" \in Fault
    /\ held[m] # "none"
    /\ held' = [held EXCEPT ![m] = "none"]
    /\ Elsewhere /\ UNCHANGED <<sch, setStatus, task, job, published>>

ReportLast(m) ==
    /\ task[m].at = "report" /\ task[m].report = "last"
    /\ SetSendStatus(m, IF task[m].cron THEN "waiting" ELSE "done")
    /\ Step(m, "send")
    /\ Elsewhere /\ UNCHANGED <<setStatus, held, job, published>>

Sendable(m) ==
    \/ task[m].at = "send"
    \/ task[m].at = "report" /\ task[m].report = "other"

(* Commit of the message, then the publication to RingCentral.              *)
Deliver(m) ==
    /\ Sendable(m)
    /\ Unlocked({m})
    /\ setStatus' = [setStatus EXCEPT ![m] = "sending"]
    /\ ex' = [ex EXCEPT ![m] = "none"]
    /\ published' = [published EXCEPT ![m] = @ + 1]
    /\ task' = [task EXCEPT ![m].at = "save", ![m].was = "sending"]
    /\ UNCHANGED <<present, sch, owner, held, req, workerVars, boundVars>>

(* catch: rollback, then the finally clause saves the set as an error; but  *)
(* if the set already refers to the message that was rolled back, that save *)
(* fails on the foreign key and the set stays as it was.                    *)
DeliverFails(m) ==
    /\ "db" \in Fault
    /\ Sendable(m)
    /\ \E attached \in BOOLEAN :
         IF attached THEN UNCHANGED setStatus
                     ELSE Unlocked({m}) /\ setStatus' = [setStatus EXCEPT ![m] = "error"]
    /\ job' = [job EXCEPT ![m] = "none"]
    /\ task' = [task EXCEPT ![m] = NoTask]
    /\ Elsewhere /\ UNCHANGED <<sch, held, published>>

(* Mutant: the set is given the status of a finished schedule.              *)
SaveSetDone(m) ==
    /\ task[m].at = "save"
    /\ Unlocked({m})
    /\ setStatus' = [setStatus EXCEPT ![m] = "done"]
    /\ job' = [job EXCEPT ![m] = "none"]
    /\ task' = [task EXCEPT ![m] = NoTask]
    /\ Elsewhere /\ UNCHANGED <<sch, held, published>>

(* The finally clause saves the set once more, as the handler left it.      *)
SaveSet(m) ==
    /\ task[m].at = "save"
    /\ Unlocked({m})
    /\ setStatus' = [setStatus EXCEPT ![m] = task[m].was]
    /\ job' = [job EXCEPT ![m] = "none"]
    /\ task' = [task EXCEPT ![m] = NoTask]
    /\ Elsewhere /\ UNCHANGED <<sch, held, published>>

-----------------------------------------------------------------------------
(* What RingCentral says of a message: updateOutboundMessage once it has    *)
(* accepted it, updateOutBoundListMessages for each change of its status,   *)
(* in any order, and sendMessageError.                                      *)

Outside == UNCHANGED <<present, sch, owner, held, req, task, workerVars, boundVars, published>>

UpdateOutboundMessage(m) ==
    /\ published[m] > 0 /\ ex[m] = "none"
    /\ Mark({m}, "sent")
    /\ ex' = [ex EXCEPT ![m] = "queued"]
    /\ Outside

UpdateOutboundList(m, x) ==
    /\ ex[m] # "none"
    /\ Mark({m}, "sent")
    /\ ex' = [ex EXCEPT ![m] = x]
    /\ Outside

SendMessageError(m) ==
    /\ published[m] > 0 /\ ex[m] = "none"
    /\ Mark({m}, "error")
    /\ UNCHANGED ex
    /\ Outside

-----------------------------------------------------------------------------
(* The backend stops and starts again: requests are lost, open transactions *)
(* are rolled back, and the broker delivers the worker's unacknowledged     *)
(* calls once more.                                                         *)

Restart ==
    /\ restarts < MaxRestarts
    /\ restarts' = restarts + 1
    /\ req' = [r \in Slot |-> IF req[r].op = "run"
                              THEN [req[r] EXCEPT !.at = "redeliver", !.ids = {}]
                              ELSE NoRequest]
    /\ task' = [m \in MsgSet |-> IF task[m].at = "idle" THEN task[m]
                                 ELSE [task[m] EXCEPT !.at = "redeliver"]]
    /\ held' = [m \in MsgSet |-> "none"]
    /\ UNCHANGED <<present, sch, owner, setStatus, ex, workerVars, used, told, published, requests,
                   contested>>

-----------------------------------------------------------------------------

OperatorStep(o) ==
    \/ \E s \in Schedule :
         \/ \E p \in Plan, retry \in BOOLEAN : CreateScheduleMessage(o, s, p, retry)
         \/ UpdateScheduleMessage(o, s)
         \/ StopScheduleMessage(o, s)
         \/ PauseScheduleMessage(o, s)
         \/ ResumeScheduleMessage(o, s)
         \/ DeleteScheduleMessage(o, s)
         \/ GetPullingSchedule(o, s)
         \/ RunOverHttp(o, s)

HandlerStep(r) ==
    \/ AskCreate(r)
    \/ CommitCreate(r)
    \/ \E p \in Plan, retry, ofBackup \in BOOLEAN : AskUpdate(r, p, retry, ofBackup)
    \/ AskStop(r)
    \/ StopSets(r)
    \/ AskPause(r)
    \/ PauseSets(r)
    \/ ResumeSelect(r)
    \/ ResumeSets(r)
    \/ AskResume(r)
    \/ SaveSnapshot(r)
    \/ RedeliverRun(r)
    \/ RunSets(r)
    \/ RunReply(r)
    \/ DetectCount(r)
    \/ CommitBackup(r)

SendStep(m) ==
    \/ \E t \in Report : SendScheduleMessage(m, t)
    \/ RedeliverSend(m)
    \/ ReportError(m)
    \/ ReportLate(m)
    \/ LateSets(m)
    \/ SaveHeld(m)
    \/ HeldCommit(m)
    \/ ReportLast(m)
    \/ Deliver(m)
    \/ SaveSet(m)

RingCentralStep(m) ==
    \/ UpdateOutboundMessage(m)
    \/ \E x \in Outcome : UpdateOutboundList(m, x)
    \/ SendMessageError(m)

Failure ==
    \/ \E r \in Slot : RunSetsFail(r)
    \/ \E m \in MsgSet : HeldRollback(m) \/ DeliverFails(m)
    \/ Restart

Next ==
    \/ \E o \in Operator : OperatorStep(o)
    \/ \E c \in Call, s \in Schedule : FireTimer(c, s) \/ DetectFailed(c, s)
    \/ \E r \in Slot : HandlerStep(r)
    \/ \E m \in MsgSet : SendStep(m) \/ RingCentralStep(m)
    \/ Failure

Spec == Init /\ [][Next]_vars

(* The event loop runs every handler that has started to its end, the broker *)
(* delivers every job, and a connection in the pool is used again.  Nothing  *)
(* makes operators, timers or RingCentral act.                               *)
Fairness ==
    /\ \A r \in Slot : WF_vars(HandlerStep(r))
    /\ \A m \in MsgSet : WF_vars(SendStep(m))

LiveSpec == Spec /\ Fairness

-----------------------------------------------------------------------------
(* Properties *)

(* Every variable has its type: rows, requests and tasks are well formed,   *)
(* counters stay within their bounds.                                       *)
TypeOK ==
    /\ present \subseteq Schedule
    /\ sch \in [Schedule -> Row]
    /\ owner \in [MsgSet -> Schedule \cup {None}]
    /\ setStatus \in [MsgSet -> SetStatus]
    /\ ex \in [MsgSet -> ExStatus]
    /\ held \in [MsgSet -> SetStatus \cup {"none"}]
    /\ req \in [Slot -> Request]
    /\ task \in [MsgSet -> Task]
    /\ timer \in [Schedule -> Plan \cup {None}]
    /\ job \in [MsgSet -> {"none", "queued", "sending"}]
    /\ used \subseteq Schedule
    /\ told \subseteq Schedule
    /\ published \in [MsgSet -> Nat]
    /\ requests \in 0..MaxRequests
    /\ restarts \in 0..MaxRestarts
    /\ contested \subseteq MsgSet

(* A customer of a schedule gets its text once: a message set is handed to  *)
(* RingCentral at most once, and once more for each restart of the backend  *)
(* in mid-handler, however the pauses, resumes, stops, late reports and     *)
(* runs of any number of operators interleave with each other and with the  *)
(* jobs in flight.  The exception is a set that two resumes select before   *)
(* either has marked it: each of them has the worker send it.               *)
PublishedOncePerDelivery == \A m \in MsgSet \ contested : published[m] <= 1 + restarts

(* A message set that stopScheduleMessage has marked stopped is not handed  *)
(* to RingCentral while it is so marked: its job is gone from the worker,   *)
(* and a resume that had selected it before the stop makes it waiting again *)
(* before it asks the worker.  Only of a set that two resumes have selected *)
(* can the second ask after the stop that followed the first.               *)
StoppedNeverSent ==
    [][\A m \in MsgSet \ contested :
         setStatus[m] = "stopped" => published'[m] = published[m]]_vars

(* The row of a schedule is visible only once the worker has accepted the   *)
(* schedule: create and retry commit after the worker's answer, so no       *)
(* failed call leaves a schedule that no one will ever start.               *)
VisibleIsKnownToWorker == present \subseteq told

(* No set is silently forgotten, whatever stops, pauses and resumes come    *)
(* between the run, the worker and the table: one that a run has created is *)
(* handed to RingCentral or shows in the table why not, for good or until a *)
(* resume.  The code forgets two kinds: the set of the job that came late,  *)
(* which keeps its waiting status but no job, and the sets of a run over    *)
(* HTTP, for which no one asks the worker.                                  *)
NoSetForgotten ==
    \A m \in MsgSet :
        \/ owner[m] # None ~> \/ published[m] > 0
                              \/ setStatus[m] \in {"pausing", "stopped", "error", "late"}
        \/ <>(task[m].at = "late")
        \/ <>(\E r \in Slot : req[r].op = "runHttp" /\ m \in req[r].ids)

(* isBackup: "true when have been retry schedule", the retry it names being *)
(* a row of the table.                                                      *)
RetriedIsMarked ==
    \A b \in present : sch[b].backupOf # None => sch[sch[b].backupOf].isBackup

(* WAITING: "waiting to scheduler start".  The worker has a timer for the   *)
(* schedule, or some handler of it is still in progress.                    *)
WaitingWillStart ==
    \A s \in present :
        sch[s].sendStatus = "waiting" /\ sch[s].status = "active" =>
            \/ timer[s] # None
            \/ \E r \in Slot : req[r].s = s
            \/ \E m \in SetsOf(s) : job[m] # "none"

(* DONE: "after all job finished".  Nothing is left to run, pause or stop,  *)
(* so a schedule that is done stays done.                                   *)
DoneIsFinal ==
    [][\A s \in present :
         sch[s].sendStatus = "done" => sch'[s].sendStatus = "done"]_vars

-----------------------------------------------------------------------------
(* Why a set is published once.  The right to send a set that two resumes   *)
(* have not contested is in one place at a time: with a request that has it *)
(* in hand, in the paused rows, in the worker's queue or in a               *)
(* sendScheduleMessage handler.                                             *)

Holds(r, m) ==
    /\ m \in req[r].ids
    /\ \/ req[r].op \in {"stop", "pause"} /\ req[r].at = "sets"
       \/ req[r].op = "resume" /\ req[r].at \in {"sets", "ask"}
       \/ req[r].op = "run" /\ req[r].at \in {"save", "reply"}

ToBeSent(m) ==
    \/ setStatus[m] = "pausing"
    \/ \E r \in Slot : Holds(r, m) /\ req[r].op # "stop"
    \/ job[m] = "queued"
    \/ task[m].at \notin {"idle", "save"}

(* Requests of operators are in operator slots, the worker's in call slots. *)
SlotInv == \A r \in Slot :
    /\ req[r].op \in {"stop", "pause", "resume"} => r \in Operator
    /\ req[r].at = "redeliver" \/ In(r, "run", "sets") => req[r].ids = {}

SetInv(m) ==
    /\ task[m].at # "idle" <=> job[m] = "sending"
    /\ task[m].at = "save" => published[m] > 0
    /\ task[m].was \notin {"pausing", "stopped"}
    /\ held[m] \notin {"pausing", "stopped"}
    /\ owner[m] = None => ~ToBeSent(m) /\ setStatus[m] # "stopped" /\ task[m].at = "idle"
    /\ owner[m] = None => published[m] = 0 /\ \A r \in Slot : m \notin req[r].ids
    /\ \A r \in Slot : Holds(r, m) => job[m] = "none"
    /\ \A q, r \in Slot : Holds(q, m) /\ Holds(r, m) => q = r
    /\ setStatus[m] = "pausing" =>
          /\ job[m] = "none"
          /\ \A r \in Slot : Holds(r, m) => In(r, "resume", "sets")
    /\ setStatus[m] = "stopped" =>
          /\ job[m] = "none"
          /\ \A r \in Slot : Holds(r, m) => In(r, "resume", "sets")
    /\ ToBeSent(m) => published[m] <= restarts
    /\ published[m] <= 1 + restarts

DeliveryInv ==
    /\ SlotInv
    /\ \A m \in contested : owner[m] # None
    /\ \A m \in MsgSet \ contested : SetInv(m)

-----------------------------------------------------------------------------
(* Where each message set stands, as SetDelivery sees it. *)

DeliveryState == [m \in MsgSet |-> IF owner[m] = None THEN "none"
                                  ELSE IF m \in contested THEN "contested"
                                  ELSE IF ToBeSent(m) THEN "due"
                                  ELSE IF published[m] > 0 THEN "handed"
                                  ELSE "dropped"]

Delivery == INSTANCE SetDelivery WITH state <- DeliveryState, copies <- published

(* Every behaviour of the schedules, handlers and worker is one of          *)
(* SetDelivery: in particular a set that was stopped, dropped by a failure  *)
(* or already sent never comes back, except for the job in hand at a restart *)
(* and for a set that two resumes contest.                                  *)
DeliversSets == Delivery!Spec
=============================================================================
