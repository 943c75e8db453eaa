# Specifications of PHP Text Message (backend)

The backend is a NestJS service over Postgres (TypeORM), RabbitMQ, Bull/Redis queues and
Elasticsearch. It sends and receives text messages through a separate RingCentral service,
runs bulk sends through a separate worker, and tells browsers through a realtime service.
This directory holds TLA+ models of it, TLC configurations that check them and TLAPS proofs
about them.

## Inventory

Paths are relative to `src/src/modules`.

| part | state it keeps | operations | hard behaviour |
| --- | --- | --- | --- |
| `schedule-messages` | schedules (`sendStatus`, `status`, plan, `isBackup`, `canRetry`), message sets (`messageSetStatus`) | create, update, stop, pause, resume, delete, run, retry of failed sends, expiry | every handler reads a row, awaits the worker, then saves the row as it was read; the worker acts on its own copy |
| `messages`, send jobs | message sets, messages, schedules | `sendScheduleMessage`, status updates of RingCentral | jobs in flight while a schedule is stopped or paused; transactions released open; redelivery |
| `messages`, outbound | messages (`messageStatus`, `exMessageStatus`, `exId`) | create, compose, updates from RingCentral, adoption of softphone messages, three synchronisations | statuses in any order, two sources of one message |
| `messages`, inbound | messages, conversations, missed calls | received messages, group messages, missed calls | duplicate deliveries, first contact of two messages at once |
| `conversations`, `participants` | conversation, `umn` (unread) and `readStatus` per participant | new message, read, mark as unread, add and remove users | read-modify-write of counters |
| `companies` | companies, the RingCentral accounts they share | create, update, remove, error status | check then act on another company's row, a remote call inside a transaction |
| `company-users`, `company-customers`, `customers`, `customer-campaigns` | memberships | add, remove, import | copies of another member's participants |
| `opt-suggestions`, `sensitives`, `sensitive-detects` | suggestions, trained words | detect, confirm, train | confirmation against stale rows, training answers that come late |
| `notifications` | templates and receivers | push, read | one template per entity, found or created |
| `queues`, `es-search`, entity subscribers | index of messages | insert, update | jobs queued inside open transactions |
| `users`, `auth`, `roles`, `permissions`, `groups`, `labels`, `signatures`, `log-activities`, `view-history`, `call-logs`, `dashboard` | single rows, Casbin rules | edits, reports | little: one row, one step; a role's rules are edited one by one |

How they interact: browsers call the HTTP controllers; the worker and RingCentral call the
backend through `services/amqp/amqp.consumer.ts`, and the backend calls them through
`services/amqp/amqp.producer.ts` (`request` waits for an answer, `publish` does not). All
services share Postgres and call each other directly. Nothing is locked above the database, so
every `await` of a handler is a point where any other handler may run.

What makes each part correct:

- *schedules and send jobs*: a customer of a schedule gets its text once; a stopped set is not
  sent; a set is never silently forgotten; the status shown is true (`WAITING` will start,
  `DONE` is final, `isBackup` after a retry); a schedule that is visible is known to the worker.
- *outbound*: one row per message of RingCentral, statuses that do not go back, nothing shown
  in a browser that was rolled back.
- *inbound*: one row per `exId`, one conversation per pair of phones, nothing of a customer who is
  known acknowledged without its row, connections used up by failures and first contacts only.
- *participants*: a conversation with unread messages is shown as unread; every member of a company has
  a participant in each of its conversations.
- *companies*: the worker is connected to a RingCentral account while, and only while, a company
  that is not deleted uses it.
- *opt-outs*: a confirmed suggestion and the customer's campaign agree.

## Plan and status

| module | subject | state |
| --- | --- | --- |
| `ScheduleMessages`, `SetDelivery` | schedules, message sets and their jobs | modelled, checked; types, four safety properties and the refinement proved |
| `OutboundMessages` | an outbound message from its row to RingCentral's last status | modelled, checked (safety and liveness); types and its three safety properties proved |
| `InboundMessages` | received texts, group messages and missed calls over the connection pool | modelled, checked (safety, liveness); types and its four safety properties proved |
| `Participants` | membership of companies and conversations, unread counters | modelled, checked; types and its four safety properties proved |
| `Companies` | RingCentral accounts that companies share | modelled, checked; types and its three safety properties proved |
| `OptOuts` | campaigns a customer is out of, suggestions, training | modelled, checked (safety and liveness); types and its two safety properties proved |

The modules do not compose into one: they share tables, but no two of them write the same column
to an effect that a property of either depends on. Where one needs what another decides it takes
it as an input over all values (`Before` in the two message modules stands for what
`Participants` and `customers` may have done to a contact; a sender in `Participants` is any
user). Every safety property that a run checks is a theorem too. Left to do: larger instances of
`Participants`.

## ScheduleMessages

State and code:

- `present`, `sch`: the committed rows of `schedule_messages`; `plan` stands for
  `cronExpression`, `isCronExpression` and `dateTime` together.
- `owner`, `setStatus`, `ex`: `scheduleMessageId`, `messageSetStatus` and the
  `exMessageStatus` of the attached message, for each row of `message_sets`. The fail
  statuses are one, `failed`, and so are `sent` and `delivered`, which no query tells apart.
- `held`: what `sendScheduleMessage` has written in the transaction it never commits. After an
  `error` or `late` report the handler saves the set and releases the connection with its
  transaction open (`messages.service.ts:1617`); the write and its row lock stay until another
  user of the connection commits (`HeldCommit`) or rolls back (`HeldRollback`).
- `req[r]`: a handler in progress. `snap` is the entity object in memory, `at` the next await.
  Operators' requests have slots in `Operator`; the worker's `run` call and its timer for
  retries have slots in `Call`.
- `task[m]`: a `sendScheduleMessage` in progress for set `m`.
- `timer`, `job`: the worker. Its code is not in the repository; the model keeps what the
  backend relies on. A create or update sets a timer; a timer that fires calls `run`; the ids
  that `run` or `resume` return become jobs; `stop` and `pause` remove the jobs not yet handed
  over and answer with their ids; a job handed over is `sending` until the backend
  acknowledges it. `Report` is what the worker adds to a job: `last`, `late` or `error`.
- `told`, `used`, `published`, `contested`, `requests`, `restarts`: history and bounds.
  `contested` are the sets that two resumes had in hand at once: `ResumeSelect` reads paused sets
  that another resume has selected and not yet marked, and both hand them to the worker. The worker
  is taken to keep one job per set, whoever hands it over twice (`Enqueue`).

Each action is the part of a handler between two awaits that touch shared state. `save()` of
TypeORM reads the row again and writes every column that differs from the object; the model
takes these two statements as one step, `SaveSnapshot`, which puts the row in memory over the
row in the table. Failures are actions or answers guarded by `Fault`: `"rpc"` (an answer of the
worker is lost or refused), `"sets"` (some inserts of a run fail), `"db"` (the transaction of a
send fails, or an abandoned one is rolled back). `Restart` drops every handler and open
transaction and makes the broker deliver unacknowledged calls again.

`SetDelivery` is the abstract specification. It has no schedules, handlers or worker: a set
is created due or dropped, is handed over once or dropped for good, and only a restart makes a
set due that had been handed over; a set that becomes contested (`Contest`) may be handed over again
and again, and nothing is promised of it. `DeliveryState` is the refinement mapping: a set is due
while the right to send it is with a request that has it in hand, in a paused row, in the
worker's queue or in a `sendScheduleMessage` handler before its commit.

### Runs

| run | shows |
| --- | --- |
| `schedule_serial` | all eight requests of two operators at once, all reports, a dated and a cron plan, one schedule of two customers, three requests: types, `StoppedNeverSent`, `DeliversSets` |
| `schedule_faults` | two schedules, the second free to be the retry of the first; create, stop, pause, resume of two operators, four requests, with every report and fault and a restart: `PublishedOncePerDelivery`, `VisibleIsKnownToWorker`, `DeliversSets` |
| `schedule_live` | two operators, five of the requests (a run over HTTP among them), every report, under fairness: `NoSetForgotten` |
| `schedule_retried` | `RetriedIsMarked` fails: delete overlaps the retry and writes `isBackup` back to false |
| `schedule_waiting` | `WaitingWillStart` fails: stop overlaps the last job of a cron schedule |
| `schedule_done` | `DoneIsFinal` fails: the late save of a pause overwrites `DONE` |

The last three are disagreements of the code with comments of the repository, quoted in
`PROJECT.json`.

Bounds. `MaxRequests` is 3 in the serial and live runs: create and two more requests reach every
pair of overlapping commands, and pause, resume and stop need three with create. It is 4 in the run
with failures, which has one set: create, pause and two resumes at once make the set contested. Two
sets are the least for which `last` and `other` jobs differ and for which stop can meet one set in
the queue and one in a handler. Two operator slots are the least for commands that overlap; the
three runs that end in a violation have one, which is enough for their traces. `Outcome` is what
RingCentral may report of a message that it was handed; in the live run it is `delivered` alone,
since what that run asks is settled by then. One call slot: the `run` of one timer at a time.
`MaxRestarts` 1 is enough to tell one copy from one copy per restart. Sets, schedules and operators
are each interchangeable, hence the symmetry of the runs without liveness.
`CHECK_DEADLOCK FALSE`: operators may stop asking and the system then rests.

`NoSetForgotten`: a set that a run creates is in the end handed over, or its row says paused, stopped,
failed or late. It names two exceptions, in which the code does leave a set `WAITING` for ever: a
`late` job marks the other sets of its schedule and not its own, and is gone
(`messages.service.ts:1270-1288`, `1617`); and the ids of a run over HTTP go back to the browser and
not to the worker.

Fairness. `HandlerStep` and `SendStep` are weakly fair: Node's event loop resumes every handler
whose awaited call has returned, the broker delivers each job, and a pooled connection is used
again. Nothing is assumed of operators, timers or RingCentral, and no fault or restart happens
in the liveness run.

## OutboundMessages

State and code: `message[m]` is a row of `messages` (own or from a softphone, phone, text,
`exId`, `messageStatus`, `exMessageStatus`), `contact[p]` what Postgres knows of a customer,
`run[h]` a handler with the row it has read, `calls` the queues of `amqp.consumer.ts`, `toRc`
what was handed to RingCentral, `rc[x]` what RingCentral has. Users write one message
(`createOutboundMessage`, through the realtime service), compose one for several customers
(`createComposeMessages`), or edit; RingCentral answers, refuses, finishes; lists come from a
notification or a synchronisation and are walked item by item, each item with its look-up, its
adoption of a waiting row (`Adoptable`, `AdoptMessage`) or its insertion.

Facts of the code that the properties turn on: `synchronize: true` makes the unique index on
`exId` real, so an answer whose `exId` a softphone row has taken is refused; every handler saves
the whole row it read, so a late one undoes what came between (`stray` records it, and the
properties name it as their exception); an adopted row keeps RingCentral's "Queued" with a
capital, which `syncQueuedMessage` never asks about; `sendMessageError` is acknowledged before it
is done; a call that fails is refused and goes to a dead letter queue that is only logged, whether its
consumer catches and answers Nack or, as for `createOutboundMessage`, throws
(`rabbitmq.config.ts:6-7`): it is not delivered again. Only a restart makes the broker deliver again
what was not answered.

Runs: `outbound` (`SendingIsOnItsWay`, `AnswerBinds`, `GivenIsCommitted`) and `outbound_live`
(`QueuedIsResolved`, `SendingEnds`). Bounds: two rows and two external messages to one phone are
the least for which an adoption can take the wrong row; two handlers are the least that overlap;
two requests, one softphone message, one list of up to two items, one rollback and one restart
let each hazard happen once. The live run has one request and no faults, so that it stays small;
all orders of reports are in it. Fairness: a running handler goes on (weak); each message's calls
are delivered (strong, since other calls may take the handlers); RingCentral takes, refuses or
finishes; the worker's timer asks about queued messages. All of it is Node's loop, the broker and
a timer of the worker; nothing is assumed of users.

## InboundMessages

State and code: `rc[x]` is an item RingCentral has (a text, a group message or a missed call),
`contact`, `convs`, `stored` and `template` the committed rows, `run[h]` a handler with what its
transaction did (`did`) and what it found on its connection (`extra`), `pool` the idle
connections: clean, aborted, or with someone's uncommitted work on them. `Receive` takes a
connection; each action up to `WriteItem` is the part of the handler between two awaits that
touch shared state; `Finish`, `Nack` and `Leave` are the three ways out: committed and
acknowledged, rolled back and refused, released as it is and acknowledged.
`createConversationWithNewCustomer` returns its errors as if they were conversations, so most
failures of a first contact take the third way: an item is acknowledged and its customer left,
uncommitted, on an idle connection. Look-ups use other connections of the pool and may find an
aborted one or see uncommitted rows. `OthersUsePool` is the rest of the backend, which commits or
rolls back what it finds. Connections that were left with the same are told apart by a number
(`Orphan`). A transaction begun on an aborted connection throws before the `try`:
that connection is lost.

Properties: `OneConversation`, `FirstContactIsWhole`, `DroppedIsFirstContact`, `LostIsBounded`,
`HandlersEnd`. That every item is stored in the end is not among them, because the code does not
promise it: a refused delivery goes to a dead letter queue that is only logged
(`amqp.consumer.ts:362-374`), and the synchronisations re-read bounded windows of RingCentral's
history. `OneConversation` excepts customers of another company, of whom two first contacts at once
make two conversations. `LostIsBounded` is about one new customer: with two, a look-up for the one may
fail on a connection that the other aborted, what is left behind then aborts whoever sees it, and
so on until the pool is used up.

Handlers hold a connection while they take a second one from the same pool, and wait for it without
a timeout. `HandlersEnd` says that a handler always ends, unless the pool is used up for good:
handlers that wait, connections lost to failures and connections lost to first contacts are together
as many as it has. A pool with one connection to spare is never used up by duplicates, early returns
or refusals. (With two customers two transactions may wait for each other's rows; Postgres ends one
of them, which is not modelled, and the property is checked for one.)

Run `inbound`. Bounds: two items of one phone in two handlers are the least for two first contacts at
once or a duplicate; the phone starts in every state; a pool of four is just what two handlers, one
failure and one race can use up, so that the handlers' waiting for each other is reached (hence
`CHECK_DEADLOCK FALSE`) and the bound of `HandlersEnd` is tight. Fairness: a handler goes on when it
can, and gets a connection in its turn, since the pool hands them out in the order of the requests
(strong fairness of `Serve`); other requests use the pool, which commits or rolls back what was
left there (weak fairness of `OthersUsePool`). Nothing is assumed of deliveries.

Several customers are left to the proofs: `OneConversation`, `FirstContactIsWhole` and
`DroppedIsFirstContact` are theorems for any number of them, so that one's handler may take up or
commit what another's left behind. So is `LostIsBounded`, where any number of known customers
write while the new one does. `ConstantsAssumption` asks for at least one handler, without which
its bound would be negative, and for finitely many phones, since it counts them.

## Participants

State and code: `member[k]` is a row of `company_users` of one company, `seat[r]` a row of
`participants` with its `umn`, `conv[c]` the customer's link, `run[h]` a request with the counters
it read (`seen`) or the seats it will copy (`set`). `Join` is `createCompanyUsers` and
`updateCompanyUser`, reached from `addUser` and `updateUser`; `Leave` commits at once, outside the
request's transaction; `OpenConversation` and `AddCustomerFromExcel` give a seat to every user
that was read; `BeginMessage` and `CommitMessage` are the read and the save of the counters, with
`Count` as each kind of message changes them; `Touch` and `UpdateUmnConversations` are the
requests on single counters. Removing a user from a conversation is not an action: its query names
a property that does not exist and always fails.

`gap`, `stray` and `raced` are histories of the three races the code has (a user who joins while a
conversation is opened; a save that sets back a counter to zero; two requests that add one user at
once), and are the exceptions that `SeatsComplete`, `UnreadIsShown` and `SeatedOnce` name. No index
keeps a user to one row of `company_users`: the rows are looked up and then inserted, so two requests
at once give the user two rows, and from then on two seats in each conversation. `SeatedOnce` is about
users, not rows. `byHand` are conversations that somebody was added to by hand. A clear of counters
by a schedule, a file or a customer who comes back clears for everybody, as in the code;
`UnreadIsShown` counts what was cleared as seen. `CountedOnce` bounds what redelivery may do.
A first message of a customer whom another company knows (`"elsewhere"`) starts the counters one
lower than that of a stranger, as in `handleReceivedInboundMessage`.

Run `participants`. Bounds: two users with a row each and one conversation are the least for a
copy of another's seats; two seats are the least for one user to have both; two items; two handlers.
`Kind` is `inbound`, `compose` and `schedule`: a call and a softphone message count as an inbound
message and a composed one do. One single-row change or file is enough for a race
with a message. Liveness is not claimed: the counters promise none.

## Companies

State and code: `company[c]` is the row with the phone, RingCentral application, password and
server; `concretes` the connections the worker holds, under application and password
(`createConcretesKey`); `run[h]` the request with the row it read and the one it will save.
`create`, `update` and `remove` look up other users of the application, call the worker inside
the transaction and commit; `update` removes the old connection before it has validated the new
one. `SaveStatus` writes the row that was read: TypeORM compares with the row that is there, and
`Written` gives both outcomes. A company is ACTIVE, INACTIVE or DELETE. One that is inactive counts
as a user of its application (the look-ups ask for `status != DELETE`), and keeps its connection; a
worker that starts again is told of the active ones only (`WorkerRestarts`). An inactive company is
therefore without a connection after that, and stays so when it becomes active again, because a
change of the status alone asks nothing of the worker.

`broken` names the applications for which, since the worker last started with no request in progress,
requests overlapped, or one rolled back after the worker had acted; those that companies share
with different passwords; and those that only inactive companies used when the worker started. The
code promises nothing there, and `EveryCompanyIsServed` and `NoConcreteIsLeft` say that everything
else is in order: no race or failure breaks another application than those it was about, and what it
broke is right again once the worker has started with no request in progress. Both are about companies that are not deleted.
`contested` does the same for phones, which no index keeps unique. `App` stands for client id and
secret, user name and extension; `createConcretesKey` leaves out the extension, and the model
takes two applications to differ in more than that.

Run `companies`. Bounds: two companies (they share or not), two of everything else, two handlers,
four requests, of which a start of the worker is one: create, make inactive, start and make active
is one trace; create two and any two at once are others. No fairness: requests and commits may fail
for ever.

## OptOuts

State and code: `rows[r]` is a row of `customer_campaigns` (ACTIVE means the customer is *out* of
the campaign), `suggested[s]` a suggestion, `words[w]` a sensitive word, `run[h]` a request,
`queue`, `answers` and `learned` the analyzer's side of the nightly training. Confirmations save
the suggestion and then the row without a transaction (`SaveDecision`, `SaveRow`); the
conversation's form deletes the rows it was not told to keep (`EditCustomer`,
`UpdateCustomerCampaigns`); the list's form creates, updates and deletes (`BeginUpdate`,
`UpdateCustomer`); files look rows up and save them (`ImportRow`). `TrainSensitive` sends a
direction's words with all decided suggestions when there is something new, and sends nothing for
a direction without words.

A form that adds a customer to a campaign that was deleted does the rest and answers with an error
after its commit (`addCustomerToCampaign` only logs its errors); in the table it is a form without
that campaign, and is modelled as that.

`raced` names pairs whose requests overlapped or stopped halfway, what a confirmation loses to
a form that was open among them; `redecided` suggestions that were decided otherwise than was sent.
`asked` is what was last asked for a pair: by a confirmation when its decision is saved, by a form or
a file when the rows are. Until the row of a decision is saved (`Saving`) the two differ, and `AnswerStands` says so; each of its exceptions is
reached in the run. Properties: `AnswerStands`, `LearnedIsDecided`, `DecisionIsLearned`.

Run `opt_outs`. Bounds: one pair, two rows of it (the least for duplicates), two suggestions, one
word, two directions, two handlers, four requests (an opening, a confirmation and a form with one
to spare), one batch on its way, one failure. Fairness: the training job runs every night, the
analyzer answers and its answers are delivered.

## Proved

Each theorem is for every value of the constants that the module's `ConstantsAssumption` allows:
any number of rows, slots, requests, restarts and kinds of failure.

- `TypeCorrect` (`ScheduleMessagesProofs`): `Spec => []TypeOK`. `TypeOK` is not inductive: what
  a handler adds to `present` or `told` must be a schedule. `TypeInv` adds `Working`: a slot in
  use names one. There is a lemma for each group of actions and a step for each action; updates
  of rows, requests and tasks are lemmas of their own, so that no action's proof opens the
  record types.
- `VisibleIsKnown` (`ScheduleDeliveryProofs`): `Spec => []VisibleIsKnownToWorker`, for any
  number of operators. The invariant is `KnownInv`: a request about to commit a new row has the
  worker's answer.
- `PublishedOnce` and `StoppedStays` (`ScheduleDeliveryProofs`): `PublishedOncePerDelivery` and
  `StoppedNeverSent`, for any number of operators and requests at once. Neither is inductive.
  `DeliveryInv`, in `ScheduleMessages`, says that the right to send a set that is not contested is in
  one place: with one request that has it in hand, in a paused row that only a resume may be
  reading, in the worker's queue, or in one `sendScheduleMessage` handler; a stopped set has it
  nowhere, unless a resume that read it while it was paused is about to mark it waiting again; and
  while a set has it, its copies are no more than the restarts. `SlotInv` is the part about slots: stop, pause and
  resume come from operators, and a run that starts or starts over has no sets in hand. `LetGo`
  covers the steps that only move a request, `OneSet` the steps of one send job; the steps that
  move the right from one place to another (stop, pause, resume, the run's reply, the jobs) have
  a lemma each.
- `ImplementsSetDelivery` (`ScheduleRefinementProofs`): `Spec => DeliversSets`. The lemmas of the
  invariant also establish `Onward`, that no set becomes due; such a step is a `Drop`, perhaps of
  nothing. The rest are a run's inserts (`Create`), `Deliver` (`Hand`), a resume that selects what
  another has in hand (`Contest`) and `Restart`.

Two requests hold one set only as two resumes that both selected it, which makes it contested from
then on; the three theorems except such sets and assume nothing of how requests overlap.

- `TypeCorrect`, `OnlyCommittedIsGiven`, `SendingMessagesAreOnTheirWay` and `AnswersBind`
  (`OutboundMessagesProofs`): `Spec => []P` for `TypeOK`, `GivenIsCommitted`,
  `SendingIsOnItsWay` and `AnswerBinds`. `TypeInv` says of every call that the message it names is
  committed and what it reports is known to RingCentral (`Sane`), and of every handler that the
  row it read, or is about to publish, is committed (`Sound`); `Onward`, that committed rows stay
  so, keeps both true of the handlers that a step leaves alone. `SendingIsOnItsWay` needs nothing
  more: a step moves a message from one place where it is on its way (`OnWay`) to the next, or is
  the save that writes another status, or puts the row in `stray` (`MayMove`); the lemmas say so
  of each group of actions. `AnswerBinds` needs `AnswerInv`. A composed row is one handler's
  until it is committed (`DraftInv`). A committed row is handed over by one handler, once, and is
  then at RingCentral's door, or under one exId, or refused, and never two of these; every answer
  that waits, or that a restart would deliver again (`Pending`), names the exId under which the
  row is (`OnceInv`), so the answer handled last writes what the first one did. A handler that
  adopts a row remembers it without an exId (`Recalls`): if the answer has been handled since,
  its save finds another row than it read and makes the row stray, which is why it may overwrite
  the exId at all.
- `TypeCorrect`, `OneConversationEach`, `FirstContactsAreWhole`, `OnlyFirstContactsAreDropped`
  and `FewAreLost` (`InboundMessagesProofs`): `Spec => []P` for `TypeOK`, `OneConversation`,
  `FirstContactIsWhole`, `DroppedIsFirstContact` and `LostIsBounded`, for any number of
  customers, handlers and connections. `TypeInv` adds that connections are conserved (`PoolInv`): clean, aborted and left
  ones and those of handlers are never more than the pool. `TouchInv` is about uncommitted work,
  in handlers and on idle connections: it is about customers who were not active, and for a
  stranger only while he is not committed (`Proper`); what is left of a stranger was left with an
  item that is stored or dropped (`Known`); and it is in one place per stranger (`Apart`).
  `ContactInv` ties what is committed of a customer to what he was before, and `Placed` says
  where the handler of an item may be, given who sent it. All steps of a handler come down to
  five kinds (`Effect`), for which the invariant is proved. `LostIsBounded` counts: `Damage` is
  the connections that are lost or aborted. While the new customer is neither committed nor has
  his template (`Settled` is false), nothing is damaged and nothing that could damage is left
  behind without a failure (`Quiet`). From then on those who can still abort are the handlers
  that had already looked him up (`Racing`): nobody joins them, each turns into at most one
  damaged connection, and the one that was first is not among them. `LossInv` says that for the
  one new customer, and that without one nothing is ever damaged; `TemplateInv` says that a
  handler of an inactive customer never finds the template taken.
- `TypeCorrect`, `NobodySeatedTwice`, `EverybodySeated`, `UnreadIsShownToAll` and
  `NothingCountedTwice` (`ParticipantsProofs`): `Spec => []P` for `TypeOK`, `SeatedOnce`,
  `SeatsComplete`, `UnreadIsShown` and `CountedOnce`. The first two are not inductive. `SeatedOnce`
  comes in two parts: no *row* has two seats in a conversation (`RowsOnce`), and a user who is not
  in `raced` has one row (`MemberInv`). `TypeInv` adds what a request in progress holds:
  counters of rows that exist, a conversation it may open, a user who joins. `SeatInv` adds that
  seats belong to members and to conversations that are open (`Placed`), that two requests
  do not open one conversation and an opened one has no seats yet (`OpenApart`), and that the
  seats a joining user will copy are of different conversations (`JoinApart`), unless somebody was
  added by hand. `SeatsComplete` needs what the requests on the way hold: as long as there is no
  gap, nobody joins while a conversation is opened, the seats that are to be opened are for all
  members, those that are to be copied cover every conversation, and a company without members
  has none (`NoGap`); and who joins again is a member (`KnownAgain`), so that the members do not
  grow under those who open. `UnreadIsShown` and `CountedOnce` need what is read and not yet
  saved: the counters a request holds are within the bound (`Within`), with one to spare for a
  change of a single row, and the kinds of messages are what they say (`AllProper`): the first
  message of a customer who comes back has no user, a line of a file no item.
- `TypeCorrect`, `PhonesAreUnique`, `CompaniesAreServed` and `NothingIsLeftOver`
  (`CompaniesProofs`): `Spec => []P` for `TypeOK`, `OneCompanyPerPhone`,
  `EveryCompanyIsServed` and `NoConcreteIsLeft`. `TypeInv` adds that a request keeps the phone of the company it
  is about, and that a company that is being created is one request's. `PhoneInv` adds that the
  phone a request works with is no other live company's (`Known`) and no other request's (`Met`),
  or contested: the look-up that a request made is otherwise worth nothing when it saves. The
  last two are one invariant, `ServedInv`, about applications that are not broken. An application
  that nobody works on has exactly the connections of its companies (`Settled`). One that is
  worked on has one request (`Alone`), which has read what is still there (`Current`) and works on
  the application of its company (`Near`); by the place it has reached, its row is of a certain
  kind (`Shaped`) and the connections are those of the other companies, of all of them, or of all
  of them after its commit (`Fit`). Companies of one application have one password
  (`SamePasswords`), so that what a request removes is what the others use.
- `TypeCorrect`, `LearnedAsDecided` and `AnswersStand` (`OptOutsProofs`): `Spec => []P` for
  `TypeOK`, `LearnedIsDecided` and `AnswerStands`. `TypeInv` adds what a request read (`Proper`): a suggestion's
  message and direction never change, and a suggestion that a request will insert is not there.
  `TeachInv` is about each suggestion that was never decided otherwise than it was sent. It is
  decided when it was sent (`SentAsDecided`); the batches and the analyzer have it with its
  decision (`TaughtAsDecided`); once it is taught or in a batch, every batch behind has it too,
  so that no later batch makes the analyzer forget it (`SentAgain`); and it is answered, marked,
  or known to a request as marked, only when it is taught (`MarkedWhenTaught`). The last is what
  a stale `save()` needs: it may write the mark back, never one that was not earned. For
  `AnswerStands`, `StandInv` adds that two requests for one pair have met (`Apart`), that a
  request changes only the pairs it is for (`Scoped`), that the row it read, the rows it saw and
  those it will delete are its customer's or gone, and that a row about to be saved is of the
  decision that was asked last (`Sees`); and, since an identifier of a row that is not there may
  be used again, that two requests that name one row are for the same pair (`Agree`).

Two definitions are written for the proofs, with the same values as the code's branches: the
guards of `Count` (`Participants`) exclude one another and `AskedByForm` (`OptOuts`) is an `IF`, so
that no value depends on which arm of a `CASE` is chosen.

Only model-checked: the liveness properties `NoSetForgotten`, `QueuedIsResolved`, `SendingEnds`,
`HandlersEnd` and `DecisionIsLearned`, which are out of the prover's reach (fairness and
`ENABLED`); and the three properties that the code violates.

## Not modelled

- Data: the parsing of customer files, the filling of templates, attachments, names and
  addresses, which texts match a sensitive word, listings, searches, counts and exports.
- The customer, conversation and message rows of a send job (`messages.service.ts:1340-1607`) as
  part of `ScheduleMessages`; their counters and conversations are in `Participants`.
- `queues`, `es-search` and the entity subscribers: copies of rows that only searches read, with
  no promise of how fresh they are.
- `roles`, `permissions` and `config-casbin`: a role's rules are edited one by one through the
  Casbin library, which keeps its own copy; what holds between two edits is the library's.
- `groups`, `labels`, `signatures`, `view-history`, `log-activities`, `call-logs`, `dashboard`,
  `campaigns`, most of `users` and the listing of `notifications`: one row, one statement, nothing
  that a later step relies on.
- `auth`, `jwt-custom`, `services/http`: calls to other services that change no state here.
- Two backends on one database: the code runs as one process.
- Operators' requests that leak a connection by throwing before their `try` (companies, users,
  customers): the pool is modelled where it matters to delivery, in `InboundMessages`.
