------------------------- MODULE OutboundMessages -------------------------
(***************************************************************************)
(* Messages that leave the company: those that users write (one message,   *)
(* or one composed for several customers), those that someone sends from a *)
(* softphone of the same RingCentral account and the backend only hears    *)
(* of, and what RingCentral reports about both.  Messages of schedules are *)
(* in ScheduleMessages, the unread counters in Participants.               *)
(*                                                                         *)
(* Rows are read outside the handler's transaction and saved whole, most   *)
(* of them by a save() that commits at once.  The exId of a message has a  *)
(* unique index.  A handler that throws makes its consumer answer Nack,    *)
(* and the call goes to the dead letter queue, which nothing reads.        *)
(***************************************************************************)
EXTENDS Integers, FiniteSets, Sequences

CONSTANTS
    Msg,          \* identifiers of message rows
    Ext,          \* RingCentral's identifiers of messages (exId)
    Phone,        \* customers' phone numbers
    Before,       \* what may be known of a customer at the start
    Text,         \* what messages say, attachments included
    Handler,      \* slots for the calls and requests served at once
    Batch,        \* messages one polling asks about (20 in the code)
    Request,      \* the requests that users make
    MaxRequests,  \* bound on the requests of users
    MaxSoftphone, \* bound on the messages sent from a softphone
    MaxLists,     \* bound on the lists of messages RingCentral sends
    MaxFaults,    \* bound on failed transactions
    MaxRestarts,  \* bound on the restarts of the backend
    None          \* no message

ASSUME ConstantsAssumption ==
    /\ None \notin Msg \cup Ext
    /\ Phone # {} /\ Text # {}
    /\ Before \subseteq {"stranger", "elsewhere", "inactive", "active"}
    /\ Request \subseteq {"create", "compose", "edit"}
    /\ {Batch, MaxRequests, MaxSoftphone, MaxLists, MaxFaults, MaxRestarts} \subseteq Nat

VARIABLES
    message,      \* message[m]: the committed row of m
    contact,      \* contact[p]: what Postgres knows of the customer with phone p
    run,          \* run[h]: the handler in slot h
    calls,        \* the calls that wait in the queues of the backend
    toRc,         \* the messages handed to RingCentral and not yet taken by it
    rc,           \* rc[x]: what RingCentral has under x
    announced,    \* the messages that browsers were told of
    stray,        \* history: rows that a stale copy overwrote, or whose hand-over
                  \* or report was lost with a failed handler or a restart
    count         \* the bounded events so far

vars == <<message, contact, run, calls, toRc, rc, announced, stray, count>>

-----------------------------------------------------------------------------
(* Values *)

ExternalStatus == {"queued", "delivered", "failed"}
InternalStatus == {"sending", "sent", "error"}

(* RingCentral writes its statuses with a capital; all but one of the       *)
(* handlers lower them.                                                     *)
Raw == [queued |-> "Queued", delivered |-> "Delivered", failed |-> "Failed"]

Message == [saved : BOOLEAN, own : BOOLEAN, to : Phone, text : Text,
            exId : Ext \cup {None}, status : InternalStatus,
            ex : {"none"} \cup ExternalStatus \cup {Raw[e] : e \in ExternalStatus}]

NewMessage(p, t) == [saved |-> TRUE, own |-> TRUE, to |-> p, text |-> t,
                     exId |-> None, status |-> "sending", ex |-> "none"]

NoMessage == [NewMessage(CHOOSE p \in Phone : TRUE, CHOOSE t \in Text : TRUE)
                EXCEPT !.saved = FALSE]

Report == [x : Ext, ex : ExternalStatus]

(* Mutant of StatusOfNew: RingCentral's status is copied.                   *)
StatusOfNewCopied == [queued |-> "queued", delivered |-> "delivered", failed |-> "failed"]

(* A message that only RingCentral knew is inserted with the status of its  *)
(* first report; every later report of any kind makes it "sent".            *)
StatusOfNew == [queued |-> "sending", delivered |-> "sent", failed |-> "error"]

SoftphoneMessage(r) ==
    [saved |-> TRUE, own |-> FALSE, to |-> rc[r.x].to, text |-> rc[r.x].text,
     exId |-> r.x, status |-> StatusOfNew[r.ex], ex |-> r.ex]

Contact == {"stranger", "elsewhere", "inactive", "active"}
InCompany == {"inactive", "active"}

(* A call: "create" from the realtime service, "answer" and "error" for a   *)
(* message handed to RingCentral, "list" and "queued" for those it has.     *)
Asked(kind, m, list) == [kind |-> kind, m |-> m, list |-> list,
                         to |-> NoMessage.to, text |-> NoMessage.text]

(* A handler: where it is, the call it serves and how far it is in the list *)
(* of the call, the rows it writes, the row it has read, and what it knows  *)
(* of the customers.                                                        *)
Idle == [at |-> "idle", call |-> Asked("error", None, <<>>), i |-> 1, new |-> <<>>,
         m |-> None, seen |-> NoMessage, known |-> [p \in Phone |-> "active"]]

Place == {"idle", "commitCreated", "publishCreated", "compose", "commitComposed",
       "publishComposed", "answer", "listLookup", "listApp", "listWho", "listNew",
       "listAdopt", "listInsert", "queued", "error", "edit"}

Saved      == {m \in Msg : message[m].saved}
WithExId(x) == {m \in Saved : message[m].exId = x}
Drafts     == UNION {DOMAIN run[h].new : h \in Handler}
Fresh      == Msg \ (Saved \cup Drafts \cup announced)
Known      == {x \in Ext : rc[x].ex # "none"}

Init ==
    /\ message = [m \in Msg |-> NoMessage]
    /\ contact \in [Phone -> Before]
    /\ run = [h \in Handler |-> Idle]
    /\ calls = {}
    /\ toRc = {}
    /\ rc = [x \in Ext |-> [ex |-> "none", of |-> None, to |-> NoMessage.to,
                            text |-> NoMessage.text]]
    /\ announced = {}
    /\ stray = {}
    /\ count = [requests |-> 0, softphone |-> 0, lists |-> 0, faults |-> 0,
                restarts |-> 0]

-----------------------------------------------------------------------------
(* Steps that handlers share *)

Bump(event) == count' = [count EXCEPT ![event] = @ + 1]

Serve(h, c, state) ==
    /\ run[h].at = "idle"
    /\ c \in calls
    /\ calls' = calls \ {c}
    /\ run' = [run EXCEPT ![h] = [state EXCEPT !.call = c]]

At(at)        == [Idle EXCEPT !.at = at]
Reading(at, m) == [Idle EXCEPT !.at = at, !.m = m, !.seen = message[m]]

(* The handler throws and its consumer answers Nack: what the call said of  *)
(* the rows M is lost.                                                      *)
Nack(h, M) ==
    /\ run' = [run EXCEPT ![h] = Idle]
    /\ stray' = stray \cup M
    /\ UNCHANGED message

Taken(m, x) == x # None /\ WithExId(x) \ {m} # {}

(* save() of the row that was read, changed to row: every column goes back  *)
(* to what the handler read, unless the unique index of exId refuses it.    *)
Save(h, m, row, next) ==
    \/ /\ ~ Taken(m, row.exId)
       /\ message' = [message EXCEPT ![m] = row]
       /\ run' = [run EXCEPT ![h] = next]
       /\ stray' = IF message[m] = run[h].seen THEN stray ELSE stray \cup {m}
    \/ Taken(m, row.exId) /\ Nack(h, {m})

(* Customers whose insertion another transaction has not committed yet: the *)
(* unique index of customers makes a second insertion wait for it.          *)
Inserting(p) ==
    \E h \in Handler : /\ run[h].at = "commitComposed"
                       /\ run[h].known[p] = "stranger"
                       /\ \E m \in DOMAIN run[h].new : run[h].new[m].to = p

-----------------------------------------------------------------------------
(* Users *)

(* The realtime service asks the backend to send what a user wrote.         *)
Write(p, t) ==
    /\ "create" \in Request
    /\ count.requests < MaxRequests
    /\ contact[p] \in InCompany
    /\ calls' = calls \cup {[Asked("create", None, <<>>) EXCEPT !.to = p, !.text = t]}
    /\ Bump("requests")
    /\ UNCHANGED <<message, contact, run, toRc, rc, announced, stray>>

CreateOutboundMessage(h, c) ==
    /\ c.kind = "create"
    /\ Serve(h, c, At("commitCreated"))
    /\ UNCHANGED <<message, contact, toRc, rc, announced, stray, count>>

CommitCreated(h) ==
    /\ run[h].at = "commitCreated"
    /\ \E m \in Fresh :
         /\ message' = [message EXCEPT ![m] = NewMessage(run[h].call.to, run[h].call.text)]
         /\ run' = [run EXCEPT ![h] = [@ EXCEPT !.at = "publishCreated", !.m = m]]
    /\ UNCHANGED <<contact, calls, toRc, rc, announced, stray, count>>

(* The consumer does not catch what createOutboundMessage throws: by the    *)
(* default of the connection that is a Nack, and the request is lost to the *)
(* dead-letter queue.                                                       *)
RollBackCreated(h) ==
    /\ run[h].at = "commitCreated"
    /\ count.faults < MaxFaults
    /\ run' = [run EXCEPT ![h] = Idle]
    /\ Bump("faults")
    /\ UNCHANGED <<message, contact, calls, toRc, rc, announced, stray>>

PublishCreated(h) ==
    /\ run[h].at = "publishCreated"
    /\ toRc' = toRc \cup {run[h].m}
    /\ run' = [run EXCEPT ![h] = Idle]
    /\ UNCHANGED <<message, contact, calls, rc, announced, stray, count>>

(* One message for each phone of S.  Who is a customer already is read once,*)
(* before the transaction writes anything.                                  *)
CreateComposeMessages(h, S, t) ==
    /\ "compose" \in Request
    /\ count.requests < MaxRequests
    /\ run[h].at = "idle"
    /\ Cardinality(S) <= Cardinality(Fresh)
    /\ \E ids \in [S -> Fresh] :
         /\ \A p, q \in S : ids[p] = ids[q] => p = q
         /\ run' = [run EXCEPT ![h] = [Idle EXCEPT !.at = "compose", !.known = contact,
                !.new = [m \in {ids[p] : p \in S} |->
                           NewMessage(CHOOSE p \in S : ids[p] = m, t)]]]
    /\ Bump("requests")
    /\ UNCHANGED <<message, contact, calls, toRc, rc, announced, stray>>

Addressees(h) == {run[h].new[m].to : m \in DOMAIN run[h].new}
IsNew(h, p)   == run[h].known[p] = "stranger"

(* createCustomer inserts a stranger, with his conversation and messages.   *)
MayAddStranger(p) == contact[p] = "stranger" /\ ~ Inserting(p)

(* addCustomerToCompany gives a customer of another company a link and a    *)
(* conversation, or makes his link active again.                            *)
WithLinks(P) == [p \in Phone |-> IF p \in P THEN "active" ELSE contact[p]]

(* Mutant of WriteComposed: messages are handed over before the commit.     *)
WriteComposedAndPublish(h) ==
    /\ run[h].at = "compose"
    /\ toRc' = toRc \cup DOMAIN run[h].new
    /\ run' = [run EXCEPT ![h].at = "commitComposed"]
    /\ UNCHANGED <<message, contact, calls, rc, announced, stray, count>>

(* Customers, conversations, messages and notifications are written; the    *)
(* browsers are told of them before the commit.                             *)
WriteComposed(h) ==
    /\ run[h].at = "compose"
    /\ \A p \in Addressees(h) : IsNew(h, p) => MayAddStranger(p)
    /\ announced' = announced \cup DOMAIN run[h].new
    /\ run' = [run EXCEPT ![h].at = "commitComposed"]
    /\ UNCHANGED <<message, contact, calls, toRc, rc, stray, count>>

CommitComposed(h) ==
    /\ run[h].at = "commitComposed"
    /\ message' = [m \in Msg |-> IF m \in DOMAIN run[h].new THEN run[h].new[m]
                                                            ELSE message[m]]
    /\ contact' = WithLinks(Addressees(h))
    /\ run' = [run EXCEPT ![h].at = "publishComposed"]
    /\ UNCHANGED <<calls, toRc, rc, announced, stray, count>>

PublishComposed(h) ==
    /\ run[h].at = "publishComposed"
    /\ toRc' = toRc \cup DOMAIN run[h].new
    /\ run' = [run EXCEPT ![h] = Idle]
    /\ UNCHANGED <<message, contact, calls, rc, announced, stray, count>>

(* A customer that was a stranger when the request began has been inserted  *)
(* since: the unique index of customers refuses the second one.             *)
RefuseComposed(h) ==
    /\ run[h].at = "compose"
    /\ \E p \in Addressees(h) : IsNew(h, p) /\ contact[p] # "stranger"
    /\ run' = [run EXCEPT ![h] = Idle]
    /\ UNCHANGED <<message, contact, calls, toRc, rc, announced, stray, count>>

RollBackComposed(h) ==
    /\ run[h].at \in {"compose", "commitComposed"}
    /\ count.faults < MaxFaults
    /\ run' = [run EXCEPT ![h] = Idle]
    /\ Bump("faults")
    /\ UNCHANGED <<message, contact, calls, toRc, rc, announced, stray>>

(* removeMessage and updateMessage read a row and save it, with nothing     *)
(* changed that is modelled here.                                           *)
EditMessage(h, m) ==
    /\ "edit" \in Request
    /\ count.requests < MaxRequests
    /\ run[h].at = "idle"
    /\ m \in Saved
    /\ run' = [run EXCEPT ![h] = Reading("edit", m)]
    /\ Bump("requests")
    /\ UNCHANGED <<message, contact, calls, toRc, rc, announced, stray>>

SaveEdited(h) ==
    /\ run[h].at = "edit"
    /\ Save(h, run[h].m, run[h].seen, Idle)
    /\ UNCHANGED <<contact, calls, toRc, rc, announced, count>>

-----------------------------------------------------------------------------
(* RingCentral *)

Unused == {x \in Ext : rc[x].ex = "none"}

RcTake(m, x) ==
    /\ m \in toRc
    /\ x \in Unused
    /\ toRc' = toRc \ {m}
    /\ rc' = [rc EXCEPT ![x] = [ex |-> "queued", of |-> m, to |-> message[m].to,
                                text |-> message[m].text]]
    /\ calls' = calls \cup {Asked("answer", m, <<[x |-> x, ex |-> "queued"]>>)}
    /\ UNCHANGED <<message, contact, run, announced, stray, count>>

RcReject(m) ==
    /\ m \in toRc
    /\ toRc' = toRc \ {m}
    /\ calls' = calls \cup {Asked("error", m, <<>>)}
    /\ UNCHANGED <<message, contact, run, rc, announced, stray, count>>

RcFinish(x) ==
    /\ rc[x].ex = "queued"
    /\ \E e \in {"delivered", "failed"} : rc' = [rc EXCEPT ![x].ex = e]
    /\ UNCHANGED <<message, contact, run, calls, toRc, announced, stray, count>>

Softphone(p, t, x) ==
    /\ count.softphone < MaxSoftphone
    /\ x \in Unused
    /\ rc' = [rc EXCEPT ![x] = [ex |-> "queued", of |-> None, to |-> p, text |-> t]]
    /\ Bump("softphone")
    /\ UNCHANGED <<message, contact, run, calls, toRc, announced, stray>>

(* What a synchronisation (syncMessage, syncMessageAfterRestart) or a       *)
(* notification brings: some of its messages, as they are now.              *)
RcList(xs) ==
    /\ count.lists < MaxLists
    /\ calls' = calls \cup {Asked("list", None,
                  [i \in 1..Len(xs) |-> [x |-> xs[i], ex |-> rc[xs[i]].ex]])}
    /\ Bump("lists")
    /\ UNCHANGED <<message, contact, run, toRc, rc, announced, stray>>

-----------------------------------------------------------------------------
(* Reports of RingCentral *)

UpdateOutboundMessage(h, c) ==
    /\ c.kind = "answer"
    /\ Serve(h, c, Reading("answer", c.m))
    /\ UNCHANGED <<message, contact, toRc, rc, announced, stray, count>>

(* Mutant of SaveAnswer: the message keeps its internal status.             *)
SaveAnswerExternal(h) ==
    /\ run[h].at = "answer"
    /\ LET r == run[h].call.list[1]
       IN Save(h, run[h].m, [run[h].seen EXCEPT !.exId = r.x, !.ex = r.ex], Idle)
    /\ UNCHANGED <<contact, calls, toRc, rc, announced, count>>

SaveAnswer(h) ==
    /\ run[h].at = "answer"
    /\ LET r == run[h].call.list[1]
       IN Save(h, run[h].m, [run[h].seen EXCEPT !.exId = r.x, !.ex = r.ex,
                                                !.status = "sent"], Idle)
    /\ UNCHANGED <<contact, calls, toRc, rc, announced, count>>

(* A list is worked off message by message, each in a transaction of its    *)
(* own; a failure abandons the rest of it.                                  *)
UpdateOutBoundListMessages(h, c) ==
    /\ c.kind = "list"
    /\ Serve(h, c, At("listLookup"))
    /\ UNCHANGED <<message, contact, toRc, rc, announced, stray, count>>

Item(h) == run[h].call.list[run[h].i]
Rest(h) == IF run[h].i = Len(run[h].call.list) THEN Idle
           ELSE [At("listLookup") EXCEPT !.call = run[h].call, !.i = run[h].i + 1]

FindListed(h) ==
    /\ run[h].at = "listLookup"
    /\ \/ \E m \in WithExId(Item(h).x) :
            run' = [run EXCEPT ![h] = [@ EXCEPT !.at = "listApp", !.m = m,
                                                !.seen = message[m]]]
       \/ /\ WithExId(Item(h).x) = {}
          /\ run' = [run EXCEPT ![h].at = "listWho"]
    /\ UNCHANGED <<message, contact, calls, toRc, rc, announced, stray, count>>

SaveListed(h) ==
    /\ run[h].at = "listApp"
    /\ Save(h, run[h].m, [run[h].seen EXCEPT !.ex = Item(h).ex, !.status = "sent"], Rest(h))
    /\ UNCHANGED <<contact, calls, toRc, rc, announced, count>>

(* Mutant of Adoptable: rows that have an exId are taken too.               *)
AdoptableAny(x) == {m \in Saved : message[m].text = rc[x].text}

(* Rows that a message of RingCentral may be: same text, no exId yet.  The  *)
(* phones are compared with each other, not with those of the row.  Which   *)
(* of them were written less than 30 seconds before it, as they must be, is *)
(* left open.                                                               *)
Adoptable(x) ==
    {m \in Saved : message[m].exId = None /\ message[m].text = rc[x].text}

FindSender(h) ==
    LET x == Item(h).x
        p == rc[x].to
        member == contact[p] \in InCompany
    IN  /\ run[h].at = "listWho"
        /\ \/ /\ ~ member
              /\ run' = [run EXCEPT ![h] = [@ EXCEPT !.at = "listNew", !.known = contact]]
           \/ /\ member
              /\ \E m \in Adoptable(x) :
                   run' = [run EXCEPT ![h] = [@ EXCEPT !.at = "listAdopt", !.m = m,
                                                       !.seen = message[m]]]
           \/ /\ member
              /\ run' = [run EXCEPT ![h].at = "listInsert"]
        /\ UNCHANGED <<message, contact, calls, toRc, rc, announced, stray, count>>

(* The status of an adopted message is stored as RingCentral writes it.     *)
AdoptMessage(h) ==
    /\ run[h].at = "listAdopt"
    /\ Save(h, run[h].m, [run[h].seen EXCEPT !.exId = Item(h).x, !.ex = Raw[Item(h).ex],
                                             !.status = "sent"], Rest(h))
    /\ UNCHANGED <<contact, calls, toRc, rc, announced, count>>

(* A row for a message sent from a softphone, in the conversation of its    *)
(* customer, who is then active.                                            *)
InsertRow(h) ==
    /\ ~ Taken(None, Item(h).x)
    /\ \E m \in Fresh : message' = [message EXCEPT ![m] = SoftphoneMessage(Item(h))]
    /\ contact' = WithLinks({rc[Item(h).x].to})
    /\ run' = [run EXCEPT ![h] = Rest(h)]
    /\ UNCHANGED stray

RefuseRow(h) == Nack(h, {}) /\ UNCHANGED contact

Newcomer(h, was) == run[h].at = "listNew" /\ run[h].known[rc[Item(h).x].to] = was

(* To somebody who was a stranger when he was looked up: one that has been  *)
(* inserted since is refused by the unique index of customers.              *)
InsertForStranger(h) ==
    LET p == rc[Item(h).x].to
    IN  /\ Newcomer(h, "stranger")
        /\ ~ Inserting(p)
        /\ \/ contact[p] = "stranger" /\ InsertRow(h)
           \/ (contact[p] # "stranger" \/ Taken(None, Item(h).x)) /\ RefuseRow(h)
        /\ UNCHANGED <<calls, toRc, rc, announced, count>>

(* To a customer of another company.                                        *)
InsertForOther(h) ==
    /\ Newcomer(h, "elsewhere")
    /\ InsertRow(h) \/ (Taken(None, Item(h).x) /\ RefuseRow(h))
    /\ UNCHANGED <<calls, toRc, rc, announced, count>>

(* To a customer of this company, who is made active.                       *)
InsertForMember(h) ==
    /\ run[h].at = "listInsert"
    /\ InsertRow(h) \/ (Taken(None, Item(h).x) /\ RefuseRow(h))
    /\ UNCHANGED <<calls, toRc, rc, announced, count>>

(* Mutant of SyncQueuedMessage: only messages that are "sending" are asked  *)
(* about.                                                                   *)
SyncSendingMessage ==
    LET queued == {m \in Saved : message[m].ex = "queued" /\ message[m].status = "sending"}
    IN  /\ calls' = calls \cup
             {Asked("queued", None, <<[x |-> x, ex |-> rc[x].ex]>>) :
                x \in {y \in Ext : /\ rc[y].ex # "queued"
                                   /\ \E m \in queued : message[m].exId = y}}
        /\ UNCHANGED <<message, contact, run, toRc, rc, announced, stray, count>>

(* The worker's timer: RingCentral is asked about messages that look queued,*)
(* and answers for those that it has finished.                              *)
SyncQueuedMessage ==
    LET queued == {m \in Saved : message[m].ex = "queued"}
    IN  /\ \E M \in SUBSET queued :
             /\ M # {}
             /\ Cardinality(M) = Batch \/ (M = queued /\ Cardinality(M) < Batch)
             /\ calls' = calls \cup
                  {Asked("queued", None, <<[x |-> x, ex |-> rc[x].ex]>>) :
                     x \in {y \in Ext : /\ rc[y].ex # "queued"
                                        /\ \E m \in M : message[m].exId = y}}
        /\ UNCHANGED <<message, contact, run, toRc, rc, announced, stray, count>>

UpdateQueuedMessage(h, c) ==
    /\ c.kind = "queued"
    /\ \/ \E m \in WithExId(c.list[1].x) : Serve(h, c, Reading("queued", m))
       \/ WithExId(c.list[1].x) = {} /\ Serve(h, c, Idle)
    /\ UNCHANGED <<message, contact, toRc, rc, announced, stray, count>>

SaveQueued(h) ==
    /\ run[h].at = "queued"
    /\ Save(h, run[h].m, [run[h].seen EXCEPT !.ex = run[h].call.list[1].ex], Idle)
    /\ UNCHANGED <<contact, calls, toRc, rc, announced, count>>

(* The consumer does not wait for this handler: its call is acknowledged    *)
(* when it begins.                                                          *)
SendMessageError(h, c) ==
    /\ c.kind = "error"
    /\ Serve(h, c, Reading("error", c.m))
    /\ UNCHANGED <<message, contact, toRc, rc, announced, stray, count>>

(* Mutant of SaveError: a message of RingCentral's errors is only logged.   *)
SaveErrorNowhere(h) ==
    /\ run[h].at = "error"
    /\ run' = [run EXCEPT ![h] = Idle]
    /\ UNCHANGED <<message, contact, calls, toRc, rc, announced, stray, count>>

SaveError(h) ==
    /\ run[h].at = "error"
    /\ Save(h, run[h].m, [run[h].seen EXCEPT !.status = "error"], Idle)
    /\ UNCHANGED <<contact, calls, toRc, rc, announced, count>>

-----------------------------------------------------------------------------
(* The backend stops and starts again: open transactions are rolled back,   *)
(* calls that were not acknowledged are delivered again, requests of        *)
(* browsers and what was about to be handed over are lost.                  *)
Restart ==
    LET serving == {h \in Handler : run[h].at # "idle"}
        http    == {"compose", "commitComposed", "publishComposed", "edit"}
        rpc     == {h \in serving : run[h].at \notin http \cup {"error"}}
    IN  /\ count.restarts < MaxRestarts
        /\ serving # {}
        /\ calls' = calls \cup {run[h].call : h \in rpc}
        /\ stray' = stray \cup
             {run[h].m : h \in {g \in serving : run[g].at \in {"publishCreated", "error"}}}
             \cup UNION {DOMAIN run[h].new : h \in {g \in serving : run[g].at = "publishComposed"}}
        /\ run' = [h \in Handler |-> Idle]
        /\ Bump("restarts")
        /\ UNCHANGED <<message, contact, toRc, rc, announced>>

Users ==
    \/ \E p \in Phone, t \in Text : Write(p, t)
    \/ \E h \in Handler, S \in SUBSET Phone \ {{}}, t \in Text : CreateComposeMessages(h, S, t)
    \/ \E h \in Handler, m \in Msg : EditMessage(h, m)

RingCentral ==
    \/ \E m \in Msg, x \in Ext : RcTake(m, x)
    \/ \E m \in Msg : RcReject(m)
    \/ \E x \in Ext : RcFinish(x)
    \/ \E p \in Phone, t \in Text, x \in Ext : Softphone(p, t, x)
    \/ \E x \in Known : RcList(<<x>>)
    \/ \E x, y \in Known : x # y /\ RcList(<<x, y>>)

Receive(h, c) ==
    \/ CreateOutboundMessage(h, c)
    \/ UpdateOutboundMessage(h, c)
    \/ UpdateOutBoundListMessages(h, c)
    \/ UpdateQueuedMessage(h, c)
    \/ SendMessageError(h, c)

Proceed(h) ==
    \/ CommitCreated(h) \/ PublishCreated(h)
    \/ WriteComposed(h) \/ CommitComposed(h) \/ PublishComposed(h) \/ RefuseComposed(h)
    \/ SaveEdited(h) \/ SaveAnswer(h) \/ SaveQueued(h) \/ SaveError(h)
    \/ FindListed(h) \/ SaveListed(h) \/ FindSender(h) \/ AdoptMessage(h)
    \/ InsertForStranger(h) \/ InsertForOther(h) \/ InsertForMember(h)

Fail(h) == RollBackCreated(h) \/ RollBackComposed(h)

Next ==
    \/ Users
    \/ RingCentral
    \/ SyncQueuedMessage
    \/ \E h \in Handler, c \in calls : Receive(h, c)
    \/ \E h \in Handler : Proceed(h) \/ Fail(h)
    \/ Restart

(* A handler that is running goes on; the broker delivers every call; what  *)
(* RingCentral takes it answers, sends and reports on when it is asked.     *)
Fairness ==
    /\ \A h \in Handler : WF_vars(Proceed(h))
    /\ \A m \in Msg : /\ SF_vars(\E h \in Handler, c \in calls : c.m = m /\ Receive(h, c))
                      /\ WF_vars(RcReject(m) \/ \E x \in Ext : RcTake(m, x))
    /\ \A x \in Ext : /\ SF_vars(\E h \in Handler, c \in calls :
                                   /\ c.kind = "queued" /\ c.list[1].x = x
                                   /\ UpdateQueuedMessage(h, c))
                      /\ WF_vars(RcFinish(x))
    /\ WF_vars(SyncQueuedMessage)

Spec == Init /\ [][Next]_vars /\ Fairness

-----------------------------------------------------------------------------
(* Properties *)

Reported(m) == \/ \E c \in calls : c.m = m /\ c.kind \in {"answer", "error"}
               \/ \E h \in Handler : run[h].m = m /\ run[h].at \in {"answer", "error"}

HandingOver(m) == \E h \in Handler : \/ run[h].at = "publishCreated" /\ run[h].m = m
                                     \/ run[h].at = "publishComposed" /\ m \in DOMAIN run[h].new

(* Rows, handlers and calls are well typed.                                 *)
TypeOK ==
    /\ message \in [Msg -> Message]
    /\ contact \in [Phone -> Contact]
    /\ \A h \in Handler : /\ run[h].at \in Place
                          /\ run[h].m \in Msg \cup {None}
                          /\ run[h].seen \in Message
                          /\ DOMAIN run[h].new \subseteq Msg
    /\ \A c \in calls : c.m \in Msg \cup {None} /\ c.list \in Seq(Report)
    /\ toRc \subseteq Msg

(* A message of a user that shows "sending" is being handed over, or is at  *)
(* RingCentral, or its answer or error is on its way, unless a stale copy   *)
(* overwrote it or a restart or a Nack lost one of these.                   *)
SendingIsOnItsWay ==
    \A m \in Saved \ stray :
        message[m].own /\ message[m].status = "sending"
        => HandingOver(m) \/ m \in toRc \/ Reported(m)

(* Once RingCentral's answer to a message has been handled, the row has the *)
(* exId of that answer, whichever softphone message had been taken for it   *)
(* before (with the same exception).                                        *)
AnswerBinds ==
    \A m \in Msg \ stray, x \in Ext :
        rc[x].of = m /\ ~ Reported(m) => message[m].exId = x

(* What RingCentral was given is committed: a rollback never leaves a text  *)
(* message sent that no table knows.                                        *)
GivenIsCommitted ==
    \A m \in Msg : m \in toRc \/ HandingOver(m) \/ (\E x \in Ext : rc[x].of = m)
                   => message[m].saved

(* Whatever the order in which statuses arrive, and however late a stale    *)
(* "queued" is written over them, polling resolves it: no message shows     *)
(* "queued" for ever.                                                       *)
QueuedIsResolved == \A m \in Msg : []<>(message[m].ex # "queued")

(* A message of a user does not stay "sending": RingCentral's answer or     *)
(* error ends it, unless one of the losses above befell it.                 *)
SendingEnds == \A m \in Msg :
    (message[m].saved /\ message[m].own)
        ~> (message[m].status # "sending" \/ m \in stray)
=============================================================================
