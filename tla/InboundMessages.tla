------------------------- MODULE InboundMessages -------------------------
(***************************************************************************)
(* What RingCentral brings from customers of one company: text messages,   *)
(* messages of a group, missed calls.  Each is handled in a transaction on *)
(* a connection of its own, while look-ups take further connections from   *)
(* the same pool; the first contact of a customer creates the customer, his*)
(* conversation and their link to the company in that transaction.         *)
(*                                                                         *)
(* A handler that returns early releases its connection without a commit   *)
(* or a rollback: whatever the transaction did waits on the idle connection*)
(* for the next handler that takes it.                                     *)
(***************************************************************************)
EXTENDS Integers, FiniteSets

CONSTANTS
    Item,       \* RingCentral's identifiers of messages and missed calls
    Phone,      \* customers' phone numbers
    Kind,       \* the kinds of items that arrive
    Before,     \* what may be known of a customer at the start
    Handler,    \* the calls served at once
    Pool,       \* connections of the pool
    MaxFaults,  \* bound on failed writes
    None        \* no item

ASSUME ConstantsAssumption ==
    /\ None \notin Item
    /\ Phone # {} /\ IsFiniteSet(Phone) /\ Handler # {} /\ IsFiniteSet(Handler)
    /\ Kind \subseteq {"message", "group", "call"}
    /\ Before \subseteq {"stranger", "elsewhere", "inactive", "disabled", "active"}
    /\ Pool \in Nat /\ MaxFaults \in Nat

VARIABLES
    company,    \* whether an active company has the phone that was called
    contact,    \* contact[p]: what Postgres knows of the customer with phone p
    convs,      \* convs[p]: conversations between p and the company
    stored,     \* the items with a committed row
    template,   \* the customers who have a committed template of NEW_CLIENT
    rc,         \* rc[x]: the item, once RingCentral has it
    run,        \* run[h]: the handler in slot h
    pool,       \* the idle connections
    dropped,    \* history: acknowledged without a row
    dead,       \* history: sent to the dead letter queue
    met,        \* history: contact at the start
    faults      \* failed writes so far

rows == <<contact, convs, stored, template>>
vars == <<company, rows, rc, run, pool, dropped, dead, met, faults>>

-----------------------------------------------------------------------------
(* Values *)

(* A customer may be unknown, known to other companies only, or to this one;*)
(* then the customer himself ("disabled"), his link to the company          *)
(* ("inactive") or neither may be inactive.                                 *)
Contact == {"stranger", "elsewhere", "inactive", "disabled", "active"}

(* What a transaction has done for a customer: created his conversation,    *)
(* made his link to the company active again, or inserted the template of   *)
(* the notifications that announce him.                                     *)
Touch == [p : Phone, did : {"created", "reactivated", "announced"}]

(* A transaction in progress: where its handler is, its item, what it has   *)
(* done, and what its connection had done and not ended when it was taken.  *)
Idle == [at |-> "idle", x |-> None, did |-> {}, extra |-> {}]

Place == {"idle", "group", "lookup", "find", "create", "insert", "template",
          "newTemplate", "write", "callLookup", "callFind", "callNew"}

(* Idle connections: usable ones, ones whose transaction Postgres has       *)
(* aborted, and ones that hold uncommitted touches, numbered where they     *)
(* hold the same.                                                           *)
Orphan    == [did : SUBSET Touch, nr : 1..Pool]
PoolState == [clean : 0..Pool, aborted : 0..Pool, orphans : SUBSET Orphan]

Left == {o.did : o \in pool.orphans}

From(h) == rc[run[h].x].from
Serving == {h \in Handler : run[h].at # "idle"}
Lost    == Pool - pool.clean - pool.aborted - Cardinality(pool.orphans)
                - Cardinality(Serving)

Init ==
    /\ company \in BOOLEAN
    /\ contact \in [Phone -> Before]
    /\ company \/ \A p \in Phone : contact[p] \in {"stranger", "elsewhere"}
    /\ met = contact
    /\ convs = [p \in Phone |-> IF contact[p] \in {"stranger", "elsewhere"} THEN 0 ELSE 1]
    /\ stored = {}
    /\ template \in SUBSET {p \in Phone : contact[p] \in {"elsewhere", "inactive"}}
    /\ rc = [x \in Item |-> [kind |-> "none", from |-> CHOOSE p \in Phone : TRUE]]
    /\ run = [h \in Handler |-> Idle]
    /\ pool = [clean |-> Pool, aborted |-> 0, orphans |-> {}]
    /\ dropped = {} /\ dead = {}
    /\ faults = 0

-----------------------------------------------------------------------------
(* Connections and transactions *)

(* The customers as a transaction that has done T sees them.                *)
Seen(T) == [p \in Phone |-> IF \E t \in T : t.p = p THEN "active" ELSE contact[p]]

(* Look-ups outside the transaction run on any idle connection.  One that   *)
(* holds an uncommitted touch sees it; an aborted one refuses.              *)
Views == (IF pool.clean > 0 THEN {contact} ELSE {}) \cup {Seen(T) : T \in Left}

Done(h) == run[h].did \cup run[h].extra

(* Mutant of Inserting: customers have no unique index.                     *)
InsertingFreely(h, p) == FALSE

(* Another transaction has inserted the customer p, or has made his link    *)
(* active, and has not ended: a second insertion waits on the unique index, *)
(* a second update on the row.                                              *)
Inserting(h, p) ==
    /\ contact[p] \in {"stranger", "inactive"}
    /\ \E T \in Left \cup {Done(g) : g \in Handler \ {h}} : \E t \in T : t.p = p

Commit(T, X) ==
    /\ contact' = Seen(T)
    /\ convs' = [p \in Phone |-> convs[p] + Cardinality({t \in T : t.p = p /\ t.did = "created"})]
    /\ stored' = stored \cup X
    /\ template' = template \cup {t.p : t \in {t \in T : t.did = "announced"}}

Free(h) == run' = [run EXCEPT ![h] = Idle]
Return  == pool' = [pool EXCEPT !.clean = @ + 1]

(* Mutant of Finish: released after the commit, and again at the end.       *)
FinishReleasedTwice(h) ==
    /\ Commit(Done(h), {run[h].x})
    /\ Free(h)
    /\ pool' = [pool EXCEPT !.clean = @ + 2]
    /\ UNCHANGED <<dropped, dead>>

(* Committed, released and acknowledged.                                    *)
Finish(h) ==
    /\ Commit(Done(h), {run[h].x})
    /\ Free(h) /\ Return
    /\ UNCHANGED <<dropped, dead>>

(* Mutant of Nack: what was done for the customer is committed.             *)
NackCommitted(h) ==
    /\ Commit(Done(h), {})
    /\ Free(h) /\ Return
    /\ dead' = dead \cup {run[h].x}
    /\ UNCHANGED dropped

(* Mutant of Nack: the connection is released only after a commit.          *)
NackUnreleased(h) ==
    /\ Free(h)
    /\ dead' = dead \cup {run[h].x}
    /\ UNCHANGED <<rows, pool, dropped>>

(* Rolled back, released, and refused to the broker.                        *)
Nack(h) ==
    /\ Free(h) /\ Return
    /\ dead' = dead \cup {run[h].x}
    /\ UNCHANGED <<rows, dropped>>

(* Released as it is, and acknowledged.                                     *)
Leave(h, state) ==
    /\ Free(h)
    /\ pool' = state
    /\ dropped' = IF run[h].x \in stored THEN dropped ELSE dropped \cup {run[h].x}
    /\ UNCHANGED <<rows, dead>>

Aborted  == [pool EXCEPT !.aborted = @ + 1]

Numbered(T) ==
    [did |-> T, nr |-> CHOOSE n \in 1..Pool : [did |-> T, nr |-> n] \notin pool.orphans]

Open(T)  == IF T = {} THEN [pool EXCEPT !.clean = @ + 1]
                      ELSE [pool EXCEPT !.orphans = @ \cup {Numbered(T)}]

Goto(h, at) ==
    /\ run' = [run EXCEPT ![h].at = at]
    /\ UNCHANGED <<rows, pool, dropped, dead>>

Keep == UNCHANGED <<company, rc, met, faults>>

-----------------------------------------------------------------------------
(* RingCentral: a customer writes or calls.  Every item may be delivered    *)
(* more than once, by the broker or by a synchronisation.                   *)
Arrive(x, k, p) ==
    /\ rc[x].kind = "none"
    /\ rc' = [rc EXCEPT ![x] = [kind |-> k, from |-> p]]
    /\ UNCHANGED <<company, rows, run, pool, dropped, dead, met, faults>>

First == [message |-> "lookup", group |-> "group", call |-> "callLookup"]

(* What the broker delivers, or a synchronisation asks RingCentral for      *)
(* again.                                                                   *)
DeliveredMessages == {x \in Item : rc[x].kind \in {"message", "group"}}
DeliveredCalls    == {x \in Item : rc[x].kind = "call"}

(* The handler takes a connection and starts its transaction.  On one that  *)
(* is in a transaction already the statement does nothing; on an aborted    *)
(* one it fails before the try block, and nobody releases the connection.   *)
Receive(h, x) ==
    LET begin(T) == run' = [run EXCEPT ![h] = [Idle EXCEPT !.at = First[rc[x].kind],
                                                           !.x = x, !.extra = T]]
    IN  /\ run[h].at = "idle"
        /\ x \in DeliveredMessages \cup DeliveredCalls
        /\ \/ /\ pool.clean > 0
              /\ pool' = [pool EXCEPT !.clean = @ - 1]
              /\ begin({}) /\ UNCHANGED dead
           \/ \E o \in pool.orphans :
                /\ pool' = [pool EXCEPT !.orphans = @ \ {o}]
                /\ begin(o.did) /\ UNCHANGED dead
           \/ /\ pool.aborted > 0
              /\ pool' = [pool EXCEPT !.aborted = @ - 1]
              /\ dead' = dead \cup {x}
              /\ UNCHANGED run
        /\ UNCHANGED <<rows, dropped>>
        /\ Keep

(* A look-up got an aborted connection and failed.                          *)
LookupFails(h) ==
    /\ run[h].at \in {"lookup", "find", "callLookup", "callFind", "write"}
    /\ pool.aborted > 0
    /\ Nack(h)
    /\ Keep

(* A group message is stored once; every failure is swallowed.              *)
HandleGroupMessage(h) ==
    /\ run[h].at = "group"
    /\ \/ /\ Views # {} /\ company /\ run[h].x \notin stored
          /\ Finish(h)
       \/ /\ Views # {} /\ ~ company
          /\ Commit(Done(h), {}) /\ Free(h) /\ Return
          /\ dropped' = dropped \cup {run[h].x}
          /\ UNCHANGED dead
       \/ /\ pool.aborted > 0 \/ run[h].x \in stored
          /\ Leave(h, [pool EXCEPT !.clean = @ + 1])
    /\ Keep

-----------------------------------------------------------------------------
(* Text messages *)

(* Mutant of FindDuplicate: it returns early without a release.             *)
FindDuplicateUnreleased(h) ==
    /\ run[h].at = "lookup"
    /\ Views # {}
    /\ IF run[h].x \in stored THEN Leave(h, pool) ELSE Goto(h, "find")
    /\ Keep

FindDuplicate(h) ==
    /\ run[h].at = "lookup"
    /\ Views # {}
    /\ IF run[h].x \in stored THEN Leave(h, Open(run[h].extra)) ELSE Goto(h, "find")
    /\ Keep

FindConversation(h) ==
    /\ run[h].at = "find"
    /\ \E v \in Views : Goto(h, IF company /\ v[From(h)] = "active" THEN "write" ELSE "create")
    /\ Keep

(* createConversationWithNewCustomer reads the customer in the transaction. *)
(* Whatever goes wrong after that is returned as if it were a conversation: *)
(* the handler takes it for an unknown company and leaves.                  *)
CreateConversation(h) ==
    LET known == Seen(run[h].extra)[From(h)]
        did   == IF known = "inactive" THEN "reactivated" ELSE "created"
    IN  /\ run[h].at = "create"
        /\ \/ known \in {"stranger", "disabled"} /\ company /\ Goto(h, "insert")
           \/ known = "stranger" /\ ~ company /\ Nack(h)
           \/ known # "stranger" /\ ~ company /\ Leave(h, Open(run[h].extra))
           \/ known = "active" /\ company /\ Goto(h, "write")
           \/ /\ known \in {"elsewhere", "inactive"} /\ company /\ ~ Inserting(h, From(h))
              /\ Views # {}
              /\ run' = [run EXCEPT ![h] = [@ EXCEPT !.at = "template",
                                                     !.did = {[p |-> From(h), did |-> did]}]]
              /\ UNCHANGED <<rows, pool, dropped, dead>>
           \/ /\ known \in {"elsewhere", "inactive"} /\ company /\ ~ Inserting(h, From(h))
              /\ pool.aborted > 0
              /\ Leave(h, Open(run[h].extra \cup {[p |-> From(h), did |-> did]}))
        /\ Keep

(* createCustomer checks the phone and inserts.  A customer who is inactive *)
(* was not found before and is refused now.  One may have been committed    *)
(* since: then the check refuses it, or the unique index does and Postgres  *)
(* aborts the transaction.                                                  *)
InsertCustomer(h) ==
    LET new == {[p |-> From(h), did |-> "created"]}
    IN  /\ run[h].at = "insert"
        /\ ~ Inserting(h, From(h))
        /\ \/ /\ contact[From(h)] = "stranger" /\ Views # {}
              /\ run' = [run EXCEPT ![h] = [@ EXCEPT !.at = "write", !.did = new]]
              /\ UNCHANGED <<rows, pool, dropped, dead>>
           \/ /\ contact[From(h)] = "stranger" /\ pool.aborted > 0
              /\ Leave(h, Open(run[h].extra \cup new))
           \/ /\ contact[From(h)] # "stranger"
              /\ \/ contact[From(h)] # "disabled" /\ Leave(h, Aborted)
                 \/ Leave(h, Open(run[h].extra))
        /\ Keep

(* Writing the customer's conversation fails outside Postgres.              *)
CreationFails(h) ==
    LET known == Seen(run[h].extra)[From(h)]
        did == IF known = "inactive" THEN "reactivated" ELSE "created"
    IN  /\ faults < MaxFaults
        /\ run[h].at \in {"insert", "create"}
        /\ ~ Inserting(h, From(h))
        /\ \/ /\ run[h].at = "insert" /\ known = "stranger"
           \/ /\ run[h].at = "create" /\ known \in {"elsewhere", "inactive"} /\ company
        /\ Leave(h, Open(run[h].extra \cup {[p |-> From(h), did |-> did]}))
        /\ faults' = faults + 1
        /\ UNCHANGED <<company, rc, met>>

(* The message, its conversation, notifications and unread counters are     *)
(* written and committed, unless the exId is there already or the           *)
(* conversation is another connection's and not committed.                  *)
WriteItem(h) ==
    /\ run[h].at = "write"
    /\ Views # {}
    /\ IF run[h].x \in stored \/ Seen(Done(h))[From(h)] \notin {"active", "disabled"}
       THEN Nack(h) ELSE Finish(h)
    /\ Keep

(* Mutant of WriteFails: the error is logged and not thrown.                *)
WriteFailsQuietly(h) ==
    /\ run[h].at = "write"
    /\ faults < MaxFaults
    /\ Leave(h, [pool EXCEPT !.clean = @ + 1])
    /\ faults' = faults + 1
    /\ UNCHANGED <<company, rc, met>>

WriteFails(h) ==
    /\ run[h].at = "write"
    /\ faults < MaxFaults
    /\ Nack(h)
    /\ faults' = faults + 1
    /\ UNCHANGED <<company, rc, met>>

-----------------------------------------------------------------------------
(* The notification of a customer who is new to the company *)

(* pushNotify failed: createConversationWithNewCustomer hides the error, the*)
(* handler of missed calls rolls back.                                      *)
PushFails(h, state) == IF rc[run[h].x].kind = "call" THEN Nack(h) ELSE Leave(h, state)

Announcing(T) == {t.p : t \in {t \in T : t.did = "announced"}}

(* Every user of the company receives it: they too are looked up outside the*)
(* transaction.                                                             *)
FindReceivers(h, did) ==
    \/ /\ Views # {}
       /\ run' = [run EXCEPT ![h] = [@ EXCEPT !.at = "write", !.did = did]]
       /\ UNCHANGED <<rows, pool, dropped, dead>>
    \/ pool.aborted > 0 /\ PushFails(h, Open(run[h].extra \cup did))

(* The template is looked up outside the transaction.  One that is seen on  *)
(* a connection which has not committed it cannot be referred to.           *)
FindTemplate(h) ==
    LET p == From(h)
    IN  /\ run[h].at = "template"
        /\ \/ p \in template /\ FindReceivers(h, run[h].did)
           \/ pool.clean > 0 /\ p \notin template /\ Goto(h, "newTemplate")
           \/ \E T \in Left :
                /\ p \notin template
                /\ IF p \in Announcing(T) THEN PushFails(h, Aborted) ELSE Goto(h, "newTemplate")
           \/ pool.aborted > 0 /\ PushFails(h, Open(Done(h)))
        /\ Keep

(* It is inserted when there was none: the second insertion waits on the    *)
(* unique index, and is refused once the first is committed.                *)
InsertTemplate(h) ==
    LET p == From(h)
        new == [p |-> p, did |-> "announced"]
    IN  /\ run[h].at = "newTemplate"
        /\ \A T \in Left \cup {Done(g) : g \in Handler \ {h}} : p \notin Announcing(T)
        /\ IF p \in template THEN PushFails(h, Aborted)
                             ELSE FindReceivers(h, run[h].did \cup {new})
        /\ Keep

-----------------------------------------------------------------------------
(* Missed calls: the same customers, but every error is thrown. *)

FindCall(h) ==
    /\ run[h].at = "callLookup"
    /\ Views # {}
    /\ IF run[h].x \in stored THEN Leave(h, Open(run[h].extra)) ELSE Goto(h, "callFind")
    /\ Keep

FindCaller(h) ==
    /\ run[h].at = "callFind"
    /\ \E v \in Views :
         LET known == v[From(h)] IN
         \/ ~ company /\ Leave(h, Open(run[h].extra))
         \/ company /\ known \in {"stranger", "elsewhere"} /\ Goto(h, "callNew")
         \/ company /\ known \in {"active", "disabled"} /\ Goto(h, "write")
         \/ /\ company /\ known = "inactive" /\ ~ Inserting(h, From(h))
            /\ run' = [run EXCEPT ![h] = [@ EXCEPT !.at = "write",
                                     !.did = {[p |-> From(h), did |-> "reactivated"]}]]
            /\ UNCHANGED <<rows, pool, dropped, dead>>
    /\ Keep

(* The first item of a caller: his customer or his link is created.         *)
AddCaller(h, at) ==
    /\ Views # {}
    /\ run' = [run EXCEPT ![h] = [@ EXCEPT !.at = at,
                                     !.did = {[p |-> From(h), did |-> "created"]}]]
    /\ UNCHANGED <<rows, pool, dropped, dead>>

(* The caller was a stranger: createCustomer refuses one that has been      *)
(* inserted since.                                                          *)
AddNewCaller(h) ==
    LET known == Seen(run[h].extra)[From(h)]
    IN  /\ run[h].at = "callNew" /\ met[From(h)] = "stranger"
        /\ ~ Inserting(h, From(h))
        /\ \/ known = "stranger" /\ AddCaller(h, "write")
           \/ (known = "active" \/ pool.aborted > 0) /\ Nack(h)
        /\ Keep

(* The caller was a customer of other companies: addCustomerToCompany looks *)
(* again whether the company has him.                                       *)
AddCallerToCompany(h) ==
    LET known == Seen(run[h].extra)[From(h)]
    IN  /\ run[h].at = "callNew" /\ met[From(h)] = "elsewhere"
        /\ \/ known = "elsewhere" /\ AddCaller(h, "template")
           \/ known = "active" /\ Views # {} /\ Goto(h, "write")
           \/ pool.aborted > 0 /\ Nack(h)
        /\ Keep

(* The rest of the backend takes connections of the same pool: its commits  *)
(* commit what it finds in a transaction, and its save() on an aborted one  *)
(* fails and rolls back.                                                    *)
OthersUsePool ==
    /\ \/ \E o \in pool.orphans :
            /\ Commit(o.did, {})
            /\ pool' = [pool EXCEPT !.orphans = @ \ {o}, !.clean = @ + 1]
       \/ /\ pool.aborted > 0
          /\ pool' = [pool EXCEPT !.aborted = @ - 1, !.clean = @ + 1]
          /\ UNCHANGED rows
    /\ UNCHANGED <<run, dropped, dead>>
    /\ Keep

Serve(h) ==
    \/ LookupFails(h) \/ HandleGroupMessage(h)
    \/ FindDuplicate(h) \/ FindConversation(h) \/ CreateConversation(h) \/ InsertCustomer(h)
    \/ FindCall(h) \/ FindCaller(h) \/ AddNewCaller(h) \/ AddCallerToCompany(h)
    \/ FindTemplate(h) \/ InsertTemplate(h)
    \/ WriteItem(h)

Next ==
    \/ \E x \in Item, k \in Kind, p \in Phone : Arrive(x, k, p)
    \/ \E h \in Handler, x \in Item : Receive(h, x)
    \/ \E h \in Handler : Serve(h) \/ CreationFails(h) \/ WriteFails(h)
    \/ OthersUsePool

(* The pool serves those who wait for a connection in their order, so a     *)
(* handler goes on when it can again and again, and the rest of the backend *)
(* goes on using the pool.  Nothing is promised of a delivery: what was     *)
(* refused is only logged.                                                  *)
Fairness ==
    /\ WF_vars(OthersUsePool)
    /\ \A h \in Handler : SF_vars(Serve(h))

Spec == Init /\ [][Next]_vars /\ Fairness
-----------------------------------------------------------------------------
(* Properties *)

(* Handlers and connections are well typed, and no connection is two        *)
(* handlers'.                                                               *)
TypeOK ==
    /\ contact \in [Phone -> Contact]
    /\ convs \in [Phone -> Nat]
    /\ stored \cup dropped \cup dead \subseteq Item
    /\ pool \in PoolState
    /\ \A h \in Handler : /\ run[h].at \in Place
                          /\ run[h].did \cup run[h].extra \subseteq Touch
    /\ Lost \in 0..Pool

(* However many items of a customer are handled at once, he has at most one *)
(* conversation with the company.  (A customer of another company may get   *)
(* two: nothing is unique there.)                                           *)
OneConversation == \A p \in Phone : convs[p] > 1 => met[p] = "elsewhere"

(* A new customer is committed with the item he came with, or by another    *)
(* connection after his handler had returned early and dropped the item: an *)
(* item that is refused to the broker leaves no customer behind.            *)
FirstContactIsWhole ==
    \A p \in Phone : met[p] = "stranger" /\ contact[p] # "stranger"
                     => \E x \in stored \cup dropped : rc[x].from = p

(* An item of a customer who is active in the company is never acknowledged *)
(* without being stored, not even when a write fails.                       *)
DroppedIsFirstContact ==
    \A x \in dropped : company /\ rc[x].kind # "group" => met[rc[x].from] # "active"

(* With one new customer, a connection is lost only to an aborted           *)
(* transaction of his first contact: at most one for each handler that raced*)
(* with the one that stored him or his notification, or that failed and left*)
(* them behind.  (With two there is no such bound: the look-ups of the one  *)
(* may fail on a connection that the other aborted, and what they leave     *)
(* behind aborts whoever sees it.)                                          *)
LostIsBounded ==
    LET new == Cardinality({p \in Phone : met[p] \in {"stranger", "elsewhere"}})
    IN  new <= 1 => Lost + pool.aborted <= faults + new * (Cardinality(Handler) - 1)

(* Every handler ends, unless the pool is used up for good: as many         *)
(* connections as it has are held by handlers that wait for another one, or *)
(* lost to failures and to races of a first contact.  So a pool with one    *)
(* connection more than those never stops the handlers, and a duplicate, an *)
(* early return or a refusal never costs one.  (For one customer: where     *)
(* transactions of two wait for each other, Postgres ends one of them.)     *)
HandlersEnd ==
    LET new  == Cardinality({p \in Phone : met[p] \in {"stranger", "elsewhere"}})
        used == Cardinality(Serving) + faults + new * (Cardinality(Handler) - 1)
    IN  \A h \in Handler : []<>(run[h].at = "idle") \/ <>[](used >= Pool)
=============================================================================
