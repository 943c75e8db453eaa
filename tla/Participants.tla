--------------------------- MODULE Participants ---------------------------
(***************************************************************************)
(* Who takes part in the conversations of one company, and how many unread *)
(* messages each participant is shown (umn).  Users join the company while *)
(* conversations are opened: a joining user gets the seats that another    *)
(* user of the company has, a new conversation gets a seat for each user   *)
(* of the company, and neither transaction sees what the other has not     *)
(* committed.  Counters are read, changed and saved by several handlers,   *)
(* and a save writes the number that was read.                             *)
(***************************************************************************)
EXTENDS Integers, FiniteSets, Functions

CONSTANTS
    User,         \* users of the system
    CompanyUser,  \* identifiers of rows of company_users
    Conversation, \* rows of conversations between customers and the company
    Row,          \* identifiers of rows of participants
    Item,         \* messages and calls
    Handler,      \* the requests and calls served at once
    Kind,         \* the kinds of messages and calls that happen
    MaxTouches,   \* bound on the changes to single rows, and on files
    None          \* no user, conversation or item

ASSUME ConstantsAssumption ==
    /\ None \notin User \cup CompanyUser \cup Conversation \cup Row \cup Item
    /\ Kind \subseteq {"inbound", "call", "softphone", "compose", "schedule"}
    /\ MaxTouches \in Nat

VARIABLES
    member,   \* member[k]: the row k of company_users
    conv,     \* conv[c]: the state of the customer's link to the company
    seat,     \* seat[r]: the row r of participants
    run,      \* run[h]: the request in slot h
    stored,   \* the items whose row is committed
    touches,  \* changes to single rows, and files, so far
    byHand,   \* history: conversations that a user was added to by hand
    raced,    \* history: users whom two requests were adding at once
    gap,      \* history: a user joined while a conversation was being opened,
              \* or a conversation was opened when the company had no users
    unseen,   \* history: the rows that a message was counted for since they
              \* were last cleared
    stray     \* history: the rows that a late save set back to zero

vars == <<member, conv, seat, run, stored, touches, byHand, raced, gap, unseen, stray>>

-----------------------------------------------------------------------------
(* Values *)

NoMember == [user |-> None, active |-> FALSE]
NoSeat   == [conv |-> None, of |-> None, umn |-> 0]

Idle == [at |-> "idle", kind |-> "none", conv |-> None, user |-> None, cu |-> None,
         item |-> None, set |-> {}, seen |-> <<>>]

Members  == {k \in CompanyUser : member[k].user # None}
Active   == {k \in CompanyUser : member[k].active}
Seats(c) == {r \in Row : seat[r].conv = c}
Taken    == {r \in Row : seat[r].conv # None}
Fresh    == Row \ Taken
Owner(r) == member[seat[r].of].user
At(at)   == {h \in Handler : run[h].at = at}

New(item) == {item} \ {None}

Init ==
    /\ \/ member = [k \in CompanyUser |-> NoMember]
       \/ \E k \in CompanyUser, u \in User :
            member = [j \in CompanyUser |-> IF j = k THEN [user |-> u, active |-> TRUE]
                                            ELSE NoMember]
    /\ conv = [c \in Conversation |-> "none"]
    /\ seat = [r \in Row |-> NoSeat]
    /\ run = [h \in Handler |-> Idle]
    /\ stored = {} /\ touches = 0
    /\ byHand = {} /\ raced = {} /\ gap = FALSE /\ unseen = {} /\ stray = {}

(* A transaction rolls back: the request fails, or the broker keeps the     *)
(* call in its dead letter queue.                                           *)
Fail(h) ==
    /\ run[h].at # "idle"
    /\ run' = [run EXCEPT ![h] = Idle]
    /\ UNCHANGED <<member, conv, seat, stored, touches, byHand, raced, gap, unseen, stray>>

-----------------------------------------------------------------------------
(* Users join and leave the company *)

(* Mutant of Join: a user who comes back is given seats like a new one.     *)
JoinAgain(h, u) ==
    /\ run[h].at = "idle"
    /\ \E k \in Members : run' = [run EXCEPT ![h] =
           [Idle EXCEPT !.at = "join", !.user = u, !.set = {r \in Taken : seat[r].of = k},
             !.cu = IF \E j \in Members : member[j].user = u
                    THEN CHOOSE j \in Members : member[j].user = u ELSE None]]
    /\ gap' = (gap \/ At("open") # {})
    /\ UNCHANGED <<member, conv, seat, stored, touches, byHand, raced, unseen, stray>>

(* A user who was in the company before comes back.  Any other gets the     *)
(* seats of some user of the company, active or not; all of this is read    *)
(* outside the transaction, and nothing is unique in company_users: of two  *)
(* requests that add one user at once, each inserts a row for him.          *)
Join(h, u) ==
    /\ run[h].at = "idle"
    /\ \/ \E k \in Members :
            /\ member[k].user = u
            /\ run' = [run EXCEPT ![h] = [Idle EXCEPT !.at = "join", !.user = u, !.cu = k]]
       \/ /\ \A k \in Members : member[k].user # u
          /\ \E k \in Members : run' = [run EXCEPT ![h] =
               [Idle EXCEPT !.at = "join", !.user = u, !.set = {r \in Taken : seat[r].of = k}]]
       \/ /\ Members = {}
          /\ run' = [run EXCEPT ![h] = [Idle EXCEPT !.at = "join", !.user = u]]
    /\ gap' = (gap \/ At("open") # {})
    /\ raced' = IF /\ \A k \in Members : member[k].user # u
                   /\ \E g \in At("join") : run[g].user = u
                THEN raced \cup {u} ELSE raced
    /\ UNCHANGED <<member, conv, seat, stored, touches, byHand, unseen, stray>>

CommitJoin(h) ==
    LET k == run[h].cu
    IN  /\ run[h].at = "join"
        /\ \E j \in IF k = None THEN CompanyUser \ Members ELSE {k} :
           \E f \in Injection(run[h].set, Fresh) :
             /\ member' = [member EXCEPT ![j] = [user |-> run[h].user, active |-> TRUE]]
             /\ seat' = [r \in Row |->
                  IF \E q \in run[h].set : f[q] = r
                  THEN [conv |-> seat[CHOOSE q \in run[h].set : f[q] = r].conv,
                        of |-> j, umn |-> 0]
                  ELSE seat[r]]
        /\ run' = [run EXCEPT ![h] = Idle]
        /\ UNCHANGED <<conv, stored, touches, byHand, raced, gap, unseen, stray>>

(* Taking companies away from a user is committed at once, whatever becomes *)
(* of the rest of the request.                                              *)
Leave(u) ==
    /\ \E k \in Active : member[k].user = u
    /\ member' = [k \in CompanyUser |-> IF member[k].user = u THEN [member[k] EXCEPT !.active = FALSE]
                                                              ELSE member[k]]
    /\ UNCHANGED <<conv, seat, run, stored, touches, byHand, raced, gap, unseen, stray>>

(* A new user has no rows yet; he is saved with them, or not at all.        *)
AddUser(h, u) ==
    /\ \A k \in Members : member[k].user # u
    /\ \A g \in At("join") : run[g].user # u
    /\ Join(h, u)

(* A user who exists is given the company, maybe in two requests at once,   *)
(* or loses it.                                                             *)
UpdateUser(h, u) == Join(h, u) \/ Leave(u)

-----------------------------------------------------------------------------
(* Conversations *)

(* Mutant of UsersInCompany: users who have left get no seats.              *)
ActiveUsers == Active

UsersInCompany == Members

(* A customer's first message, in or out, opens a conversation: a row that  *)
(* is this request's own.  (Two first messages of one customer open two     *)
(* rows, or one of them fails on the unique phone: see InboundMessages.)    *)
(* The customer who writes is a stranger or one of another company.         *)
OpenConversation(h, c, kind, x, s) ==
    /\ run[h].at = "idle"
    /\ conv[c] = "none"
    /\ \A g \in At("open") : run[g].conv # c
    /\ x \notin stored
    /\ \E as \in {kind} \cup (IF kind = "inbound" THEN {"elsewhere"} ELSE {}) :
         run' = [run EXCEPT ![h] = [Idle EXCEPT !.at = "open", !.conv = c, !.kind = as,
                                     !.item = x, !.user = s, !.set = UsersInCompany]]
    /\ gap' = (gap \/ At("join") # {} \/ UsersInCompany = {})
    /\ UNCHANGED <<member, conv, seat, stored, touches, byHand, raced, unseen, stray>>

(* The seats start with one message, the sender's with none, and with none  *)
(* when a file opens the conversation or the customer who writes is known   *)
(* to another company.  What a customer writes is then counted once more,   *)
(* as it is in a conversation that exists, for the users who are active.    *)
FirstCount(kind, k, s) ==
    (IF kind \in {"import", "elsewhere"} \/ member[k].user = s THEN 0 ELSE 1) +
    (IF kind \in {"inbound", "elsewhere"} /\ member[k].active THEN 1 ELSE 0)

CommitOpen(h) ==
    LET now == run[h]
    IN  /\ now.at = "open"
        /\ now.item \notin stored
        /\ \E f \in Injection(now.set, Fresh) :
             LET new == {f[k] : k \in now.set}
                 of(r) == CHOOSE k \in now.set : f[k] = r
             IN  /\ seat' = [r \in Row |-> IF r \in new
                       THEN [conv |-> now.conv, of |-> of(r),
                             umn |-> FirstCount(now.kind, of(r), now.user)]
                       ELSE seat[r]]
                 /\ unseen' = unseen \cup {r \in new :
                       /\ now.kind # "import" /\ member[of(r)].user # now.user
                       /\ now.kind = "elsewhere" => member[of(r)].active}
        /\ conv' = [conv EXCEPT ![now.conv] = "active"]
        /\ stored' = stored \cup New(now.item)
        /\ run' = [run EXCEPT ![h] = Idle]
        /\ UNCHANGED <<member, touches, byHand, raced, gap, stray>>

(* Mutant of Deactivate: any status that the form names is saved.           *)
DeactivateDeleted(c) ==
    /\ conv[c] = "active"
    /\ conv' = [conv EXCEPT ![c] = "deleted"]
    /\ UNCHANGED <<member, seat, run, stored, touches, byHand, raced, gap, unseen, stray>>

(* An administrator makes the company's customer inactive.                  *)
Deactivate(c) ==
    /\ conv[c] = "active"
    /\ conv' = [conv EXCEPT ![c] = "inactive"]
    /\ UNCHANGED <<member, seat, run, stored, touches, byHand, raced, gap, unseen, stray>>

(* addUserIntoConversation as a request of its own.                         *)
AddUserIntoConversation(c, k) ==
    /\ touches < MaxTouches
    /\ conv[c] # "none" /\ k \in Members
    /\ \E r \in Fresh : seat' = [seat EXCEPT ![r] = [conv |-> c, of |-> k, umn |-> 0]]
    /\ byHand' = byHand \cup {c}
    /\ touches' = touches + 1
    /\ UNCHANGED <<member, conv, run, stored, raced, gap, unseen, stray>>

-----------------------------------------------------------------------------
(* Messages and calls of a conversation *)

(* Those whose counters a handler reads: the active users, and everyone for *)
(* a message of a schedule, for the first one after a deactivation and for  *)
(* a line of a file.                                                        *)
Attendances(kind, c) ==
    {r \in Seats(c) : kind \in {"schedule", "revived", "import"} \/ member[seat[r].of].active}

(* How a kind of message counts for its sender and for the others.  The     *)
(* others' counters are cleared by a schedule's message, by a line of a     *)
(* file, and by the first message a customer writes after a deactivation,   *)
(* which then counts.                                                       *)
Count(kind, umn, own, active) ==
    CASE own /\ kind \in {"compose", "schedule"}        -> umn
      [] kind = "import" \/ (kind = "schedule" /\ ~ own) -> 0
      [] kind = "revived" -> IF active THEN 1 ELSE 0
      [] OTHER            -> umn + 1

BeginMessage(h, c, kind, x, s) ==
    LET as == IF kind = "inbound" /\ conv[c] = "inactive" THEN "revived" ELSE kind
        rows == Attendances(as, c)
    IN  /\ run[h].at = "idle"
        /\ conv[c] # "none"
        /\ kind = "inbound" \/ (x \notin stored /\ \A g \in Handler : run[g].item # x)
        /\ run' = [run EXCEPT ![h] = [Idle EXCEPT !.at = "message", !.kind = as, !.conv = c,
                          !.item = x, !.user = s, !.seen = [r \in rows |-> seat[r].umn]]]
        /\ UNCHANGED <<member, conv, seat, stored, touches, byHand, raced, gap, unseen, stray>>

(* A save writes umn[r] to each row r that was read.                        *)
Save(h, umn, counted, cleared) ==
    LET now  == run[h].seen
        rows == DOMAIN now
    IN  /\ seat' = [r \in Row |-> IF r \in rows THEN [seat[r] EXCEPT !.umn = umn[r]] ELSE seat[r]]
        /\ stray' = stray \cup {r \in rows : umn[r] = 0 /\ seat[r].umn # now[r]}
        /\ unseen' = (unseen \ cleared) \cup counted
        /\ run' = [run EXCEPT ![h] = Idle]

Seated(c) == \A k \in Members : \E r \in Seats(c) : seat[r].of = k

CommitMessage(h) ==
    LET now  == run[h]
        rows == DOMAIN now.seen
        own(r) == Owner(r) = now.user
        active(r) == member[seat[r].of].active
    IN  /\ now.at = "message"
        /\ now.item \notin stored
        /\ now.kind \in {"revived", "import"} => Seated(now.conv)
        /\ Save(h, [r \in rows |-> Count(now.kind, now.seen[r], own(r), active(r))],
                CASE now.kind \in {"schedule", "import"} -> {}
                  [] now.kind = "compose"  -> {r \in rows : ~ own(r)}
                  [] now.kind = "revived"  -> {r \in rows : active(r)}
                  [] OTHER                 -> rows,
                IF now.kind \in {"schedule", "revived", "import"} THEN {r \in rows : ~ own(r)} ELSE {})
        /\ conv' = [conv EXCEPT ![now.conv] = IF now.kind = "inbound" THEN @ ELSE "active"]
        /\ stored' = stored \cup New(now.item)
        /\ UNCHANGED <<member, touches, byHand, raced, gap>>

(* Mutant of Refuse: the counters are saved outside the transaction.        *)
RefuseCounted(h) ==
    LET now == run[h] IN
    /\ now.at \in {"message", "open"} /\ now.item \in stored
    /\ Save(h, [r \in DOMAIN now.seen |-> now.seen[r] + 1], {}, {})
    /\ UNCHANGED <<member, conv, stored, touches, byHand, raced, gap>>

(* An item that was delivered twice is refused by the unique index of exId, *)
(* and the rest of its transaction with it.                                 *)
Refuse(h) ==
    /\ run[h].at \in {"message", "open"} /\ run[h].item \in stored
    /\ run' = [run EXCEPT ![h] = Idle]
    /\ UNCHANGED <<member, conv, seat, stored, touches, byHand, raced, gap, unseen, stray>>

(* A user without a seat makes addCustomerToCompany fail half way, which it *)
(* hides.  A file goes on and commits; a message is dropped, and whoever    *)
(* uses the connection next may commit the customer's link and the counters *)
(* that were cleared.                                                       *)
ReviveFails(h) ==
    /\ run[h].at = "message" /\ run[h].kind \in {"revived", "import"}
    /\ ~ Seated(run[h].conv)
    /\ \E R \in SUBSET DOMAIN run[h].seen :
         Save(h, [r \in DOMAIN run[h].seen |-> IF r \in R THEN 0 ELSE seat[r].umn], {}, R)
    /\ conv' = [conv EXCEPT ![run[h].conv] = "active"]
    /\ UNCHANGED <<member, stored, touches, byHand, raced, gap>>

-----------------------------------------------------------------------------
(* Customers from files *)

(* A user uploads a file and is shown which of its customers are new.       *)
CheckCustomer(h, c) ==
    /\ touches < MaxTouches
    /\ run[h].at = "idle"
    /\ conv[c] = "none"
    /\ run' = [run EXCEPT ![h] = [Idle EXCEPT !.at = "file", !.kind = "import", !.conv = c]]
    /\ touches' = touches + 1
    /\ UNCHANGED <<member, conv, seat, stored, byHand, raced, gap, unseen, stray>>

(* Some time later he adds those that were new then.  One who has got a     *)
(* conversation since is given to the company again, as unread by nobody.   *)
AddCustomerFromExcel(h) ==
    LET c == run[h].conv
        rows == Attendances("import", c)
    IN  /\ run[h].at = "file"
        /\ \A g \in At("open") : run[g].conv # c
        /\ \/ /\ conv[c] = "none"
              /\ run' = [run EXCEPT ![h].at = "open", ![h].set = UsersInCompany]
              /\ gap' = (gap \/ At("join") # {} \/ UsersInCompany = {})
           \/ /\ conv[c] # "none"
              /\ run' = [run EXCEPT ![h].at = "message", ![h].seen = [r \in rows |-> seat[r].umn]]
              /\ UNCHANGED gap
        /\ UNCHANGED <<member, conv, seat, stored, touches, byHand, raced, unseen, stray>>

-----------------------------------------------------------------------------
(* Changes to single counters *)

(* A user marks a conversation as read or unread; the realtime service      *)
(* counts a message, or touches the time of the row.                        *)
Touch(h, r, kind) ==
    /\ touches < MaxTouches
    /\ run[h].at = "idle"
    /\ r \in Taken
    /\ run' = [run EXCEPT ![h] = [Idle EXCEPT !.at = "touch", !.kind = kind,
                                              !.seen = [q \in {r} |-> seat[q].umn]]]
    /\ touches' = touches + 1
    /\ UNCHANGED <<member, conv, seat, stored, byHand, raced, gap, unseen, stray>>

(* Mutant of Touched: marking a conversation as unread toggles it.          *)
ToggleTouched(kind, umn) ==
    CASE kind = "read"   -> 0
      [] kind = "unread" -> IF umn > 0 THEN 0 ELSE 1
      [] kind = "count"  -> umn + 1
      [] OTHER           -> umn

Touched(kind, umn) ==
    CASE kind = "read"   -> 0
      [] kind = "unread" -> IF umn > 0 THEN umn ELSE 1
      [] kind = "count"  -> umn + 1
      [] OTHER           -> umn

SaveTouch(h) ==
    LET rows == DOMAIN run[h].seen
    IN  /\ run[h].at = "touch"
        /\ Save(h, [r \in rows |-> Touched(run[h].kind, run[h].seen[r])],
                IF run[h].kind = "count" THEN rows ELSE {},
                IF run[h].kind = "read" THEN rows ELSE {})
        /\ UNCHANGED <<member, conv, stored, touches, byHand, raced, gap>>

(* Marking several conversations is one UPDATE.                             *)
UpdateUmnConversations(R, read) ==
    /\ touches < MaxTouches
    /\ R # {}
    /\ seat' = [r \in Row |-> IF r \notin R THEN seat[r]
                              ELSE [seat[r] EXCEPT !.umn = IF read THEN 0
                                                           ELSE IF @ = 0 THEN 1 ELSE @]]
    /\ unseen' = IF read THEN unseen \ R ELSE unseen
    /\ touches' = touches + 1
    /\ UNCHANGED <<member, conv, run, stored, byHand, raced, gap, stray>>

Users ==
    \/ \E h \in Handler, u \in User : AddUser(h, u) \/ UpdateUser(h, u)
    \/ \E c \in Conversation, k \in CompanyUser : AddUserIntoConversation(c, k)
    \/ \E h \in Handler, c \in Conversation : CheckCustomer(h, c)
    \/ \E h \in Handler, r \in Row, kind \in {"read", "unread", "count", "modified"} :
         Touch(h, r, kind)
    \/ \E R \in SUBSET Taken, read \in BOOLEAN : UpdateUmnConversations(R, read)

Senders(kind) == IF kind \in {"compose", "schedule"} THEN User ELSE {None}

Messages ==
    \E h \in Handler, c \in Conversation, kind \in Kind, x \in Item : \E s \in Senders(kind) :
      OpenConversation(h, c, kind, x, s) \/ BeginMessage(h, c, kind, x, s)

Proceed(h) ==
    \/ CommitJoin(h)
    \/ CommitOpen(h)
    \/ AddCustomerFromExcel(h)
    \/ CommitMessage(h) \/ Refuse(h) \/ ReviveFails(h)
    \/ SaveTouch(h)
    \/ Fail(h)

Next ==
    \/ Users
    \/ Messages
    \/ \E c \in Conversation : Deactivate(c)
    \/ \E h \in Handler : Proceed(h)

Spec == Init /\ [][Next]_vars

-----------------------------------------------------------------------------
(* Properties *)

Member == [user : User \cup {None}, active : BOOLEAN]
Seat   == [conv : Conversation \cup {None}, of : CompanyUser \cup {None}, umn : Nat]
Place  == {"idle", "join", "open", "message", "file", "touch"}

(* Rows and requests are well typed, and a request names rows that exist.   *)
TypeOK ==
    /\ member \in [CompanyUser -> Member]
    /\ conv \in [Conversation -> {"none", "active", "inactive"}]
    /\ seat \in [Row -> Seat]
    /\ \A h \in Handler : run[h].at \in Place /\ run[h].cu \in CompanyUser \cup {None}
    /\ stored \subseteq Item /\ touches \in Nat
    /\ unseen \cup stray \subseteq Taken

(* However users join, leave and come back while conversations are opened,  *)
(* nobody takes part twice in a conversation that nobody was added to by    *)
(* hand, unless two requests were adding him to the company at once: only   *)
(* then has he two rows of company_users, and from then on two seats in     *)
(* every new conversation.                                                  *)
SeatedOnce ==
    \A q, r \in Taken : /\ seat[q].conv = seat[r].conv
                        /\ Owner(q) = Owner(r)
                        /\ seat[q].conv \notin byHand
                        /\ Owner(q) \notin raced
                        => q = r

(* Every user of the company takes part in every conversation, whenever he  *)
(* joined, left and came back, unless a user once joined while one was      *)
(* being opened (or one was opened for nobody): then he, and all those who  *)
(* are given his seats later, miss it.                                      *)
SeatsComplete ==
    ~ gap => \A k \in Members, c \in Conversation :
               conv[c] # "none" => \E r \in Taken : seat[r].conv = c /\ seat[r].of = k

(* Concurrent handlers lose counts, but not the sign of them: a participant *)
(* whom a message was counted for is shown an unread conversation until it  *)
(* is cleared, unless a save set back a number that had changed since.      *)
UnreadIsShown == \A r \in unseen \ stray : seat[r].umn > 0

(* Delivering an item again, or failing after it was counted, never counts  *)
(* it twice.  (The first one of a stranger is; the realtime service counts  *)
(* those it announces itself.)                                              *)
CountedOnce == \A r \in Row : seat[r].umn <= Cardinality(stored) + touches + 1
=============================================================================
