------------------------------ MODULE OptOuts ------------------------------
(***************************************************************************)
(* Customers who do not want the messages of a campaign.  A row of         *)
(* customer_campaigns that is ACTIVE takes its customer out of its         *)
(* campaign.  The row comes from a suggestion that a user confirms, from   *)
(* the two forms that change a customer and from an imported file; no      *)
(* index keeps a pair to one row, and only the forms work in a             *)
(* transaction.  Every night the analyzer is trained with the sensitive    *)
(* words and the decided suggestions, and what it has learned is marked    *)
(* when it answers.                                                        *)
(***************************************************************************)
EXTENDS Integers, FiniteSets, Sequences

CONSTANTS
    Customer, Campaign,
    RowId,        \* identifiers of rows of customer_campaigns
    Suggestion,   \* identifiers of suggestions
    Word,         \* identifiers of sensitive words that are for training
    Message,      \* inbound messages of customers
    Handler,      \* the requests and calls served at once
    Direction,    \* directions of messages; the analyzer learns each by itself
    MaxRequests,  \* bound on requests and calls
    MaxBatches,   \* bound on batches on their way to the analyzer
    MaxFaults,    \* bound on requests that stop halfway
    None          \* no customer, campaign, row, message...

ASSUME ConstantsAssumption ==
    /\ None \notin Customer \cup Campaign \cup RowId \cup Message \cup Suggestion
    /\ Direction # {}
    /\ MaxRequests \in Nat /\ MaxBatches \in Nat /\ MaxFaults \in Nat

VARIABLES
    rows,      \* rows[r]: the row r of customer_campaigns
    suggested, \* suggested[s]: the suggestion s
    run,       \* run[h]: the request in slot h
    words,     \* words[w]: the sensitive word w
    queue,     \* batches on their way to the analyzer
    answers,   \* what the analyzer says it has learned
    learned,   \* learned[d][s]: what the analyzer was taught of s
    requests,  \* requests so far
    faults,    \* requests that stopped halfway
    asked,     \* history: what was last asked for a pair: out, in, or unclear
    raced,     \* history: pairs that requests handled at once, or halfway
    redecided  \* history: suggestions decided otherwise than was sent

table    == <<rows, asked, raced>>
training == <<words, queue, answers, learned>>
vars     == <<table, training, suggested, run, requests, faults, redecided>>

-----------------------------------------------------------------------------
(* Values *)

NoRow == [customer |-> None, campaign |-> None, status |-> "none"]

Row == [customer : Customer, campaign : Campaign, status : {"ACTIVE", "DELETE"}]

(* What a user decided of a suggestion: nothing yet (null), yes or no.      *)
Decision == {"none", "yes", "no"}

NoSuggestion == [message |-> None, customer |-> None, campaign |-> None, opt |-> "none",
                 decision |-> "none", trained |-> FALSE]

OptSuggestion == [message : Message \cup {None}, customer : Customer,
                  campaign : Campaign \cup {None}, opt : {"in", "out"},
                  decision : Decision, trained : BOOLEAN]

NoWord == [direction |-> None, status |-> "none", trained |-> FALSE]

Sensitive == [direction : Direction, status : {"ACTIVE", "INACTIVE", "DELETE"}, trained : BOOLEAN]

(* A request: the campaigns it concerns; the suggestion and the row it read;*)
(* the rows it read and those it keeps; what it lists.                      *)
Idle == [at |-> "idle", customer |-> None, campaigns |-> {}, s |-> None,
         read |-> NoSuggestion, row |-> None, now |-> {}, keep |-> {}, list |-> <<>>]

Place == {"idle", "form", "edit", "update", "saveDecision", "saveReason", "saveRow", "insert"}

Busy == {h \in Handler : run[h].at # "idle"}

RowsOf(c, k)      == {r \in RowId : rows[r].customer = c /\ rows[r].campaign = k}
RowsOfCustomer(c) == {r \in RowId : rows[r].customer = c}
IsOut(c, k)       == \E r \in RowsOf(c, k) : rows[r].status = "ACTIVE"

(* A select of one row without an order may return any.                     *)
AnyRowOf(c, k) == IF RowsOf(c, k) = {} THEN {None} ELSE RowsOf(c, k)

WordsOf(d)   == {w \in Word : words[w].direction = d}
ActiveOf(d)  == {w \in WordsOf(d) : words[w].status = "ACTIVE"}

(* Identifiers are generated, and never one that a request still knows.     *)
FreeRows == {r \in RowId : /\ rows[r] = NoRow
                           /\ \A h \in Busy : r # run[h].row /\ r \notin run[h].now}
FreeSuggestions == {s \in Suggestion : /\ suggested[s] = NoSuggestion
                                       /\ \A h \in Busy : s # run[h].s}

First == CHOOSE d \in Direction : TRUE

(* Words may have been learned in one direction, whichever it is.           *)
Init ==
    /\ rows = [r \in RowId |-> NoRow]
    /\ suggested = [s \in Suggestion |-> NoSuggestion]
    /\ run = [h \in Handler |-> Idle]
    /\ words \in [Word -> {NoWord, [direction |-> First, status |-> "ACTIVE", trained |-> TRUE]}]
    /\ queue = <<>> /\ answers = {}
    /\ learned = [d \in Direction |-> [s \in Suggestion |-> "none"]]
    /\ requests = 0 /\ faults = 0
    /\ asked = [p \in Customer \X Campaign |-> "unclear"]
    /\ raced = {} /\ redecided = {}

-----------------------------------------------------------------------------
(* The request in slot h begins, as the record next says.                   *)
Begin(h, next) ==
    LET c == next.customer
        met == {g \in Busy : run[g].customer = c}
    IN  /\ run[h].at = "idle"
        /\ requests < MaxRequests
        /\ requests' = requests + 1
        /\ run' = [run EXCEPT ![h] = next]
        /\ raced' = raced \cup UNION {{c} \X (next.campaigns \cap run[g].campaigns) : g \in met}
        /\ UNCHANGED <<rows, asked, training, suggested, faults, redecided>>

End(h) == run' = [run EXCEPT ![h] = Idle]

-----------------------------------------------------------------------------
(* Suggestions *)

(* Whether a suggestion for the message and campaign is there already; one  *)
(* without a campaign is never looked for.                                  *)
SuggestionExists(m, k) ==
    k # None /\ \E s \in Suggestion : suggested[s].message = m /\ suggested[s].campaign = k

(* The analyzer, or a word that matches, says that the message m asks to be *)
(* left out of the campaign k of the last message that c was sent, if it    *)
(* was of one.  It may say so again.                                        *)
DetectOptOut(h, m, c, k) ==
    /\ ~ SuggestionExists(m, k)
    /\ \E s \in FreeSuggestions :
         Begin(h, [Idle EXCEPT !.at = "insert", !.customer = c, !.s = s,
                               !.read = [NoSuggestion EXCEPT !.message = m, !.customer = c,
                                                             !.campaign = k, !.opt = "out"]])

(* A user suggests to take c out of a campaign, or back in.                 *)
SuggestByHand(h, c, k, opt) ==
    \E s \in FreeSuggestions :
      Begin(h, [Idle EXCEPT !.at = "insert", !.customer = c, !.s = s,
                            !.read = [NoSuggestion EXCEPT !.customer = c, !.campaign = k,
                                                          !.opt = opt]])

InsertSuggestion(h) ==
    /\ run[h].at = "insert"
    /\ suggested' = [suggested EXCEPT ![run[h].s] = run[h].read]
    /\ End(h)
    /\ UNCHANGED <<table, training, requests, faults, redecided>>

(* The user says no.  The rows of the pair stay as they are.                *)
RejectSuggestion(h, s, k) ==
    LET read == suggested[s]
    IN  /\ read # NoSuggestion
        /\ Begin(h, [Idle EXCEPT !.at = "saveDecision", !.customer = read.customer, !.s = s,
                                 !.read = [read EXCEPT !.decision = "no",
                                             !.campaign = IF k = None THEN @ ELSE k]])

(* The user says yes, and of which campaign.  The pair's row is looked up   *)
(* before anything is saved.                                                *)
ConfirmSuggestion(h, s, k) ==
    LET read == suggested[s]
    IN  /\ read # NoSuggestion
        /\ \E r \in AnyRowOf(read.customer, k) :
             Begin(h, [Idle EXCEPT !.at = "saveDecision", !.customer = read.customer,
                                   !.campaigns = {k}, !.s = s, !.row = r,
                                   !.read = [read EXCEPT !.decision = "yes",
                                                         !.campaign = k]])

(* The user words the reason of a suggestion, decided or not.               *)
UpdateReason(h, s) ==
    LET read == suggested[s]
    IN  /\ read # NoSuggestion
        /\ Begin(h, [Idle EXCEPT !.at = "saveReason", !.customer = read.customer, !.s = s,
                                 !.read = read])

(* The analyzer was taught of s, or will be when it reads the queue.        *)
WasSent(s) == \/ \E d \in Direction : learned[d][s] # "none"
              \/ \E i \in 1..Len(queue) : s \in DOMAIN queue[i].labels

(* save() writes the suggestion as it was read and changed: a decision, or  *)
(* the mark of a training, that came between is written over.               *)
SaveSuggestion(h) ==
    LET s == run[h].s
        read == run[h].read
    IN  /\ suggested' = [suggested EXCEPT ![s] = read]
        /\ redecided' = IF WasSent(s) /\ read.decision # suggested[s].decision
                        THEN redecided \cup {s} ELSE redecided
        /\ UNCHANGED <<rows, raced, training, requests, faults>>

SaveReason(h) ==
    /\ run[h].at = "saveReason"
    /\ SaveSuggestion(h)
    /\ End(h)
    /\ UNCHANGED asked

AskedBy(h) == [asked EXCEPT ![<<run[h].read.customer, run[h].read.campaign>>] = run[h].read.opt]

(* Who says yes has asked, and the pair's row is still to be saved.         *)
SaveDecision(h) ==
    /\ run[h].at = "saveDecision"
    /\ SaveSuggestion(h)
    /\ IF run[h].read.decision = "yes"
       THEN run' = [run EXCEPT ![h].at = "saveRow"] /\ asked' = AskedBy(h)
       ELSE End(h) /\ UNCHANGED asked

(* Mutant of StatusFor: who comes back in gets the wrong status.            *)
StatusForInactive(opt) == IF opt = "out" THEN "ACTIVE" ELSE "INACTIVE"

StatusFor(opt) == IF opt = "out" THEN "ACTIVE" ELSE "DELETE"

RowSaved(h) == [customer |-> run[h].read.customer, campaign |-> run[h].read.campaign,
                status |-> StatusFor(run[h].read.opt)]

(* Mutant of SaveRow: a row that is there is left as it is.                 *)
SaveNewRow(h) ==
    /\ run[h].at = "saveRow"
    /\ IF run[h].row = None THEN \E r \in FreeRows : rows' = [rows EXCEPT ![r] = RowSaved(h)]
       ELSE UNCHANGED rows
    /\ asked' = IF run[h].s = None THEN AskedBy(h) ELSE asked
    /\ End(h)
    /\ UNCHANGED <<suggested, training, requests, faults, raced, redecided>>

(* The row found is saved with its status; one that was deleted meanwhile   *)
(* is inserted again.  Without a row a new one is inserted.  (A line of a   *)
(* file, which has no suggestion, asks by its row.)                         *)
SaveRow(h) ==
    /\ run[h].at = "saveRow"
    /\ \E r \in (IF run[h].row = None THEN FreeRows ELSE {run[h].row}) :
         rows' = [rows EXCEPT ![r] = RowSaved(h)]
    /\ asked' = IF run[h].s = None THEN AskedBy(h) ELSE asked
    /\ End(h)
    /\ UNCHANGED <<suggested, training, requests, faults, raced, redecided>>

-----------------------------------------------------------------------------
(* Forms and files *)

(* The form of a conversation shows the rows of its customer.               *)
OpenForm(h, c) ==
    Begin(h, [Idle EXCEPT !.at = "form", !.customer = c, !.campaigns = Campaign,
                          !.now = RowsOfCustomer(c)])

(* The user keeps some of them and adds campaigns; the rows are read again. *)
EditCustomer(h, keep, K) ==
    /\ run[h].at = "form"
    /\ keep \subseteq run[h].now
    /\ run' = [run EXCEPT ![h].at = "edit", ![h].keep = keep,
                          ![h].now = RowsOfCustomer(run[h].customer),
                          ![h].list = [k \in K |-> "ACTIVE"]]
    /\ UNCHANGED <<table, suggested, training, requests, faults, redecided>>

(* Where rows for the campaigns K may be inserted.                          *)
Places(K) == {f \in [K -> FreeRows] : \A j, k \in K : j # k => f[j] # f[k]}

(* The rows without those in gone, and with new ones at f.                  *)
Rewritten(c, f, gone) ==
    [r \in RowId |->
       IF \E k \in DOMAIN f : f[k] = r
       THEN [customer |-> c, campaign |-> CHOOSE k \in DOMAIN f : f[k] = r, status |-> "ACTIVE"]
       ELSE IF r \in gone THEN NoRow ELSE rows[r]]

(* What a form without the rows in gone, and with the campaigns K, asks.    *)
AskedByForm(c, K, gone) ==
    [p \in DOMAIN asked |->
       LET of == RowsOf(c, p[2])
       IN  IF p[1] = c /\ p[2] \in K                  THEN "out"
           ELSE IF p[1] # c \/ of \cap gone = {}       THEN asked[p]
           ELSE IF of \subseteq gone                   THEN "in"
           ELSE "unclear"]

SaveForm(h, gone) ==
    LET c == run[h].customer
        K == DOMAIN run[h].list
    IN  /\ run[h].at = "edit"
        /\ \E f \in Places(K) : rows' = Rewritten(c, f, gone)
        /\ asked' = AskedByForm(c, K, run[h].now \ run[h].keep)
        /\ End(h)
        /\ UNCHANGED <<suggested, training, requests, faults, raced, redecided>>

(* New campaigns get rows, whatever rows there are; the rows read that are  *)
(* not in the user's list are deleted, those the user never saw too.        *)
UpdateCustomerCampaigns(h) == SaveForm(h, run[h].now \ run[h].keep)

(* What to create is what has no active row now.                            *)
SplitCreateOrUpdate(c, list) ==
    [k \in DOMAIN list |-> IF list[k] # "ACTIVE" THEN "delete"
                           ELSE IF IsOut(c, k) THEN "update" ELSE "create"]

(* The form of the list of customers names campaigns and their status; it   *)
(* is checked and split before the transaction.  The list is what comes of  *)
(* it: a campaign to be created that somebody has deleted is passed over    *)
(* (addCustomerToCampaign only logs it), the rest is committed and then the *)
(* answer is an error, so the form does as one without that campaign.       *)
BeginUpdate(h, c, list) ==
    Begin(h, [Idle EXCEPT !.at = "update", !.customer = c, !.campaigns = DOMAIN list,
                          !.list = SplitCreateOrUpdate(c, list)])

(* deleteCustomerCampaign finds every row of a pair; updateCustomerCampaign *)
(* one of them, of whatever status, and throws when there is none.          *)
DeletedRows(c, K) == UNION {RowsOf(c, k) : k \in K}
UpdatedRows(c, K) == {g \in [K -> RowId] : \A k \in K : g[k] \in RowsOf(c, k)}

(* One transaction deletes rows, inserts and updates.                       *)
UpdateCustomer(h) ==
    LET c == run[h].customer
        list == run[h].list
        To(what) == {k \in DOMAIN list : list[k] = what}
        gone == DeletedRows(c, To("delete"))
    IN  /\ run[h].at = "update"
        /\ IF UpdatedRows(c, To("update")) = {}
           THEN UNCHANGED <<rows, asked>>
           ELSE /\ \E f \in Places(To("create")) :
                   \E g \in UpdatedRows(c, To("update")) :
                     rows' = [r \in RowId |->
                                IF \E k \in DOMAIN g : g[k] = r
                                THEN [rows[r] EXCEPT !.status = "ACTIVE"]
                                ELSE Rewritten(c, f, gone)[r]]
                /\ asked' = [p \in DOMAIN asked |->
                               IF p[1] = c /\ p[2] \in DOMAIN list
                               THEN IF p[2] \in To("delete") THEN "in" ELSE "out"
                               ELSE asked[p]]
        /\ End(h)
        /\ UNCHANGED <<suggested, training, requests, faults, raced, redecided>>

(* A customer that is created, or that a file gives to a company, gets its  *)
(* campaigns' rows without a look at what is there.  (A deleted campaign is *)
(* passed over, as above: nothing happens.)                                 *)
AddCustomerToCampaign(h, c, k) ==
    Begin(h, [Idle EXCEPT !.at = "edit", !.customer = c, !.campaigns = {k},
                          !.list = [j \in {k} |-> "ACTIVE"]])

(* A file names a customer that the company has: the pair's row is looked   *)
(* up, and saved or inserted outside the transaction.                       *)
ImportRow(h, c, k) ==
    \E r \in AnyRowOf(c, k) :
      Begin(h, [Idle EXCEPT !.at = "saveRow", !.customer = c, !.campaigns = {k}, !.row = r,
                            !.read = [NoSuggestion EXCEPT !.customer = c, !.campaign = k,
                                                          !.opt = "out"]])

(* A form's transaction rolls back; anything else stops where it is.        *)
Stops(h) ==
    /\ run[h].at \notin {"idle", "form"}
    /\ faults < MaxFaults
    /\ faults' = faults + 1
    /\ raced' = IF run[h].at = "saveRow" THEN raced \cup ({run[h].customer} \X run[h].campaigns)
                ELSE raced
    /\ End(h)
    /\ UNCHANGED <<rows, asked, training, suggested, requests, redecided>>

-----------------------------------------------------------------------------
(* The training of the analyzer *)

(* The suggestions of a message to leave a campaign that a user decided.    *)
Decided == {s \in Suggestion : /\ suggested[s].opt = "out" /\ suggested[s].message # None
                               /\ suggested[s].decision # "none"}

(* Words for d that are not marked as learned; one that was deleted today   *)
(* after it was learned counts as well.                                     *)
NewWords(d, today) ==
    {w \in WordsOf(d) : \/ words[w].status = "ACTIVE" /\ ~ words[w].trained
                        \/ words[w].status = "DELETE" /\ words[w].trained /\ today}

Send(d) ==
    /\ Len(queue) < MaxBatches
    /\ ActiveOf(d) # {}
    /\ queue' = Append(queue, [direction |-> d, words |-> ActiveOf(d),
                               labels |-> [s \in Decided |-> suggested[s].decision]])
    /\ UNCHANGED <<table, words, answers, learned, suggested, run, requests, faults, redecided>>

(* Mutant of TrainSensitive: suggestions alone are not sent.                *)
TrainNewWords(d, today) ==
    /\ NewWords(d, today) # {}
    /\ Send(d)

(* Every night, for a direction: when there are new words or suggestions to *)
(* learn, everything is sent; nothing when the direction has no words.      *)
TrainSensitive(d, today) ==
    /\ NewWords(d, today) # {} \/ \E s \in Decided : ~ suggested[s].trained
    /\ Send(d)

(* The analyzer learns a batch, and answers with its suggestions.           *)
Learn ==
    LET batch == Head(queue)
        taught == DOMAIN batch.labels
    IN  /\ queue # <<>>
        /\ queue' = Tail(queue)
        /\ learned' = [learned EXCEPT ![batch.direction] =
                         [s \in Suggestion |-> IF s \in taught THEN batch.labels[s] ELSE "none"]]
        /\ answers' = answers \cup {[words |-> batch.words, suggestions |-> taught]}
        /\ UNCHANGED <<table, words, suggested, run, requests, faults, redecided>>

Mark(a, taught) ==
    /\ answers' = answers \ {a}
    /\ words' = [w \in Word |-> IF w \in a.words THEN [words[w] EXCEPT !.trained = TRUE] ELSE words[w]]
    /\ suggested' = [s \in Suggestion |-> IF s \in taught THEN [suggested[s] EXCEPT !.trained = TRUE]
                                                           ELSE suggested[s]]
    /\ UNCHANGED <<table, queue, learned, run, requests, faults, redecided>>

(* Mutant of UpdateTrainStatus: all that are decided by now are marked.     *)
MarkDecided(a) == Mark(a, Decided)

UpdateTrainStatus(a) == Mark(a, a.suggestions)

-----------------------------------------------------------------------------
(* Sensitive words *)

EditWord(w, word) ==
    /\ requests < MaxRequests
    /\ words' = [words EXCEPT ![w] = word]
    /\ requests' = requests + 1
    /\ UNCHANGED <<table, queue, answers, learned, suggested, run, faults, redecided>>

CreateSensitive(w, d) ==
    /\ words[w] = NoWord
    /\ EditWord(w, [direction |-> d, status |-> "ACTIVE", trained |-> FALSE])

(* A word that is changed, or moved to another direction, stays learned.    *)
UpdateSensitive(w, d, status) ==
    /\ words[w] # NoWord
    /\ EditWord(w, [words[w] EXCEPT !.direction = d, !.status = status])

DeleteSensitive(w) ==
    /\ words[w].status = "ACTIVE"
    /\ EditWord(w, [words[w] EXCEPT !.status = "DELETE"])

Words ==
    \E w \in Word :
      \/ \E d \in Direction :
           CreateSensitive(w, d) \/ \E status \in {"ACTIVE", "INACTIVE"} : UpdateSensitive(w, d, status)
      \/ DeleteSensitive(w)

-----------------------------------------------------------------------------
Request(h) ==
    \/ \E c \in Customer, k \in Campaign \cup {None} :
         \/ \E m \in Message : DetectOptOut(h, m, c, k)
         \/ \E opt \in {"in", "out"} : SuggestByHand(h, c, k, opt)
    \/ \E s \in Suggestion, k \in Campaign \cup {None} : RejectSuggestion(h, s, k)
    \/ \E s \in Suggestion, k \in Campaign : ConfirmSuggestion(h, s, k)
    \/ \E s \in Suggestion : UpdateReason(h, s)
    \/ \E c \in Customer : OpenForm(h, c)
    \/ \E c \in Customer, K \in SUBSET Campaign \ {{}} :
         \E list \in [K -> {"ACTIVE", "DELETE"}] : BeginUpdate(h, c, list)
    \/ \E c \in Customer, k \in Campaign : AddCustomerToCampaign(h, c, k) \/ ImportRow(h, c, k)

Proceed(h) ==
    \/ InsertSuggestion(h)
    \/ SaveReason(h) \/ SaveDecision(h) \/ SaveRow(h)
    \/ \E keep \in SUBSET RowId, K \in SUBSET Campaign : EditCustomer(h, keep, K)
    \/ UpdateCustomerCampaigns(h)
    \/ UpdateCustomer(h)
    \/ Stops(h)

Next ==
    \/ \E h \in Handler : Request(h) \/ Proceed(h)
    \/ Words
    \/ \E d \in Direction, today \in BOOLEAN : TrainSensitive(d, today)
    \/ Learn
    \/ \E a \in answers : UpdateTrainStatus(a)

(* The nightly training comes, for a direction that has words, and the      *)
(* analyzer and the queues work.                                            *)
Fairness ==
    /\ WF_vars(\E d \in Direction : TrainSensitive(d, FALSE))
    /\ WF_vars(Learn)
    /\ WF_vars(\E a \in answers : UpdateTrainStatus(a))

Spec == Init /\ [][Next]_vars /\ Fairness

-----------------------------------------------------------------------------
(* Properties *)

(* Rows, suggestions and requests are well typed.                           *)
TypeOK ==
    /\ rows \in [RowId -> Row \cup {NoRow}]
    /\ suggested \in [Suggestion -> OptSuggestion \cup {NoSuggestion}]
    /\ words \in [Word -> Sensitive \cup {NoWord}]
    /\ \A h \in Handler : run[h].at \in Place
    /\ asked \in [Customer \X Campaign -> {"out", "in", "unclear"}]
    /\ raced \subseteq Customer \X Campaign /\ redecided \subseteq Suggestion

(* The decision is saved, the pair's row is not.                            *)
Saving(c, k) == \E h \in Busy : /\ run[h].at = "saveRow"
                                /\ run[h].customer = c /\ k \in run[h].campaigns

(* What was last asked for a customer and a campaign stands: the customer   *)
(* is out after an answer or a form that says so and back in after one that *)
(* says that, once the row is saved, unless requests for the pair were      *)
(* handled at once, one stopped halfway, or, to come back in, the pair has  *)
(* several rows.                                                            *)
AnswerStands ==
    \A c \in Customer, k \in Campaign :
        <<c, k>> \in raced \/ Saving(c, k)
        \/ /\ asked[<<c, k>>] = "out" => IsOut(c, k)
           /\ asked[<<c, k>>] = "in"  => ~ IsOut(c, k) \/ \E q, r \in RowsOf(c, k) : q # r

(* What is marked as learned was taught as the user decided it, unless the  *)
(* user decided otherwise since: then nothing unmarks it.                   *)
LearnedIsDecided ==
    \A s \in Suggestion :
        suggested[s].trained =>
            \/ \E d \in Direction : learned[d][s] = suggested[s].decision
            \/ s \in redecided

(* A suggestion of a message that a user decided is some time learned,      *)
(* unless somebody who read it before the decision wrote the decision away, *)
(* or no direction has a word left to be trained with.                      *)
DecisionIsLearned ==
    \A s \in Suggestion :
        (s \in Decided) ~> \/ suggested[s].trained \/ suggested[s].decision = "none"
                           \/ \A d \in Direction : ActiveOf(d) = {}
=============================================================================
