--------------------------- MODULE OptOutsProofs ---------------------------
(***************************************************************************)
(* Type correctness of OptOuts, that what is marked as learned was taught  *)
(* as it was decided, and that users' answers to a suggestion stand, for   *)
(* any number of suggestions, words, directions, requests and batches.     *)
(***************************************************************************)
EXTENDS OptOuts, TLAPS

List == UNION {[K -> {"ACTIVE", "DELETE", "create", "update", "delete"}] : K \in SUBSET Campaign}

Requested == [at : Place, customer : Customer \cup {None}, campaigns : SUBSET Campaign,
              s : Suggestion \cup {None}, read : OptSuggestion \cup {NoSuggestion},
              row : RowId \cup {None}, now : SUBSET RowId, keep : SUBSET RowId, list : List]

Batch  == [direction : Direction, words : SUBSET Word,
           labels : UNION {[S -> {"yes", "no"}] : S \in SUBSET Suggestion}]
Answer == [words : SUBSET Word, suggestions : SUBSET Suggestion]

RunType == run \in [Handler -> Requested]

(* What a request read is of a suggestion that is there, and nothing of it  *)
(* changes but the decision, the campaign and the mark.                     *)
Proper(q) ==
    /\ q.at # "idle" => q.customer \in Customer
    /\ q.at \in {"saveDecision", "saveReason"} =>
         /\ q.s \in Suggestion /\ suggested[q.s] \in OptSuggestion /\ q.read \in OptSuggestion
         /\ q.read.message = suggested[q.s].message /\ q.read.opt = suggested[q.s].opt
    /\ q.at = "saveDecision" /\ q.read.decision = "yes" => q.read.campaign \in Campaign
    /\ q.at = "saveRow" => q.read \in OptSuggestion /\ q.read.campaign \in Campaign
    /\ q.at = "insert" =>
         /\ q.s \in Suggestion /\ suggested[q.s] = NoSuggestion /\ q.read \in OptSuggestion
         /\ q.read.decision = "none" /\ ~ q.read.trained

AllProper == \A h \in Handler : Proper(run[h])

InsertsApart == \A g, h \in Handler :
    run[g].at = "insert" /\ run[h].at = "insert" /\ run[g].s = run[h].s => g = h

Exist(W, S) == /\ \A w \in W : words[w] # NoWord
               /\ \A s \in S : suggested[s] # NoSuggestion

TrainingType ==
    /\ learned \in [Direction -> [Suggestion -> Decision]]
    /\ queue \in Seq(Batch)
    /\ answers \subseteq Answer
    /\ \A i \in 1..Len(queue) : Exist(queue[i].words, DOMAIN queue[i].labels)
    /\ \A a \in answers : Exist(a.words, a.suggestions)

RunInv  == RunType /\ AllProper /\ InsertsApart
TypeInv == TypeOK /\ RunInv /\ TrainingType

LEMMA IdleType == Idle \in Requested /\ Proper(Idle) /\ Idle.at = "idle"
<1>1. Idle.list \in [{} -> {"ACTIVE", "DELETE", "create", "update", "delete"}]
  BY DEF Idle
<1>2. Idle.list \in List
  BY <1>1 DEF List
<1>3. Idle \in Requested
  BY <1>2 DEF Idle, Requested, Place
<1>4. QED
  BY <1>3 DEF Idle, Proper

LEMMA NoneIsNothing ==
  /\ NoSuggestion \notin OptSuggestion /\ NoRow \notin Row /\ NoWord \notin Sensitive
BY DEF NoSuggestion, OptSuggestion, NoRow, Row, NoWord, Sensitive

LEMMA InitType == Init => TypeInv
<1> SUFFICES ASSUME Init PROVE TypeInv
  OBVIOUS
<1>1. RunInv
  BY IdleType DEF Init, RunInv, RunType, AllProper, InsertsApart
<1>2. words \in [Word -> Sensitive \cup {NoWord}]
  <2>1. First \in Direction
    BY ConstantsAssumption DEF First
  <2>2. [direction |-> First, status |-> "ACTIVE", trained |-> TRUE] \in Sensitive
    BY <2>1 DEF Sensitive
  <2>3. QED
    BY <2>2 DEF Init
<1>3. TypeOK
  BY <1>2, IdleType DEF Init, TypeOK, Requested
<1>4. TrainingType
  <2>1. queue = <<>> /\ answers = {}
    BY DEF Init
  <2>2. queue \in Seq(Batch) /\ Len(queue) = 0
    BY <2>1
  <2>3. learned \in [Direction -> [Suggestion -> Decision]]
    BY DEF Init, Decision
  <2>4. QED
    BY <2>1, <2>2, <2>3 DEF TrainingType
<1>5. QED
  BY <1>1, <1>3, <1>4 DEF TypeInv

(* A request begins, goes on or ends as q.                                  *)
LEMMA RunStep ==
  ASSUME TypeInv, NEW h \in Handler, NEW q \in Requested, run' = [run EXCEPT ![h] = q],
         suggested' = suggested, Proper(q),
         q.at = "insert" => \A g \in Handler : run[g].at = "insert" => run[g].s # q.s
  PROVE  RunInv'
<1>1. RunType'
  BY DEF TypeInv, RunInv, RunType
<1>2. \A g \in Handler : g # h => run'[g] = run[g]
  BY DEF TypeInv, RunInv, RunType
<1>3. run'[h] = q
  BY DEF TypeInv, RunInv, RunType
<1>4. AllProper'
  BY <1>2, <1>3 DEF TypeInv, RunInv, AllProper, Proper
<1>5. InsertsApart'
  BY <1>2, <1>3 DEF TypeInv, RunInv, InsertsApart
<1>6. QED
  BY <1>1, <1>4, <1>5 DEF RunInv

(* What a batch in the queue holds.                                         *)
LEMMA BatchType ==
  ASSUME TrainingType, NEW i \in 1..Len(queue)
  PROVE  /\ queue[i] \in Batch /\ queue[i].direction \in Direction /\ queue[i].words \subseteq Word
         /\ DOMAIN queue[i].labels \subseteq Suggestion
         /\ \A s \in DOMAIN queue[i].labels : queue[i].labels[s] \in {"yes", "no"}
<1>1. queue[i] \in Batch
  BY DEF TrainingType
<1>2. queue[i].labels \in UNION {[S -> {"yes", "no"}] : S \in SUBSET Suggestion}
  BY <1>1 DEF Batch
<1>3. PICK S \in SUBSET Suggestion : queue[i].labels \in [S -> {"yes", "no"}]
  BY <1>2
<1>4. QED
  BY <1>1, <1>3 DEF Batch

(* A step without the analyzer.                                             *)
LEMMA TrainingStays ==
  ASSUME TypeInv, UNCHANGED training,
         \A s \in Suggestion : suggested[s] # NoSuggestion => suggested'[s] # NoSuggestion
  PROVE  TrainingType'
<1>1. words' = words /\ queue' = queue /\ answers' = answers /\ learned' = learned
  BY DEF training
<1>2. \A i \in 1..Len(queue) : DOMAIN queue[i].labels \subseteq Suggestion
  BY BatchType DEF TypeInv
<1>3. \A a \in answers : a.suggestions \subseteq Suggestion
  BY DEF TypeInv, TrainingType, Answer
<1>4. QED
  BY <1>1, <1>2, <1>3 DEF TypeInv, TrainingType, Exist

LEMMA BeginType ==
  ASSUME TypeInv, NEW h \in Handler, NEW q \in Requested, Begin(h, q), Proper(q), q.at # "idle",
         q.at = "insert" => \A g \in Handler : run[g].at = "insert" => run[g].s # q.s
  PROVE  TypeInv'
<1>1. /\ run' = [run EXCEPT ![h] = q] /\ UNCHANGED <<rows, asked, training, suggested, redecided>>
  BY DEF Begin
<1>2. RunInv'
  BY <1>1, RunStep
<1>3. TrainingType'
  BY <1>1, TrainingStays
<1>4. raced' \subseteq Customer \X Campaign
  <2>1. q.customer \in Customer /\ q.campaigns \subseteq Campaign
    BY DEF Proper, Requested
  <2>2. \A g \in Busy : {q.customer} \X (q.campaigns \cap run[g].campaigns) \subseteq Customer \X Campaign
    BY <2>1
  <2>3. QED
    BY <2>2 DEF Begin, TypeInv, TypeOK
<1>5. TypeOK'
  BY <1>1, <1>2, <1>4 DEF TypeInv, TypeOK, training, RunInv, RunType, Requested
<1>6. QED
  BY <1>2, <1>3, <1>5 DEF TypeInv

-----------------------------------------------------------------------------
(* Requests that begin *)

LEMMA RowsOfType ==
  ASSUME NEW c, NEW k
  PROVE  RowsOf(c, k) \subseteq RowId /\ AnyRowOf(c, k) \subseteq RowId \cup {None}
         /\ RowsOfCustomer(c) \subseteq RowId
BY DEF RowsOf, AnyRowOf, RowsOfCustomer

LEMMA FreeSuggestionType ==
  ASSUME NEW s \in FreeSuggestions
  PROVE  /\ s \in Suggestion /\ suggested[s] = NoSuggestion
         /\ \A g \in Handler : run[g].at = "insert" => run[g].s # s
BY DEF FreeSuggestions, Busy

(* A suggestion that is inserted.                                           *)
LEMMA NewSuggestionType ==
  ASSUME TypeInv, NEW h \in Handler, NEW c \in Customer, NEW s \in FreeSuggestions,
         NEW read \in OptSuggestion, read.decision = "none", ~ read.trained,
         Begin(h, [Idle EXCEPT !.at = "insert", !.customer = c, !.s = s, !.read = read])
  PROVE  TypeInv'
<1> DEFINE q == [Idle EXCEPT !.at = "insert", !.customer = c, !.s = s, !.read = read]
<1>1. /\ s \in Suggestion /\ suggested[s] = NoSuggestion
      /\ \A g \in Handler : run[g].at = "insert" => run[g].s # s
  BY FreeSuggestionType
<1>2. q \in Requested /\ q.at = "insert" /\ q.customer = c /\ q.s = s /\ q.read = read
  BY <1>1, IdleType DEF Requested, Place
<1>3. Proper(q)
  BY <1>1, <1>2 DEF Proper
<1> HIDE DEF q
<1>4. QED
  BY <1>1, <1>2, <1>3, BeginType DEF q

LEMMA SuggestType ==
  ASSUME TypeInv, NEW h \in Handler, NEW c \in Customer, NEW k \in Campaign \cup {None},
         \/ \E m \in Message : DetectOptOut(h, m, c, k)
         \/ \E opt \in {"in", "out"} : SuggestByHand(h, c, k, opt)
  PROVE  TypeInv'
<1>1. ASSUME NEW m \in Message, DetectOptOut(h, m, c, k) PROVE TypeInv'
  <2> DEFINE read == [NoSuggestion EXCEPT !.message = m, !.customer = c, !.campaign = k, !.opt = "out"]
  <2>1. read \in OptSuggestion /\ read.decision = "none" /\ ~ read.trained
    BY DEF NoSuggestion, OptSuggestion, Decision
  <2>2. PICK s \in FreeSuggestions :
          Begin(h, [Idle EXCEPT !.at = "insert", !.customer = c, !.s = s, !.read = read])
    BY <1>1 DEF DetectOptOut
  <2> HIDE DEF read
  <2>3. QED
    BY <2>1, <2>2, NewSuggestionType
<1>2. ASSUME NEW opt \in {"in", "out"}, SuggestByHand(h, c, k, opt) PROVE TypeInv'
  <2> DEFINE read == [NoSuggestion EXCEPT !.customer = c, !.campaign = k, !.opt = opt]
  <2>1. read \in OptSuggestion /\ read.decision = "none" /\ ~ read.trained
    BY DEF NoSuggestion, OptSuggestion, Decision
  <2>2. PICK s \in FreeSuggestions :
          Begin(h, [Idle EXCEPT !.at = "insert", !.customer = c, !.s = s, !.read = read])
    BY <1>2 DEF SuggestByHand
  <2> HIDE DEF read
  <2>3. QED
    BY <2>1, <2>2, NewSuggestionType
<1>3. QED
  BY <1>1, <1>2

LEMMA SuggestedType ==
  ASSUME TypeInv, NEW s \in Suggestion, suggested[s] # NoSuggestion
  PROVE  suggested[s] \in OptSuggestion /\ suggested[s].customer \in Customer
BY DEF TypeInv, TypeOK, OptSuggestion

(* What may begin with a suggestion that is there, and does not insert.     *)
LEMMA ReadType ==
  ASSUME TypeInv, NEW h \in Handler, NEW q \in Requested, Begin(h, q),
         q.at \in {"saveDecision", "saveReason"}, q.s \in Suggestion,
         suggested[q.s] # NoSuggestion, q.customer = suggested[q.s].customer,
         q.read \in OptSuggestion,
         q.read.message = suggested[q.s].message, q.read.opt = suggested[q.s].opt,
         q.at = "saveDecision" /\ q.read.decision = "yes" => q.read.campaign \in Campaign
  PROVE  TypeInv'
<1>1. suggested[q.s] \in OptSuggestion /\ q.customer \in Customer
  BY SuggestedType
<1>2. Proper(q)
  BY <1>1 DEF Proper
<1>3. QED
  BY <1>2, BeginType

LEMMA RejectType ==
  ASSUME TypeInv, NEW h \in Handler, NEW s \in Suggestion, NEW k \in Campaign \cup {None},
         RejectSuggestion(h, s, k)
  PROVE  TypeInv'
<1> DEFINE old == suggested[s]
           camp == IF k = None THEN old.campaign ELSE k
           read == [old EXCEPT !.decision = "no", !.campaign = camp]
           q == [Idle EXCEPT !.at = "saveDecision", !.customer = old.customer, !.s = s, !.read = read]
<1>1. old # NoSuggestion /\ old \in OptSuggestion /\ old.customer \in Customer
  BY SuggestedType DEF RejectSuggestion
<1>2. camp \in Campaign \cup {None}
  BY <1>1 DEF OptSuggestion
<1>3. Begin(h, q)
  <2>1. [old EXCEPT !.decision = "no", !.campaign = IF k = None THEN @ ELSE k] = read
    OBVIOUS
  <2>2. QED
    BY <2>1 DEF RejectSuggestion
<1> HIDE DEF camp
<1>4. /\ read \in OptSuggestion /\ read.message = old.message /\ read.opt = old.opt
      /\ read.decision = "no"
  BY <1>1, <1>2 DEF OptSuggestion, Decision
<1> HIDE DEF read
<1>5. /\ q \in Requested /\ q.at = "saveDecision" /\ q.customer = old.customer /\ q.s = s
      /\ q.read = read
  BY <1>1, <1>4, IdleType DEF Requested, Place
<1> HIDE DEF q
<1>6. QED
  BY <1>1, <1>3, <1>4, <1>5, ReadType

LEMMA ConfirmType ==
  ASSUME TypeInv, NEW h \in Handler, NEW s \in Suggestion, NEW k \in Campaign,
         ConfirmSuggestion(h, s, k)
  PROVE  TypeInv'
<1> DEFINE old == suggested[s]
           read == [old EXCEPT !.decision = "yes", !.campaign = k]
<1>1. old # NoSuggestion /\ old \in OptSuggestion /\ old.customer \in Customer
  BY SuggestedType DEF ConfirmSuggestion
<1>2. PICK r \in RowId \cup {None} :
        Begin(h, [Idle EXCEPT !.at = "saveDecision", !.customer = old.customer,
                              !.campaigns = {k}, !.s = s, !.row = r, !.read = read])
  BY RowsOfType DEF ConfirmSuggestion
<1> DEFINE q == [Idle EXCEPT !.at = "saveDecision", !.customer = old.customer,
                              !.campaigns = {k}, !.s = s, !.row = r, !.read = read]
<1>3. /\ read \in OptSuggestion /\ read.message = old.message /\ read.opt = old.opt
      /\ read.campaign = k
  BY <1>1 DEF OptSuggestion, Decision
<1> HIDE DEF read
<1>4. /\ q \in Requested /\ q.at = "saveDecision" /\ q.customer = old.customer /\ q.s = s
      /\ q.read = read
  BY <1>1, <1>3, IdleType DEF Requested, Place
<1>5. Begin(h, q)
  BY <1>2
<1> HIDE DEF q
<1>6. QED
  BY <1>1, <1>3, <1>4, <1>5, ReadType

LEMMA ReasonType ==
  ASSUME TypeInv, NEW h \in Handler, NEW s \in Suggestion, UpdateReason(h, s)
  PROVE  TypeInv'
<1> DEFINE old == suggested[s]
           q == [Idle EXCEPT !.at = "saveReason", !.customer = old.customer, !.s = s, !.read = old]
<1>1. old # NoSuggestion /\ old \in OptSuggestion /\ old.customer \in Customer
  BY SuggestedType DEF UpdateReason
<1>2. Begin(h, q)
  BY DEF UpdateReason
<1>3. /\ q \in Requested /\ q.at = "saveReason" /\ q.customer = old.customer /\ q.s = s
      /\ q.read = old
  BY <1>1, IdleType DEF Requested, Place
<1> HIDE DEF q
<1>4. QED
  BY <1>1, <1>2, <1>3, ReadType

(* Forms and lines of files.                                                *)
LEMMA FormType ==
  ASSUME TypeInv, NEW h \in Handler, NEW q \in Requested, Begin(h, q),
         q.at \in {"form", "edit", "update"}, q.customer \in Customer
  PROVE  TypeInv'
<1>1. Proper(q) /\ q.at # "insert" /\ q.at # "idle"
  BY DEF Proper
<1>2. QED
  BY <1>1, BeginType

LEMMA OpenFormType ==
  ASSUME TypeInv, NEW h \in Handler, NEW c \in Customer, OpenForm(h, c)
  PROVE  TypeInv'
<1> DEFINE q == [Idle EXCEPT !.at = "form", !.customer = c, !.campaigns = Campaign,
                             !.now = RowsOfCustomer(c)]
<1>1. q \in Requested /\ q.at = "form" /\ q.customer = c
  BY IdleType, RowsOfType DEF Requested, Place
<1>2. Begin(h, q)
  BY DEF OpenForm
<1> HIDE DEF q
<1>3. QED
  BY <1>1, <1>2, FormType

LEMMA SplitType ==
  ASSUME NEW c \in Customer, NEW K \in SUBSET Campaign, NEW list \in [K -> {"ACTIVE", "DELETE"}]
  PROVE  SplitCreateOrUpdate(c, list) \in List /\ DOMAIN list = K
<1>1. SplitCreateOrUpdate(c, list) \in [K -> {"ACTIVE", "DELETE", "create", "update", "delete"}]
  BY DEF SplitCreateOrUpdate
<1>2. QED
  BY <1>1 DEF List

LEMMA BeginUpdateType ==
  ASSUME TypeInv, NEW h \in Handler, NEW c \in Customer, NEW K \in SUBSET Campaign,
         NEW list \in [K -> {"ACTIVE", "DELETE"}], BeginUpdate(h, c, list)
  PROVE  TypeInv'
<1> DEFINE split == SplitCreateOrUpdate(c, list)
           q == [Idle EXCEPT !.at = "update", !.customer = c, !.campaigns = DOMAIN list,
                             !.list = split]
<1>1. split \in List /\ DOMAIN list \subseteq Campaign
  BY SplitType
<1>2. Begin(h, q)
  BY DEF BeginUpdate
<1> HIDE DEF split
<1>3. q \in Requested /\ q.at = "update" /\ q.customer = c
  BY <1>1, IdleType DEF Requested, Place
<1> HIDE DEF q
<1>4. QED
  BY <1>2, <1>3, FormType

LEMMA AddToCampaignType ==
  ASSUME TypeInv, NEW h \in Handler, NEW c \in Customer, NEW k \in Campaign,
         AddCustomerToCampaign(h, c, k)
  PROVE  TypeInv'
<1> DEFINE list == [j \in {k} |-> "ACTIVE"]
           q == [Idle EXCEPT !.at = "edit", !.customer = c, !.campaigns = {k}, !.list = list]
<1>1. list \in [{k} -> {"ACTIVE", "DELETE", "create", "update", "delete"}]
  OBVIOUS
<1>2. list \in List
  BY <1>1 DEF List
<1>3. Begin(h, q)
  BY DEF AddCustomerToCampaign
<1> HIDE DEF list
<1>4. q \in Requested /\ q.at = "edit" /\ q.customer = c
  BY <1>2, IdleType DEF Requested, Place
<1> HIDE DEF q
<1>5. QED
  BY <1>3, <1>4, FormType

LEMMA ImportRowType ==
  ASSUME TypeInv, NEW h \in Handler, NEW c \in Customer, NEW k \in Campaign, ImportRow(h, c, k)
  PROVE  TypeInv'
<1> DEFINE read == [NoSuggestion EXCEPT !.customer = c, !.campaign = k, !.opt = "out"]
<1>1. PICK r \in RowId \cup {None} :
        Begin(h, [Idle EXCEPT !.at = "saveRow", !.customer = c, !.campaigns = {k}, !.row = r,
                              !.read = read])
  BY RowsOfType DEF ImportRow
<1> DEFINE q == [Idle EXCEPT !.at = "saveRow", !.customer = c, !.campaigns = {k}, !.row = r,
                              !.read = read]
<1>2. read \in OptSuggestion /\ read.campaign = k
  BY DEF NoSuggestion, OptSuggestion, Decision
<1> HIDE DEF read
<1>3. q \in Requested /\ q.at = "saveRow" /\ q.customer = c /\ q.read = read
  BY <1>2, IdleType DEF Requested, Place
<1>4. Begin(h, q)
  BY <1>1
<1> HIDE DEF q
<1>5. Proper(q)
  BY <1>2, <1>3 DEF Proper
<1>6. QED
  BY <1>3, <1>4, <1>5, BeginType

LEMMA RequestType ==
  ASSUME TypeInv, NEW h \in Handler, Request(h)
  PROVE  TypeInv'
BY SuggestType, RejectType, ConfirmType, ReasonType, OpenFormType, BeginUpdateType,
   AddToCampaignType, ImportRowType DEF Request

-----------------------------------------------------------------------------
(* Requests that go on *)

(* Every record of a busy request is typed.                                 *)
LEMMA BusyType ==
  ASSUME TypeInv, NEW h \in Handler, run[h].at # "idle"
  PROVE  run[h] \in Requested /\ run[h].customer \in Customer /\ Proper(run[h])
BY DEF TypeInv, RunInv, RunType, AllProper, Proper

(* A step of a request on the rows of customer_campaigns.                   *)
LEMMA RowsStep ==
  ASSUME TypeInv, NEW h \in Handler, NEW q \in Requested, run' = [run EXCEPT ![h] = q],
         Proper(q), q.at # "insert",
         rows' \in [RowId -> Row \cup {NoRow}],
         asked' \in [Customer \X Campaign -> {"out", "in", "unclear"}],
         raced' \subseteq Customer \X Campaign,
         suggested' = suggested, UNCHANGED training, redecided' = redecided
  PROVE  TypeInv'
<1>1. RunInv'
  BY RunStep
<1>2. TrainingType'
  BY TrainingStays
<1>3. TypeOK'
  BY <1>1 DEF TypeInv, TypeOK, training, RunInv, RunType, Requested
<1>4. QED
  BY <1>1, <1>2, <1>3 DEF TypeInv

LEMMA InsertType ==
  ASSUME TypeInv, NEW h \in Handler, InsertSuggestion(h)
  PROVE  TypeInv'
<1> DEFINE s == run[h].s
<1>1. /\ s \in Suggestion /\ suggested[s] = NoSuggestion /\ run[h].read \in OptSuggestion
  BY BusyType DEF InsertSuggestion, Proper
<1>2. /\ suggested' = [suggested EXCEPT ![s] = run[h].read] /\ run' = [run EXCEPT ![h] = Idle]
      /\ rows' = rows /\ asked' = asked /\ raced' = raced /\ UNCHANGED training
      /\ redecided' = redecided /\ run[h].at = "insert"
  BY DEF InsertSuggestion, End, table
<1>3. suggested' \in [Suggestion -> OptSuggestion \cup {NoSuggestion}]
  BY <1>1, <1>2 DEF TypeInv, TypeOK
<1>4. \A t \in Suggestion : t # s => suggested'[t] = suggested[t]
  BY <1>2 DEF TypeInv, TypeOK
<1>5. suggested'[s] \in OptSuggestion
  BY <1>1, <1>2 DEF TypeInv, TypeOK
<1>6. TrainingType'
  BY <1>1, <1>2, <1>4, <1>5, NoneIsNothing, TrainingStays
<1>7. run'[h] = Idle /\ \A g \in Handler : g # h => run'[g] = run[g]
  BY <1>2 DEF TypeInv, RunInv, RunType
<1>8. RunType'
  BY <1>2, IdleType DEF TypeInv, RunInv, RunType
<1>9. AllProper'
  <2> SUFFICES ASSUME NEW g \in Handler PROVE Proper(run[g])'
    BY DEF AllProper
  <2>1. CASE g = h
    BY <2>1, <1>7 DEF Proper, Idle
  <2>2. CASE g # h
    <3>1. Proper(run[g]) /\ run'[g] = run[g]
      BY <2>2, <1>7 DEF TypeInv, RunInv, AllProper
    <3>2. run[g].at = "insert" => run[g].s # s
      BY <2>2, <1>2 DEF TypeInv, RunInv, InsertsApart
    <3>3. run[g].at \in {"saveDecision", "saveReason"} => run[g].s # s
      BY <3>1, <1>1, NoneIsNothing DEF Proper
    <3>4. QED
      BY <3>1, <3>2, <3>3, <1>4 DEF Proper
  <2>3. QED
    BY <2>1, <2>2
<1>10. InsertsApart'
  BY <1>7, IdleType DEF TypeInv, RunInv, InsertsApart, Idle
<1>11. TypeOK'
  BY <1>2, <1>3, <1>8 DEF TypeInv, TypeOK, training, RunType, Requested
<1>12. QED
  BY <1>6, <1>8, <1>9, <1>10, <1>11 DEF TypeInv, RunInv

(* A suggestion is saved, and the request ends or goes on with the row.     *)
LEMMA SaveSuggestionType ==
  ASSUME TypeInv, NEW h \in Handler, SaveReason(h) \/ SaveDecision(h)
  PROVE  TypeInv'
<1> DEFINE s == run[h].s
           read == run[h].read
           q == [run[h] EXCEPT !.at = "saveRow"]
<1>1. /\ run[h].at \in {"saveReason", "saveDecision"} /\ run[h] \in Requested
      /\ run[h].customer \in Customer
      /\ s \in Suggestion /\ suggested[s] \in OptSuggestion /\ read \in OptSuggestion
      /\ read.message = suggested[s].message /\ read.opt = suggested[s].opt
  BY BusyType DEF SaveReason, SaveDecision, Proper
<1>2. /\ suggested' = [suggested EXCEPT ![s] = read]
      /\ redecided' \subseteq redecided \cup {s}
      /\ rows' = rows /\ raced' = raced /\ UNCHANGED training
      /\ asked' = asked \/ asked' = AskedBy(h)
  BY DEF SaveReason, SaveDecision, SaveSuggestion
<1>3. \/ run' = [run EXCEPT ![h] = Idle]
      \/ /\ run' = [run EXCEPT ![h] = q]
         /\ run[h].at = "saveDecision" /\ read.decision = "yes"
  BY DEF SaveReason, SaveDecision, End
<1>4. q \in Requested /\ q.at = "saveRow" /\ q.read = read /\ q.customer = run[h].customer
  BY <1>1 DEF Requested, Place
<1> HIDE DEF q
<1>5. /\ suggested' \in [Suggestion -> OptSuggestion \cup {NoSuggestion}]
      /\ \A t \in Suggestion : t # s => suggested'[t] = suggested[t]
      /\ suggested'[s] = read
  BY <1>1, <1>2 DEF TypeInv, TypeOK
<1>6. TrainingType'
  BY <1>1, <1>2, <1>5, NoneIsNothing, TrainingStays
<1>7. RunType'
  BY <1>3, <1>4, IdleType DEF TypeInv, RunInv, RunType
<1>8. /\ run'[h] \in {Idle, q} /\ (run'[h] = q => run[h].at = "saveDecision" /\ read.decision = "yes")
      /\ \A g \in Handler : g # h => run'[g] = run[g]
  <2>1. CASE run' = [run EXCEPT ![h] = Idle]
    <3>1. q # Idle
      BY <1>4, IdleType
    <3>2. QED
      BY <2>1, <3>1 DEF TypeInv, RunInv, RunType
  <2>2. CASE /\ run' = [run EXCEPT ![h] = q]
             /\ run[h].at = "saveDecision" /\ read.decision = "yes"
    BY <2>2 DEF TypeInv, RunInv, RunType
  <2>3. QED
    BY <2>1, <2>2, <1>3
<1>9. AllProper'
  <2> SUFFICES ASSUME NEW g \in Handler PROVE Proper(run[g])'
    BY DEF AllProper
  <2>1. CASE g = h
    <3>1. CASE run'[h] = Idle
      BY <2>1, <3>1 DEF Proper, Idle
    <3>2. CASE run'[h] = q
      <4>1. read.campaign \in Campaign
        BY <1>8, <3>2, BusyType DEF Proper
      <4>2. QED
        BY <2>1, <3>2, <4>1, <1>1, <1>4 DEF Proper
    <3>3. QED
      BY <1>8, <3>1, <3>2
  <2>2. CASE g # h
    <3>1. Proper(run[g]) /\ run'[g] = run[g]
      BY <2>2, <1>8 DEF TypeInv, RunInv, AllProper
    <3>2. run[g].at = "insert" => run[g].s # s
      BY <3>1, <1>1, NoneIsNothing DEF Proper
    <3>3. QED
      BY <3>1, <3>2, <1>1, <1>5 DEF Proper
  <2>3. QED
    BY <2>1, <2>2
<1>10. InsertsApart'
  BY <1>8, <1>4, IdleType DEF TypeInv, RunInv, InsertsApart
<1>11. TypeOK'
  <2>1. asked' \in [Customer \X Campaign -> {"out", "in", "unclear"}]
    BY <1>1, <1>2 DEF AskedBy, OptSuggestion, TypeInv, TypeOK
  <2>2. QED
    BY <1>1, <1>2, <1>5, <1>7, <2>1 DEF TypeInv, TypeOK, training, RunType, Requested
<1>12. QED
  BY <1>6, <1>7, <1>9, <1>10, <1>11 DEF TypeInv, RunInv

LEMMA SaveRowType ==
  ASSUME TypeInv, NEW h \in Handler, SaveRow(h)
  PROVE  TypeInv'
<1>1. run[h].read \in OptSuggestion /\ run[h].read.campaign \in Campaign
      /\ run[h] \in Requested /\ run[h].read.customer \in Customer /\ run[h].read.opt \in {"in", "out"}
  BY BusyType DEF SaveRow, Proper, OptSuggestion
<1>2. RowSaved(h) \in Row
  BY <1>1 DEF RowSaved, Row, StatusFor
<1>3. PICK r : /\ r \in (IF run[h].row = None THEN FreeRows ELSE {run[h].row})
               /\ rows' = [rows EXCEPT ![r] = RowSaved(h)]
  BY DEF SaveRow
<1>4. rows' \in [RowId -> Row \cup {NoRow}]
  BY <1>2, <1>3 DEF TypeInv, TypeOK
<1>5. asked' \in [Customer \X Campaign -> {"out", "in", "unclear"}]
  BY <1>1 DEF SaveRow, AskedBy, TypeInv, TypeOK
<1>6. /\ run' = [run EXCEPT ![h] = Idle] /\ raced' = raced /\ suggested' = suggested
      /\ UNCHANGED training /\ redecided' = redecided
  BY DEF SaveRow, End
<1>7. raced' \subseteq Customer \X Campaign
  BY <1>6 DEF TypeInv, TypeOK
<1>8. QED
  BY <1>4, <1>5, <1>6, <1>7, IdleType, RowsStep

LEMMA EditType ==
  ASSUME TypeInv, NEW h \in Handler, NEW keep \in SUBSET RowId, NEW K \in SUBSET Campaign,
         EditCustomer(h, keep, K)
  PROVE  TypeInv'
<1> DEFINE c == run[h].customer
           list == [k \in K |-> "ACTIVE"]
           q == [run[h] EXCEPT !.at = "edit", !.keep = keep, !.now = RowsOfCustomer(c), !.list = list]
<1>1. run[h] \in Requested /\ c \in Customer
  BY BusyType DEF EditCustomer
<1>2. list \in [K -> {"ACTIVE", "DELETE", "create", "update", "delete"}]
  OBVIOUS
<1>3. list \in List
  BY <1>2 DEF List
<1>4. run' = [run EXCEPT ![h] = q]
  BY DEF EditCustomer, TypeInv, RunInv, RunType
<1> HIDE DEF list
<1>5. q \in Requested /\ q.at = "edit" /\ q.customer = c
  BY <1>1, <1>3, RowsOfType DEF Requested, Place
<1> HIDE DEF q
<1>6. Proper(q)
  BY <1>1, <1>5 DEF Proper
<1>7. /\ rows' = rows /\ asked' = asked /\ raced' = raced /\ suggested' = suggested
      /\ UNCHANGED training /\ redecided' = redecided
  BY DEF EditCustomer, table
<1>8. QED
  BY <1>4, <1>5, <1>6, <1>7, RowsStep DEF TypeInv, TypeOK

LEMMA RewrittenType ==
  ASSUME TypeInv, NEW c \in Customer, NEW K \in SUBSET Campaign, NEW f \in Places(K), NEW gone
  PROVE  Rewritten(c, f, gone) \in [RowId -> Row \cup {NoRow}]
<1>1. DOMAIN f = K
  BY DEF Places
<1>2. \A r \in RowId : (\E k \in DOMAIN f : f[k] = r) =>
         (CHOOSE k \in DOMAIN f : f[k] = r) \in Campaign
  BY <1>1
<1>3. \A r \in RowId : (\E k \in DOMAIN f : f[k] = r) =>
         [customer |-> c, campaign |-> CHOOSE k \in DOMAIN f : f[k] = r, status |-> "ACTIVE"] \in Row
  BY <1>2 DEF Row
<1>4. QED
  BY <1>3 DEF Rewritten, TypeInv, TypeOK

LEMMA ListType ==
  ASSUME NEW list \in List
  PROVE  DOMAIN list \subseteq Campaign
BY DEF List

LEMMA SaveFormType ==
  ASSUME TypeInv, NEW h \in Handler, UpdateCustomerCampaigns(h)
  PROVE  TypeInv'
<1> DEFINE c == run[h].customer
           K == DOMAIN run[h].list
           gone == run[h].now \ run[h].keep
<1>1. c \in Customer /\ run[h].list \in List
  BY BusyType DEF UpdateCustomerCampaigns, SaveForm, Requested
<1>2. K \in SUBSET Campaign
  BY <1>1, ListType
<1>3. PICK f \in Places(K) : rows' = Rewritten(c, f, gone)
  BY DEF UpdateCustomerCampaigns, SaveForm
<1>4. rows' \in [RowId -> Row \cup {NoRow}]
  BY <1>1, <1>2, <1>3, RewrittenType
<1>5. asked' \in [Customer \X Campaign -> {"out", "in", "unclear"}]
  BY DEF UpdateCustomerCampaigns, SaveForm, AskedByForm, TypeInv, TypeOK
<1>6. /\ run' = [run EXCEPT ![h] = Idle] /\ raced' = raced /\ suggested' = suggested
      /\ UNCHANGED training /\ redecided' = redecided
  BY DEF UpdateCustomerCampaigns, SaveForm, End
<1>7. raced' \subseteq Customer \X Campaign
  BY <1>6 DEF TypeInv, TypeOK
<1>8. QED
  BY <1>4, <1>5, <1>6, <1>7, IdleType, RowsStep

LEMMA UpdateCustomerType ==
  ASSUME TypeInv, NEW h \in Handler, UpdateCustomer(h)
  PROVE  TypeInv'
<1> DEFINE c == run[h].customer
           list == run[h].list
           To(what) == {k \in DOMAIN list : list[k] = what}
           gone == DeletedRows(c, To("delete"))
<1>1. c \in Customer /\ list \in List
  BY BusyType DEF UpdateCustomer, Requested
<1>2. DOMAIN list \subseteq Campaign
  BY <1>1, ListType
<1>3. rows' \in [RowId -> Row \cup {NoRow}] /\ asked' \in [Customer \X Campaign -> {"out", "in", "unclear"}]
  <2>1. CASE UNCHANGED <<rows, asked>>
    BY <2>1 DEF TypeInv, TypeOK
  <2>2. CASE ~ UNCHANGED <<rows, asked>>
    <3>1. PICK f \in Places(To("create")), g \in UpdatedRows(c, To("update")) :
            rows' = [r \in RowId |-> IF \E k \in DOMAIN g : g[k] = r
                                     THEN [rows[r] EXCEPT !.status = "ACTIVE"]
                                     ELSE Rewritten(c, f, gone)[r]]
      BY <2>2 DEF UpdateCustomer
    <3>2. Rewritten(c, f, gone) \in [RowId -> Row \cup {NoRow}]
      BY <1>1, <1>2, RewrittenType
    <3>3. \A k \in DOMAIN g : k \in Campaign /\ rows[g[k]].campaign = k /\ g[k] \in RowId
      BY <1>2 DEF UpdatedRows, RowsOf
    <3>4. \A k \in DOMAIN g : rows[g[k]] \in Row
      BY <3>3, ConstantsAssumption DEF TypeInv, TypeOK, NoRow
    <3>5. \A r \in RowId : (\E k \in DOMAIN g : g[k] = r) => [rows[r] EXCEPT !.status = "ACTIVE"] \in Row
      BY <3>4 DEF Row
    <3>6. rows' \in [RowId -> Row \cup {NoRow}]
      BY <3>1, <3>2, <3>5
    <3>7. asked' \in [Customer \X Campaign -> {"out", "in", "unclear"}]
      BY <2>2 DEF UpdateCustomer, TypeInv, TypeOK
    <3>8. QED
      BY <3>6, <3>7
  <2>3. QED
    BY <2>1, <2>2
<1>4. /\ run' = [run EXCEPT ![h] = Idle] /\ raced' = raced /\ suggested' = suggested
      /\ UNCHANGED training /\ redecided' = redecided
  BY DEF UpdateCustomer, End
<1>5. raced' \subseteq Customer \X Campaign
  BY <1>4 DEF TypeInv, TypeOK
<1>6. QED
  BY <1>3, <1>4, <1>5, IdleType, RowsStep

LEMMA StopsType ==
  ASSUME TypeInv, NEW h \in Handler, Stops(h)
  PROVE  TypeInv'
<1>1. run[h].customer \in Customer /\ run[h].campaigns \subseteq Campaign
  BY BusyType DEF Stops, Requested
<1>2. raced' \subseteq Customer \X Campaign
  BY <1>1 DEF Stops, TypeInv, TypeOK
<1>3. /\ run' = [run EXCEPT ![h] = Idle] /\ rows' = rows /\ asked' = asked /\ suggested' = suggested
      /\ UNCHANGED training /\ redecided' = redecided
  BY DEF Stops, End
<1>4. QED
  BY <1>2, <1>3, IdleType, RowsStep DEF TypeInv, TypeOK

LEMMA ProceedType ==
  ASSUME TypeInv, NEW h \in Handler, Proceed(h)
  PROVE  TypeInv'
BY InsertType, SaveSuggestionType, SaveRowType, EditType, SaveFormType, UpdateCustomerType, StopsType
   DEF Proceed

-----------------------------------------------------------------------------
(* Words and the training *)

LEMMA WordsType ==
  ASSUME TypeInv, Words
  PROVE  TypeInv'
<1>1. PICK w \in Word, word \in Sensitive : EditWord(w, word)
  <2>1. PICK w \in Word :
          \/ \E d \in Direction :
               CreateSensitive(w, d) \/ \E status \in {"ACTIVE", "INACTIVE"} : UpdateSensitive(w, d, status)
          \/ DeleteSensitive(w)
    BY DEF Words
  <2>2. words[w] \in Sensitive \cup {NoWord}
    BY DEF TypeInv, TypeOK
  <2>3. ASSUME NEW d \in Direction, CreateSensitive(w, d) PROVE \E word \in Sensitive : EditWord(w, word)
    <3>1. [direction |-> d, status |-> "ACTIVE", trained |-> FALSE] \in Sensitive
      BY DEF Sensitive
    <3>2. QED
      BY <2>3, <3>1 DEF CreateSensitive
  <2>4. ASSUME NEW d \in Direction, NEW status \in {"ACTIVE", "INACTIVE"}, UpdateSensitive(w, d, status)
        PROVE  \E word \in Sensitive : EditWord(w, word)
    <3>1. [words[w] EXCEPT !.direction = d, !.status = status] \in Sensitive
      BY <2>2, <2>4 DEF UpdateSensitive, Sensitive
    <3>2. QED
      BY <2>4, <3>1 DEF UpdateSensitive
  <2>5. ASSUME DeleteSensitive(w) PROVE \E word \in Sensitive : EditWord(w, word)
    <3>1. words[w] \in Sensitive
      BY <2>2, <2>5 DEF DeleteSensitive, NoWord
    <3>2. [words[w] EXCEPT !.status = "DELETE"] \in Sensitive
      BY <3>1 DEF Sensitive
    <3>3. QED
      BY <2>5, <3>2 DEF DeleteSensitive
  <2>6. QED
    BY <2>1, <2>3, <2>4, <2>5
<1>2. /\ words' = [words EXCEPT ![w] = word] /\ rows' = rows /\ asked' = asked /\ raced' = raced
      /\ queue' = queue /\ answers' = answers /\ learned' = learned /\ suggested' = suggested
      /\ run' = run /\ redecided' = redecided
  BY <1>1 DEF EditWord, table
<1>3. words' \in [Word -> Sensitive \cup {NoWord}]
  BY <1>2 DEF TypeInv, TypeOK
<1>4. \A v \in Word : words[v] # NoWord => words'[v] # NoWord
  BY <1>2, NoneIsNothing DEF TypeInv, TypeOK
<1>5. TrainingType'
  <2>1. \A i \in 1..Len(queue) : queue[i].words \subseteq Word
    BY BatchType DEF TypeInv
  <2>2. \A a \in answers : a.words \subseteq Word
    BY DEF TypeInv, TrainingType, Answer
  <2>3. QED
    BY <1>2, <1>4, <2>1, <2>2 DEF TypeInv, TrainingType, Exist
<1>6. QED
  BY <1>2, <1>3, <1>5 DEF TypeInv, TypeOK, RunInv, RunType, AllProper, Proper, InsertsApart

(* What a step leaves alone that concerns the analyzer only.                *)
LEMMA AnalyzerStep ==
  ASSUME TypeInv, TrainingType',
         rows' = rows, asked' = asked, raced' = raced, words' = words, suggested' = suggested,
         run' = run, redecided' = redecided
  PROVE  TypeInv'
BY DEF TypeInv, TypeOK, RunInv, RunType, AllProper, Proper, InsertsApart

NewBatch(d) == [direction |-> d, words |-> ActiveOf(d),
                labels |-> [s \in Decided |-> suggested[s].decision]]

LEMMA SendType ==
  ASSUME TypeInv, NEW d \in Direction, Send(d)
  PROVE  /\ TypeInv' /\ NewBatch(d) \in Batch /\ queue' = Append(queue, NewBatch(d))
         /\ \A s \in Decided : suggested[s] \in OptSuggestion
<1>1. /\ queue' = Append(queue, NewBatch(d))
      /\ rows' = rows /\ asked' = asked /\ raced' = raced /\ words' = words
      /\ answers' = answers /\ learned' = learned /\ suggested' = suggested
      /\ run' = run /\ redecided' = redecided
  BY DEF Send, NewBatch, table
<1>2. \A s \in Decided : suggested[s] # NoSuggestion /\ suggested[s] \in OptSuggestion
  BY DEF Decided, NoSuggestion, TypeInv, TypeOK
<1>3. \A w \in ActiveOf(d) : w \in Word /\ words[w] # NoWord
  BY DEF ActiveOf, WordsOf, NoWord
<1>4. NewBatch(d) \in Batch
  <2>1. [s \in Decided |-> suggested[s].decision] \in [Decided -> {"yes", "no"}]
    BY <1>2 DEF OptSuggestion, Decision, Decided
  <2>2. Decided \in SUBSET Suggestion
    BY DEF Decided
  <2>3. [s \in Decided |-> suggested[s].decision] \in UNION {[S -> {"yes", "no"}] : S \in SUBSET Suggestion}
    BY <2>1, <2>2
  <2>4. QED
    BY <1>3, <2>3 DEF NewBatch, Batch
<1>5. Exist(NewBatch(d).words, DOMAIN NewBatch(d).labels)
  BY <1>2, <1>3 DEF NewBatch, Exist
<1>6. TrainingType'
  <2> DEFINE b == NewBatch(d)
  <2> HIDE DEF b
  <2>0. b \in Batch /\ queue' = Append(queue, b) /\ queue \in Seq(Batch)
        /\ Exist(b.words, DOMAIN b.labels)
    BY <1>1, <1>4, <1>5 DEF TypeInv, TrainingType, b
  <2>1. queue' \in Seq(Batch) /\ Len(queue') = Len(queue) + 1
    BY <2>0
  <2>2. \A i \in 1..Len(queue') : queue'[i] = IF i = Len(queue) + 1 THEN b ELSE queue[i]
    BY <2>0
  <2>3. \A i \in 1..Len(queue') : i # Len(queue) + 1 => i \in 1..Len(queue)
    BY <2>0, <2>1
  <2>4. \A i \in 1..Len(queue') : Exist(queue'[i].words, DOMAIN queue'[i].labels)
    BY <2>0, <2>2, <2>3 DEF TypeInv, TrainingType
  <2>5. QED
    BY <1>1, <2>1, <2>4 DEF TypeInv, TrainingType, Exist
<1>7. QED
  BY <1>1, <1>2, <1>4, <1>6, AnalyzerStep

(* The analyzer learns the first batch of the queue.                        *)
LEMMA LearnType ==
  ASSUME TypeInv, Learn
  PROVE  /\ TypeInv' /\ Len(queue) > 0 /\ Len(queue') = Len(queue) - 1
         /\ \A i \in 1..Len(queue') : i + 1 \in 1..Len(queue) /\ queue'[i] = queue[i + 1]
         /\ Head(queue) = queue[1]
<1>1. /\ queue # <<>> /\ queue' = Tail(queue) /\ queue \in Seq(Batch)
      /\ rows' = rows /\ asked' = asked /\ raced' = raced /\ words' = words
      /\ suggested' = suggested /\ run' = run /\ redecided' = redecided
  BY DEF Learn, table, TypeInv, TrainingType
<1>2. /\ Len(queue) > 0 /\ Len(queue') = Len(queue) - 1 /\ queue' \in Seq(Batch)
      /\ \A i \in 1..Len(queue') : i + 1 \in 1..Len(queue) /\ queue'[i] = queue[i + 1]
      /\ Head(queue) = queue[1] /\ 1 \in 1..Len(queue)
  BY <1>1
<1> DEFINE b == Head(queue)
<1>3. /\ b.direction \in Direction /\ b.words \subseteq Word /\ DOMAIN b.labels \subseteq Suggestion
      /\ \A s \in DOMAIN b.labels : b.labels[s] \in {"yes", "no"}
      /\ Exist(b.words, DOMAIN b.labels)
  BY <1>2, BatchType DEF TypeInv, TrainingType
<1>4. /\ learned' = [learned EXCEPT ![b.direction] =
                       [s \in Suggestion |-> IF s \in DOMAIN b.labels THEN b.labels[s] ELSE "none"]]
      /\ answers' = answers \cup {[words |-> b.words, suggestions |-> DOMAIN b.labels]}
  BY DEF Learn
<1> HIDE DEF b
<1>5. learned' \in [Direction -> [Suggestion -> Decision]]
  <2>1. [s \in Suggestion |-> IF s \in DOMAIN b.labels THEN b.labels[s] ELSE "none"]
          \in [Suggestion -> Decision]
    BY <1>3 DEF Decision
  <2>2. QED
    BY <1>3, <1>4, <2>1 DEF TypeInv, TrainingType
<1>6. answers' \subseteq Answer
  BY <1>3, <1>4 DEF Answer, TypeInv, TrainingType
<1>7. \A i \in 1..Len(queue') : Exist(queue'[i].words, DOMAIN queue'[i].labels)
  BY <1>2 DEF TypeInv, TrainingType
<1>8. \A a \in answers' : Exist(a.words, a.suggestions)
  BY <1>3, <1>4 DEF TypeInv, TrainingType
<1>9. TrainingType'
  BY <1>1, <1>2, <1>5, <1>6, <1>7, <1>8 DEF TrainingType, Exist
<1>10. QED
  BY <1>1, <1>2, <1>9, AnalyzerStep

(* What is taught is marked.                                                *)
LEMMA MarkStep ==
  ASSUME TypeInv, NEW a \in answers, UpdateTrainStatus(a)
  PROVE  /\ a.suggestions \subseteq Suggestion /\ a.words \subseteq Word
         /\ Exist(a.words, a.suggestions)
         /\ answers' = answers \ {a}
         /\ rows' = rows /\ asked' = asked /\ raced' = raced /\ queue' = queue
         /\ learned' = learned /\ run' = run /\ redecided' = redecided
         /\ words' = [w \in Word |-> IF w \in a.words THEN [words[w] EXCEPT !.trained = TRUE]
                                                      ELSE words[w]]
         /\ \A s \in Suggestion :
              suggested'[s] = IF s \in a.suggestions THEN [suggested[s] EXCEPT !.trained = TRUE]
                              ELSE suggested[s]
         /\ suggested' \in [Suggestion -> OptSuggestion \cup {NoSuggestion}]
<1>1. a \in Answer /\ Exist(a.words, a.suggestions)
  BY DEF TypeInv, TrainingType
<1>2. a.suggestions \subseteq Suggestion /\ a.words \subseteq Word
  BY <1>1 DEF Answer
<1>3. suggested' = [s \in Suggestion |-> IF s \in a.suggestions
                                        THEN [suggested[s] EXCEPT !.trained = TRUE] ELSE suggested[s]]
  BY DEF UpdateTrainStatus, Mark
<1>4. \A s \in a.suggestions : suggested[s] \in OptSuggestion
  BY <1>1, <1>2 DEF Exist, TypeInv, TypeOK
<1>5. \A s \in a.suggestions : [suggested[s] EXCEPT !.trained = TRUE] \in OptSuggestion
  BY <1>4 DEF OptSuggestion
<1>6. suggested' \in [Suggestion -> OptSuggestion \cup {NoSuggestion}]
  BY <1>3, <1>5 DEF TypeInv, TypeOK
<1>7. QED
  BY <1>1, <1>2, <1>3, <1>6 DEF UpdateTrainStatus, Mark, table

LEMMA MarkType ==
  ASSUME TypeInv, NEW a \in answers, UpdateTrainStatus(a)
  PROVE  TypeInv'
<1>1. \A s \in Suggestion :
        /\ suggested[s] = NoSuggestion => suggested'[s] = NoSuggestion
        /\ suggested[s] \in OptSuggestion =>
             /\ suggested'[s] \in OptSuggestion
             /\ suggested'[s].message = suggested[s].message /\ suggested'[s].opt = suggested[s].opt
  <2> SUFFICES ASSUME NEW s \in Suggestion
      PROVE /\ suggested[s] = NoSuggestion => suggested'[s] = NoSuggestion
            /\ suggested[s] \in OptSuggestion =>
                 /\ suggested'[s] \in OptSuggestion
                 /\ suggested'[s].message = suggested[s].message /\ suggested'[s].opt = suggested[s].opt
    OBVIOUS
  <2>1. CASE s \in a.suggestions
    <3>1. suggested[s] # NoSuggestion /\ suggested'[s] = [suggested[s] EXCEPT !.trained = TRUE]
      BY <2>1, MarkStep DEF Exist
    <3>2. QED
      BY <3>1 DEF OptSuggestion
  <2>2. CASE s \notin a.suggestions
    <3>1. suggested'[s] = suggested[s]
      BY <2>2, MarkStep
    <3>2. QED
      BY <3>1
  <2>3. QED
    BY <2>1, <2>2
<1>2. words' \in [Word -> Sensitive \cup {NoWord}] /\ \A w \in Word : words[w] # NoWord => words'[w] # NoWord
  <2>1. \A w \in a.words : words[w] \in Sensitive
    BY MarkStep DEF Exist, TypeInv, TypeOK
  <2>2. \A w \in a.words : [words[w] EXCEPT !.trained = TRUE] \in Sensitive
    BY <2>1 DEF Sensitive
  <2>3. QED
    BY <2>2, MarkStep, NoneIsNothing DEF TypeInv, TypeOK
<1>3. \A s \in Suggestion : suggested[s] # NoSuggestion => suggested'[s] # NoSuggestion
  BY <1>1, NoneIsNothing DEF TypeInv, TypeOK
<1>4. RunInv'
  <2>1. RunType' /\ InsertsApart'
    BY MarkStep DEF TypeInv, RunInv, RunType, InsertsApart
  <2>2. AllProper'
    <3> SUFFICES ASSUME NEW g \in Handler PROVE Proper(run[g])'
      BY DEF AllProper
    <3>1. Proper(run[g]) /\ run'[g] = run[g]
      BY MarkStep DEF TypeInv, RunInv, AllProper
    <3>2. QED
      BY <3>1, <1>1 DEF Proper
  <2>3. QED
    BY <2>1, <2>2 DEF RunInv
<1>5. TrainingType'
  <2>1. \A i \in 1..Len(queue) : queue[i].words \subseteq Word /\ DOMAIN queue[i].labels \subseteq Suggestion
    BY BatchType DEF TypeInv
  <2>2. \A b \in answers : b.words \subseteq Word /\ b.suggestions \subseteq Suggestion
    BY DEF TypeInv, TrainingType, Answer
  <2>3. queue' = queue /\ learned' = learned /\ answers' \subseteq answers
    BY MarkStep
  <2>4. QED
    BY <1>2, <1>3, <2>1, <2>2, <2>3 DEF TypeInv, TrainingType, Exist
<1>6. TypeOK'
  BY <1>2, MarkStep DEF TypeInv, TypeOK
<1>7. QED
  BY <1>4, <1>5, <1>6 DEF TypeInv

LEMMA StutterType ==
  ASSUME TypeInv, UNCHANGED vars
  PROVE  TypeInv'
<1>1. /\ rows' = rows /\ asked' = asked /\ raced' = raced /\ words' = words /\ queue' = queue
      /\ answers' = answers /\ learned' = learned /\ suggested' = suggested
      /\ run' = run /\ redecided' = redecided
  BY DEF vars, table, training
<1>2. TrainingType'
  BY <1>1 DEF TypeInv, TrainingType, Exist
<1>3. QED
  BY <1>1, <1>2, AnalyzerStep

LEMMA TypeStep ==
  ASSUME TypeInv, [Next]_vars
  PROVE  TypeInv'
<1>1. ASSUME NEW h \in Handler, Request(h) \/ Proceed(h) PROVE TypeInv'
  BY <1>1, RequestType, ProceedType
<1>2. ASSUME NEW d \in Direction, NEW today \in BOOLEAN, TrainSensitive(d, today) PROVE TypeInv'
  BY <1>2, SendType DEF TrainSensitive
<1>3. ASSUME NEW a \in answers, UpdateTrainStatus(a) PROVE TypeInv'
  BY <1>3, MarkType
<1>4. QED
  BY <1>1, <1>2, <1>3, WordsType, LearnType, StutterType DEF Next

(* The rows, the suggestions, the words and the requests keep their types,  *)
(* whatever is asked, decided, edited and taught.                           *)
THEOREM TypeCorrect == Spec => []TypeOK
<1>1. TypeInv => TypeOK
  BY DEF TypeInv
<1>2. TypeInv /\ [Next]_vars => TypeInv'
  BY TypeStep
<1>3. QED
  BY <1>1, <1>2, InitType, PTL DEF Spec

-----------------------------------------------------------------------------
(* What the analyzer is taught *)

Taught(s) == \E d \in Direction : learned[d][s] # "none"

Saves == {"saveDecision", "saveReason"}

(* A suggestion that was never decided otherwise than it was sent: it is    *)
(* decided when it was sent; it was and will be taught with its decision;   *)
(* once it is taught, or sent, every batch behind has it too, so no batch   *)
(* takes it away again; it is answered, marked or read as marked only when  *)
(* it is taught.                                                            *)
SentAsDecided(s) == WasSent(s) => s \in Decided

TaughtAsDecided(s) ==
    /\ \A i \in 1..Len(queue) :
         s \in DOMAIN queue[i].labels => queue[i].labels[s] = suggested[s].decision
    /\ \A d \in Direction : learned[d][s] \in {"none", suggested[s].decision}

SentAgain(s) ==
    /\ Taught(s) => \A i \in 1..Len(queue) : s \in DOMAIN queue[i].labels
    /\ \A i, j \in 1..Len(queue) :
         i < j /\ s \in DOMAIN queue[i].labels => s \in DOMAIN queue[j].labels

MarkedWhenTaught(s) ==
    /\ \A a \in answers : s \in a.suggestions => Taught(s)
    /\ suggested[s].trained => Taught(s)
    /\ \A h \in Handler :
         run[h].at \in Saves /\ run[h].s = s /\ run[h].read.trained => Taught(s)

TeachInv == \A s \in Suggestion \ redecided :
    SentAsDecided(s) /\ TaughtAsDecided(s) /\ SentAgain(s) /\ MarkedWhenTaught(s)

LEMMA InitTeach == Init => TeachInv
<1> SUFFICES ASSUME Init PROVE TeachInv
  OBVIOUS
<1>1. /\ queue = <<>> /\ answers = {} /\ \A h \in Handler : run[h].at = "idle"
      /\ \A s \in Suggestion : ~ suggested[s].trained
      /\ \A s \in Suggestion, d \in Direction : learned[d][s] = "none"
  BY DEF Init, Idle, NoSuggestion
<1>2. 1..Len(queue) = {}
  BY <1>1
<1>3. QED
  BY <1>1, <1>2 DEF TeachInv, SentAsDecided, WasSent, TaughtAsDecided, SentAgain, MarkedWhenTaught,
                    Taught, Saves

(* A suggestion that is marked is taught.                                   *)
LEMMA TeachIsLearned == TypeInv /\ TeachInv => LearnedIsDecided
<1> SUFFICES ASSUME TypeInv, TeachInv, NEW s \in Suggestion, suggested[s].trained, s \notin redecided
             PROVE  \E d \in Direction : learned[d][s] = suggested[s].decision
  BY DEF LearnedIsDecided
<1>1. PICK d \in Direction : learned[d][s] # "none"
  BY DEF TeachInv, MarkedWhenTaught, Taught
<1>2. QED
  BY <1>1 DEF TeachInv, TaughtAsDecided

(* A step without the analyzer: the decisions of what was sent stay, and    *)
(* nothing is marked, or read as marked, that is not taught.                *)
LEMMA TeachStays ==
  ASSUME TeachInv, queue' = queue, answers' = answers, learned' = learned, redecided \subseteq redecided',
         \A s \in Suggestion \ redecided' :
           /\ WasSent(s) => s \in Decided' /\ suggested'[s].decision = suggested[s].decision
           /\ suggested'[s].trained => Taught(s)
           /\ \A h \in Handler :
                run'[h].at \in Saves /\ run'[h].s = s /\ run'[h].read.trained => Taught(s)
  PROVE  TeachInv'
<1> SUFFICES ASSUME NEW s \in Suggestion, s \notin redecided'
             PROVE  (SentAsDecided(s) /\ TaughtAsDecided(s) /\ SentAgain(s) /\ MarkedWhenTaught(s))'
  BY DEF TeachInv
<1>1. SentAsDecided(s) /\ TaughtAsDecided(s) /\ SentAgain(s) /\ MarkedWhenTaught(s)
  BY DEF TeachInv
<1>2. WasSent(s)' = WasSent(s) /\ Taught(s)' = Taught(s)
  BY DEF WasSent, Taught
<1>3. SentAsDecided(s)'
  BY <1>2 DEF SentAsDecided
<1>4. TaughtAsDecided(s)'
  <2>1. CASE WasSent(s)
    BY <1>1, <2>1 DEF TaughtAsDecided
  <2>2. CASE ~ WasSent(s)
    BY <2>2 DEF WasSent, TaughtAsDecided
  <2>3. QED
    BY <2>1, <2>2
<1>5. SentAgain(s)'
  BY <1>1, <1>2 DEF SentAgain
<1>6. MarkedWhenTaught(s)'
  BY <1>1, <1>2 DEF MarkedWhenTaught
<1>7. QED
  BY <1>3, <1>4, <1>5, <1>6

(* A step of a request that leaves the suggestions as they are.             *)
LEMMA TeachRun ==
  ASSUME TypeInv, TeachInv, UNCHANGED training, suggested' = suggested, redecided' = redecided,
         NEW h \in Handler, NEW q, run' = [run EXCEPT ![h] = q],
         q.at \in Saves /\ q.read.trained => suggested[q.s].trained
  PROVE  TeachInv'
<1>1. queue' = queue /\ answers' = answers /\ learned' = learned /\ Decided' = Decided
  BY DEF training, Decided
<1>2. run'[h] = q /\ \A g \in Handler : g # h => run'[g] = run[g]
  BY DEF TypeInv, RunInv, RunType
<1>3. \A s \in Suggestion \ redecided' :
           /\ WasSent(s) => s \in Decided' /\ suggested'[s].decision = suggested[s].decision
           /\ suggested'[s].trained => Taught(s)
           /\ \A g \in Handler :
                run'[g].at \in Saves /\ run'[g].s = s /\ run'[g].read.trained => Taught(s)
  BY <1>1, <1>2 DEF TeachInv, SentAsDecided, MarkedWhenTaught
<1>4. QED
  BY <1>1, <1>3, TeachStays

LEMMA TeachBegin ==
  ASSUME TypeInv, TeachInv, NEW h \in Handler, NEW q, Begin(h, q),
         q.at \in Saves /\ q.read.trained => suggested[q.s].trained
  PROVE  TeachInv'
BY TeachRun DEF Begin

(* What a request reads as marked is marked.                                *)
LEMMA TeachRequest ==
  ASSUME TypeInv, TeachInv, NEW h \in Handler, Request(h)
  PROVE  TeachInv'
<1>1. ASSUME NEW q, Begin(h, q), q.at \notin Saves PROVE TeachInv'
  BY <1>1, TeachBegin
<1>2. ASSUME NEW c \in Customer, NEW k \in Campaign \cup {None},
             \/ \E m \in Message : DetectOptOut(h, m, c, k)
             \/ \E opt \in {"in", "out"} : SuggestByHand(h, c, k, opt)
      PROVE  TeachInv'
  <2>1. PICK s, read : Begin(h, [Idle EXCEPT !.at = "insert", !.customer = c, !.s = s, !.read = read])
    BY <1>2 DEF DetectOptOut, SuggestByHand
  <2>2. [Idle EXCEPT !.at = "insert", !.customer = c, !.s = s, !.read = read].at \notin Saves
    BY DEF Idle, Saves
  <2>3. QED
    BY <1>1, <2>1, <2>2
<1>3. ASSUME NEW s \in Suggestion, NEW k \in Campaign \cup {None}, RejectSuggestion(h, s, k)
      PROVE  TeachInv'
  <2> DEFINE old == suggested[s]
             camp == IF k = None THEN old.campaign ELSE k
             read == [old EXCEPT !.decision = "no", !.campaign = camp]
             q == [Idle EXCEPT !.at = "saveDecision", !.customer = old.customer, !.s = s, !.read = read]
  <2>1. old \in OptSuggestion
    BY <1>3, SuggestedType DEF RejectSuggestion
  <2>2. [old EXCEPT !.decision = "no", !.campaign = IF k = None THEN @ ELSE k] = read
    OBVIOUS
  <2>3. Begin(h, q)
    BY <1>3, <2>2 DEF RejectSuggestion
  <2> HIDE DEF camp
  <2>4. read.trained = old.trained
    BY <2>1 DEF OptSuggestion
  <2> HIDE DEF read
  <2>5. q.s = s /\ q.read = read
    BY DEF Idle
  <2> HIDE DEF q
  <2>6. QED
    BY <2>3, <2>4, <2>5, TeachBegin
<1>4. ASSUME NEW s \in Suggestion, NEW k \in Campaign, ConfirmSuggestion(h, s, k)
      PROVE  TeachInv'
  <2> DEFINE old == suggested[s]
             read == [old EXCEPT !.decision = "yes", !.campaign = k]
  <2>1. old \in OptSuggestion
    BY <1>4, SuggestedType DEF ConfirmSuggestion
  <2>2. PICK r : Begin(h, [Idle EXCEPT !.at = "saveDecision", !.customer = old.customer,
                                       !.campaigns = {k}, !.s = s, !.row = r, !.read = read])
    BY <1>4 DEF ConfirmSuggestion
  <2> DEFINE q == [Idle EXCEPT !.at = "saveDecision", !.customer = old.customer,
                               !.campaigns = {k}, !.s = s, !.row = r, !.read = read]
  <2>3. read.trained = old.trained
    BY <2>1 DEF OptSuggestion
  <2> HIDE DEF read
  <2>4. q.s = s /\ q.read = read
    BY DEF Idle
  <2>5. Begin(h, q)
    BY <2>2
  <2> HIDE DEF q
  <2>6. QED
    BY <2>3, <2>4, <2>5, TeachBegin
<1>5. ASSUME NEW s \in Suggestion, UpdateReason(h, s) PROVE TeachInv'
  <2> DEFINE old == suggested[s]
             q == [Idle EXCEPT !.at = "saveReason", !.customer = old.customer, !.s = s, !.read = old]
  <2>1. Begin(h, q)
    BY <1>5 DEF UpdateReason
  <2>2. q.s = s /\ q.read = old
    BY DEF Idle
  <2> HIDE DEF q
  <2>3. QED
    BY <2>1, <2>2, TeachBegin
<1>6. ASSUME NEW c \in Customer, OpenForm(h, c) PROVE TeachInv'
  <2>1. PICK q : Begin(h, q) /\ q.at = "form"
    <3> DEFINE q == [Idle EXCEPT !.at = "form", !.customer = c, !.campaigns = Campaign,
                                 !.now = RowsOfCustomer(c)]
    <3>1. Begin(h, q) /\ q.at = "form"
      BY <1>6 DEF OpenForm, Idle
    <3>2. QED
      BY <3>1
  <2>2. QED
    BY <1>1, <2>1 DEF Saves
<1>7. ASSUME NEW c \in Customer, NEW list, BeginUpdate(h, c, list) PROVE TeachInv'
  <2>1. PICK q : Begin(h, q) /\ q.at = "update"
    <3> DEFINE split == SplitCreateOrUpdate(c, list)
               q == [Idle EXCEPT !.at = "update", !.customer = c, !.campaigns = DOMAIN list,
                                 !.list = split]
    <3>1. Begin(h, q)
      BY <1>7 DEF BeginUpdate
    <3> HIDE DEF split
    <3>2. q.at = "update"
      BY DEF Idle
    <3>3. QED
      BY <3>1, <3>2
  <2>2. QED
    BY <1>1, <2>1 DEF Saves
<1>8. ASSUME NEW c \in Customer, NEW k \in Campaign, AddCustomerToCampaign(h, c, k) \/ ImportRow(h, c, k)
      PROVE  TeachInv'
  <2>1. CASE AddCustomerToCampaign(h, c, k)
    <3> DEFINE list == [j \in {k} |-> "ACTIVE"]
               q == [Idle EXCEPT !.at = "edit", !.customer = c, !.campaigns = {k}, !.list = list]
    <3>1. Begin(h, q)
      BY <2>1 DEF AddCustomerToCampaign
    <3> HIDE DEF list
    <3>2. q.at \notin Saves
      BY DEF Idle, Saves
    <3> HIDE DEF q
    <3>3. QED
      BY <1>1, <3>1, <3>2
  <2>2. CASE ImportRow(h, c, k)
    <3> DEFINE read == [NoSuggestion EXCEPT !.customer = c, !.campaign = k, !.opt = "out"]
    <3>1. PICK r : Begin(h, [Idle EXCEPT !.at = "saveRow", !.customer = c, !.campaigns = {k},
                                         !.row = r, !.read = read])
      BY <2>2 DEF ImportRow
    <3> HIDE DEF read
    <3> DEFINE q == [Idle EXCEPT !.at = "saveRow", !.customer = c, !.campaigns = {k},
                                 !.row = r, !.read = read]
    <3>2. q.at \notin Saves
      BY DEF Idle, Saves
    <3>3. Begin(h, q)
      BY <3>1
    <3> HIDE DEF q
    <3>4. QED
      BY <1>1, <3>2, <3>3
  <2>3. QED
    BY <1>8, <2>1, <2>2
<1>9. QED
  BY <1>2, <1>3, <1>4, <1>5, <1>6, <1>7, <1>8 DEF Request

(* A suggestion that is inserted was never sent.                            *)
LEMMA TeachInsert ==
  ASSUME TypeInv, TeachInv, NEW h \in Handler, InsertSuggestion(h)
  PROVE  TeachInv'
<1> DEFINE s == run[h].s
<1>1. /\ s \in Suggestion /\ suggested[s] = NoSuggestion /\ run[h].read \in OptSuggestion
      /\ ~ run[h].read.trained
  BY BusyType DEF InsertSuggestion, Proper
<1>2. /\ suggested' = [suggested EXCEPT ![s] = run[h].read] /\ run' = [run EXCEPT ![h] = Idle]
      /\ queue' = queue /\ answers' = answers /\ learned' = learned /\ redecided' = redecided
  BY DEF InsertSuggestion, End, training
<1>3. /\ suggested'[s] = run[h].read
      /\ \A t \in Suggestion : t # s => suggested'[t] = suggested[t]
      /\ run'[h] = Idle /\ \A g \in Handler : g # h => run'[g] = run[g]
  BY <1>1, <1>2 DEF TypeInv, TypeOK, RunInv, RunType
<1>4. s \notin redecided => ~ WasSent(s)
  BY <1>1 DEF TeachInv, SentAsDecided, Decided, NoSuggestion
<1>5. ASSUME NEW t \in Suggestion \ redecided'
      PROVE  /\ WasSent(t) => t \in Decided' /\ suggested'[t].decision = suggested[t].decision
             /\ suggested'[t].trained => Taught(t)
             /\ \A g \in Handler :
                  run'[g].at \in Saves /\ run'[g].s = t /\ run'[g].read.trained => Taught(t)
  <2>1. WasSent(t) => t # s
    BY <1>2, <1>4
  <2>2. WasSent(t) => t \in Decided' /\ suggested'[t].decision = suggested[t].decision
    BY <1>2, <1>3, <2>1 DEF TeachInv, SentAsDecided, Decided
  <2>3. suggested'[t].trained => Taught(t)
    BY <1>1, <1>2, <1>3 DEF TeachInv, MarkedWhenTaught
  <2>4. \A g \in Handler :
          run'[g].at \in Saves /\ run'[g].s = t /\ run'[g].read.trained => Taught(t)
    <3> SUFFICES ASSUME NEW g \in Handler,
                        run'[g].at \in Saves, run'[g].s = t, run'[g].read.trained
                 PROVE  Taught(t)
      OBVIOUS
    <3>1. g # h
      BY <1>3, IdleType DEF Saves
    <3>2. run'[g] = run[g]
      BY <1>3, <3>1
    <3>3. QED
      BY <1>2, <3>2 DEF TeachInv, MarkedWhenTaught
  <2>5. QED
    BY <2>2, <2>3, <2>4
<1>6. QED
  BY <1>2, <1>5, TeachStays

(* What is saved with another decision than it was sent is redecided.       *)
LEMMA TeachSave ==
  ASSUME TypeInv, TeachInv, NEW h \in Handler, SaveReason(h) \/ SaveDecision(h)
  PROVE  TeachInv'
<1> DEFINE s == run[h].s
           read == run[h].read
           q == [run[h] EXCEPT !.at = "saveRow"]
<1>1. /\ run[h].at \in Saves /\ run[h] \in Requested
      /\ s \in Suggestion /\ read.message = suggested[s].message /\ read.opt = suggested[s].opt
  BY BusyType DEF SaveReason, SaveDecision, Proper, Saves
<1>2. /\ suggested' = [suggested EXCEPT ![s] = read]
      /\ redecided' = IF WasSent(s) /\ read.decision # suggested[s].decision
                      THEN redecided \cup {s} ELSE redecided
      /\ queue' = queue /\ answers' = answers /\ learned' = learned
  BY DEF SaveReason, SaveDecision, SaveSuggestion, training
<1>3. run' = [run EXCEPT ![h] = Idle] \/ run' = [run EXCEPT ![h] = q]
  BY DEF SaveReason, SaveDecision, End
<1>4. q.at = "saveRow"
  BY <1>1 DEF Requested
<1> HIDE DEF q
<1>5. run'[h].at \notin Saves /\ \A g \in Handler : g # h => run'[g] = run[g]
  BY <1>3, <1>4, IdleType DEF TypeInv, RunInv, RunType, Saves
<1>6. /\ suggested'[s] = read
      /\ \A t \in Suggestion : t # s => suggested'[t] = suggested[t]
  BY <1>1, <1>2 DEF TypeInv, TypeOK
<1> HIDE DEF s, read
<1>7. ASSUME NEW t \in Suggestion \ redecided'
      PROVE  /\ WasSent(t) => t \in Decided' /\ suggested'[t].decision = suggested[t].decision
             /\ suggested'[t].trained => Taught(t)
             /\ \A g \in Handler :
                  run'[g].at \in Saves /\ run'[g].s = t /\ run'[g].read.trained => Taught(t)
  <2>1. t \notin redecided
    BY <1>2
  <2>2. WasSent(t) => suggested'[t].decision = suggested[t].decision
    BY <1>2, <1>6
  <2>3. suggested'[t].opt = suggested[t].opt /\ suggested'[t].message = suggested[t].message
    BY <1>1, <1>6
  <2>4. WasSent(t) => t \in Decided'
    BY <2>1, <2>2, <2>3 DEF TeachInv, SentAsDecided, Decided
  <2>5. suggested'[t].trained => Taught(t)
    BY <1>1, <1>6, <2>1 DEF TeachInv, MarkedWhenTaught, s, read
  <2>6. \A g \in Handler :
          run'[g].at \in Saves /\ run'[g].s = t /\ run'[g].read.trained => Taught(t)
    BY <1>5, <2>1 DEF TeachInv, MarkedWhenTaught
  <2>7. QED
    BY <2>2, <2>4, <2>5, <2>6
<1>8. QED
  BY <1>2, <1>7, TeachStays

LEMMA TeachProceed ==
  ASSUME TypeInv, TeachInv, NEW h \in Handler, Proceed(h)
  PROVE  TeachInv'
<1>1. ASSUME SaveRow(h) \/ UpdateCustomerCampaigns(h) \/ UpdateCustomer(h) \/ Stops(h)
      PROVE  TeachInv'
  <2>1. /\ run' = [run EXCEPT ![h] = Idle] /\ UNCHANGED training /\ suggested' = suggested
        /\ redecided' = redecided
    BY <1>1 DEF SaveRow, UpdateCustomerCampaigns, SaveForm, UpdateCustomer, Stops, End
  <2>2. Idle.at \notin Saves
    BY IdleType DEF Saves
  <2>3. QED
    BY <2>1, <2>2, TeachRun
<1>2. ASSUME NEW keep \in SUBSET RowId, NEW K \in SUBSET Campaign, EditCustomer(h, keep, K)
      PROVE  TeachInv'
  <2> DEFINE list == [k \in K |-> "ACTIVE"]
             q == [run[h] EXCEPT !.at = "edit", !.keep = keep,
                                 !.now = RowsOfCustomer(run[h].customer), !.list = list]
  <2>1. /\ run' = [run EXCEPT ![h] = q] /\ UNCHANGED training /\ suggested' = suggested
        /\ redecided' = redecided
    BY <1>2 DEF EditCustomer, TypeInv, RunInv, RunType
  <2>2. run[h] \in Requested
    BY DEF TypeInv, RunInv, RunType
  <2> HIDE DEF list
  <2>3. q.at \notin Saves
    BY <2>2 DEF Requested, Saves
  <2> HIDE DEF q
  <2>4. QED
    BY <2>1, <2>3, TeachRun
<1>3. QED
  BY <1>1, <1>2, TeachInsert, TeachSave DEF Proceed

LEMMA TeachWords ==
  ASSUME TypeInv, TeachInv, Words \/ UNCHANGED vars
  PROVE  TeachInv'
<1>1. /\ queue' = queue /\ answers' = answers /\ learned' = learned /\ suggested' = suggested
      /\ run' = run /\ redecided' = redecided
  BY DEF Words, CreateSensitive, UpdateSensitive, DeleteSensitive, EditWord, vars, training
<1>2. Decided' = Decided
  BY <1>1 DEF Decided
<1>3. QED
  BY <1>1, <1>2, TeachStays DEF TeachInv, SentAsDecided, MarkedWhenTaught

-----------------------------------------------------------------------------
(* The steps of the training *)

(* Every batch holds all that is decided, what was sent before included.    *)
LEMMA TeachSend ==
  ASSUME TypeInv, TeachInv, NEW d \in Direction, Send(d)
  PROVE  TeachInv'
<1> DEFINE b == NewBatch(d)
<1>1. queue' = Append(queue, b) /\ b \in Batch /\ queue \in Seq(Batch)
  BY SendType DEF TypeInv, TrainingType
<1>2. DOMAIN b.labels = Decided /\ \A s \in Decided : b.labels[s] = suggested[s].decision
  BY DEF NewBatch
<1> HIDE DEF b
<1>3. /\ Len(queue') = Len(queue) + 1 /\ Len(queue) \in Nat
      /\ \A i \in 1..Len(queue') : IF i = Len(queue) + 1 THEN queue'[i] = b
                                   ELSE i \in 1..Len(queue) /\ queue'[i] = queue[i]
  BY <1>1
<1>4. /\ answers' = answers /\ learned' = learned /\ suggested' = suggested
      /\ run' = run /\ redecided' = redecided
  BY DEF Send
<1>5. SUFFICES ASSUME NEW s \in Suggestion, s \notin redecided
               PROVE  (SentAsDecided(s) /\ TaughtAsDecided(s) /\ SentAgain(s) /\ MarkedWhenTaught(s))'
  BY <1>4 DEF TeachInv
<1>6. SentAsDecided(s) /\ TaughtAsDecided(s) /\ SentAgain(s) /\ MarkedWhenTaught(s)
  BY <1>5 DEF TeachInv
<1>7. Taught(s)' = Taught(s) /\ Decided' = Decided /\ (Taught(s) => WasSent(s))
  BY <1>4 DEF Taught, Decided, WasSent
<1>8. WasSent(s)' => WasSent(s) \/ s \in Decided
  BY <1>2, <1>3, <1>4 DEF WasSent
<1>9. SentAsDecided(s)'
  BY <1>6, <1>7, <1>8 DEF SentAsDecided
<1>10. TaughtAsDecided(s)'
  BY <1>2, <1>3, <1>4, <1>6 DEF TaughtAsDecided
<1>11. SentAgain(s)'
  <2>1. Taught(s) => \A i \in 1..Len(queue') : s \in DOMAIN queue'[i].labels
    BY <1>2, <1>3, <1>6, <1>7 DEF SentAgain, SentAsDecided
  <2>2. ASSUME NEW i \in 1..Len(queue'), NEW j \in 1..Len(queue'), i < j,
               s \in DOMAIN queue'[i].labels
        PROVE  s \in DOMAIN queue'[j].labels
    <3>1. i \in 1..Len(queue) /\ queue'[i] = queue[i]
      BY <1>3, <2>2
    <3>2. CASE j = Len(queue) + 1
      <4>1. s \in Decided
        BY <1>6, <2>2, <3>1 DEF SentAsDecided, WasSent
      <4>2. QED
        BY <1>2, <1>3, <3>2, <4>1
    <3>3. CASE j # Len(queue) + 1
      BY <1>3, <1>6, <2>2, <3>1, <3>3 DEF SentAgain
    <3>4. QED
      BY <3>2, <3>3
  <2>3. QED
    BY <1>7, <2>1, <2>2 DEF SentAgain
<1>12. MarkedWhenTaught(s)'
  BY <1>4, <1>6, <1>7 DEF MarkedWhenTaught
<1>13. QED
  BY <1>9, <1>10, <1>11, <1>12

(* The analyzer forgets what it knew of a direction, and learns the batch.  *)
LEMMA TeachLearn ==
  ASSUME TypeInv, TeachInv, Learn
  PROVE  TeachInv'
<1> DEFINE b == Head(queue)
<1>1. /\ Len(queue) > 0 /\ Len(queue') = Len(queue) - 1 /\ b = queue[1] /\ Len(queue) \in Nat
      /\ \A i \in 1..Len(queue') : i + 1 \in 1..Len(queue) /\ queue'[i] = queue[i + 1]
  BY LearnType DEF TypeInv, TrainingType
<1>2. 1 \in 1..Len(queue)
  BY <1>1
<1>3. /\ b.direction \in Direction
      /\ \A s \in DOMAIN b.labels : s \in Suggestion /\ b.labels[s] \in {"yes", "no"}
  BY <1>1, <1>2, BatchType DEF TypeInv
<1>4. /\ learned' = [learned EXCEPT ![b.direction] =
                       [s \in Suggestion |-> IF s \in DOMAIN b.labels THEN b.labels[s] ELSE "none"]]
      /\ answers' = answers \cup {[words |-> b.words, suggestions |-> DOMAIN b.labels]}
      /\ suggested' = suggested /\ run' = run /\ redecided' = redecided
  BY DEF Learn
<1> HIDE DEF b
<1>5. /\ \A s \in Suggestion :
           learned'[b.direction][s] = IF s \in DOMAIN b.labels THEN b.labels[s] ELSE "none"
      /\ \A d \in Direction : d # b.direction => learned'[d] = learned[d]
  BY <1>3, <1>4 DEF TypeInv, TrainingType
<1>6. SUFFICES ASSUME NEW s \in Suggestion, s \notin redecided
               PROVE  (SentAsDecided(s) /\ TaughtAsDecided(s) /\ SentAgain(s) /\ MarkedWhenTaught(s))'
  BY <1>4 DEF TeachInv
<1>7. SentAsDecided(s) /\ TaughtAsDecided(s) /\ SentAgain(s) /\ MarkedWhenTaught(s)
  BY <1>6 DEF TeachInv
<1>8. Taught(s) => s \in DOMAIN b.labels
  BY <1>1, <1>2, <1>7 DEF SentAgain
<1>9. s \in DOMAIN b.labels => Taught(s)'
  BY <1>3, <1>5 DEF Taught
<1>10. Taught(s)' => s \in DOMAIN b.labels
  BY <1>5, <1>8 DEF Taught
<1>11. SentAsDecided(s)'
  <2>1. Decided' = Decided
    BY <1>4 DEF Decided
  <2>2. s \in DOMAIN b.labels => WasSent(s)
    BY <1>1, <1>2 DEF WasSent
  <2>3. WasSent(s)' => WasSent(s)
    <3>1. ASSUME NEW i \in 1..Len(queue'), s \in DOMAIN queue'[i].labels PROVE WasSent(s)
      BY <1>1, <3>1 DEF WasSent
    <3>2. ASSUME NEW d \in Direction, learned'[d][s] # "none" PROVE WasSent(s)
      BY <1>10, <2>2, <3>2 DEF Taught
    <3>3. QED
      BY <3>1, <3>2 DEF WasSent
  <2>4. QED
    BY <1>7, <2>1, <2>3 DEF SentAsDecided
<1>12. TaughtAsDecided(s)'
  <2>1. ASSUME NEW i \in 1..Len(queue'), s \in DOMAIN queue'[i].labels
        PROVE  queue'[i].labels[s] = suggested[s].decision
    BY <1>1, <1>7, <2>1 DEF TaughtAsDecided
  <2>2. ASSUME NEW d \in Direction PROVE learned'[d][s] \in {"none", suggested[s].decision}
    BY <1>1, <1>2, <1>5, <1>7 DEF TaughtAsDecided
  <2>3. QED
    BY <1>4, <2>1, <2>2 DEF TaughtAsDecided
<1>13. SentAgain(s)'
  <2>1. ASSUME Taught(s)', NEW i \in 1..Len(queue') PROVE s \in DOMAIN queue'[i].labels
    <3>1. i + 1 \in 1..Len(queue) /\ 1 < i + 1 /\ queue'[i] = queue[i + 1]
      BY <1>1
    <3>2. s \in DOMAIN queue[1].labels
      BY <1>1, <1>10, <2>1
    <3>3. QED
      BY <1>2, <1>7, <3>1, <3>2 DEF SentAgain
  <2>2. ASSUME NEW i \in 1..Len(queue'), NEW j \in 1..Len(queue'), i < j,
               s \in DOMAIN queue'[i].labels
        PROVE  s \in DOMAIN queue'[j].labels
    <3>1. i + 1 \in 1..Len(queue) /\ j + 1 \in 1..Len(queue) /\ i + 1 < j + 1
          /\ queue'[i] = queue[i + 1] /\ queue'[j] = queue[j + 1]
      BY <1>1, <2>2
    <3>2. QED
      BY <1>7, <2>2, <3>1 DEF SentAgain
  <2>3. QED
    BY <2>1, <2>2 DEF SentAgain
<1>14. MarkedWhenTaught(s)'
  <2>1. Taught(s) => Taught(s)'
    BY <1>8, <1>9
  <2>2. ASSUME NEW a \in answers', s \in a.suggestions PROVE Taught(s)'
    BY <1>4, <1>7, <1>9, <2>1, <2>2 DEF MarkedWhenTaught
  <2>3. QED
    BY <1>4, <1>7, <2>1, <2>2 DEF MarkedWhenTaught
<1>15. QED
  BY <1>11, <1>12, <1>13, <1>14

LEMMA TeachMark ==
  ASSUME TypeInv, TeachInv, NEW a \in answers, UpdateTrainStatus(a)
  PROVE  TeachInv'
<1>1. /\ answers' \subseteq answers /\ queue' = queue /\ learned' = learned /\ run' = run
      /\ redecided' = redecided /\ a.suggestions \subseteq Suggestion
  BY MarkStep
<1>2. ASSUME NEW s \in Suggestion
      PROVE  /\ suggested'[s].decision = suggested[s].decision
             /\ suggested'[s].opt = suggested[s].opt /\ suggested'[s].message = suggested[s].message
             /\ suggested'[s].trained => s \in a.suggestions \/ suggested[s].trained
  <2>1. CASE s \in a.suggestions
    <3>1. suggested[s] \in OptSuggestion /\ suggested'[s] = [suggested[s] EXCEPT !.trained = TRUE]
      BY <2>1, MarkStep DEF Exist, TypeInv, TypeOK
    <3>2. QED
      BY <2>1, <3>1 DEF OptSuggestion
  <2>2. CASE s \notin a.suggestions
    <3>1. suggested'[s] = suggested[s]
      BY <2>2, MarkStep
    <3>2. QED
      BY <3>1
  <2>3. QED
    BY <2>1, <2>2
<1>3. SUFFICES ASSUME NEW s \in Suggestion, s \notin redecided
               PROVE  (SentAsDecided(s) /\ TaughtAsDecided(s) /\ SentAgain(s) /\ MarkedWhenTaught(s))'
  BY <1>1 DEF TeachInv
<1>4. SentAsDecided(s) /\ TaughtAsDecided(s) /\ SentAgain(s) /\ MarkedWhenTaught(s)
  BY <1>3 DEF TeachInv
<1>5. WasSent(s)' = WasSent(s) /\ Taught(s)' = Taught(s)
  BY <1>1 DEF WasSent, Taught
<1>6. SentAsDecided(s)'
  BY <1>2, <1>4, <1>5 DEF SentAsDecided, Decided
<1>7. TaughtAsDecided(s)'
  BY <1>1, <1>2, <1>4 DEF TaughtAsDecided
<1>8. SentAgain(s)'
  BY <1>1, <1>4, <1>5 DEF SentAgain
<1>9. MarkedWhenTaught(s)'
  BY <1>1, <1>2, <1>4, <1>5 DEF MarkedWhenTaught
<1>10. QED
  BY <1>6, <1>7, <1>8, <1>9

LEMMA TeachStep ==
  ASSUME TypeInv, TeachInv, [Next]_vars
  PROVE  TeachInv'
<1>1. ASSUME NEW d \in Direction, NEW today \in BOOLEAN, TrainSensitive(d, today) PROVE TeachInv'
  BY <1>1, TeachSend DEF TrainSensitive
<1>2. QED
  BY <1>1, TeachRequest, TeachProceed, TeachWords, TeachLearn, TeachMark DEF Next

(* What is marked as learned was taught as the user decided it, unless it   *)
(* was decided otherwise since: decisions, stale writes, batches and        *)
(* answers come in any order, and every batch holds all that was sent.      *)
THEOREM LearnedAsDecided == Spec => []LearnedIsDecided
<1>1. Init => TypeInv /\ TeachInv
  BY InitType, InitTeach
<1>2. TypeInv /\ TeachInv /\ [Next]_vars => TypeInv' /\ TeachInv'
  BY TypeStep, TeachStep
<1>3. TypeInv /\ TeachInv => LearnedIsDecided
  BY TeachIsLearned
<1>4. QED
  BY <1>1, <1>2, <1>3, PTL DEF Spec
-----------------------------------------------------------------------------
(* What was asked.  Requests for one pair that is not raced do not overlap; *)
(* the rows that a request has read are of its customer, or gone, and no    *)
(* identifier of theirs comes back as another's.  Between the decision and  *)
(* the row, what was asked is what the request will save.                   *)
Pairs(q)    == {q.customer} \X q.campaigns
PairOf(row) == <<row.customer, row.campaign>>
Shows(q)    == q.now \cup ({q.row} \ {None})

(* The request will save the row of a pair.                                 *)
Decides(q) == q.at = "saveRow" \/ (q.at = "saveDecision" /\ q.read.decision = "yes")

Apart == \A g, h \in Busy : g # h => Pairs(run[g]) \cap Pairs(run[h]) \subseteq raced

Scoped(q) ==
    /\ q.at = "edit" => DOMAIN q.list \subseteq q.campaigns
    /\ q.at = "update" => /\ q.campaigns = DOMAIN q.list
                          /\ \A k \in DOMAIN q.list : q.list[k] \in {"create", "update", "delete"}
    /\ q.at = "form" \/ q.now # {} => q.campaigns = Campaign
    /\ q.row # None => Decides(q)
    /\ Decides(q) => q.customer = q.read.customer /\ q.campaigns = {q.read.campaign}

Sees(q) ==
    /\ \A r \in Shows(q) : rows[r].customer \in {None, q.customer}
    /\ q.row # None => rows[q.row].campaign \in {None, q.read.campaign}
    /\ q.at = "saveRow" /\ q.s # None /\ <<q.customer, q.read.campaign>> \notin raced =>
         asked[<<q.customer, q.read.campaign>>] = q.read.opt

Agree == \A g, h \in Busy :
    /\ Shows(run[g]) \cap Shows(run[h]) # {} => run[g].customer = run[h].customer
    /\ run[g].row = run[h].row /\ run[g].row # None => run[g].read.campaign = run[h].read.campaign

AllScoped == \A h \in Busy : Scoped(run[h])
AllSee    == \A h \in Busy : Sees(run[h])

Stands(c, k) ==
    /\ asked[<<c, k>>] = "out" => IsOut(c, k)
    /\ asked[<<c, k>>] = "in"  => ~ IsOut(c, k) \/ \E q, r \in RowsOf(c, k) : q # r

StandInv == TypeInv /\ Apart /\ AllScoped /\ AllSee /\ Agree /\ AnswerStands

(* What the request in slot h may do to the row r: leave it, take it away,  *)
(* or put it there, where none was or again for the pair it had.            *)
Touches(h, r) ==
    \/ rows'[r] = rows[r]
    \/ rows'[r] = NoRow /\ PairOf(rows[r]) \in Pairs(run[h])
    \/ /\ PairOf(rows'[r]) \in Pairs(run[h])
       /\ r \in FreeRows \/ r = run[h].row \/ PairOf(rows'[r]) = PairOf(rows[r])

LEMMA StandsHere ==
  AnswerStands <=> \A c \in Customer, k \in Campaign :
                     <<c, k>> \in raced \/ Saving(c, k) \/ Stands(c, k)
  BY DEF AnswerStands, Stands

LEMMA ShowsType ==
  ASSUME TypeInv, NEW h \in Handler
  PROVE  Shows(run[h]) \subseteq RowId /\ run[h].campaigns \subseteq Campaign
  BY DEF TypeInv, RunInv, RunType, Requested, Shows

(* The row that a request will save is its pair's, or gone.                 *)
LEMMA OwnRow ==
  ASSUME StandInv, NEW h \in Busy, run[h].row # None
  PROVE  /\ run[h].row \in RowId /\ run[h].row \in Shows(run[h])
         /\ rows[run[h].row].customer \in {None, run[h].customer}
         /\ rows[run[h].row].campaign \in {None, run[h].read.campaign}
         /\ Pairs(run[h]) = {<<run[h].customer, run[h].read.campaign>>}
<1>1. h \in Handler /\ Scoped(run[h]) /\ Sees(run[h]) /\ TypeInv
  BY DEF Busy, StandInv, AllScoped, AllSee
<1>2. run[h].row \in Shows(run[h]) /\ Shows(run[h]) \subseteq RowId
  BY <1>1, ShowsType DEF Shows
<1>3. run[h].campaigns = {run[h].read.campaign}
  BY <1>1 DEF Scoped
<1>4. Pairs(run[h]) = {<<run[h].customer, run[h].read.campaign>>}
  BY <1>3 DEF Pairs
<1>5. QED
  BY <1>1, <1>2, <1>4 DEF Sees

LEMMA RowIsOrNot ==
  ASSUME TypeInv, NEW r \in RowId
  PROVE  /\ rows[r] = NoRow => rows[r].customer = None /\ rows[r].campaign = None
         /\ rows[r] # NoRow => /\ rows[r] \in Row
                               /\ rows[r].customer \in Customer /\ rows[r].campaign \in Campaign
                               /\ rows[r].customer # None /\ rows[r].campaign # None
  BY ConstantsAssumption DEF TypeInv, TypeOK, Row, NoRow

(* The rows of the other pairs stay.                                        *)
LEMMA OthersStay ==
  ASSUME StandInv, TypeInv', NEW h \in Busy, \A r \in RowId : Touches(h, r),
         NEW c \in Customer, NEW k \in Campaign, <<c, k>> \notin Pairs(run[h])
  PROVE  /\ RowsOf(c, k)' = RowsOf(c, k) /\ \A r \in RowsOf(c, k) : rows'[r] = rows[r]
         /\ IsOut(c, k)' = IsOut(c, k)
<1>1. ASSUME NEW r \in RowId, PairOf(rows[r]) = <<c, k>> PROVE rows'[r] = rows[r]
  <2>1. rows[r] # NoRow
    BY <1>1, ConstantsAssumption DEF PairOf, NoRow
  <2>2. r \notin FreeRows
    BY <2>1 DEF FreeRows
  <2>3. CASE r = run[h].row
    <3>1. run[h].row # None
      BY <2>3, ConstantsAssumption
    <3>2. rows[r].customer = run[h].customer /\ rows[r].campaign = run[h].read.campaign
      BY <2>1, <2>3, <3>1, OwnRow, RowIsOrNot DEF StandInv
    <3>3. PairOf(rows[r]) \in Pairs(run[h])
      BY <3>1, <3>2, OwnRow DEF PairOf
    <3>4. QED
      BY <1>1, <3>3
  <2>4. QED
    BY <1>1, <2>2, <2>3 DEF Touches
<1>2. ASSUME NEW r \in RowId, PairOf(rows'[r]) = <<c, k>> PROVE rows'[r] = rows[r]
  <2>1. rows'[r] # NoRow
    BY <1>2, ConstantsAssumption DEF PairOf, NoRow
  <2>2. QED
    BY <1>2, <2>1 DEF Touches
<1>3. RowsOf(c, k)' = RowsOf(c, k) /\ \A r \in RowsOf(c, k) : rows'[r] = rows[r]
  BY <1>1, <1>2 DEF RowsOf, PairOf
<1>4. QED
  BY <1>3 DEF IsOut

(* What the other requests have read is still so.                           *)
LEMMA OthersSee ==
  ASSUME StandInv, TypeInv', NEW h \in Busy, \A r \in RowId : Touches(h, r),
         \A p \in (Customer \X Campaign) \ Pairs(run[h]) : asked'[p] = asked[p],
         raced \subseteq raced', NEW g \in Busy, g # h, run'[g] = run[g]
  PROVE  Sees(run[g])'
<1> DEFINE q == run[g]
<1>1. /\ TypeInv /\ g \in Handler /\ h \in Handler /\ q.at # "idle"
      /\ Scoped(q) /\ Sees(q) /\ Scoped(run[h])
  BY DEF StandInv, Busy, AllScoped, AllSee
<1>2. Shows(q) \subseteq RowId /\ q.customer \in Customer /\ q.campaigns \subseteq Campaign
  BY <1>1, ShowsType, BusyType
<1>3. \A r \in Shows(q) : r \notin FreeRows
  BY DEF FreeRows, Shows
<1>4. ASSUME NEW r \in Shows(q), r = run[h].row
      PROVE  run[h].row # None /\ run[h].customer = q.customer
  <2>1. run[h].row # None
    BY <1>2, <1>4, ConstantsAssumption
  <2>2. r \in Shows(run[h])
    BY <1>4, <2>1 DEF Shows
  <2>3. QED
    BY <2>1, <2>2 DEF StandInv, Agree
<1>5. \A r : PairOf(rows'[r]) \in Pairs(run[h]) =>
         rows'[r].customer = run[h].customer /\ rows'[r].campaign \in run[h].campaigns
  BY DEF PairOf, Pairs
<1>6. ASSUME NEW r \in Shows(q) PROVE rows'[r].customer \in {None, q.customer}
  <2>1. rows[r].customer \in {None, q.customer} /\ r \in RowId
    BY <1>1, <1>2 DEF Sees
  <2>2. CASE rows'[r] = rows[r] \/ PairOf(rows'[r]) = PairOf(rows[r])
    BY <2>1, <2>2 DEF PairOf
  <2>3. CASE rows'[r] = NoRow
    BY <2>3 DEF NoRow
  <2>4. CASE PairOf(rows'[r]) \in Pairs(run[h]) /\ r = run[h].row
    BY <1>4, <1>5, <2>4
  <2>5. QED
    BY <1>3, <2>1, <2>2, <2>3, <2>4 DEF Touches
<1>7. ASSUME q.row # None PROVE rows'[q.row].campaign \in {None, q.read.campaign}
  <2> DEFINE r == q.row
  <2>1. r \in Shows(q)
    BY <1>7 DEF Shows
  <2>2. rows[r].campaign \in {None, q.read.campaign} /\ r \in RowId
    BY <1>1, <1>2, <1>7, <2>1 DEF Sees
  <2>3. CASE rows'[r] = rows[r] \/ PairOf(rows'[r]) = PairOf(rows[r])
    BY <2>2, <2>3 DEF PairOf
  <2>4. CASE rows'[r] = NoRow
    BY <2>4 DEF NoRow
  <2>5. CASE PairOf(rows'[r]) \in Pairs(run[h]) /\ r = run[h].row
    <3>1. run[h].read.campaign = q.read.campaign
      BY <1>7, <2>5 DEF StandInv, Agree
    <3>2. run[h].campaigns = {run[h].read.campaign}
      BY <1>1, <1>4, <2>1, <2>5 DEF Scoped
    <3>3. QED
      BY <1>5, <2>5, <3>1, <3>2
  <2> HIDE DEF r
  <2>6. QED
    BY <1>3, <2>1, <2>2, <2>3, <2>4, <2>5 DEF Touches, r
<1>8. ASSUME q.at = "saveRow", q.s # None, <<q.customer, q.read.campaign>> \notin raced'
      PROVE  asked'[<<q.customer, q.read.campaign>>] = q.read.opt
  <2>1. q.campaigns = {q.read.campaign}
    BY <1>1, <1>8 DEF Scoped, Decides
  <2>2. <<q.customer, q.read.campaign>> \in Pairs(q) /\ q.read.campaign \in Campaign
    BY <1>2, <2>1 DEF Pairs
  <2>3. <<q.customer, q.read.campaign>> \notin Pairs(run[h])
    BY <1>8, <2>2 DEF StandInv, Apart
  <2>4. asked[<<q.customer, q.read.campaign>>] = q.read.opt
    BY <1>1, <1>8 DEF Sees
  <2>5. QED
    BY <1>2, <2>2, <2>3, <2>4
<1>9. run'[g] = q
  OBVIOUS
<1> HIDE DEF q
<1>10. Shows(run[g])' = Shows(q)
  BY <1>9 DEF Shows
<1>11. QED
  BY <1>6, <1>7, <1>8, <1>9, <1>10 DEF Sees

(* A request that ends, with what it has done to rows of its pairs.         *)
LEMMA EndStands ==
  ASSUME StandInv, TypeInv', NEW h \in Busy, \A r \in RowId : Touches(h, r),
         raced \subseteq raced', run' = [run EXCEPT ![h] = Idle],
         \A p \in (Customer \X Campaign) \ Pairs(run[h]) : asked'[p] = asked[p],
         \A c \in Customer, k \in Campaign :
           <<c, k>> \in Pairs(run[h]) \ raced' => Stands(c, k)'
  PROVE  StandInv'
<1>1. /\ Busy' = Busy \ {h} /\ \A g \in Busy \ {h} : run'[g] = run[g]
  BY IdleType DEF StandInv, TypeInv, RunInv, RunType, Busy
<1>2. Apart' /\ AllScoped' /\ Agree'
  <2>1. \A g \in Busy' : g \in Busy /\ run'[g] = run[g]
    BY <1>1
  <2>2. Apart'
    BY <2>1 DEF StandInv, Apart, Pairs
  <2>3. AllScoped'
    BY <2>1 DEF StandInv, AllScoped, Scoped, Decides
  <2>4. Agree'
    BY <2>1 DEF StandInv, Agree, Shows
  <2>5. QED
    BY <2>2, <2>3, <2>4
<1>3. AllSee'
  BY <1>1, OthersSee DEF AllSee
<1>4. AnswerStands'
  <2> SUFFICES ASSUME NEW c \in Customer, NEW k \in Campaign, <<c, k>> \notin raced',
                      ~ Saving(c, k)'
               PROVE  Stands(c, k)'
    BY DEF AnswerStands, Stands
  <2>1. CASE <<c, k>> \in Pairs(run[h])
    BY <2>1
  <2>2. CASE <<c, k>> \notin Pairs(run[h])
    <3>1. Stands(c, k)
      <4>1. ~ Saving(c, k)
        BY <1>1, <2>2 DEF Saving, Pairs
      <4>2. QED
        BY <4>1, StandsHere DEF StandInv
    <3>2. RowsOf(c, k)' = RowsOf(c, k) /\ IsOut(c, k)' = IsOut(c, k)
      BY <2>2, OthersStay
    <3>3. asked'[<<c, k>>] = asked[<<c, k>>]
      BY <2>2
    <3>4. QED
      BY <3>1, <3>2, <3>3 DEF Stands
  <2>3. QED
    BY <2>1, <2>2
<1>5. QED
  BY <1>2, <1>3, <1>4 DEF StandInv

(* The rows and what was asked stay.                                        *)
LEMMA RestStands ==
  ASSUME StandInv, TypeInv', rows' = rows, asked' = asked, raced \subseteq raced',
         NEW H \in SUBSET Busy, Busy' = H, \A g \in H : run'[g] = run[g],
         \A g \in Busy \ H : run[g].at = "saveRow" => Pairs(run[g]) \subseteq raced'
  PROVE  StandInv'
<1>1. Apart'
  BY DEF StandInv, Apart, Pairs
<1>2. AllScoped'
  BY DEF StandInv, AllScoped, Scoped, Decides
<1>3. Agree'
  BY DEF StandInv, Agree, Shows
<1>4. \A c, k : RowsOf(c, k)' = RowsOf(c, k) /\ IsOut(c, k)' = IsOut(c, k)
  BY DEF RowsOf, IsOut
<1>5. AllSee'
  BY <1>4 DEF StandInv, AllSee, Sees, Shows, Decides, RowsOf
<1>6. AnswerStands'
  <2>1. \A c, k : Saving(c, k) => Saving(c, k)' \/ <<c, k>> \in raced'
    BY DEF Saving, Pairs
  <2>2. QED
    BY <1>4, <2>1 DEF StandInv, AnswerStands
<1>7. QED
  BY <1>1, <1>2, <1>3, <1>5, <1>6 DEF StandInv

(* A request that begins, or goes on as q: the rows that it shows for the   *)
(* first time are its customer's.                                           *)
LEMMA GoesOnStands ==
  ASSUME StandInv, TypeInv', NEW h \in Handler, NEW q, q.at # "idle",
         run' = [run EXCEPT ![h] = q], rows' = rows, raced \subseteq raced',
         run[h].at # "saveRow",
         asked' = asked \/ (q.at = "saveRow" /\ \A p \in (Customer \X Campaign) \ Pairs(q) :
                                                 asked'[p] = asked[p]),
         \A g \in Busy \ {h} : Pairs(run[g]) \cap Pairs(q) \subseteq raced',
         Scoped(q), Sees(q)',
         \A r \in Shows(q) : rows[r].customer # None \/ (h \in Busy /\ r \in Shows(run[h])),
         q.row # None => \/ rows[q.row].campaign # None
                         \/ (h \in Busy /\ q.row = run[h].row /\ q.read = run[h].read),
         h \in Busy => q.customer = run[h].customer
  PROVE  StandInv'
<1>1. /\ run'[h] = q /\ Busy' = Busy \cup {h}
      /\ \A g \in Busy' \ {h} : g \in Busy /\ run'[g] = run[g]
  BY DEF StandInv, TypeInv, RunInv, RunType, Busy
<1>2. Apart'
  <2> SUFFICES ASSUME NEW f \in Busy', NEW g \in Busy', f # g
               PROVE  Pairs(run'[f]) \cap Pairs(run'[g]) \subseteq raced'
    BY DEF Apart, Pairs
  <2>1. CASE f = h
    BY <1>1, <2>1
  <2>2. CASE g = h
    BY <1>1, <2>2
  <2>3. CASE f # h /\ g # h
    BY <1>1, <2>3 DEF StandInv, Apart
  <2>4. QED
    BY <2>1, <2>2, <2>3
<1>3. AllScoped'
  <2> SUFFICES ASSUME NEW g \in Busy' PROVE Scoped(run'[g])
    BY DEF AllScoped, Scoped, Decides
  <2>1. QED
    BY <1>1 DEF StandInv, AllScoped
<1>4. \A c, k : RowsOf(c, k)' = RowsOf(c, k) /\ IsOut(c, k)' = IsOut(c, k)
  BY DEF RowsOf, IsOut
<1>5. AllSee'
  <2> SUFFICES ASSUME NEW g \in Busy' PROVE Sees(run[g])'
    BY DEF AllSee
  <2>1. PICK p : p = run'[g]
    OBVIOUS
  <2>2. Sees(p)'
    <3>1. CASE g = h
      BY <1>1, <2>1, <3>1
    <3>2. CASE g # h
      <4>1. /\ g \in Busy /\ run[g] = p /\ g \in Handler /\ p.at # "idle" /\ TypeInv
            /\ Sees(p) /\ Scoped(p)
        BY <1>1, <2>1, <3>2 DEF StandInv, AllSee, AllScoped, Busy
      <4>2. ASSUME p.at = "saveRow", p.s # None, <<p.customer, p.read.campaign>> \notin raced'
            PROVE  asked'[<<p.customer, p.read.campaign>>] = p.read.opt
        <5>1. p.campaigns = {p.read.campaign} /\ p.customer \in Customer /\ p.campaigns \subseteq Campaign
          BY <4>1, <4>2, BusyType, ShowsType DEF Scoped, Decides
        <5>2. <<p.customer, p.read.campaign>> \in Pairs(p) /\ p.read.campaign \in Campaign
          BY <5>1 DEF Pairs
        <5>3. <<p.customer, p.read.campaign>> \notin Pairs(q)
          BY <3>2, <4>1, <4>2, <5>2
        <5>4. asked[<<p.customer, p.read.campaign>>] = p.read.opt
          BY <4>1, <4>2 DEF Sees
        <5>5. QED
          BY <5>1, <5>2, <5>3, <5>4
      <4>3. QED
        BY <4>1, <4>2 DEF Sees, Shows
    <3>3. QED
      BY <3>1, <3>2
  <2>3. QED
    BY <2>1, <2>2 DEF Sees, Shows
<1>6. ASSUME NEW g \in Busy' \ {h}
      PROVE  /\ Shows(q) \cap Shows(run[g]) # {} => q.customer = run[g].customer
             /\ q.row = run[g].row /\ q.row # None => q.read.campaign = run[g].read.campaign
  <2>1. g \in Busy /\ Sees(run[g])
    BY <1>1 DEF StandInv, AllSee
  <2>2. ASSUME NEW r \in Shows(q), r \in Shows(run[g]) PROVE q.customer = run[g].customer
    <3>1. CASE rows[r].customer # None
      BY <2>1, <2>2, <3>1 DEF Sees
    <3>2. CASE h \in Busy /\ r \in Shows(run[h])
      BY <2>1, <2>2, <3>2 DEF StandInv, Agree
    <3>3. QED
      BY <3>1, <3>2
  <2>3. ASSUME q.row = run[g].row, q.row # None PROVE q.read.campaign = run[g].read.campaign
    <3>1. CASE rows[q.row].campaign # None
      BY <2>1, <2>3, <3>1 DEF Sees
    <3>2. CASE h \in Busy /\ q.row = run[h].row /\ q.read = run[h].read
      BY <2>1, <2>3, <3>2 DEF StandInv, Agree
    <3>3. QED
      BY <2>3, <3>1, <3>2
  <2>4. QED
    BY <2>2, <2>3
<1>7. Agree'
  <2> SUFFICES ASSUME NEW f \in Busy', NEW g \in Busy'
               PROVE  /\ Shows(run'[f]) \cap Shows(run'[g]) # {} => run'[f].customer = run'[g].customer
                      /\ run'[f].row = run'[g].row /\ run'[f].row # None
                           => run'[f].read.campaign = run'[g].read.campaign
    BY DEF Agree, Shows
  <2>1. CASE f = h
    BY <1>1, <1>6, <2>1
  <2>2. CASE g = h
    BY <1>1, <1>6, <2>2
  <2>3. CASE f # h /\ g # h
    BY <1>1, <2>3 DEF StandInv, Agree
  <2>4. QED
    BY <2>1, <2>2, <2>3
<1>8. AnswerStands'
  <2> SUFFICES ASSUME NEW c \in Customer, NEW k \in Campaign, <<c, k>> \notin raced',
                      ~ Saving(c, k)'
               PROVE  Stands(c, k)'
    BY DEF AnswerStands, Stands
  <2>1. ~ Saving(c, k)
    BY <1>1 DEF Saving
  <2>2. Stands(c, k)
    BY <2>1, StandsHere DEF StandInv
  <2>3. q.at = "saveRow" => <<c, k>> \notin Pairs(q)
    BY <1>1 DEF Saving, Pairs
  <2>4. asked'[<<c, k>>] = asked[<<c, k>>]
    BY <2>3
  <2>5. QED
    BY <1>4, <2>2, <2>4 DEF Stands
<1>9. QED
  BY <1>2, <1>3, <1>5, <1>7, <1>8 DEF StandInv

LEMMA BeginStands ==
  ASSUME StandInv, TypeInv', NEW h \in Handler, NEW q, Begin(h, q), q.at # "idle",
         Scoped(q), Sees(q), \A r \in Shows(q) : rows[r].customer # None,
         q.row # None => rows[q.row].campaign # None
  PROVE  StandInv'
<1>1. /\ run[h].at = "idle" /\ run' = [run EXCEPT ![h] = q] /\ rows' = rows /\ asked' = asked
      /\ raced \subseteq raced'
  BY DEF Begin
<1>2. h \notin Busy
  BY <1>1 DEF Busy
<1>3. ASSUME NEW g \in Busy PROVE Pairs(run[g]) \cap Pairs(q) \subseteq raced'
  <2>1. CASE run[g].customer = q.customer
    <3>1. {q.customer} \X (q.campaigns \cap run[g].campaigns) \subseteq raced'
      BY <2>1 DEF Begin
    <3>2. QED
      BY <2>1, <3>1 DEF Pairs
  <2>2. CASE run[g].customer # q.customer
    BY <2>2 DEF Pairs
  <2>3. QED
    BY <2>1, <2>2
<1>4. Sees(q)'
  BY <1>1 DEF Sees, Shows
<1>5. QED
  BY <1>1, <1>2, <1>3, <1>4, GoesOnStands

(* A request that shows no row.                                             *)
LEMMA PlainStands ==
  ASSUME StandInv, TypeInv', NEW h \in Handler, NEW q, Begin(h, q),
         q.at \notin {"idle", "form", "saveRow"}, q.at = "saveDecision" => q.read.decision # "yes",
         q.now = {}, q.row = None, q.at = "edit" => DOMAIN q.list \subseteq q.campaigns,
         q.at = "update" => /\ q.campaigns = DOMAIN q.list
                            /\ \A k \in DOMAIN q.list : q.list[k] \in {"create", "update", "delete"}
  PROVE  StandInv'
<1>1. ~ Decides(q) /\ Shows(q) = {}
  BY DEF Decides, Shows
<1>2. Scoped(q) /\ Sees(q)
  BY <1>1 DEF Scoped, Sees
<1>3. QED
  BY <1>1, <1>2, BeginStands

(* A request that will save the row of a pair, which it has looked up.      *)
LEMMA DecideStands ==
  ASSUME StandInv, TypeInv', NEW h \in Handler, NEW q, Begin(h, q), Decides(q), q.at # "idle",
         q.at = "saveRow" => q.s = None,
         NEW c \in Customer, NEW k \in Campaign, q.customer = c, q.read.customer = c,
         q.read.campaign = k, q.campaigns = {k}, q.row \in AnyRowOf(c, k), q.now = {}
  PROVE  StandInv'
<1>1. Scoped(q)
  BY DEF Scoped, Decides
<1>2. None \notin Customer /\ None \notin Campaign /\ None \notin RowId
  BY ConstantsAssumption
<1>3. IF q.row = None THEN RowsOf(c, k) = {} ELSE q.row \in RowsOf(c, k)
  BY <1>2 DEF AnyRowOf, RowsOf
<1>4. q.row # None => rows[q.row].customer = c /\ rows[q.row].campaign = k
  BY <1>3 DEF RowsOf
<1>5. Shows(q) = IF q.row = None THEN {} ELSE {q.row}
  BY DEF Shows
<1>6. Sees(q)
  BY <1>3, <1>4, <1>5 DEF Sees
<1>7. QED
  BY <1>1, <1>2, <1>4, <1>5, <1>6, BeginStands

LEMMA RequestStands ==
  ASSUME StandInv, TypeInv', NEW h \in Handler, Request(h)
  PROVE  StandInv'
<1>1. TypeInv
  BY DEF StandInv
<1>2. ASSUME NEW c \in Customer, NEW k \in Campaign \cup {None}, NEW m \in Message,
             DetectOptOut(h, m, c, k)
      PROVE  StandInv'
  <2>1. PICK s, q :
          /\ s \in FreeSuggestions
          /\ q = [Idle EXCEPT !.at = "insert", !.customer = c, !.s = s,
                              !.read = [NoSuggestion EXCEPT !.message = m, !.customer = c,
                                                            !.campaign = k, !.opt = "out"]]
          /\ Begin(h, q)
    BY <1>2 DEF DetectOptOut
  <2>2. q.at = "insert" /\ q.now = {} /\ q.row = None
    BY <2>1 DEF Idle
  <2>3. QED
    BY <2>1, <2>2, PlainStands
<1>3. ASSUME NEW c \in Customer, NEW k \in Campaign \cup {None}, NEW opt \in {"in", "out"},
             SuggestByHand(h, c, k, opt)
      PROVE  StandInv'
  <2>1. PICK s, q :
          /\ s \in FreeSuggestions
          /\ q = [Idle EXCEPT !.at = "insert", !.customer = c, !.s = s,
                              !.read = [NoSuggestion EXCEPT !.customer = c, !.campaign = k,
                                                            !.opt = opt]]
          /\ Begin(h, q)
    BY <1>3 DEF SuggestByHand
  <2>2. q.at = "insert" /\ q.now = {} /\ q.row = None
    BY <2>1 DEF Idle
  <2>3. QED
    BY <2>1, <2>2, PlainStands
<1>4. ASSUME NEW s \in Suggestion, NEW k \in Campaign \cup {None}, RejectSuggestion(h, s, k)
      PROVE  StandInv'
  <2> DEFINE old == suggested[s]
             read == [old EXCEPT !.decision = "no", !.campaign = IF k = None THEN @ ELSE k]
  <2>1. old \in OptSuggestion
    BY <1>1, <1>4, SuggestedType DEF RejectSuggestion
  <2>2. read.decision = "no"
    BY <2>1 DEF OptSuggestion
  <2>3. PICK q : /\ q = [Idle EXCEPT !.at = "saveDecision", !.customer = old.customer, !.s = s,
                                     !.read = read]
                 /\ Begin(h, q)
    BY <1>4 DEF RejectSuggestion
  <2> HIDE DEF read
  <2>4. q.at = "saveDecision" /\ q.now = {} /\ q.row = None /\ q.read.decision # "yes"
    BY <2>2, <2>3 DEF Idle
  <2>5. QED
    BY <2>3, <2>4, PlainStands
<1>5. ASSUME NEW s \in Suggestion, NEW k \in Campaign, ConfirmSuggestion(h, s, k) PROVE StandInv'
  <2> DEFINE old == suggested[s]
             read == [old EXCEPT !.decision = "yes", !.campaign = k]
  <2>1. old \in OptSuggestion /\ old.customer \in Customer
    BY <1>1, <1>5, SuggestedType DEF ConfirmSuggestion
  <2>2. read.decision = "yes" /\ read.customer = old.customer /\ read.campaign = k
    BY <2>1 DEF OptSuggestion
  <2>3. PICK r, q :
          /\ r \in AnyRowOf(old.customer, k)
          /\ q = [Idle EXCEPT !.at = "saveDecision", !.customer = old.customer,
                              !.campaigns = {k}, !.s = s, !.row = r, !.read = read]
          /\ Begin(h, q)
    BY <1>5 DEF ConfirmSuggestion
  <2>4. PICK c \in Customer : c = old.customer
    BY <2>1
  <2> HIDE DEF read
  <2>5. /\ q.at = "saveDecision" /\ q.now = {} /\ q.row = r /\ q.read = read /\ q.customer = c
        /\ q.campaigns = {k}
    BY <2>3, <2>4 DEF Idle
  <2>6. Decides(q)
    BY <2>2, <2>5 DEF Decides
  <2>7. q.read.customer = c /\ q.read.campaign = k /\ q.row \in AnyRowOf(c, k)
    BY <2>2, <2>3, <2>4, <2>5
  <2>8. QED
    BY <2>3, <2>5, <2>6, <2>7, DecideStands
<1>6. ASSUME NEW s \in Suggestion, UpdateReason(h, s) PROVE StandInv'
  <2>1. PICK q : /\ q = [Idle EXCEPT !.at = "saveReason", !.customer = suggested[s].customer,
                                     !.s = s, !.read = suggested[s]]
                 /\ Begin(h, q)
    BY <1>6 DEF UpdateReason
  <2>2. q.at = "saveReason" /\ q.now = {} /\ q.row = None
    BY <2>1 DEF Idle
  <2>3. QED
    BY <2>1, <2>2, PlainStands
<1>7. ASSUME NEW c \in Customer, OpenForm(h, c) PROVE StandInv'
  <2>1. PICK q : /\ q = [Idle EXCEPT !.at = "form", !.customer = c, !.campaigns = Campaign,
                                     !.now = RowsOfCustomer(c)]
                 /\ Begin(h, q)
    BY <1>7 DEF OpenForm
  <2>2. /\ q.at = "form" /\ q.row = None /\ q.now = RowsOfCustomer(c) /\ q.customer = c
        /\ q.campaigns = Campaign
    BY <2>1 DEF Idle
  <2>3. ~ Decides(q) /\ Shows(q) = RowsOfCustomer(c)
    BY <2>2 DEF Decides, Shows, RowsOfCustomer
  <2>4. \A r \in Shows(q) : rows[r].customer = c
    BY <2>3 DEF RowsOfCustomer
  <2>5. Scoped(q) /\ Sees(q)
    BY <2>2, <2>3, <2>4 DEF Scoped, Sees
  <2>6. c # None
    BY ConstantsAssumption
  <2>7. QED
    BY <2>1, <2>2, <2>4, <2>5, <2>6, BeginStands
<1>8. ASSUME NEW c \in Customer, NEW K \in SUBSET Campaign, NEW list \in [K -> {"ACTIVE", "DELETE"}],
             BeginUpdate(h, c, list)
      PROVE  StandInv'
  <2>1. PICK q : /\ q = [Idle EXCEPT !.at = "update", !.customer = c, !.campaigns = DOMAIN list,
                                     !.list = SplitCreateOrUpdate(c, list)]
                 /\ Begin(h, q)
    BY <1>8 DEF BeginUpdate
  <2>2. /\ q.at = "update" /\ q.now = {} /\ q.row = None /\ q.campaigns = DOMAIN list
        /\ q.list = SplitCreateOrUpdate(c, list)
    BY <2>1 DEF Idle
  <2>3. /\ DOMAIN q.list = DOMAIN list
        /\ \A k \in DOMAIN q.list : q.list[k] \in {"create", "update", "delete"}
    BY <2>2 DEF SplitCreateOrUpdate
  <2>4. QED
    BY <2>1, <2>2, <2>3, PlainStands
<1>9. ASSUME NEW c \in Customer, NEW k \in Campaign, AddCustomerToCampaign(h, c, k) PROVE StandInv'
  <2>1. PICK q : /\ q = [Idle EXCEPT !.at = "edit", !.customer = c, !.campaigns = {k},
                                     !.list = [j \in {k} |-> "ACTIVE"]]
                 /\ Begin(h, q)
    BY <1>9 DEF AddCustomerToCampaign
  <2>2. /\ q.at = "edit" /\ q.now = {} /\ q.row = None /\ q.campaigns = {k}
        /\ q.list = [j \in {k} |-> "ACTIVE"]
    BY <2>1 DEF Idle
  <2>3. DOMAIN q.list = {k}
    BY <2>2
  <2>4. QED
    BY <2>1, <2>2, <2>3, PlainStands
<1>10. ASSUME NEW c \in Customer, NEW k \in Campaign, ImportRow(h, c, k) PROVE StandInv'
  <2> DEFINE read == [NoSuggestion EXCEPT !.customer = c, !.campaign = k, !.opt = "out"]
  <2>1. PICK r, q :
          /\ r \in AnyRowOf(c, k)
          /\ q = [Idle EXCEPT !.at = "saveRow", !.customer = c, !.campaigns = {k}, !.row = r,
                              !.read = read]
          /\ Begin(h, q)
    BY <1>10 DEF ImportRow
  <2>2. read.customer = c /\ read.campaign = k
    BY DEF NoSuggestion
  <2> HIDE DEF read
  <2>3. /\ q.at = "saveRow" /\ q.s = None /\ q.now = {} /\ q.row = r /\ q.read = read /\ q.customer = c
        /\ q.campaigns = {k}
    BY <2>1 DEF Idle
  <2>4. Decides(q)
    BY <2>3 DEF Decides
  <2>5. q.read.customer = c /\ q.read.campaign = k /\ q.row \in AnyRowOf(c, k)
    BY <2>1, <2>2, <2>3
  <2>6. QED
    BY <2>1, <2>3, <2>4, <2>5, DecideStands
<1>11. QED
  BY <1>2, <1>3, <1>4, <1>5, <1>6, <1>7, <1>8, <1>9, <1>10 DEF Request

(* A pair that a form handles, and nobody else, is as it was asked.         *)
LEMMA FormStands ==
  ASSUME StandInv, NEW h \in Busy, run[h].at # "saveRow",
         NEW c \in Customer, NEW k \in Campaign, <<c, k>> \in Pairs(run[h]) \ raced
  PROVE  Stands(c, k)
<1>1. ~ Saving(c, k)
  BY DEF StandInv, Apart, Saving, Pairs
<1>2. QED
  BY <1>1, StandsHere DEF StandInv

LEMMA StopsStands ==
  ASSUME StandInv, TypeInv', NEW h \in Handler,
         InsertSuggestion(h) \/ SaveReason(h) \/ (SaveDecision(h) /\ run[h].read.decision # "yes")
           \/ Stops(h)
  PROVE  StandInv'
<1>1. /\ run[h].at # "idle" /\ run' = [run EXCEPT ![h] = Idle] /\ rows' = rows /\ asked' = asked
      /\ raced \subseteq raced'
  BY DEF InsertSuggestion, SaveReason, SaveDecision, SaveSuggestion, Stops, End, table
<1>2. run[h].at = "saveRow" => Pairs(run[h]) \subseteq raced'
  BY DEF InsertSuggestion, SaveReason, SaveDecision, Stops, Pairs
<1>3. Busy' = Busy \ {h} /\ \A g \in Busy \ {h} : run'[g] = run[g]
  BY <1>1, IdleType DEF StandInv, TypeInv, RunInv, RunType, Busy
<1>4. QED
  BY <1>1, <1>2, <1>3, RestStands

(* Who says yes has asked; the row is saved next.                           *)
LEMMA DecisionStands ==
  ASSUME StandInv, TypeInv', NEW h \in Handler, SaveDecision(h), run[h].read.decision = "yes"
  PROVE  StandInv'
<1> DEFINE now == run[h]
<1>1. /\ now.at = "saveDecision" /\ run' = [run EXCEPT ![h].at = "saveRow"] /\ asked' = AskedBy(h)
      /\ rows' = rows /\ raced' = raced
  BY DEF SaveDecision, SaveSuggestion
<1>2. TypeInv /\ h \in Busy /\ Scoped(now) /\ Sees(now) /\ now \in Requested /\ Proper(now)
  BY <1>1, BusyType DEF StandInv, Busy, AllScoped, AllSee
<1>3. Decides(now)
  BY <1>1 DEF Decides
<1>4. /\ now.customer = now.read.customer /\ now.campaigns = {now.read.campaign}
      /\ now.customer \in Customer /\ now.read.campaign \in Campaign
  BY <1>1, <1>2, <1>3 DEF Scoped, Proper
<1>5. PICK q : q = [now EXCEPT !.at = "saveRow"]
  OBVIOUS
<1>6. /\ q.at = "saveRow" /\ q.customer = now.customer /\ q.campaigns = now.campaigns
      /\ q.read = now.read /\ q.row = now.row /\ q.now = now.now /\ q.list = now.list
      /\ run' = [run EXCEPT ![h] = q]
  BY <1>1, <1>2, <1>5 DEF Requested
<1>7. Pairs(q) = Pairs(now) /\ Shows(q) = Shows(now) /\ Decides(q)
      /\ Pairs(q) = {<<now.customer, now.read.campaign>>}
  BY <1>4, <1>6 DEF Pairs, Shows, Decides
<1>8. Scoped(q)
  BY <1>2, <1>3, <1>6, <1>7 DEF Scoped
<1>9. asked' = [asked EXCEPT ![<<now.customer, now.read.campaign>>] = now.read.opt]
  BY <1>1, <1>4 DEF AskedBy
<1>10. /\ asked'[<<now.customer, now.read.campaign>>] = now.read.opt
       /\ \A p \in (Customer \X Campaign) \ Pairs(q) : asked'[p] = asked[p]
  BY <1>2, <1>4, <1>7, <1>9 DEF TypeInv, TypeOK
<1>11. Sees(q)'
  BY <1>1, <1>2, <1>6, <1>10 DEF Sees, Shows
<1>12. \A g \in Busy \ {h} : Pairs(run[g]) \cap Pairs(q) \subseteq raced'
  BY <1>1, <1>2, <1>7 DEF StandInv, Apart
<1>13. QED
  BY <1>1, <1>2, <1>6, <1>7, <1>8, <1>10, <1>11, <1>12, GoesOnStands

LEMMA EditStands ==
  ASSUME StandInv, TypeInv', NEW h \in Handler, NEW keep \in SUBSET RowId,
         NEW K \in SUBSET Campaign, EditCustomer(h, keep, K)
  PROVE  StandInv'
<1> DEFINE now == run[h]
<1>1. /\ now.at = "form" /\ rows' = rows /\ asked' = asked /\ raced' = raced
      /\ run' = [run EXCEPT ![h].at = "edit", ![h].keep = keep,
                            ![h].now = RowsOfCustomer(run[h].customer),
                            ![h].list = [k \in K |-> "ACTIVE"]]
  BY DEF EditCustomer, table
<1>2. TypeInv /\ h \in Busy /\ Scoped(now) /\ now \in Requested /\ now.customer \in Customer
  BY <1>1, BusyType DEF StandInv, Busy, AllScoped
<1>3. PICK q : q = [now EXCEPT !.at = "edit", !.keep = keep, !.now = RowsOfCustomer(now.customer),
                               !.list = [k \in K |-> "ACTIVE"]]
  OBVIOUS
<1>4. /\ q.at = "edit" /\ q.customer = now.customer /\ q.campaigns = now.campaigns
      /\ q.read = now.read /\ q.row = now.row /\ q.now = RowsOfCustomer(now.customer)
      /\ q.list = [k \in K |-> "ACTIVE"]
  BY <1>2, <1>3 DEF Requested
<1>5. run' = [run EXCEPT ![h] = q]
  BY <1>1, <1>3 DEF StandInv, TypeInv, RunInv, RunType
<1>6. ~ Decides(now) /\ ~ Decides(q)
  BY <1>1, <1>4 DEF Decides
<1>7. now.row = None /\ now.campaigns = Campaign
  BY <1>1, <1>2, <1>6 DEF Scoped
<1>8. Scoped(q)
  BY <1>4, <1>6, <1>7 DEF Scoped
<1>9. Shows(q) = RowsOfCustomer(now.customer) /\ Pairs(q) = Pairs(now)
  BY <1>4, <1>7 DEF Shows, Pairs
<1>10. \A r \in Shows(q) : rows[r].customer = now.customer
  BY <1>9 DEF RowsOfCustomer
<1>11. now.customer # None
  BY <1>2, ConstantsAssumption
<1>12. Sees(q)
  BY <1>4, <1>7, <1>10 DEF Sees
<1>13. Sees(q)'
  BY <1>1, <1>12 DEF Sees, Shows
<1>14. \A g \in Busy \ {h} : Pairs(run[g]) \cap Pairs(q) \subseteq raced'
  BY <1>1, <1>2, <1>9 DEF StandInv, Apart
<1>15. QED
  BY <1>1, <1>2, <1>4, <1>5, <1>7, <1>8, <1>10, <1>11, <1>13, <1>14, GoesOnStands

(* The row is saved as it was asked.  Another that is still there keeps the *)
(* customer out.                                                            *)
LEMMA SaveRowStands ==
  ASSUME StandInv, TypeInv', NEW h \in Handler, SaveRow(h)
  PROVE  StandInv'
<1> DEFINE now == run[h]
           row == RowSaved(h)
<1>1. PICK r \in (IF now.row = None THEN FreeRows ELSE {now.row}) : rows' = [rows EXCEPT ![r] = row]
  BY DEF SaveRow
<1>2. /\ now.at = "saveRow" /\ asked' = IF now.s = None THEN AskedBy(h) ELSE asked
      /\ run' = [run EXCEPT ![h] = Idle] /\ raced' = raced
  BY DEF SaveRow, End
<1>3. TypeInv /\ h \in Busy /\ Scoped(now) /\ Sees(now) /\ now \in Requested /\ Proper(now)
  BY <1>2, BusyType DEF StandInv, Busy, AllScoped, AllSee
<1>4. Decides(now)
  BY <1>2 DEF Decides
<1>5. /\ now.customer = now.read.customer /\ now.campaigns = {now.read.campaign}
      /\ now.customer \in Customer /\ now.read.campaign \in Campaign /\ now.read.opt \in {"in", "out"}
  BY <1>2, <1>3, <1>4 DEF Scoped, Proper, OptSuggestion
<1>6. PICK c \in Customer, k \in Campaign : c = now.customer /\ k = now.read.campaign
  BY <1>5
<1>7. Pairs(now) = {<<c, k>>}
  BY <1>5, <1>6 DEF Pairs
<1>8. r \in RowId /\ (r \in FreeRows \/ r = now.row)
  BY <1>1, <1>3, OwnRow DEF FreeRows
<1>9. /\ row.customer = c /\ row.campaign = k /\ row.status = StatusFor(now.read.opt)
  BY <1>5, <1>6 DEF RowSaved
<1> HIDE DEF row
<1>10. rows'[r] = row /\ \A t \in RowId : t # r => rows'[t] = rows[t]
  BY <1>1, <1>3, <1>8 DEF TypeInv, TypeOK
<1>11. PairOf(row) = <<c, k>>
  BY <1>9 DEF PairOf
<1>12. \A t \in RowId : Touches(h, t)
  BY <1>7, <1>8, <1>10, <1>11 DEF Touches
<1>13. AskedBy(h) = [asked EXCEPT ![<<c, k>>] = now.read.opt]
  BY <1>5, <1>6 DEF AskedBy
<1>14. \A p \in (Customer \X Campaign) \ Pairs(now) : asked'[p] = asked[p]
  BY <1>2, <1>3, <1>7, <1>13 DEF TypeInv, TypeOK
<1>15. <<c, k>> \notin raced => asked'[<<c, k>>] = now.read.opt
  <2>1. CASE now.s = None
    BY <1>2, <1>3, <1>13, <2>1 DEF TypeInv, TypeOK
  <2>2. CASE now.s # None
    BY <1>2, <1>3, <1>6, <2>2 DEF Sees
  <2>3. QED
    BY <2>1, <2>2
<1>16. r \in RowsOf(c, k)'
  BY <1>8, <1>9, <1>10 DEF RowsOf
<1>17. now.read.opt = "out" => IsOut(c, k)'
  BY <1>9, <1>10, <1>16 DEF IsOut, StatusFor
<1>18. now.read.opt = "in" => ~ IsOut(c, k)' \/ \E x, y \in RowsOf(c, k)' : x # y
  <2> SUFFICES ASSUME now.read.opt = "in", NEW x \in RowsOf(c, k)', rows'[x].status = "ACTIVE"
               PROVE  x # r
    BY <1>16 DEF IsOut
  <2>1. QED
    BY <1>9, <1>10 DEF StatusFor
<1>19. <<c, k>> \notin raced => Stands(c, k)'
  BY <1>5, <1>15, <1>17, <1>18 DEF Stands
<1>20. ASSUME NEW d \in Customer, NEW j \in Campaign, <<d, j>> \in Pairs(now) \ raced'
       PROVE  Stands(d, j)'
  BY <1>2, <1>7, <1>19, <1>20
<1>21. QED
  BY <1>2, <1>3, <1>12, <1>14, <1>20, EndStands

(* F: the rows once new ones of c for K are at f, and those in gone are gone.*)
Anew(F, c, K, f, gone) ==
    /\ \A j \in K : f[j] \in RowId /\ F[f[j]].customer = c /\ F[f[j]].campaign = j
                    /\ F[f[j]].status = "ACTIVE"
    /\ \A r \in RowId : (\E j \in K : f[j] = r) =>
         r \in FreeRows /\ F[r].customer = c /\ F[r].campaign \in K
    /\ \A r \in RowId : (\A j \in K : f[j] # r) =>
         F[r] = IF r \in gone THEN NoRow ELSE rows[r]

LEMMA RewrittenRow ==
  ASSUME NEW c, NEW K, NEW f \in Places(K), NEW gone, NEW F, F = Rewritten(c, f, gone)
  PROVE  Anew(F, c, K, f, gone)
<1>1. f \in [K -> FreeRows] /\ DOMAIN f = K /\ \A j, k \in K : j # k => f[j] # f[k]
  BY DEF Places
<1>2. \A j \in K : f[j] \in FreeRows /\ f[j] \in RowId
  BY <1>1 DEF FreeRows
<1>3. \A j \in K : (CHOOSE k \in DOMAIN f : f[k] = f[j]) = j
  BY <1>1
<1>4. ASSUME NEW j \in K
      PROVE  F[f[j]].customer = c /\ F[f[j]].campaign = j /\ F[f[j]].status = "ACTIVE"
  <2>1. F[f[j]] = [customer |-> c, campaign |-> j, status |-> "ACTIVE"]
    BY <1>1, <1>2, <1>3 DEF Rewritten
  <2>2. QED
    BY <2>1
<1>5. ASSUME NEW r \in RowId, NEW j \in K, f[j] = r
      PROVE  r \in FreeRows /\ F[r].customer = c /\ F[r].campaign \in K
  <2>1. F[r].customer = c /\ F[r].campaign = j
    BY <1>4, <1>5
  <2>2. QED
    BY <1>2, <1>5, <2>1
<1>6. ASSUME NEW r \in RowId, \A j \in K : f[j] # r
      PROVE  F[r] = IF r \in gone THEN NoRow ELSE rows[r]
  BY <1>1, <1>6 DEF Rewritten
<1>7. QED
  BY <1>2, <1>4, <1>5, <1>6 DEF Anew

LEMMA SaveFormStands ==
  ASSUME StandInv, TypeInv', NEW h \in Handler, UpdateCustomerCampaigns(h)
  PROVE  StandInv'
<1> DEFINE now == run[h]
<1>0. PICK c, K, gone : c = now.customer /\ K = DOMAIN now.list /\ gone = now.now \ now.keep
  OBVIOUS
<1>1. PICK f \in Places(K) : rows' = Rewritten(c, f, gone)
  BY <1>0 DEF UpdateCustomerCampaigns, SaveForm
<1>2. /\ now.at = "edit" /\ asked' = AskedByForm(c, K, gone) /\ run' = [run EXCEPT ![h] = Idle]
      /\ raced' = raced
  BY <1>0 DEF UpdateCustomerCampaigns, SaveForm, End
<1>3. TypeInv /\ h \in Busy /\ Scoped(now) /\ Sees(now) /\ now \in Requested /\ c \in Customer
  BY <1>0, <1>2, BusyType DEF StandInv, Busy, AllScoped, AllSee
<1>4. K \subseteq now.campaigns /\ (gone # {} => now.campaigns = Campaign)
  BY <1>0, <1>2, <1>3 DEF Scoped
<1>5. /\ now.campaigns \subseteq Campaign /\ gone \subseteq RowId
      /\ \A r \in gone : rows[r].customer \in {None, c}
  BY <1>0, <1>3 DEF Requested, Sees, Shows
<1>6. PICK F : F = rows'
  OBVIOUS
<1>7. /\ \A j \in K : f[j] \in RowId /\ F[f[j]].customer = c /\ F[f[j]].campaign = j
                      /\ F[f[j]].status = "ACTIVE"
      /\ \A r \in RowId : (\E j \in K : f[j] = r) =>
           r \in FreeRows /\ F[r].customer = c /\ F[r].campaign \in K
      /\ \A r \in RowId : (\A j \in K : f[j] # r) =>
           F[r] = IF r \in gone THEN NoRow ELSE rows[r]
  <2>1. F = Rewritten(c, f, gone)
    BY <1>1, <1>6
  <2>2. Anew(F, c, K, f, gone)
    BY <1>1, <2>1, RewrittenRow
  <2>3. QED
    BY <2>2 DEF Anew
<1>8. c # None /\ \A r \in FreeRows : rows[r] = NoRow
  BY <1>3, ConstantsAssumption DEF FreeRows
<1>9. ASSUME NEW r \in RowId PROVE Touches(h, r)
  <2>1. CASE \E j \in K : f[j] = r
    <3>1. r \in FreeRows /\ F[r].customer = c /\ F[r].campaign \in K
      BY <1>7, <2>1
    <3>2. PairOf(F[r]) \in Pairs(now)
      BY <1>0, <1>4, <3>1 DEF PairOf, Pairs
    <3>3. QED
      BY <1>6, <3>1, <3>2 DEF Touches
  <2>2. CASE r \in gone /\ \A j \in K : f[j] # r
    <3>1. F[r] = NoRow
      BY <1>7, <2>2
    <3>2. rows[r] # NoRow => PairOf(rows[r]) \in Pairs(now)
      BY <1>0, <1>3, <1>4, <1>5, <2>2, RowIsOrNot DEF PairOf, Pairs
    <3>3. QED
      BY <1>6, <3>1, <3>2 DEF Touches
  <2>3. CASE r \notin gone /\ \A j \in K : f[j] # r
    BY <1>6, <1>7, <2>3 DEF Touches
  <2>4. QED
    BY <2>1, <2>2, <2>3
<1>10. DOMAIN asked = Customer \X Campaign
  BY <1>3 DEF TypeInv, TypeOK
<1>11. ASSUME NEW d \in Customer, NEW j \in Campaign
       PROVE  asked'[<<d, j>>] = IF d = c /\ j \in K THEN "out"
                                 ELSE IF d # c \/ RowsOf(c, j) \cap gone = {} THEN asked[<<d, j>>]
                                 ELSE IF RowsOf(c, j) \subseteq gone THEN "in"
                                 ELSE "unclear"
  BY <1>2, <1>10 DEF AskedByForm
<1>12. ASSUME NEW p \in (Customer \X Campaign) \ Pairs(now) PROVE asked'[p] = asked[p]
  <2>1. PICK d \in Customer, j \in Campaign : p = <<d, j>>
    BY <1>12
  <2>2. d = c => j \notin now.campaigns
    BY <1>0, <1>12, <2>1 DEF Pairs
  <2>3. d = c => j \notin K /\ gone = {}
    BY <1>4, <2>2
  <2>4. QED
    BY <1>11, <2>1, <2>3
<1>13. ASSUME NEW d \in Customer, NEW j \in Campaign, <<d, j>> \in Pairs(now) \ raced'
       PROVE  Stands(d, j)'
  <2>1. d = c
    BY <1>0, <1>13 DEF Pairs
  <2>2. CASE j \in K
    <3>1. f[j] \in RowId /\ F[f[j]].customer = c /\ F[f[j]].campaign = j /\ F[f[j]].status = "ACTIVE"
      BY <1>7, <2>2
    <3>2. IsOut(d, j)'
      BY <1>6, <2>1, <3>1 DEF IsOut, RowsOf
    <3>3. QED
      BY <1>11, <2>1, <2>2, <3>2 DEF Stands
  <2>3. CASE j \notin K
    <3>1. ASSUME NEW r \in RowId
          PROVE  /\ F[r].customer = c /\ F[r].campaign = j => r \notin gone /\ F[r] = rows[r]
                 /\ r \notin gone /\ rows[r].customer = c => F[r] = rows[r]
      <4>1. CASE \E i \in K : f[i] = r
        <5>1. F[r].campaign \in K /\ rows[r] = NoRow
          BY <1>7, <1>8, <4>1
        <5>2. QED
          BY <1>8, <2>3, <5>1 DEF NoRow
      <4>2. CASE \A i \in K : f[i] # r
        BY <1>7, <1>8, <4>2 DEF NoRow
      <4>3. QED
        BY <4>1, <4>2
    <3>2. RowsOf(c, j)' = RowsOf(c, j) \ gone /\ \A r \in RowsOf(c, j) \ gone : rows'[r] = rows[r]
      BY <1>6, <3>1 DEF RowsOf
    <3>3. CASE RowsOf(c, j) \cap gone = {}
      <4>1. Stands(c, j)
        BY <1>2, <1>3, <1>13, <2>1, FormStands
      <4>2. RowsOf(c, j)' = RowsOf(c, j) /\ IsOut(c, j)' = IsOut(c, j)
        BY <3>2, <3>3 DEF IsOut
      <4>3. asked'[<<c, j>>] = asked[<<c, j>>]
        BY <1>3, <1>11, <2>3, <3>3
      <4>4. Stands(c, j)'
        BY <4>1, <4>2, <4>3 DEF Stands
      <4>5. QED
        BY <2>1, <4>4 DEF Stands
    <3>4. CASE RowsOf(c, j) \cap gone # {} /\ RowsOf(c, j) \subseteq gone
      <4>1. asked'[<<d, j>>] = "in"
        BY <1>3, <1>11, <2>1, <2>3, <3>4
      <4>2. ~ IsOut(d, j)'
        BY <2>1, <3>2, <3>4 DEF IsOut
      <4>3. QED
        BY <4>1, <4>2 DEF Stands
    <3>5. CASE RowsOf(c, j) \cap gone # {} /\ ~ (RowsOf(c, j) \subseteq gone)
      <4>1. asked'[<<d, j>>] = "unclear"
        BY <1>3, <1>11, <2>1, <2>3, <3>5
      <4>2. QED
        BY <4>1 DEF Stands
    <3>6. QED
      BY <3>3, <3>4, <3>5
  <2>4. QED
    BY <2>2, <2>3
<1>14. QED
  BY <1>2, <1>3, <1>9, <1>12, <1>13, EndStands

LEMMA UpdateCustomerStands ==
  ASSUME StandInv, TypeInv', NEW h \in Handler, UpdateCustomer(h)
  PROVE  StandInv'
<1> DEFINE now == run[h]
<1>0. PICK c, list, made, kept, left : /\ c = now.customer /\ list = now.list
                                       /\ made = {k \in DOMAIN list : list[k] = "create"}
                                       /\ kept = {k \in DOMAIN list : list[k] = "update"}
                                       /\ left = {k \in DOMAIN list : list[k] = "delete"}
  OBVIOUS
<1>1. PICK gone : gone = DeletedRows(c, left)
  OBVIOUS
<1>2. now.at = "update" /\ run' = [run EXCEPT ![h] = Idle] /\ raced' = raced
  BY DEF UpdateCustomer, End
<1>3. TypeInv /\ h \in Busy /\ Scoped(now) /\ now \in Requested /\ c \in Customer
  BY <1>0, <1>2, BusyType DEF StandInv, Busy, AllScoped
<1>4. now.campaigns = made \cup kept \cup left /\ now.campaigns = DOMAIN list /\ now.campaigns \subseteq Campaign
  BY <1>0, <1>2, <1>3 DEF Scoped, Requested
<1>5. made \cap kept = {} /\ made \cap left = {} /\ kept \cap left = {}
  BY <1>0
<1>6. CASE UpdatedRows(c, kept) = {}
  <2>1. rows' = rows /\ asked' = asked
    BY <1>0, <1>6 DEF UpdateCustomer
  <2>2. Busy' = Busy \ {h} /\ \A g \in Busy \ {h} : run'[g] = run[g]
    BY <1>2, <1>3, IdleType DEF TypeInv, RunInv, RunType, Busy
  <2>3. QED
    BY <1>2, <2>1, <2>2, RestStands
<1>7. CASE UpdatedRows(c, kept) # {}
  <2>0. \E f \in Places(made) : \E g \in UpdatedRows(c, kept) :
          rows' = [r \in RowId |-> IF \E k \in DOMAIN g : g[k] = r
                                   THEN [rows[r] EXCEPT !.status = "ACTIVE"]
                                   ELSE Rewritten(c, f, gone)[r]]
    <3> DEFINE To(what) == {k \in DOMAIN now.list : now.list[k] = what}
    <3>1. UpdatedRows(now.customer, To("update")) # {}
      BY <1>0, <1>7
    <3>2. \E f \in Places(To("create")) : \E g \in UpdatedRows(now.customer, To("update")) :
          rows' = [r \in RowId |-> IF \E k \in DOMAIN g : g[k] = r
                                   THEN [rows[r] EXCEPT !.status = "ACTIVE"]
                                   ELSE Rewritten(now.customer, f, DeletedRows(now.customer, To("delete")))[r]]
      BY <3>1 DEF UpdateCustomer
    <3>3. To("create") = made /\ To("update") = kept /\ To("delete") = left /\ now.customer = c
      BY <1>0
    <3> HIDE DEF To
    <3>4. QED
      BY <1>1, <3>2, <3>3
  <2>1. PICK f \in Places(made), g \in UpdatedRows(c, kept) :
          rows' = [r \in RowId |-> IF \E k \in DOMAIN g : g[k] = r
                                   THEN [rows[r] EXCEPT !.status = "ACTIVE"]
                                   ELSE Rewritten(c, f, gone)[r]]
    BY <2>0
  <2>2. asked' = [p \in DOMAIN asked |-> IF p[1] = c /\ p[2] \in DOMAIN list
                                         THEN IF p[2] \in left THEN "in" ELSE "out"
                                         ELSE asked[p]]
    BY <1>0, <1>7 DEF UpdateCustomer
  <2>3. PICK F : F = Rewritten(c, f, gone)
    OBVIOUS
  <2>4. Anew(F, c, made, f, gone)
    BY <2>1, <2>3, RewrittenRow
  <2>5. c # None /\ \A r \in FreeRows : rows[r].customer = None
    BY <1>3, ConstantsAssumption DEF FreeRows, NoRow
  <2>6. DOMAIN g = kept /\ \A k \in kept : g[k] \in RowId /\ g[k] \in RowsOf(c, k)
    BY <2>1 DEF UpdatedRows
  <2>7. \A r \in gone : \E k \in left : r \in RowsOf(c, k)
    BY <1>1 DEF DeletedRows
  <2>8. \A k \in left : RowsOf(c, k) \subseteq gone
    BY <1>1 DEF DeletedRows
  <2>9. \A r, k : r \in RowsOf(c, k) => r \in RowId /\ rows[r].customer = c /\ rows[r].campaign = k
    BY DEF RowsOf
  <2>10. ASSUME NEW r \in RowId, NEW k \in kept, g[k] = r
         PROVE  /\ r \in RowsOf(c, k) /\ rows'[r].customer = c /\ rows'[r].campaign = k
                /\ rows'[r].status = "ACTIVE"
    <3>1. r \in RowsOf(c, k) /\ rows[r].customer = c /\ rows[r].campaign = k
      BY <2>6, <2>9, <2>10
    <3>2. rows[r] \in Row
      BY <1>3, <2>5, <3>1, RowIsOrNot
    <3>3. rows'[r] = [rows[r] EXCEPT !.status = "ACTIVE"]
      BY <2>1, <2>6, <2>10
    <3>4. QED
      BY <3>1, <3>2, <3>3 DEF Row
  <2>11. ASSUME NEW r \in RowId, \A k \in kept : g[k] # r PROVE rows'[r] = F[r]
    BY <2>1, <2>3, <2>6, <2>11
  <2>12. ASSUME NEW r \in RowId PROVE Touches(h, r)
    <3>1. CASE \E k \in kept : g[k] = r
      <4>1. PICK k \in kept : g[k] = r
        BY <3>1
      <4>2. PairOf(rows'[r]) = <<c, k>> /\ PairOf(rows[r]) = <<c, k>>
        BY <2>9, <2>10, <4>1 DEF PairOf
      <4>3. <<c, k>> \in Pairs(now)
        BY <1>0, <1>4, <4>1 DEF Pairs
      <4>4. QED
        BY <4>2, <4>3 DEF Touches
    <3>2. CASE (\A k \in kept : g[k] # r) /\ \E j \in made : f[j] = r
      <4>1. r \in FreeRows /\ rows'[r].customer = c /\ rows'[r].campaign \in made
        BY <2>4, <2>11, <3>2 DEF Anew
      <4>2. PairOf(rows'[r]) \in Pairs(now)
        BY <1>0, <1>4, <4>1 DEF PairOf, Pairs
      <4>3. QED
        BY <4>1, <4>2 DEF Touches
    <3>3. CASE (\A k \in kept : g[k] # r) /\ (\A j \in made : f[j] # r) /\ r \in gone
      <4>1. rows'[r] = NoRow
        BY <2>4, <2>11, <3>3 DEF Anew
      <4>2. PairOf(rows[r]) \in Pairs(now)
        BY <1>0, <1>4, <2>7, <2>9, <3>3 DEF PairOf, Pairs
      <4>3. QED
        BY <4>1, <4>2 DEF Touches
    <3>4. CASE (\A k \in kept : g[k] # r) /\ (\A j \in made : f[j] # r) /\ r \notin gone
      BY <2>4, <2>11, <3>4 DEF Anew, Touches
    <3>5. QED
      BY <3>1, <3>2, <3>3, <3>4
  <2>13. ASSUME NEW d \in Customer, NEW k \in Campaign
         PROVE  asked'[<<d, k>>] = IF d = c /\ k \in DOMAIN list
                                   THEN IF k \in left THEN "in" ELSE "out" ELSE asked[<<d, k>>]
    BY <1>3, <2>2 DEF TypeInv, TypeOK
  <2>14. ASSUME NEW p \in (Customer \X Campaign) \ Pairs(now) PROVE asked'[p] = asked[p]
    <3>1. PICK d \in Customer, k \in Campaign : p = <<d, k>>
      BY <2>14
    <3>2. ~ (d = c /\ k \in DOMAIN list)
      BY <1>0, <1>4, <2>14, <3>1 DEF Pairs
    <3>3. QED
      BY <2>13, <3>1, <3>2
  <2>15. ASSUME NEW d \in Customer, NEW k \in Campaign, <<d, k>> \in Pairs(now) \ raced'
         PROVE  Stands(d, k)'
    <3>1. d = c /\ k \in DOMAIN list
      BY <1>0, <1>4, <2>15 DEF Pairs
    <3>2. CASE k \in left
      <4>1. asked'[<<d, k>>] = "in"
        BY <2>13, <3>1, <3>2
      <4>2. ASSUME NEW r \in RowId, rows'[r].customer = c, rows'[r].campaign = k PROVE FALSE
        <5>1. CASE \E i \in kept : g[i] = r
          BY <1>5, <2>10, <3>2, <4>2, <5>1
        <5>2. CASE (\A i \in kept : g[i] # r) /\ \E j \in made : f[j] = r
          BY <1>5, <2>4, <2>11, <3>2, <4>2, <5>2 DEF Anew
        <5>3. CASE (\A i \in kept : g[i] # r) /\ (\A j \in made : f[j] # r) /\ r \in gone
          BY <2>4, <2>5, <2>11, <4>2, <5>3 DEF Anew, NoRow
        <5>4. CASE (\A i \in kept : g[i] # r) /\ (\A j \in made : f[j] # r) /\ r \notin gone
          <6>1. rows'[r] = rows[r]
            BY <2>4, <2>11, <5>4 DEF Anew
          <6>2. r \in RowsOf(c, k)
            BY <4>2, <6>1 DEF RowsOf
          <6>3. QED
            BY <2>8, <3>2, <5>4, <6>2
        <5>5. QED
          BY <5>1, <5>2, <5>3, <5>4
      <4>3. ~ IsOut(d, k)'
        BY <3>1, <4>2 DEF IsOut, RowsOf
      <4>4. QED
        BY <4>1, <4>3 DEF Stands
    <3>3. CASE k \notin left
      <4>1. asked'[<<d, k>>] = "out"
        BY <2>13, <3>1, <3>3
      <4>2. PICK r \in RowId : rows'[r].customer = c /\ rows'[r].campaign = k /\ rows'[r].status = "ACTIVE"
        <5>1. CASE k \in kept
          BY <2>6, <2>10, <5>1
        <5>2. CASE k \in made
          <6>1. PICK r : r = f[k]
            OBVIOUS
          <6>2. /\ r \in RowId /\ r \in FreeRows /\ F[r].customer = c /\ F[r].campaign = k
                /\ F[r].status = "ACTIVE"
            BY <2>4, <5>2, <6>1 DEF Anew
          <6>3. \A i \in kept : g[i] # r
            BY <2>5, <2>6, <2>9, <6>2
          <6>4. rows'[r] = F[r]
            BY <2>11, <6>2, <6>3
          <6>5. QED
            BY <6>2, <6>4
        <5>3. QED
          BY <1>4, <3>1, <3>3, <5>1, <5>2
      <4>3. IsOut(d, k)'
        BY <3>1, <4>2 DEF IsOut, RowsOf
      <4>4. QED
        BY <4>1, <4>3 DEF Stands
    <3>4. QED
      BY <3>2, <3>3
  <2>16. QED
    BY <1>2, <1>3, <2>12, <2>14, <2>15, EndStands
<1>8. QED
  BY <1>6, <1>7

LEMMA ProceedStands ==
  ASSUME StandInv, TypeInv', NEW h \in Handler, Proceed(h)
  PROVE  StandInv'
<1>1. CASE SaveDecision(h)
  BY <1>1, DecisionStands, StopsStands
<1>2. CASE \E keep \in SUBSET RowId, K \in SUBSET Campaign : EditCustomer(h, keep, K)
  BY <1>2, EditStands
<1>3. QED
  BY <1>1, <1>2, StopsStands, SaveRowStands, SaveFormStands, UpdateCustomerStands DEF Proceed

LEMMA StandStep ==
  ASSUME StandInv, [Next]_vars
  PROVE  StandInv'
<1>1. TypeInv'
  BY TypeStep DEF StandInv
<1>2. CASE \E h \in Handler : Request(h) \/ Proceed(h)
  BY <1>1, <1>2, RequestStands, ProceedStands
<1>3. CASE \/ Words \/ \E d \in Direction, today \in BOOLEAN : TrainSensitive(d, today)
           \/ Learn \/ (\E a \in answers : UpdateTrainStatus(a)) \/ UNCHANGED vars
  <2>1. table' = table /\ run' = run
    BY <1>3 DEF Words, CreateSensitive, UpdateSensitive, DeleteSensitive, EditWord,
                TrainSensitive, Send, Learn, UpdateTrainStatus, Mark, vars
  <2>2. rows' = rows /\ asked' = asked /\ raced' = raced /\ Busy' = Busy
    BY <2>1 DEF table, Busy
  <2>3. QED
    BY <1>1, <2>1, <2>2, RestStands
<1>4. QED
  BY <1>2, <1>3 DEF Next

LEMMA InitStands == Init => StandInv
<1> SUFFICES ASSUME Init PROVE StandInv
  OBVIOUS
<1>1. TypeInv
  BY InitType
<1>2. Busy = {}
  BY DEF Init, Busy, Idle
<1>3. Apart /\ AllScoped /\ AllSee /\ Agree
  BY <1>2 DEF Apart, AllScoped, AllSee, Agree
<1>4. AnswerStands
  <2>1. \A p \in Customer \X Campaign : asked[p] = "unclear"
    BY DEF Init
  <2>2. QED
    BY <2>1 DEF AnswerStands
<1>5. QED
  BY <1>1, <1>3, <1>4 DEF StandInv

(* What was last asked for a customer and a campaign stands: a decision and *)
(* its row are saved apart, rows are read before they are saved, and forms, *)
(* files and decisions come in any order.                                   *)
THEOREM AnswersStand == Spec => []AnswerStands
<1>1. Init => StandInv
  BY InitStands
<1>2. StandInv /\ [Next]_vars => StandInv'
  BY StandStep
<1>3. StandInv => AnswerStands
  BY DEF StandInv
<1>4. QED
  BY <1>1, <1>2, <1>3, PTL DEF Spec
=============================================================================
