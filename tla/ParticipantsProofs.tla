------------------------ MODULE ParticipantsProofs ------------------------
(***************************************************************************)
(* Participants for any number of users, conversations, messages and       *)
(* requests: types, that nobody takes part twice in a conversation, that   *)
(* everybody takes part, that who has unread messages is shown so, and     *)
(* that none is counted twice.                                             *)
(***************************************************************************)
EXTENDS Participants, FiniteSetTheorems, TLAPS

RequestKind == {"none", "inbound", "call", "softphone", "compose", "schedule", "elsewhere",
                "revived", "import",
                "read", "unread", "count", "modified"}

Request == [at : Place, kind : RequestKind, conv : Conversation \cup {None},
            user : User \cup {None}, cu : CompanyUser \cup {None}, item : Item \cup {None},
            set : SUBSET (Row \cup CompanyUser),
            seen : UNION {[R -> Nat] : R \in SUBSET Row}]

(* What the types leave out: the requests are typed, and what a request     *)
(* read of the rows is of rows that are there, and stay.                    *)
RunType == run \in [Handler -> Request]
SeenTaken == \A h \in Handler : DOMAIN run[h].seen \subseteq Taken
OpenNames == \A h \in Handler : run[h].at = "open" =>
    /\ run[h].conv \in Conversation
    /\ run[h].set \subseteq Members
JoinNames == \A h \in Handler : run[h].at = "join" =>
    /\ run[h].user \in User
    /\ run[h].set \subseteq Taken
    /\ run[h].cu # None => run[h].set = {}
MessageNames == \A h \in Handler : run[h].at \in {"message", "file"} => run[h].conv \in Conversation

TypeInv == TypeOK /\ RunType /\ SeenTaken /\ OpenNames /\ JoinNames /\ MessageNames

LEMMA IdleType == Idle \in Request
<1>1. Idle.seen \in [{} -> Nat]
  BY DEF Idle
<1>2. QED
  BY <1>1 DEF Idle, Request, Place, RequestKind

LEMMA InitType == Init => TypeInv
<1> SUFFICES ASSUME Init PROVE TypeInv
  OBVIOUS
<1>1. member \in [CompanyUser -> Member]
  <2>1. NoMember \in Member
    BY DEF NoMember, Member
  <2>2. \A u \in User : [user |-> u, active |-> TRUE] \in Member
    BY DEF Member
  <2>3. CASE member = [k \in CompanyUser |-> NoMember]
    BY <2>1, <2>3
  <2>4. ASSUME NEW k \in CompanyUser, NEW u \in User,
               member = [j \in CompanyUser |-> IF j = k THEN [user |-> u, active |-> TRUE]
                                               ELSE NoMember]
        PROVE  member \in [CompanyUser -> Member]
    BY <2>1, <2>2, <2>4
  <2>5. QED
    BY <2>3, <2>4 DEF Init
<1>2. TypeOK
  BY <1>1 DEF Init, TypeOK, Seat, NoSeat, Idle, Place, Taken
<1>3. RunType
  BY IdleType DEF Init, RunType
<1>4. SeenTaken /\ OpenNames /\ JoinNames /\ MessageNames
  BY DEF Init, SeenTaken, OpenNames, JoinNames, MessageNames, Idle
<1>5. QED
  BY <1>2, <1>3, <1>4 DEF TypeInv

-----------------------------------------------------------------------------
(* What becomes of the requests when rows are only added. *)

RunInv == RunType /\ SeenTaken /\ OpenNames /\ JoinNames /\ MessageNames

LEMMA RunStep ==
  ASSUME RunInv, NEW h \in Handler, NEW q \in Request, run' = [run EXCEPT ![h] = q],
         Taken \subseteq Taken', Members \subseteq Members',
         DOMAIN q.seen \subseteq Taken',
         q.at = "open" => /\ q.conv \in Conversation
                          /\ q.set \subseteq Members',
         q.at = "join" => /\ q.user \in User
                          /\ q.set \subseteq Taken'
                          /\ q.cu # None => q.set = {},
         q.at \in {"message", "file"} => q.conv \in Conversation
  PROVE  RunInv'
<1>1. run[h] \in Request /\ \A g \in Handler : run'[g] = IF g = h THEN q ELSE run[g]
  BY DEF RunInv, RunType
<1>2. RunType'
  BY DEF RunInv, RunType
<1>3. SeenTaken'
  BY <1>1 DEF RunInv, SeenTaken
<1>4. OpenNames'
  BY <1>1 DEF RunInv, OpenNames
<1>5. JoinNames'
  BY <1>1 DEF RunInv, JoinNames
<1>6. MessageNames'
  BY <1>1 DEF RunInv, MessageNames
<1>7. QED
  BY <1>2, <1>3, <1>4, <1>5, <1>6 DEF RunInv

LEMMA RunEnds ==
  ASSUME RunInv, NEW h \in Handler, run' = [run EXCEPT ![h] = Idle],
         Taken \subseteq Taken', Members \subseteq Members'
  PROVE  RunInv'
<1>1. Idle.at = "idle" /\ DOMAIN Idle.seen \subseteq Taken'
  BY DEF Idle
<1>2. QED
  BY <1>1, IdleType, RunStep

LEMMA RunStays ==
  ASSUME RunInv, run' = run, Taken \subseteq Taken', Members \subseteq Members'
  PROVE  RunInv'
  BY DEF RunInv, RunType, SeenTaken, OpenNames, JoinNames, MessageNames

LEMMA TypeInvParts == TypeInv <=> TypeOK /\ RunInv
  BY DEF TypeInv, RunInv

(* Rows that keep who and where, with another count.                        *)
LEMMA Recount ==
  ASSUME TypeOK, NEW R \in SUBSET Row, NEW f, \A r \in R : f[r] \in Nat,
         seat' = [r \in Row |-> IF r \in R THEN [seat[r] EXCEPT !.umn = f[r]] ELSE seat[r]]
  PROVE  /\ seat' \in [Row -> Seat]
         /\ \A r \in Row : seat'[r].conv = seat[r].conv /\ seat'[r].of = seat[r].of
         /\ Taken' = Taken
<1>1. \A r \in Row : seat[r] \in Seat
  BY DEF TypeOK
<1>2. \A r \in R : /\ [seat[r] EXCEPT !.umn = f[r]] \in Seat
                    /\ [seat[r] EXCEPT !.umn = f[r]].conv = seat[r].conv
                    /\ [seat[r] EXCEPT !.umn = f[r]].of = seat[r].of
  BY <1>1 DEF Seat
<1>3. \A r \in Row : /\ seat'[r] \in Seat
                      /\ seat'[r].conv = seat[r].conv
                      /\ seat'[r].of = seat[r].of
  BY <1>1, <1>2
<1>4. seat' \in [Row -> Seat]
  BY <1>3
<1>5. QED
  BY <1>3, <1>4 DEF Taken

LEMMA SaveStep ==
  ASSUME TypeInv, NEW h \in Handler, NEW f, NEW counted, NEW cleared,
         counted \subseteq DOMAIN run[h].seen,
         \A r \in DOMAIN run[h].seen : f[r] \in Nat,
         Save(h, f, counted, cleared)
  PROVE  /\ seat' \in [Row -> Seat]
         /\ \A r \in Row : seat'[r].conv = seat[r].conv /\ seat'[r].of = seat[r].of
         /\ Taken' = Taken
         /\ unseen' \cup stray' \subseteq Taken'
         /\ run' = [run EXCEPT ![h] = Idle]
<1> DEFINE R == DOMAIN run[h].seen
<1>1. R \subseteq Taken /\ R \in SUBSET Row
  BY DEF TypeInv, SeenTaken, Taken
<1>2. /\ seat' = [r \in Row |-> IF r \in R THEN [seat[r] EXCEPT !.umn = f[r]] ELSE seat[r]]
      /\ stray' = stray \cup {r \in R : f[r] = 0 /\ seat[r].umn # run[h].seen[r]}
      /\ unseen' = (unseen \ cleared) \cup counted
      /\ run' = [run EXCEPT ![h] = Idle]
  BY DEF Save
<1>3. TypeOK
  BY DEF TypeInv
<1>4. /\ seat' \in [Row -> Seat]
      /\ \A r \in Row : seat'[r].conv = seat[r].conv /\ seat'[r].of = seat[r].of
      /\ Taken' = Taken
  <2>1. \A r \in R : f[r] \in Nat
    OBVIOUS
  <2> HIDE DEF R
  <2>2. QED
    BY <1>1, <1>2, <1>3, <2>1, Recount
<1>5. unseen' \cup stray' \subseteq Taken'
  BY <1>1, <1>2, <1>3, <1>4 DEF TypeOK
<1>6. QED
  BY <1>2, <1>4, <1>5

-----------------------------------------------------------------------------
(* Type correctness, an action at a time. *)

LEMMA JoinType ==
  ASSUME TypeInv, NEW h \in Handler, NEW u \in User, Join(h, u)
  PROVE  TypeInv'
<1> DEFINE Again(k) == [Idle EXCEPT !.at = "join", !.user = u, !.cu = k]
           Like(k)  == [Idle EXCEPT !.at = "join", !.user = u, !.set = {r \in Taken : seat[r].of = k}]
           First    == [Idle EXCEPT !.at = "join", !.user = u]
<1>1. \A k \in Members : Again(k) \in Request /\ Like(k) \in Request
  <2>1. TAKE k \in Members
  <2>2. k \in CompanyUser /\ {r \in Taken : seat[r].of = k} \in SUBSET (Row \cup CompanyUser)
    BY DEF Members, Taken
  <2>3. QED
    BY <2>2, IdleType DEF Request, Place, RequestKind
<1>2. First \in Request
  BY IdleType DEF Request, Place, RequestKind
<1>3. /\ \A k \in Members : /\ Again(k).seen = <<>> /\ Again(k).at = "join" /\ Again(k).user = u
                             /\ Again(k).set = {} /\ Again(k).cu = k
                             /\ Like(k).seen = <<>> /\ Like(k).at = "join" /\ Like(k).user = u
                             /\ Like(k).set \subseteq Taken /\ Like(k).cu = None
      /\ First.seen = <<>> /\ First.at = "join" /\ First.user = u
      /\ First.set = {} /\ First.cu = None
  BY DEF Idle
<1>4. \E q \in Request : /\ run' = [run EXCEPT ![h] = q]
                         /\ q.seen = <<>> /\ q.at = "join" /\ q.user = u
                         /\ q.set \subseteq Taken /\ (q.cu # None => q.set = {})
  <2> HIDE DEF Again, Like, First
  <2>1. \/ \E k \in Members : run' = [run EXCEPT ![h] = Again(k)]
        \/ \E k \in Members : run' = [run EXCEPT ![h] = Like(k)]
        \/ run' = [run EXCEPT ![h] = First]
    BY DEF Join, Again, Like, First
  <2>2. QED
    BY <1>1, <1>2, <1>3, <2>1
<1>5. PICK q \in Request : /\ run' = [run EXCEPT ![h] = q]
                           /\ q.seen = <<>> /\ q.at = "join" /\ q.user = u
                           /\ q.set \subseteq Taken /\ (q.cu # None => q.set = {})
  BY <1>4
<1>6. member' = member /\ conv' = conv /\ seat' = seat /\ stored' = stored
      /\ touches' = touches /\ unseen' = unseen /\ stray' = stray
  BY DEF Join
<1>7. Taken' = Taken /\ Members' = Members
  BY <1>6 DEF Taken, Members
<1> HIDE DEF Again, Like, First
<1>8. RunInv'
  <2>1. DOMAIN q.seen = {} /\ q.at \notin {"open", "message", "file"}
    BY <1>5
  <2>2. QED
    BY <1>5, <1>7, <2>1, RunStep, TypeInvParts
<1>9. TypeOK'
  BY <1>6, <1>7, <1>8 DEF TypeInv, TypeOK, RunInv, RunType, Request
<1>10. QED
  BY <1>8, <1>9 DEF TypeInv, RunInv

LEMMA LeaveType ==
  ASSUME TypeInv, NEW u \in User, Leave(u)
  PROVE  TypeInv'
<1>1. \A k \in CompanyUser : member[k] \in Member
  BY DEF TypeInv, TypeOK
<1>2. \A k \in CompanyUser : /\ [member[k] EXCEPT !.active = FALSE] \in Member
                            /\ [member[k] EXCEPT !.active = FALSE].user = member[k].user
  BY <1>1 DEF Member
<1>3. /\ conv' = conv /\ seat' = seat /\ run' = run /\ stored' = stored
      /\ touches' = touches /\ unseen' = unseen /\ stray' = stray
  BY DEF Leave
<1>4. /\ member' \in [CompanyUser -> Member]
      /\ \A k \in CompanyUser : member'[k].user = member[k].user
  BY <1>1, <1>2 DEF Leave
<1>5. Taken' = Taken /\ Members' = Members
  BY <1>3, <1>4 DEF Taken, Members
<1>6. RunInv'
  BY <1>3, <1>5, RunStays, TypeInvParts
<1>7. TypeOK'
  BY <1>3, <1>4, <1>5 DEF TypeInv, TypeOK
<1>8. QED
  BY <1>6, <1>7 DEF TypeInv, RunInv

LEMMA AddByHandType ==
  ASSUME TypeInv, NEW c \in Conversation, NEW k \in CompanyUser, AddUserIntoConversation(c, k)
  PROVE  TypeInv'
<1>1. PICK r \in Fresh : seat' = [seat EXCEPT ![r] = [conv |-> c, of |-> k, umn |-> 0]]
  BY DEF AddUserIntoConversation
<1>2. [conv |-> c, of |-> k, umn |-> 0] \in Seat
  BY DEF Seat
<1>3. seat' \in [Row -> Seat]
  BY <1>1, <1>2 DEF TypeInv, TypeOK, Fresh
<1>4. \A q \in Row : seat'[q] = IF q = r THEN [conv |-> c, of |-> k, umn |-> 0] ELSE seat[q]
  BY <1>1 DEF TypeInv, TypeOK, Fresh
<1>5. c # None
  BY ConstantsAssumption
<1>6. Taken \subseteq Taken'
  BY <1>4, <1>5 DEF Taken
<1>7. member' = member /\ conv' = conv /\ run' = run /\ stored' = stored
      /\ touches' = touches + 1 /\ unseen' = unseen /\ stray' = stray
  BY DEF AddUserIntoConversation
<1>8. Members' = Members
  BY <1>7 DEF Members
<1>9. RunInv'
  BY <1>6, <1>7, <1>8, RunStays, TypeInvParts
<1>10. TypeOK'
  BY <1>3, <1>6, <1>7 DEF TypeInv, TypeOK
<1>11. QED
  BY <1>9, <1>10 DEF TypeInv, RunInv

LEMMA OpenType ==
  ASSUME TypeInv, NEW h \in Handler, NEW c \in Conversation, NEW kind \in Kind, NEW x \in Item,
         NEW s \in User \cup {None}, OpenConversation(h, c, kind, x, s)
  PROVE  TypeInv'
<1>0. PICK kd \in {kind, "elsewhere"} :
      run' = [run EXCEPT ![h] = [Idle EXCEPT !.at = "open", !.conv = c, !.kind = kd, !.item = x,
                                         !.user = s, !.set = UsersInCompany]]
  BY DEF OpenConversation
<1> DEFINE q == [Idle EXCEPT !.at = "open", !.conv = c, !.kind = kd, !.item = x,
                             !.user = s, !.set = UsersInCompany]
<1>1. Members \subseteq CompanyUser /\ kd \in RequestKind
  BY ConstantsAssumption DEF Members, RequestKind
<1>2. q \in Request
  BY <1>1, IdleType DEF Request, Place, UsersInCompany
<1>3. q.at = "open" /\ q.conv = c /\ q.item = x /\ q.set = Members /\ q.seen = <<>>
  BY DEF Idle, UsersInCompany
<1>4. /\ run' = [run EXCEPT ![h] = q]
      /\ member' = member /\ conv' = conv /\ seat' = seat /\ stored' = stored
      /\ touches' = touches /\ unseen' = unseen /\ stray' = stray
  BY <1>0 DEF OpenConversation
<1>5. Taken' = Taken /\ Members' = Members
  BY <1>4 DEF Taken, Members
<1> HIDE DEF q
<1>6. RunInv'
  <2>1. DOMAIN q.seen = {}
    BY <1>3
  <2>2. QED
    BY <1>2, <1>3, <1>4, <1>5, <2>1, RunStep, TypeInvParts
<1>7. TypeOK'
  BY <1>4, <1>5, <1>6 DEF TypeInv, TypeOK, RunInv, RunType, Request
<1>8. QED
  BY <1>6, <1>7 DEF TypeInv, RunInv

LEMMA CheckCustomerType ==
  ASSUME TypeInv, NEW h \in Handler, NEW c \in Conversation, CheckCustomer(h, c)
  PROVE  TypeInv'
<1> DEFINE q == [Idle EXCEPT !.at = "file", !.kind = "import", !.conv = c]
<1>1. q \in Request
  BY IdleType DEF Request, Place, RequestKind
<1>2. q.at = "file" /\ q.conv = c /\ q.seen = <<>>
  BY DEF Idle
<1>3. /\ run' = [run EXCEPT ![h] = q]
      /\ member' = member /\ conv' = conv /\ seat' = seat /\ stored' = stored
      /\ touches' = touches + 1 /\ unseen' = unseen /\ stray' = stray
  BY DEF CheckCustomer
<1>4. Taken' = Taken /\ Members' = Members
  BY <1>3 DEF Taken, Members
<1> HIDE DEF q
<1>5. RunInv'
  <2>1. DOMAIN q.seen = {} /\ q.at \notin {"open", "join"}
    BY <1>2
  <2>2. QED
    BY <1>1, <1>2, <1>3, <1>4, <2>1, RunStep, TypeInvParts
<1>6. TypeOK'
  BY <1>3, <1>4, <1>5 DEF TypeInv, TypeOK, RunInv, RunType, Request
<1>7. QED
  BY <1>5, <1>6 DEF TypeInv, RunInv

(* What a line of a file becomes: a conversation to open, or to give to the *)
(* company again.                                                           *)
LEMMA ImportRequest ==
  ASSUME TypeInv, NEW h \in Handler, AddCustomerFromExcel(h)
  PROVE  \E q \in Request :
           /\ run' = [run EXCEPT ![h] = q]
           /\ q.conv = run[h].conv /\ q.conv \in Conversation
           /\ DOMAIN q.seen \subseteq Taken
           /\ \A g \in At("open") : run[g].conv # q.conv
           /\ \/ q.at = "open" /\ q.set = Members /\ conv[q.conv] = "none"
              \/ q.at = "message" /\ conv[q.conv] # "none"
<1> DEFINE c == run[h].conv
           rows == Attendances("import", c)
           seen == [r \in rows |-> seat[r].umn]
           Opens == [run[h] EXCEPT !.at = "open", !.set = UsersInCompany]
           Again == [run[h] EXCEPT !.at = "message", !.seen = seen]
<1>1. /\ run[h] \in Request /\ c \in Conversation
      /\ DOMAIN run[h].seen \subseteq Taken
      /\ \A g \in At("open") : run[g].conv # c
  BY DEF AddCustomerFromExcel, TypeInv, RunType, MessageNames, SeenTaken
<1>2. seen \in UNION {[R -> Nat] : R \in SUBSET Row} /\ DOMAIN seen \subseteq Taken
  <2>1. rows \subseteq Row /\ rows \subseteq Taken
    BY <1>1, ConstantsAssumption DEF Attendances, Seats, Taken
  <2>2. \A r \in Row : seat[r].umn \in Nat
    BY DEF TypeInv, TypeOK, Seat
  <2>3. QED
    BY <2>1, <2>2
<1>3. Members \subseteq Row \cup CompanyUser
  BY DEF Members
<1> HIDE DEF seen
<1>4. /\ Opens \in Request /\ Opens.conv = c /\ Opens.at = "open" /\ Opens.set = Members
      /\ Opens.seen = run[h].seen
  BY <1>1, <1>3 DEF Request, Place, UsersInCompany
<1>5. Again \in Request /\ Again.conv = c /\ Again.at = "message" /\ Again.seen = seen
  BY <1>1, <1>2 DEF Request, Place
<1>6. \/ conv[c] = "none" /\ run' = [run EXCEPT ![h] = Opens]
      \/ conv[c] # "none" /\ run' = [run EXCEPT ![h] = Again]
  BY DEF AddCustomerFromExcel, TypeInv, RunType, seen
<1> HIDE DEF Opens, Again
<1>7. QED
  BY <1>1, <1>2, <1>4, <1>5, <1>6

LEMMA ImportType ==
  ASSUME TypeInv, NEW h \in Handler, AddCustomerFromExcel(h)
  PROVE  TypeInv'
<1>1. PICK q \in Request :
        /\ run' = [run EXCEPT ![h] = q]
        /\ q.conv \in Conversation /\ DOMAIN q.seen \subseteq Taken
        /\ (q.at = "open" /\ q.set = Members) \/ q.at = "message"
  BY ImportRequest
<1>2. /\ member' = member /\ conv' = conv /\ seat' = seat /\ stored' = stored
      /\ touches' = touches /\ unseen' = unseen /\ stray' = stray
  BY DEF AddCustomerFromExcel
<1>3. Taken' = Taken /\ Members' = Members
  BY <1>2 DEF Taken, Members
<1>4. RunInv'
  <2>1. q.at # "join" /\ (q.at = "open" => q.set \subseteq Members')
    BY <1>1, <1>3
  <2>2. QED
    BY <1>1, <1>3, <2>1, RunStep, TypeInvParts
<1>5. TypeOK'
  BY <1>2, <1>3, <1>4 DEF TypeInv, TypeOK, RunInv, RunType, Request
<1>6. QED
  BY <1>4, <1>5 DEF TypeInv, RunInv

LEMMA BeginMessageType ==
  ASSUME TypeInv, NEW h \in Handler, NEW c \in Conversation, NEW kind \in Kind, NEW x \in Item,
         NEW s \in User \cup {None}, BeginMessage(h, c, kind, x, s)
  PROVE  TypeInv'
<1> DEFINE as == IF kind = "inbound" /\ conv[c] = "inactive" THEN "revived" ELSE kind
           rows == Attendances(as, c)
           seen == [r \in rows |-> seat[r].umn]
           q == [Idle EXCEPT !.at = "message", !.kind = as, !.conv = c, !.item = x,
                             !.user = s, !.seen = seen]
<1>1. as \in RequestKind
  BY ConstantsAssumption DEF RequestKind
<1>2. rows \subseteq Row /\ rows \subseteq Taken
  BY ConstantsAssumption DEF Attendances, Seats, Taken
<1>3. \A r \in Row : seat[r].umn \in Nat
  BY DEF TypeInv, TypeOK, Seat
<1>4. seen \in UNION {[R -> Nat] : R \in SUBSET Row} /\ DOMAIN seen = rows
  BY <1>2, <1>3
<1> HIDE DEF seen, rows, as
<1>5. q \in Request
  BY <1>1, <1>4, IdleType DEF Request, Place
<1>6. q.at = "message" /\ q.conv = c /\ q.item = x /\ q.seen = seen
  BY DEF Idle
<1>7. /\ run' = [run EXCEPT ![h] = q]
      /\ member' = member /\ conv' = conv /\ seat' = seat /\ stored' = stored
      /\ touches' = touches /\ unseen' = unseen /\ stray' = stray
  BY DEF BeginMessage, seen, rows, as
<1>8. Taken' = Taken /\ Members' = Members
  BY <1>7 DEF Taken, Members
<1> HIDE DEF q
<1>9. RunInv'
  BY <1>2, <1>4, <1>5, <1>6, <1>7, <1>8, RunStep, TypeInvParts
<1>10. TypeOK'
  BY <1>7, <1>8, <1>9 DEF TypeInv, TypeOK, RunInv, RunType, Request
<1>11. QED
  BY <1>9, <1>10 DEF TypeInv, RunInv

(* The rows N that a user who joins is given by h: each stands for one row   *)
(* of the user whose seats he gets, and one who comes back gets none.       *)
JoinedRows(h, j, N, from) ==
    /\ member' = [member EXCEPT ![j] = [user |-> run[h].user, active |-> TRUE]]
    /\ \A r \in Row : seat'[r] = IF r \in N
         THEN [conv |-> seat[from[r]].conv, of |-> j, umn |-> 0] ELSE seat[r]
    /\ \A r \in N : from[r] \in run[h].set
    /\ \A q, r \in N : from[q] = from[r] => q = r
    /\ \A q \in run[h].set : \E r \in N : from[r] = q
    /\ DOMAIN seat' = Row /\ seat' = [r \in Row |-> seat'[r]]
    /\ IF run[h].cu = None THEN j \notin Members ELSE j = run[h].cu
    /\ j \in Members => N = {}

LEMMA JoinRows ==
  ASSUME TypeInv, NEW h \in Handler, CommitJoin(h)
  PROVE  \E j \in CompanyUser, N \in SUBSET Fresh : \E from \in [N -> Taken] :
           JoinedRows(h, j, N, from)
<1> DEFINE set == run[h].set
<1>1. run[h].at = "join" /\ set \subseteq Taken /\ (run[h].cu # None => set = {})
  BY DEF CommitJoin, TypeInv, JoinNames
<1>2. PICK j \in IF run[h].cu = None THEN CompanyUser \ Members ELSE {run[h].cu} :
      \E f \in Injection(set, Fresh) :
        /\ member' = [member EXCEPT ![j] = [user |-> run[h].user, active |-> TRUE]]
        /\ seat' = [r \in Row |->
             IF \E q \in set : f[q] = r
             THEN [conv |-> seat[CHOOSE q \in set : f[q] = r].conv, of |-> j, umn |-> 0]
             ELSE seat[r]]
  BY DEF CommitJoin
<1>3. PICK f \in Injection(set, Fresh) :
        /\ member' = [member EXCEPT ![j] = [user |-> run[h].user, active |-> TRUE]]
        /\ seat' = [r \in Row |->
             IF \E q \in set : f[q] = r
             THEN [conv |-> seat[CHOOSE q \in set : f[q] = r].conv, of |-> j, umn |-> 0]
             ELSE seat[r]]
  BY <1>2
<1> DEFINE N == {r \in Row : \E q \in set : f[q] = r}
           from == [r \in N |-> CHOOSE q \in set : f[q] = r]
<1>4. f \in [set -> Fresh] /\ Fresh \subseteq Row
  BY DEF Injection, Fresh
<1>5. N \in SUBSET Fresh
  BY <1>4
<1>6. \A r \in N : from[r] \in set /\ f[from[r]] = r
  OBVIOUS
<1>7. from \in [N -> Taken]
  BY <1>1, <1>6
<1>8. /\ j \in CompanyUser /\ (j \in Members => set = {})
      /\ IF run[h].cu = None THEN j \notin Members ELSE j = run[h].cu
  BY <1>1, <1>2 DEF TypeInv, TypeOK
<1>9. \A r \in Row : seat'[r] = IF r \in N
        THEN [conv |-> seat[from[r]].conv, of |-> j, umn |-> 0] ELSE seat[r]
  BY <1>3
<1>10. DOMAIN seat' = Row /\ seat' = [r \in Row |-> seat'[r]]
  BY <1>3
<1>11. j \in Members => N = {}
  BY <1>8
<1>12. \A q, r \in N : from[q] = from[r] => q = r
  BY <1>6
<1>13. \A r \in N : from[r] \in run[h].set
  BY <1>6
<1>14. \A q \in set : \E r \in N : from[r] = q
  <2> SUFFICES ASSUME NEW q \in set PROVE f[q] \in N /\ from[f[q]] = q
    OBVIOUS
  <2>1. f[q] \in N /\ from[f[q]] \in set /\ f[from[f[q]]] = f[q]
    BY <1>4, <1>6
  <2>2. QED
    BY <1>4, <2>1 DEF Injection, IsInjective
<1> HIDE DEF N, from
<1>15. QED
  BY <1>3, <1>5, <1>7, <1>8, <1>9, <1>10, <1>11, <1>12, <1>13, <1>14 DEF JoinedRows

LEMMA CommitJoinType ==
  ASSUME TypeInv, NEW h \in Handler, CommitJoin(h)
  PROVE  TypeInv'
<1>1. PICK j \in CompanyUser, N \in SUBSET Fresh : \E from \in [N -> Taken] :
        JoinedRows(h, j, N, from)
  BY JoinRows
<1>2. PICK from \in [N -> Taken] : JoinedRows(h, j, N, from)
  BY <1>1
<1>3. run[h].user \in User /\ run[h].user # None
  BY ConstantsAssumption DEF CommitJoin, TypeInv, JoinNames
<1>4. /\ conv' = conv /\ stored' = stored /\ touches' = touches
      /\ unseen' = unseen /\ stray' = stray /\ run' = [run EXCEPT ![h] = Idle]
  BY DEF CommitJoin
<1>5. [user |-> run[h].user, active |-> TRUE] \in Member
  BY <1>3 DEF Member
<1>6. member' \in [CompanyUser -> Member]
  BY <1>2, <1>5 DEF TypeInv, TypeOK, JoinedRows
<1>7. Members \subseteq Members'
  BY <1>2, <1>3 DEF TypeInv, TypeOK, Members, JoinedRows
<1>8. \A r \in N : /\ from[r] \in Row /\ seat[from[r]].conv # None
                    /\ [conv |-> seat[from[r]].conv, of |-> j, umn |-> 0] \in Seat
  <2>1. TAKE r \in N
  <2>2. from[r] \in Row /\ seat[from[r]].conv # None /\ seat[from[r]] \in Seat
    BY DEF Taken, TypeInv, TypeOK
  <2>3. QED
    BY <2>2 DEF Seat
<1>9. \A r \in Row : seat'[r] \in Seat
  BY <1>2, <1>8 DEF TypeInv, TypeOK, JoinedRows
<1>10. seat' \in [Row -> Seat]
  BY <1>2, <1>9 DEF JoinedRows
<1>11. Taken \subseteq Taken'
  BY <1>2, <1>8 DEF Taken, JoinedRows
<1>12. RunInv'
  BY <1>4, <1>7, <1>11, RunEnds, TypeInvParts
<1>13. TypeOK'
  BY <1>4, <1>6, <1>10, <1>11, <1>12 DEF TypeInv, TypeOK, RunInv, RunType, Request
<1>14. QED
  BY <1>12, <1>13 DEF TypeInv, RunInv

(* The rows N of a conversation that h opens: one for each user it names.    *)
OpenedRows(h, N, from) ==
    /\ \A r \in Row : seat'[r] = IF r \in N
         THEN [conv |-> run[h].conv, of |-> from[r],
               umn |-> FirstCount(run[h].kind, from[r], run[h].user)]
         ELSE seat[r]
    /\ \A q, r \in N : from[q] = from[r] => q = r
    /\ \A k \in run[h].set : \E r \in N : from[r] = k
    /\ DOMAIN seat' = Row /\ seat' = [r \in Row |-> seat'[r]]
    /\ unseen' \subseteq unseen \cup N
    /\ \A r \in unseen' \ unseen : FirstCount(run[h].kind, from[r], run[h].user) > 0

LEMMA OpenRows ==
  ASSUME TypeInv, NEW h \in Handler, CommitOpen(h)
  PROVE  \E N \in SUBSET Fresh : \E from \in [N -> Members] : OpenedRows(h, N, from)
<1> DEFINE set == run[h].set
           of(f, r) == CHOOSE k \in set : f[k] = r
<1>1. run[h].at = "open" /\ set \subseteq Members
  BY DEF CommitOpen, TypeInv, OpenNames
<1>2. PICK f \in Injection(set, Fresh) :
        /\ seat' = [r \in Row |-> IF r \in {f[k] : k \in set}
                THEN [conv |-> run[h].conv, of |-> of(f, r),
                      umn |-> FirstCount(run[h].kind, of(f, r), run[h].user)]
                ELSE seat[r]]
        /\ unseen' = unseen \cup {r \in {f[k] : k \in set} :
             /\ run[h].kind # "import" /\ member[of(f, r)].user # run[h].user
             /\ run[h].kind = "elsewhere" => member[of(f, r)].active}
  BY DEF CommitOpen
<1> DEFINE N == {f[k] : k \in set}
           from == [r \in N |-> CHOOSE k \in set : f[k] = r]
<1>3. N \in SUBSET Fresh /\ N \subseteq Row
  BY DEF Injection, Fresh
<1>4. \A r \in N : from[r] \in set /\ f[from[r]] = r /\ from[r] = of(f, r)
  OBVIOUS
<1>5. from \in [N -> Members]
  BY <1>1, <1>4
<1>6. \A r \in Row : seat'[r] = IF r \in N
                THEN [conv |-> run[h].conv, of |-> from[r],
                      umn |-> FirstCount(run[h].kind, from[r], run[h].user)]
                ELSE seat[r]
  BY <1>2, <1>4
<1>7. DOMAIN seat' = Row /\ seat' = [r \in Row |-> seat'[r]] /\ unseen' \subseteq unseen \cup N
  BY <1>2
<1>8. \A q, r \in N : from[q] = from[r] => q = r
  BY <1>4
<1>9. \A r \in unseen' \ unseen : FirstCount(run[h].kind, from[r], run[h].user) > 0
  BY <1>2, <1>4 DEF FirstCount
<1>10. \A k \in set : \E r \in N : from[r] = k
  <2> SUFFICES ASSUME NEW k \in set PROVE f[k] \in N /\ from[f[k]] = k
    OBVIOUS
  <2>1. f[k] \in N /\ from[f[k]] \in set /\ f[from[f[k]]] = f[k]
    BY <1>4
  <2>2. QED
    BY <2>1 DEF Injection, IsInjective
<1> HIDE DEF N, from
<1>11. QED
  BY <1>3, <1>5, <1>6, <1>7, <1>8, <1>9, <1>10 DEF OpenedRows

LEMMA CommitOpenType ==
  ASSUME TypeInv, NEW h \in Handler, CommitOpen(h)
  PROVE  TypeInv'
<1>1. PICK N \in SUBSET Fresh : \E from \in [N -> Members] : OpenedRows(h, N, from)
  BY OpenRows
<1>2. PICK from \in [N -> Members] : OpenedRows(h, N, from)
  BY <1>1
<1>3. run[h].conv \in Conversation /\ run[h].conv # None /\ New(run[h].item) \subseteq Item
  BY ConstantsAssumption DEF CommitOpen, TypeInv, OpenNames, RunType, Request, New
<1>4. /\ conv' = [conv EXCEPT ![run[h].conv] = "active"] /\ stored' = stored \cup New(run[h].item)
      /\ member' = member /\ touches' = touches /\ stray' = stray
      /\ run' = [run EXCEPT ![h] = Idle]
  BY DEF CommitOpen
<1>5. \A k, s : FirstCount(run[h].kind, k, s) \in Nat
  BY DEF FirstCount
<1>6. \A r \in N : [conv |-> run[h].conv, of |-> from[r],
                     umn |-> FirstCount(run[h].kind, from[r], run[h].user)] \in Seat
  BY <1>3, <1>5 DEF Seat, Members
<1>7. \A r \in Row : seat'[r] \in Seat
  BY <1>2, <1>6 DEF TypeInv, TypeOK, OpenedRows
<1>8. seat' \in [Row -> Seat]
  BY <1>2, <1>7 DEF OpenedRows
<1>9. Taken \subseteq Taken' /\ N \subseteq Taken'
  BY <1>2, <1>3 DEF Taken, Fresh, OpenedRows
<1>10. Members' = Members
  BY <1>4 DEF Members
<1>11. RunInv'
  BY <1>4, <1>9, <1>10, RunEnds, TypeInvParts
<1>12. conv' \in [Conversation -> {"none", "active", "inactive"}]
  BY <1>4 DEF TypeInv, TypeOK
<1>13. unseen' \cup stray' \subseteq Taken'
  BY <1>2, <1>4, <1>9 DEF TypeInv, TypeOK, OpenedRows
<1>14. TypeOK'
  BY <1>3, <1>4, <1>8, <1>11, <1>12, <1>13 DEF TypeInv, TypeOK, RunInv, RunType, Request
<1>15. QED
  BY <1>11, <1>14 DEF TypeInv, RunInv

LEMMA DeactivateType ==
  ASSUME TypeInv, NEW c \in Conversation, Deactivate(c)
  PROVE  TypeInv'
<1>1. /\ conv' = [conv EXCEPT ![c] = "inactive"]
      /\ member' = member /\ seat' = seat /\ run' = run /\ stored' = stored
      /\ touches' = touches /\ unseen' = unseen /\ stray' = stray
  BY DEF Deactivate
<1>2. Taken' = Taken /\ Members' = Members
  BY <1>1 DEF Taken, Members
<1>3. RunInv'
  BY <1>1, <1>2, RunStays, TypeInvParts
<1>4. TypeOK'
  BY <1>1, <1>2 DEF TypeInv, TypeOK
<1>5. QED
  BY <1>3, <1>4 DEF TypeInv, RunInv

(* The actions that end a request with a save: what is left to show is that *)
(* the numbers are naturals and the other variables typed.                  *)
LEMMA SavedType ==
  ASSUME TypeInv, NEW h \in Handler, NEW f, NEW counted, NEW cleared,
         counted \subseteq DOMAIN run[h].seen,
         \A r \in DOMAIN run[h].seen : f[r] \in Nat,
         Save(h, f, counted, cleared),
         member' = member, touches' = touches, stored' \subseteq Item,
         conv' \in [Conversation -> {"none", "active", "inactive"}]
  PROVE  TypeInv'
<1>1. /\ seat' \in [Row -> Seat]
      /\ Taken' = Taken
      /\ unseen' \cup stray' \subseteq Taken'
      /\ run' = [run EXCEPT ![h] = Idle]
  BY SaveStep
<1>2. Members' = Members
  BY DEF Members
<1>3. RunInv'
  BY <1>1, <1>2, RunEnds, TypeInvParts
<1>4. TypeOK'
  BY <1>1, <1>3 DEF TypeInv, TypeOK, RunInv, RunType, Request
<1>5. QED
  BY <1>3, <1>4 DEF TypeInv, RunInv

LEMMA SeenNat ==
  ASSUME TypeInv, NEW h \in Handler
  PROVE  /\ DOMAIN run[h].seen \subseteq Row
         /\ \A r \in DOMAIN run[h].seen : run[h].seen[r] \in Nat
  BY DEF TypeInv, RunType, Request

LEMMA CommitMessageType ==
  ASSUME TypeInv, NEW h \in Handler, CommitMessage(h)
  PROVE  TypeInv'
<1> DEFINE now == run[h]
           rows == DOMAIN now.seen
           own(r) == Owner(r) = now.user
           active(r) == member[seat[r].of].active
           f == [r \in rows |-> Count(now.kind, now.seen[r], own(r), active(r))]
           counted == CASE now.kind \in {"schedule", "import"} -> {}
                        [] now.kind = "compose"  -> {r \in rows : ~ own(r)}
                        [] now.kind = "revived"  -> {r \in rows : active(r)}
                        [] OTHER                 -> rows
           cleared == IF now.kind \in {"schedule", "revived", "import"} THEN {r \in rows : ~ own(r)} ELSE {}
<1>1. Save(h, f, counted, cleared)
  BY DEF CommitMessage
<1>2. \A r \in rows : f[r] \in Nat
  <2>1. \A r \in rows : now.seen[r] \in Nat
    BY SeenNat
  <2>2. ASSUME NEW r \in rows PROVE Count(now.kind, now.seen[r], own(r), active(r)) \in Nat
    BY <2>1, <2>2 DEF Count
  <2>3. QED
    BY <2>2
<1>3. counted \subseteq rows
  OBVIOUS
<1>4. now.conv \in Conversation /\ New(now.item) \subseteq Item
  BY DEF CommitMessage, TypeInv, MessageNames, RunType, Request, New
<1>5. /\ conv' = [conv EXCEPT ![now.conv] = IF now.kind = "inbound" THEN @ ELSE "active"]
      /\ stored' = stored \cup New(now.item)
      /\ member' = member /\ touches' = touches
  BY DEF CommitMessage
<1>6. conv' \in [Conversation -> {"none", "active", "inactive"}] /\ stored' \subseteq Item
  BY <1>4, <1>5 DEF TypeInv, TypeOK
<1> HIDE DEF f, counted, cleared
<1>7. QED
  BY <1>1, <1>2, <1>3, <1>5, <1>6, SavedType

LEMMA ReviveFailsType ==
  ASSUME TypeInv, NEW h \in Handler, ReviveFails(h)
  PROVE  TypeInv'
<1>1. PICK R \in SUBSET DOMAIN run[h].seen :
        Save(h, [r \in DOMAIN run[h].seen |-> IF r \in R THEN 0 ELSE seat[r].umn], {}, R)
  BY DEF ReviveFails
<1> DEFINE f == [r \in DOMAIN run[h].seen |-> IF r \in R THEN 0 ELSE seat[r].umn]
<1>2. \A r \in DOMAIN run[h].seen : f[r] \in Nat
  <2>1. \A r \in Row : seat[r].umn \in Nat
    BY DEF TypeInv, TypeOK, Seat
  <2>2. QED
    BY <2>1, SeenNat
<1>3. run[h].conv \in Conversation
  BY DEF ReviveFails, TypeInv, MessageNames
<1>4. /\ conv' = [conv EXCEPT ![run[h].conv] = "active"]
      /\ member' = member /\ stored' = stored /\ touches' = touches
  BY DEF ReviveFails
<1>5. conv' \in [Conversation -> {"none", "active", "inactive"}] /\ stored' \subseteq Item
  BY <1>3, <1>4 DEF TypeInv, TypeOK
<1>6. Save(h, f, {}, R)
  BY <1>1
<1> HIDE DEF f
<1>7. QED
  BY <1>2, <1>4, <1>5, <1>6, SavedType

LEMMA SaveTouchType ==
  ASSUME TypeInv, NEW h \in Handler, SaveTouch(h)
  PROVE  TypeInv'
<1> DEFINE rows == DOMAIN run[h].seen
           f == [r \in rows |-> Touched(run[h].kind, run[h].seen[r])]
           counted == IF run[h].kind = "count" THEN rows ELSE {}
           cleared == IF run[h].kind = "read" THEN rows ELSE {}
<1>1. Save(h, f, counted, cleared) /\ counted \subseteq rows
  BY DEF SaveTouch
<1>2. \A r \in rows : f[r] \in Nat
  BY SeenNat DEF Touched
<1>3. member' = member /\ conv' = conv /\ stored' = stored /\ touches' = touches
  BY DEF SaveTouch
<1>4. conv' \in [Conversation -> {"none", "active", "inactive"}] /\ stored' \subseteq Item
  BY <1>3 DEF TypeInv, TypeOK
<1> HIDE DEF f, counted, cleared
<1>5. QED
  BY <1>1, <1>2, <1>3, <1>4, SavedType

LEMMA EndsType ==
  ASSUME TypeInv, NEW h \in Handler, Refuse(h) \/ Fail(h)
  PROVE  TypeInv'
<1>1. /\ run' = [run EXCEPT ![h] = Idle]
      /\ member' = member /\ conv' = conv /\ seat' = seat /\ stored' = stored
      /\ touches' = touches /\ unseen' = unseen /\ stray' = stray
  BY DEF Refuse, Fail
<1>2. Taken' = Taken /\ Members' = Members
  BY <1>1 DEF Taken, Members
<1>3. RunInv'
  BY <1>1, <1>2, RunEnds, TypeInvParts
<1>4. TypeOK'
  BY <1>1, <1>2, <1>3 DEF TypeInv, TypeOK, RunInv, RunType, Request
<1>5. QED
  BY <1>3, <1>4 DEF TypeInv, RunInv

LEMMA TouchType ==
  ASSUME TypeInv, NEW h \in Handler, NEW r \in Row,
         NEW kind \in {"read", "unread", "count", "modified"}, Touch(h, r, kind)
  PROVE  TypeInv'
<1> DEFINE seen == [p \in {r} |-> seat[p].umn]
           q == [Idle EXCEPT !.at = "touch", !.kind = kind, !.seen = seen]
<1>1. r \in Taken /\ kind \in RequestKind
  BY DEF Touch, RequestKind
<1>2. seat[r].umn \in Nat
  BY DEF TypeInv, TypeOK, Seat
<1>3. seen \in UNION {[R -> Nat] : R \in SUBSET Row} /\ DOMAIN seen = {r}
  <2>1. seen \in [{r} -> Nat]
    BY <1>2
  <2>2. QED
    BY <2>1
<1> HIDE DEF seen
<1>4. q \in Request
  BY <1>1, <1>3, IdleType DEF Request, Place
<1>5. q.at = "touch" /\ q.seen = seen
  BY DEF Idle
<1>6. /\ run' = [run EXCEPT ![h] = q]
      /\ member' = member /\ conv' = conv /\ seat' = seat /\ stored' = stored
      /\ touches' = touches + 1 /\ unseen' = unseen /\ stray' = stray
  BY DEF Touch, seen
<1>7. Taken' = Taken /\ Members' = Members
  BY <1>6 DEF Taken, Members
<1> HIDE DEF q
<1>8. RunInv'
  BY <1>1, <1>3, <1>4, <1>5, <1>6, <1>7, RunStep, TypeInvParts
<1>9. TypeOK'
  BY <1>6, <1>7, <1>8 DEF TypeInv, TypeOK, RunInv, RunType, Request
<1>10. QED
  BY <1>8, <1>9 DEF TypeInv, RunInv

LEMMA UpdateManyType ==
  ASSUME TypeInv, NEW R \in SUBSET Taken, NEW read \in BOOLEAN, UpdateUmnConversations(R, read)
  PROVE  /\ TypeInv'
         /\ \A r \in Row : seat'[r].conv = seat[r].conv /\ seat'[r].of = seat[r].of
<1> DEFINE f == [r \in Row |-> IF read THEN 0 ELSE IF seat[r].umn = 0 THEN 1 ELSE seat[r].umn]
<1>1. TypeOK /\ R \in SUBSET Row
  BY DEF TypeInv, Taken
<1>2. \A r \in R : f[r] \in Nat
  BY <1>1 DEF TypeOK, Seat
<1>3. seat' = [r \in Row |-> IF r \in R THEN [seat[r] EXCEPT !.umn = f[r]] ELSE seat[r]]
  BY <1>1 DEF UpdateUmnConversations
<1> HIDE DEF f
<1>4. /\ seat' \in [Row -> Seat]
      /\ \A r \in Row : seat'[r].conv = seat[r].conv /\ seat'[r].of = seat[r].of
      /\ Taken' = Taken
  BY <1>1, <1>2, <1>3, Recount
<1>5. /\ member' = member /\ conv' = conv /\ run' = run /\ stored' = stored
      /\ touches' = touches + 1 /\ unseen' \subseteq unseen /\ stray' = stray
  BY DEF UpdateUmnConversations
<1>6. Members' = Members
  BY <1>5 DEF Members
<1>7. RunInv'
  BY <1>4, <1>5, <1>6, RunStays, TypeInvParts
<1>8. TypeOK'
  BY <1>1, <1>4, <1>5 DEF TypeOK
<1>9. QED
  BY <1>4, <1>7, <1>8 DEF TypeInv, RunInv

LEMMA TypeStep == TypeInv /\ [Next]_vars => TypeInv'
<1> SUFFICES ASSUME TypeInv, [Next]_vars PROVE TypeInv'
  OBVIOUS
<1>1. CASE Users
  BY <1>1, JoinType, LeaveType, AddByHandType, TouchType, UpdateManyType, CheckCustomerType
     DEF Users, AddUser, UpdateUser
<1>2. CASE Messages
  <2>1. PICK h \in Handler, c \in Conversation, kind \in Kind, x \in Item :
          \E s \in Senders(kind) :
            OpenConversation(h, c, kind, x, s) \/ BeginMessage(h, c, kind, x, s)
    BY <1>2 DEF Messages
  <2>2. Senders(kind) \subseteq User \cup {None}
    BY DEF Senders
  <2>3. QED
    BY <2>1, <2>2, OpenType, BeginMessageType
<1>3. ASSUME NEW c \in Conversation, Deactivate(c) PROVE TypeInv'
  BY <1>3, DeactivateType
<1>4. ASSUME NEW h \in Handler, Proceed(h) PROVE TypeInv'
  BY <1>4, CommitJoinType, CommitOpenType, ImportType, CommitMessageType, EndsType,
     ReviveFailsType, SaveTouchType DEF Proceed
<1>5. CASE UNCHANGED vars
  <2>1. /\ member' = member /\ conv' = conv /\ seat' = seat /\ run' = run /\ stored' = stored
        /\ touches' = touches /\ unseen' = unseen /\ stray' = stray
    BY <1>5 DEF vars
  <2>2. Taken' = Taken /\ Members' = Members
    BY <2>1 DEF Taken, Members
  <2>3. RunInv'
    BY <2>1, <2>2, RunStays, TypeInvParts
  <2>4. TypeOK'
    BY <2>1, <2>2 DEF TypeInv, TypeOK
  <2>5. QED
    BY <2>3, <2>4 DEF TypeInv, RunInv
<1>6. QED
  BY <1>1, <1>2, <1>3, <1>4, <1>5 DEF Next

(* Rows of participants, members and requests stay well typed, and what was *)
(* counted or set back are rows that exist, however the requests interleave.*)
THEOREM TypeCorrect == Spec => []TypeOK
<1>1. TypeInv => TypeOK
  BY DEF TypeInv
<1>2. QED
  BY <1>1, InitType, TypeStep, PTL DEF Spec

-----------------------------------------------------------------------------
(* No row of company_users takes part twice in a conversation that nobody   *)
(* was added to by hand.  A seat's row is there and its conversation        *)
(* is open; the requests that open conversations open different ones, which *)
(* nobody takes part in yet; and the rows whose likes a joining user is     *)
(* given are of different conversations.                                    *)
RowsOnce ==
    \A q, r \in Taken : /\ seat[q].conv = seat[r].conv
                        /\ seat[q].of = seat[r].of
                        /\ seat[q].conv \notin byHand
                        => q = r

Placed == \A r \in Taken : seat[r].of \in Members /\ conv[seat[r].conv] # "none"
OpenApart == \A h \in At("open") :
    /\ conv[run[h].conv] = "none"
    /\ \A g \in At("open") : run[g].conv = run[h].conv => g = h
JoinApart == \A h \in At("join") : \A q, r \in run[h].set :
    seat[q].conv = seat[r].conv /\ seat[q].conv \notin byHand => q = r
MessageOpen == \A h \in At("message") : conv[run[h].conv] # "none"

Apart   == OpenApart /\ JoinApart /\ MessageOpen
SeatInv == TypeInv /\ RowsOnce /\ Placed /\ Apart

(* Nothing happens to who takes part in what.                               *)
SameSeats ==
    /\ \A r \in Row : seat'[r].conv = seat[r].conv /\ seat'[r].of = seat[r].of
    /\ \A c \in Conversation : conv[c] = "none" <=> conv'[c] = "none"
    /\ Members' = Members
    /\ byHand' = byHand

LEMMA SeatsKept ==
  ASSUME SeatInv, SameSeats
  PROVE  RowsOnce' /\ Placed'
<1>1. Taken' = Taken
  BY DEF SameSeats, Taken
<1>2. RowsOnce'
  BY <1>1 DEF SeatInv, SameSeats, RowsOnce, Taken
<1>3. \A r \in Taken : seat[r].conv \in Conversation
  BY DEF SeatInv, TypeInv, TypeOK, Seat, Taken
<1>4. Placed'
  <2>1. ASSUME NEW r \in Taken PROVE seat'[r].of \in Members' /\ conv'[seat'[r].conv] # "none"
    <3>1. r \in Row /\ seat[r].of \in Members /\ conv[seat[r].conv] # "none"
      BY <2>1 DEF SeatInv, Placed, Taken
    <3>2. QED
      BY <2>1, <3>1, <1>3 DEF SameSeats
  <2>2. QED
    BY <1>1, <2>1 DEF Placed
<1>5. QED
  BY <1>2, <1>4

(* The requests in G go on as they were.                                    *)
LEMMA OthersApart ==
  ASSUME SeatInv, NEW G \in SUBSET Handler, \A h \in G : run'[h] = run[h],
         \A h \in Handler \ G : run'[h].at \notin {"open", "join", "message"},
         \A r \in Taken : seat'[r].conv = seat[r].conv, byHand \subseteq byHand',
         \A c \in Conversation : conv'[c] = "none" => conv[c] = "none",
         \A h \in G \cap At("open") : conv'[run[h].conv] = "none"
  PROVE  Apart'
<1>1. \A h \in Handler : run'[h].at \in {"open", "join", "message"} =>
        h \in G /\ run'[h] = run[h]
  OBVIOUS
<1>2. OpenApart'
  BY <1>1 DEF SeatInv, Apart, OpenApart, At
<1>3. JoinApart'
  <2>1. ASSUME NEW h \in Handler, run'[h].at = "join", NEW q \in run'[h].set,
               NEW r \in run'[h].set, seat'[q].conv = seat'[r].conv, seat'[q].conv \notin byHand'
        PROVE  q = r
    <3>1. run'[h] = run[h] /\ h \in At("join")
      BY <1>1, <2>1 DEF At
    <3>2. q \in Taken /\ r \in Taken
      BY <2>1, <3>1 DEF SeatInv, TypeInv, JoinNames, At
    <3>3. seat[q].conv = seat[r].conv /\ seat[q].conv \notin byHand
      BY <2>1, <3>2
    <3>4. QED
      BY <2>1, <3>1, <3>3 DEF SeatInv, Apart, JoinApart
  <2>2. QED
    BY <2>1 DEF JoinApart, At
<1>4. MessageOpen'
  <2>1. ASSUME NEW h \in Handler, run'[h].at = "message" PROVE conv'[run'[h].conv] # "none"
    <3>1. run'[h] = run[h] /\ h \in At("message")
      BY <1>1, <2>1 DEF At
    <3>2. run[h].conv \in Conversation /\ conv[run[h].conv] # "none"
      BY <3>1 DEF SeatInv, TypeInv, MessageNames, At, Apart, MessageOpen
    <3>3. QED
      BY <3>1, <3>2
  <2>2. QED
    BY <2>1 DEF MessageOpen, At
<1>5. QED
  BY <1>2, <1>3, <1>4 DEF Apart

LEMMA InitSeats == Init => SeatInv
<1> SUFFICES ASSUME Init PROVE SeatInv
  OBVIOUS
<1>1. Taken = {}
  BY DEF Init, Taken, NoSeat
<1>2. RowsOnce /\ Placed
  BY <1>1 DEF RowsOnce, Placed
<1>3. Apart
  BY DEF Init, Apart, OpenApart, JoinApart, MessageOpen, At, Idle
<1>4. QED
  BY <1>2, <1>3, InitType DEF SeatInv

(* A request ends, and leaves who takes part in what alone.                 *)
LEMMA EndsSeats ==
  ASSUME SeatInv, TypeInv', NEW h \in Handler, NEW q, q.at \notin {"open", "join", "message"},
         run' = [run EXCEPT ![h] = q], SameSeats
  PROVE  SeatInv'
<1>1. RowsOnce' /\ Placed'
  BY SeatsKept
<1>2. \A g \in Handler : run'[g] = IF g = h THEN q ELSE run[g]
  BY DEF SeatInv, TypeInv, RunType
<1>3. \A g \in At("open") : conv[run[g].conv] = "none" /\ run[g].conv \in Conversation
  BY DEF SeatInv, Apart, OpenApart, TypeInv, OpenNames, At
<1>4. \A r \in Taken : seat'[r].conv = seat[r].conv
  BY DEF SameSeats, Taken
<1>5. \A g \in At("open") : conv'[run[g].conv] = "none"
  BY <1>3 DEF SameSeats
<1>6. \A c \in Conversation : conv'[c] = "none" => conv[c] = "none"
  BY DEF SameSeats
<1>7. byHand \subseteq byHand'
  BY DEF SameSeats
<1>8. Apart'
  <2> DEFINE G == Handler \ {h}
  <2>1. G \in SUBSET Handler /\ \A g \in G : run'[g] = run[g]
    BY <1>2
  <2>2. \A g \in Handler \ G : run'[g].at \notin {"open", "join", "message"}
    BY <1>2
  <2>3. \A g \in G \cap At("open") : conv'[run[g].conv] = "none"
    BY <1>5
  <2> HIDE DEF G
  <2>4. QED
    BY <1>4, <1>6, <1>7, <2>1, <2>2, <2>3, OthersApart
<1>9. QED
  BY <1>1, <1>8 DEF SeatInv

(* A step that no request takes.                                            *)
LEMMA StaysSeats ==
  ASSUME SeatInv, TypeInv', run' = run, SameSeats
  PROVE  SeatInv'
<1>1. RowsOnce' /\ Placed'
  BY SeatsKept
<1>2. \A g \in Handler \cap At("open") : conv'[run[g].conv] = "none"
  BY DEF SeatInv, Apart, OpenApart, TypeInv, OpenNames, At, SameSeats
<1>3. \A r \in Taken : seat'[r].conv = seat[r].conv
  BY DEF SameSeats, Taken
<1>4. /\ \A c \in Conversation : conv'[c] = "none" => conv[c] = "none"
      /\ byHand \subseteq byHand'
  BY DEF SameSeats
<1>5. Apart'
  BY <1>2, <1>3, <1>4, OthersApart
<1>6. QED
  BY <1>1, <1>5 DEF SeatInv

(* A request begins, and has only read.                                     *)
LEMMA BeginsSeats ==
  ASSUME SeatInv, TypeInv', NEW h \in Handler, NEW q, run' = [run EXCEPT ![h] = q],
         run[h].at \in {"idle", "file"},
         member' = member, conv' = conv, seat' = seat, byHand' = byHand,
         q.at = "open" => /\ conv[q.conv] = "none"
                          /\ \A g \in At("open") : run[g].conv # q.conv,
         q.at = "join" => \A a, b \in q.set :
                            seat[a].conv = seat[b].conv /\ seat[a].conv \notin byHand => a = b,
         q.at = "message" => conv[q.conv] # "none"
  PROVE  SeatInv'
<1>1. SameSeats
  BY DEF SameSeats, Members
<1>2. RowsOnce' /\ Placed'
  BY <1>1, SeatsKept
<1>3. \A g \in Handler : run'[g] = IF g = h THEN q ELSE run[g]
  BY DEF SeatInv, TypeInv, RunType
<1>4. OpenApart'
  BY <1>3 DEF SeatInv, Apart, OpenApart, At
<1>5. JoinApart'
  BY <1>3 DEF SeatInv, Apart, JoinApart, At
<1>6. MessageOpen'
  BY <1>3 DEF SeatInv, Apart, MessageOpen, At
<1>7. QED
  BY <1>2, <1>4, <1>5, <1>6 DEF SeatInv, Apart

LEMMA JoinSeats ==
  ASSUME SeatInv, TypeInv', NEW h \in Handler, NEW u \in User, Join(h, u)
  PROVE  SeatInv'
<1>1. PICK q : /\ run' = [run EXCEPT ![h] = q] /\ q.at = "join"
               /\ \/ q.set = {}
                  \/ \E k \in Members : q.set = {r \in Taken : seat[r].of = k}
  <2> DEFINE Again(k) == [Idle EXCEPT !.at = "join", !.user = u, !.cu = k]
             Like(k)  == [Idle EXCEPT !.at = "join", !.user = u,
                                      !.set = {r \in Taken : seat[r].of = k}]
             First    == [Idle EXCEPT !.at = "join", !.user = u]
  <2>1. \A k \in Members : /\ Again(k).at = "join" /\ Again(k).set = {}
                           /\ Like(k).at = "join"
                           /\ Like(k).set = {r \in Taken : seat[r].of = k}
    BY DEF Idle
  <2>2. First.at = "join" /\ First.set = {}
    BY DEF Idle
  <2> HIDE DEF Again, Like, First
  <2>3. \/ \E k \in Members : run' = [run EXCEPT ![h] = Again(k)]
        \/ \E k \in Members : run' = [run EXCEPT ![h] = Like(k)]
        \/ run' = [run EXCEPT ![h] = First]
    BY DEF Join, Again, Like, First
  <2>4. QED
    BY <2>1, <2>2, <2>3
<1>2. \A a, b \in q.set : seat[a].conv = seat[b].conv /\ seat[a].conv \notin byHand => a = b
  BY <1>1 DEF SeatInv, RowsOnce
<1>3. /\ run[h].at = "idle" /\ member' = member /\ conv' = conv /\ seat' = seat
      /\ byHand' = byHand
  BY DEF Join
<1>4. q.at # "open" /\ q.at # "message"
  BY <1>1
<1>5. QED
  BY <1>1, <1>2, <1>3, <1>4, BeginsSeats

LEMMA OpenSeats ==
  ASSUME SeatInv, TypeInv', NEW h \in Handler, NEW c \in Conversation, NEW kind \in Kind,
         NEW x \in Item, NEW s, OpenConversation(h, c, kind, x, s)
  PROVE  SeatInv'
<1>0. PICK kd \in {kind, "elsewhere"} :
      run' = [run EXCEPT ![h] = [Idle EXCEPT !.at = "open", !.conv = c, !.kind = kd, !.item = x,
                                         !.user = s, !.set = UsersInCompany]]
  BY DEF OpenConversation
<1> DEFINE q == [Idle EXCEPT !.at = "open", !.conv = c, !.kind = kd, !.item = x,
                             !.user = s, !.set = UsersInCompany]
<1>1. q.at = "open" /\ q.conv = c
  BY DEF Idle
<1>2. /\ run' = [run EXCEPT ![h] = q] /\ run[h].at = "idle"
      /\ member' = member /\ conv' = conv /\ seat' = seat /\ byHand' = byHand
      /\ conv[c] = "none" /\ \A g \in At("open") : run[g].conv # c
  BY <1>0 DEF OpenConversation
<1>3. q.at # "join" /\ q.at # "message"
  BY <1>1
<1> HIDE DEF q
<1>4. QED
  BY <1>1, <1>2, <1>3, BeginsSeats

LEMMA BeginMessageSeats ==
  ASSUME SeatInv, TypeInv', NEW h \in Handler, NEW c \in Conversation, NEW kind \in Kind,
         NEW x \in Item, NEW s, BeginMessage(h, c, kind, x, s)
  PROVE  SeatInv'
<1> DEFINE as == IF kind = "inbound" /\ conv[c] = "inactive" THEN "revived" ELSE kind
           seen == [r \in Attendances(as, c) |-> seat[r].umn]
           q == [Idle EXCEPT !.at = "message", !.kind = as, !.conv = c, !.item = x,
                             !.user = s, !.seen = seen]
<1> HIDE DEF as, seen
<1>1. q.at = "message" /\ q.conv = c
  BY DEF Idle
<1>2. /\ run' = [run EXCEPT ![h] = q] /\ run[h].at = "idle"
      /\ member' = member /\ conv' = conv /\ seat' = seat /\ byHand' = byHand
      /\ conv[c] # "none"
  BY DEF BeginMessage, as, seen
<1>3. q.at # "join" /\ q.at # "open"
  BY <1>1
<1> HIDE DEF q
<1>4. QED
  BY <1>1, <1>2, <1>3, BeginsSeats

LEMMA ImportSeats ==
  ASSUME SeatInv, TypeInv', NEW h \in Handler, AddCustomerFromExcel(h)
  PROVE  SeatInv'
<1>1. TypeInv
  BY DEF SeatInv
<1>2. PICK q : /\ run' = [run EXCEPT ![h] = q]
               /\ \A g \in At("open") : run[g].conv # q.conv
               /\ \/ q.at = "open" /\ conv[q.conv] = "none"
                  \/ q.at = "message" /\ conv[q.conv] # "none"
  BY <1>1, ImportRequest
<1>3. /\ run[h].at \in {"idle", "file"} /\ member' = member /\ conv' = conv /\ seat' = seat
      /\ byHand' = byHand
  BY DEF AddCustomerFromExcel
<1>4. q.at # "join"
  BY <1>2
<1>5. QED
  BY <1>2, <1>3, <1>4, BeginsSeats

LEMMA AddByHandSeats ==
  ASSUME SeatInv, TypeInv', NEW c \in Conversation, NEW k \in CompanyUser,
         AddUserIntoConversation(c, k)
  PROVE  SeatInv'
<1>1. PICK n \in Fresh : seat' = [seat EXCEPT ![n] = [conv |-> c, of |-> k, umn |-> 0]]
  BY DEF AddUserIntoConversation
<1>2. \A r \in Row : seat'[r] = IF r = n THEN [conv |-> c, of |-> k, umn |-> 0] ELSE seat[r]
  BY <1>1 DEF SeatInv, TypeInv, TypeOK
<1>3. /\ member' = member /\ conv' = conv /\ run' = run /\ byHand' = byHand \cup {c}
      /\ conv[c] # "none" /\ k \in Members
  BY DEF AddUserIntoConversation
<1>4. Members' = Members
  BY <1>3 DEF Members
<1>5. \A r \in Taken' : r = n \/ (r \in Taken /\ seat'[r] = seat[r])
  BY <1>2 DEF Taken
<1>6. n \in Row /\ seat'[n].conv = c /\ seat'[n].of = k
  BY <1>2 DEF Fresh
<1>7. RowsOnce'
  <2>1. ASSUME NEW q \in Taken', NEW r \in Taken', seat'[q].conv = seat'[r].conv,
               seat'[q].of = seat'[r].of, seat'[q].conv \notin byHand'
        PROVE  q = r
    <3>1. q # n /\ r # n
      BY <1>3, <1>6, <2>1
    <3>2. QED
      BY <1>3, <1>5, <2>1, <3>1 DEF SeatInv, RowsOnce
  <2>2. QED
    BY <2>1 DEF RowsOnce
<1>8. Placed'
  BY <1>3, <1>4, <1>5, <1>6 DEF SeatInv, Placed
<1>9. \A r \in Taken : seat'[r].conv = seat[r].conv
  BY <1>2 DEF Taken, Fresh
<1>10. \A h \in Handler \cap At("open") : conv'[run[h].conv] = "none"
  BY <1>3 DEF SeatInv, Apart, OpenApart
<1>11. Apart'
  BY <1>3, <1>9, <1>10, OthersApart
<1>12. QED
  BY <1>7, <1>8, <1>11 DEF SeatInv

LEMMA CommitJoinSeats ==
  ASSUME SeatInv, TypeInv', NEW h \in Handler, CommitJoin(h)
  PROVE  SeatInv'
<1>1. TypeInv
  BY DEF SeatInv
<1>2. PICK j \in CompanyUser, N \in SUBSET Fresh : \E from \in [N -> Taken] :
        JoinedRows(h, j, N, from)
  BY <1>1, JoinRows
<1>3. PICK from \in [N -> Taken] : JoinedRows(h, j, N, from)
  BY <1>2
<1>4. /\ run[h].at = "join" /\ conv' = conv /\ byHand' = byHand
      /\ run' = [run EXCEPT ![h] = Idle]
  BY DEF CommitJoin
<1>5. run[h].user # None
  BY <1>1, <1>4, ConstantsAssumption DEF TypeInv, JoinNames
<1>6. Members \subseteq Members' /\ j \in Members'
  BY <1>1, <1>3, <1>5 DEF TypeInv, TypeOK, Members, JoinedRows
<1>7. \A r \in Taken : r \notin N /\ seat'[r] = seat[r]
  BY <1>3 DEF Taken, Fresh, JoinedRows
<1>8. \A r \in N : /\ r \in Row /\ seat'[r].of = j /\ seat'[r].conv = seat[from[r]].conv
                    /\ from[r] \in Taken
  <2>1. TAKE r \in N
  <2>2. r \in Row /\ from[r] \in Taken
    BY DEF Fresh
  <2>3. seat'[r] = [conv |-> seat[from[r]].conv, of |-> j, umn |-> 0]
    BY <1>3, <2>2 DEF JoinedRows
  <2>4. QED
    BY <2>2, <2>3
<1>9. \A r \in Taken' : r \in N \/ r \in Taken
  BY <1>3 DEF Taken, JoinedRows
<1>10. RowsOnce'
  <2>1. ASSUME NEW q \in Taken', NEW r \in Taken', seat'[q].conv = seat'[r].conv,
               seat'[q].of = seat'[r].of, seat'[q].conv \notin byHand'
        PROVE  q = r
    <3>1. CASE q \in N /\ r \in N
      <4>1. from[q] = from[r]
        BY <1>3, <1>4, <1>8, <2>1, <3>1 DEF SeatInv, Apart, JoinApart, At, JoinedRows
      <4>2. QED
        BY <1>3, <3>1, <4>1 DEF JoinedRows
    <3>2. CASE q \in Taken /\ r \in Taken
      BY <1>4, <1>7, <2>1, <3>2 DEF SeatInv, RowsOnce
    <3>3. \A a \in N, b \in Taken : seat'[a].of # seat'[b].of
      BY <1>3, <1>7, <1>8 DEF SeatInv, Placed, JoinedRows
    <3>4. QED
      BY <1>9, <2>1, <3>1, <3>2, <3>3
  <2>2. QED
    BY <2>1 DEF RowsOnce
<1>11. Placed'
  BY <1>4, <1>6, <1>7, <1>8, <1>9 DEF SeatInv, Placed
<1>12. Apart'
  <2> DEFINE G == Handler \ {h}
  <2>1. G \in SUBSET Handler /\ \A g \in G : run'[g] = run[g]
    BY <1>1, <1>4 DEF TypeInv, RunType
  <2>2. \A g \in Handler \ G : run'[g].at \notin {"open", "join", "message"}
    BY <1>1, <1>4 DEF TypeInv, RunType, Idle
  <2>3. \A g \in G \cap At("open") : conv'[run[g].conv] = "none"
    BY <1>4 DEF SeatInv, Apart, OpenApart
  <2> HIDE DEF G
  <2>4. QED
    BY <1>4, <1>7, <2>1, <2>2, <2>3, OthersApart
<1>13. QED
  BY <1>10, <1>11, <1>12 DEF SeatInv

LEMMA CommitOpenSeats ==
  ASSUME SeatInv, TypeInv', NEW h \in Handler, CommitOpen(h)
  PROVE  SeatInv'
<1>1. TypeInv
  BY DEF SeatInv
<1>2. PICK N \in SUBSET Fresh : \E from \in [N -> Members] : OpenedRows(h, N, from)
  BY <1>1, OpenRows
<1>3. PICK from \in [N -> Members] : OpenedRows(h, N, from)
  BY <1>2
<1>4. /\ run[h].at = "open" /\ conv' = [conv EXCEPT ![run[h].conv] = "active"]
      /\ member' = member /\ byHand' = byHand /\ run' = [run EXCEPT ![h] = Idle]
  BY DEF CommitOpen
<1>5. h \in At("open") /\ run[h].conv \in Conversation /\ conv[run[h].conv] = "none"
  BY <1>1, <1>4 DEF TypeInv, OpenNames, SeatInv, Apart, OpenApart, At
<1>6. \A c \in Conversation : conv'[c] = IF c = run[h].conv THEN "active" ELSE conv[c]
  BY <1>1, <1>4 DEF TypeInv, TypeOK
<1>7. Members' = Members
  BY <1>4 DEF Members
<1>8. \A r \in Taken : /\ r \notin N /\ seat'[r] = seat[r]
                        /\ seat[r].conv \in Conversation /\ seat[r].conv # run[h].conv
  <2>1. TAKE r \in Taken
  <2>2. r \in Row /\ r \notin N
    BY DEF Taken, Fresh
  <2>3. seat[r].conv \in Conversation
    BY <1>1 DEF TypeInv, TypeOK, Seat, Taken
  <2>4. conv[seat[r].conv] # "none"
    BY DEF SeatInv, Placed
  <2>5. QED
    BY <1>3, <1>5, <2>2, <2>3, <2>4 DEF OpenedRows
<1>9. \A r \in N : /\ r \in Row /\ seat'[r].of = from[r] /\ seat'[r].conv = run[h].conv
                    /\ from[r] \in Members
  <2>1. TAKE r \in N
  <2>2. r \in Row /\ from[r] \in Members
    BY DEF Fresh
  <2>3. seat'[r] = [conv |-> run[h].conv, of |-> from[r],
                    umn |-> FirstCount(run[h].kind, from[r], run[h].user)]
    BY <1>3, <2>2 DEF OpenedRows
  <2>4. QED
    BY <2>2, <2>3
<1>10. \A r \in Taken' : r \in N \/ r \in Taken
  BY <1>3 DEF Taken, OpenedRows
<1>11. RowsOnce'
  <2>1. ASSUME NEW q \in Taken', NEW r \in Taken', seat'[q].conv = seat'[r].conv,
               seat'[q].of = seat'[r].of, seat'[q].conv \notin byHand'
        PROVE  q = r
    <3>1. CASE q \in N /\ r \in N
      BY <1>3, <1>9, <2>1, <3>1 DEF OpenedRows
    <3>2. CASE q \in Taken /\ r \in Taken
      BY <1>4, <1>8, <2>1, <3>2 DEF SeatInv, RowsOnce
    <3>3. \A a \in N, b \in Taken : seat'[a].conv # seat'[b].conv
      BY <1>8, <1>9
    <3>4. QED
      BY <1>10, <2>1, <3>1, <3>2, <3>3
  <2>2. QED
    BY <2>1 DEF RowsOnce
<1>12. Placed'
  BY <1>5, <1>6, <1>7, <1>8, <1>9, <1>10 DEF SeatInv, Placed
<1>13. Apart'
  <2> DEFINE G == Handler \ {h}
  <2>1. G \in SUBSET Handler /\ \A g \in G : run'[g] = run[g]
    BY <1>1, <1>4 DEF TypeInv, RunType
  <2>2. \A g \in Handler \ G : run'[g].at \notin {"open", "join", "message"}
    BY <1>1, <1>4 DEF TypeInv, RunType, Idle
  <2>3. \A g \in G \cap At("open") : conv'[run[g].conv] = "none"
    <3>1. TAKE g \in G \cap At("open")
    <3>2. run[g].conv \in Conversation /\ conv[run[g].conv] = "none" /\ run[g].conv # run[h].conv
      BY <1>1, <1>5 DEF TypeInv, OpenNames, SeatInv, Apart, OpenApart, At
    <3>3. QED
      BY <1>6, <3>2
  <2>4. \A c \in Conversation : conv'[c] = "none" => conv[c] = "none"
    BY <1>6
  <2> HIDE DEF G
  <2>5. QED
    BY <1>4, <1>8, <2>1, <2>2, <2>3, <2>4, OthersApart
<1>14. QED
  BY <1>11, <1>12, <1>13 DEF SeatInv

(* Saves and changes to counters leave who takes part in what alone.        *)
LEMMA SavedSame ==
  ASSUME SeatInv, NEW h \in Handler, CommitMessage(h) \/ ReviveFails(h) \/ SaveTouch(h)
  PROVE  SameSeats /\ run' = [run EXCEPT ![h] = Idle]
<1> DEFINE rows == DOMAIN run[h].seen
<1>1. TypeInv /\ TypeOK
  BY DEF SeatInv, TypeInv
<1>2. rows \in SUBSET Row
  BY <1>1, SeenNat
<1>3. PICK f : seat' = [r \in Row |-> IF r \in rows THEN [seat[r] EXCEPT !.umn = f[r]] ELSE seat[r]]
  <2>1. \E f, counted, cleared : Save(h, f, counted, cleared)
    BY DEF CommitMessage, ReviveFails, SaveTouch
  <2>2. QED
    BY <2>1 DEF Save
<1>4. \A r \in Row : seat'[r].conv = seat[r].conv /\ seat'[r].of = seat[r].of
  <2>1. \A r \in Row : seat[r] \in Seat
    BY <1>1 DEF TypeOK
  <2>2. \A r \in Row : /\ [seat[r] EXCEPT !.umn = f[r]].conv = seat[r].conv
                       /\ [seat[r] EXCEPT !.umn = f[r]].of = seat[r].of
    BY <2>1 DEF Seat
  <2> HIDE DEF rows
  <2>3. QED
    BY <1>3, <2>2
<1>5. member' = member /\ byHand' = byHand /\ run' = [run EXCEPT ![h] = Idle]
  BY DEF CommitMessage, ReviveFails, SaveTouch, Save
<1>6. \A c \in Conversation : conv[c] = "none" <=> conv'[c] = "none"
  <2>1. CASE SaveTouch(h)
    BY <2>1 DEF SaveTouch
  <2>2. CASE CommitMessage(h) \/ ReviveFails(h)
    <3>1. h \in At("message") /\ run[h].conv \in Conversation /\ conv[run[h].conv] # "none"
      BY <1>1, <2>2 DEF CommitMessage, ReviveFails, TypeInv, MessageNames, SeatInv, Apart,
                       MessageOpen, At
    <3>2. \E v \in {"active", conv[run[h].conv]} : conv' = [conv EXCEPT ![run[h].conv] = v]
      <4>1. CASE CommitMessage(h)
        <5>1. conv' = [conv EXCEPT ![run[h].conv] = IF run[h].kind = "inbound" THEN @ ELSE "active"]
          BY <4>1 DEF CommitMessage
        <5>2. QED
          BY <1>1, <5>1 DEF TypeOK
      <4>2. CASE ReviveFails(h)
        BY <4>2 DEF ReviveFails
      <4>3. QED
        BY <2>2, <4>1, <4>2
    <3>3. QED
      BY <1>1, <3>1, <3>2 DEF TypeOK
  <2>3. QED
    BY <2>1, <2>2
<1>7. Members' = Members
  BY <1>5 DEF Members
<1>8. QED
  BY <1>4, <1>5, <1>6, <1>7 DEF SameSeats

LEMMA SavedSeats ==
  ASSUME SeatInv, TypeInv', NEW h \in Handler, CommitMessage(h) \/ ReviveFails(h) \/ SaveTouch(h)
  PROVE  SeatInv'
<1>1. Idle.at \notin {"open", "join", "message"}
  BY DEF Idle
<1>2. QED
  BY <1>1, SavedSame, EndsSeats

LEMMA EndSeats ==
  ASSUME SeatInv, TypeInv', NEW h \in Handler, Refuse(h) \/ Fail(h)
  PROVE  SeatInv'
<1>1. /\ run' = [run EXCEPT ![h] = Idle]
      /\ member' = member /\ conv' = conv /\ seat' = seat /\ byHand' = byHand
  BY DEF Refuse, Fail
<1>2. SameSeats
  BY <1>1 DEF SameSeats, Members
<1>3. Idle.at \notin {"open", "join", "message"}
  BY DEF Idle
<1>4. QED
  BY <1>1, <1>2, <1>3, EndsSeats

LEMMA TouchSeats ==
  ASSUME SeatInv, TypeInv', NEW h \in Handler, NEW r \in Row, NEW kind, Touch(h, r, kind)
  PROVE  SeatInv'
<1> DEFINE seen == [p \in {r} |-> seat[p].umn]
           q == [Idle EXCEPT !.at = "touch", !.kind = kind, !.seen = seen]
<1> HIDE DEF seen
<1>1. q.at = "touch"
  BY DEF Idle
<1>2. /\ run' = [run EXCEPT ![h] = q]
      /\ member' = member /\ conv' = conv /\ seat' = seat /\ byHand' = byHand
  BY DEF Touch, seen
<1>3. SameSeats
  BY <1>2 DEF SameSeats, Members
<1> HIDE DEF q
<1>4. QED
  BY <1>1, <1>2, <1>3, EndsSeats

LEMMA CheckCustomerSeats ==
  ASSUME SeatInv, TypeInv', NEW h \in Handler, NEW c, CheckCustomer(h, c)
  PROVE  SeatInv'
<1> DEFINE q == [Idle EXCEPT !.at = "file", !.kind = "import", !.conv = c]
<1>1. q.at = "file"
  BY DEF Idle
<1>2. /\ run' = [run EXCEPT ![h] = q]
      /\ member' = member /\ conv' = conv /\ seat' = seat /\ byHand' = byHand
  BY DEF CheckCustomer
<1>3. SameSeats
  BY <1>2 DEF SameSeats, Members
<1> HIDE DEF q
<1>4. QED
  BY <1>1, <1>2, <1>3, EndsSeats

(* The steps that no request takes: a user leaves, several counters change, *)
(* a customer is made inactive.                                             *)
LEMMA StepSame ==
  ASSUME SeatInv,
         \/ \E u \in User : Leave(u)
         \/ \E R \in SUBSET Taken, read \in BOOLEAN : UpdateUmnConversations(R, read)
         \/ \E c \in Conversation : Deactivate(c)
         \/ UNCHANGED vars
  PROVE  SameSeats /\ run' = run
<1>1. TypeInv
  BY DEF SeatInv
<1>2. run' = run /\ byHand' = byHand
  BY DEF Leave, UpdateUmnConversations, Deactivate, vars
<1>3. \A r \in Row : seat'[r].conv = seat[r].conv /\ seat'[r].of = seat[r].of
  <2>1. CASE seat' = seat
    BY <2>1
  <2>2. CASE \E R \in SUBSET Taken, read \in BOOLEAN : UpdateUmnConversations(R, read)
    BY <1>1, <2>2, UpdateManyType
  <2>3. QED
    BY <2>1, <2>2 DEF Leave, Deactivate, vars
<1>4. \A c \in Conversation : conv[c] = "none" <=> conv'[c] = "none"
  <2>1. CASE conv' = conv
    BY <2>1
  <2>2. ASSUME NEW c \in Conversation, Deactivate(c)
        PROVE  \A d \in Conversation : conv[d] = "none" <=> conv'[d] = "none"
    BY <1>1, <2>2 DEF Deactivate, TypeInv, TypeOK
  <2>3. QED
    BY <2>1, <2>2 DEF Leave, UpdateUmnConversations, vars
<1>5. Members' = Members
  <2>1. CASE member' = member
    BY <2>1 DEF Members
  <2>2. ASSUME NEW u \in User, Leave(u) PROVE Members' = Members
    <3>1. \A k \in CompanyUser : member[k] \in Member
      BY <1>1 DEF TypeInv, TypeOK
    <3>2. \A k \in CompanyUser : [member[k] EXCEPT !.active = FALSE].user = member[k].user
      BY <3>1 DEF Member
    <3>3. \A k \in CompanyUser : member'[k].user = member[k].user
      BY <2>2, <3>2 DEF Leave
    <3>4. QED
      BY <3>3 DEF Members
  <2>3. QED
    BY <2>1, <2>2 DEF UpdateUmnConversations, Deactivate, vars
<1>6. QED
  BY <1>2, <1>3, <1>4, <1>5 DEF SameSeats

LEMMA StepSeats ==
  ASSUME SeatInv, TypeInv',
         \/ \E u \in User : Leave(u)
         \/ \E R \in SUBSET Taken, read \in BOOLEAN : UpdateUmnConversations(R, read)
         \/ \E c \in Conversation : Deactivate(c)
         \/ UNCHANGED vars
  PROVE  SeatInv'
<1>1. SameSeats /\ run' = run
  BY StepSame
<1>2. QED
  BY <1>1, StaysSeats DEF SameSeats

LEMMA SeatStep == SeatInv /\ [Next]_vars => SeatInv'
<1> SUFFICES ASSUME SeatInv, [Next]_vars PROVE SeatInv'
  OBVIOUS
<1>1. TypeInv'
  BY TypeStep DEF SeatInv
<1>2. CASE Users
  BY <1>1, <1>2, JoinSeats, StepSeats, AddByHandSeats, TouchSeats, CheckCustomerSeats
     DEF Users, AddUser, UpdateUser
<1>3. CASE Messages
  BY <1>1, <1>3, OpenSeats, BeginMessageSeats DEF Messages
<1>4. ASSUME NEW h \in Handler, Proceed(h) PROVE SeatInv'
  BY <1>1, <1>4, CommitJoinSeats, CommitOpenSeats, ImportSeats, SavedSeats, EndSeats DEF Proceed
<1>5. CASE (\E c \in Conversation : Deactivate(c)) \/ UNCHANGED vars
  BY <1>1, <1>5, StepSeats
<1>6. QED
  BY <1>2, <1>3, <1>4, <1>5 DEF Next

LEMMA AlwaysSeats == Spec => []SeatInv
  BY InitSeats, SeatStep, PTL DEF Spec

-----------------------------------------------------------------------------
(* Nobody has two rows of company_users, unless two requests were adding him*)
(* at once: as long as they were not, a request that is to insert a row is  *)
(* alone with its user, who has none.                                       *)
OneRowEach == \A j, k \in Members : member[j].user = member[k].user /\ member[k].user \notin raced
                                    => j = k
JoinsAlone == \A h \in At("join") : run[h].cu = None /\ run[h].user \notin raced =>
    /\ \A k \in Members : member[k].user # run[h].user
    /\ \A g \in At("join") : run[g].user = run[h].user => g = h
JoinsOwnRow == \A h \in At("join") : run[h].cu # None =>
    run[h].cu \in Members /\ member[run[h].cu].user = run[h].user

MemberInv == OneRowEach /\ JoinsAlone /\ JoinsOwnRow

(* Rows keep their users; requests in progress go on or end.                *)
LEMMA MembersKept ==
  ASSUME MemberInv, raced' = raced, Members' = Members,
         \A k \in Members : member'[k].user = member[k].user,
         \A h \in Handler : run'[h] = run[h] \/ run'[h].at # "join"
  PROVE  MemberInv'
<1>1. \A h \in At("join")' : h \in At("join") /\ run'[h] = run[h]
  BY DEF At
<1>2. OneRowEach'
  BY DEF MemberInv, OneRowEach
<1>3. JoinsAlone'
  BY <1>1 DEF MemberInv, JoinsAlone
<1>4. JoinsOwnRow'
  BY <1>1 DEF MemberInv, JoinsOwnRow
<1>5. QED
  BY <1>2, <1>3, <1>4 DEF MemberInv

LEMMA JoinMembers ==
  ASSUME TypeInv, MemberInv, NEW h \in Handler, NEW u \in User, Join(h, u)
  PROVE  MemberInv'
<1>1. PICK q : /\ run' = [run EXCEPT ![h] = q] /\ q.at = "join" /\ q.user = u
               /\ \/ q.cu \in Members /\ member[q.cu].user = u
                  \/ q.cu = None /\ \A k \in Members : member[k].user # u
  <2> DEFINE Again(k) == [Idle EXCEPT !.at = "join", !.user = u, !.cu = k]
             Like(k)  == [Idle EXCEPT !.at = "join", !.user = u,
                                      !.set = {r \in Taken : seat[r].of = k}]
             First    == [Idle EXCEPT !.at = "join", !.user = u]
  <2>1. \A k \in Members : /\ Again(k).at = "join" /\ Again(k).cu = k /\ Again(k).user = u
                           /\ Like(k).at = "join" /\ Like(k).cu = None /\ Like(k).user = u
    BY DEF Idle
  <2>2. First.at = "join" /\ First.cu = None /\ First.user = u
    BY DEF Idle
  <2> HIDE DEF Again, Like, First
  <2>3. \/ \E k \in Members : member[k].user = u /\ run' = [run EXCEPT ![h] = Again(k)]
        \/ /\ \A k \in Members : member[k].user # u
           /\ \E k \in Members : run' = [run EXCEPT ![h] = Like(k)]
        \/ Members = {} /\ run' = [run EXCEPT ![h] = First]
    BY DEF Join, Again, Like, First
  <2>4. CASE \E k \in Members : member[k].user = u /\ run' = [run EXCEPT ![h] = Again(k)]
    <3>1. PICK k \in Members : member[k].user = u /\ run' = [run EXCEPT ![h] = Again(k)]
      BY <2>4
    <3>2. /\ Again(k).at = "join" /\ Again(k).user = u
          /\ Again(k).cu \in Members /\ member[Again(k).cu].user = u
      BY <2>1, <3>1
    <3>3. QED
      BY <3>1, <3>2
  <2>5. CASE /\ \A k \in Members : member[k].user # u
             /\ \E k \in Members : run' = [run EXCEPT ![h] = Like(k)]
    BY <2>1, <2>5
  <2>6. CASE Members = {} /\ run' = [run EXCEPT ![h] = First]
    BY <2>2, <2>6
  <2>7. QED
    BY <2>3, <2>4, <2>5, <2>6
<1>2. /\ run[h].at = "idle" /\ member' = member /\ Members' = Members
      /\ raced \subseteq raced'
      /\ (\A k \in Members : member[k].user # u) /\ (\E g \in At("join") : run[g].user = u)
         => u \in raced'
  <2>1. raced' = IF /\ \A k \in Members : member[k].user # u
                    /\ \E g \in At("join") : run[g].user = u
                 THEN raced \cup {u} ELSE raced
    BY DEF Join
  <2>2. run[h].at = "idle" /\ member' = member
    BY DEF Join
  <2>3. Members' = Members
    BY <2>2 DEF Members
  <2>4. QED
    BY <2>1, <2>2, <2>3
<1>3. \A g \in Handler : run'[g] = IF g = h THEN q ELSE run[g]
  BY <1>1 DEF TypeInv, RunType
<1>4. \A g \in At("join")' : g = h \/ (g \in At("join") /\ run'[g] = run[g])
  BY <1>3 DEF At
<1>5. raced \subseteq raced'
  BY <1>2
<1>6. OneRowEach'
  BY <1>2, <1>5 DEF MemberInv, OneRowEach
<1>7. JoinsOwnRow'
  BY <1>1, <1>2, <1>3, <1>4, ConstantsAssumption DEF MemberInv, JoinsOwnRow
<1>8. ASSUME NEW f \in At("join")', run'[f].cu = None, run'[f].user \notin raced'
      PROVE  /\ \A k \in Members : member[k].user # run'[f].user
             /\ \A g \in At("join")' : run'[g].user = run'[f].user => g = f
  <2>1. CASE f = h
    <3>1. run'[f].user = u /\ \A k \in Members : member[k].user # u
      <4>1. None \notin Members
        BY ConstantsAssumption DEF Members
      <4>2. run'[f] = q
        BY <1>3, <2>1
      <4>3. QED
        BY <1>1, <1>8, <4>1, <4>2
    <3>2. \A g \in At("join") : run[g].user # u
      BY <1>2, <1>8, <3>1
    <3>3. QED
      BY <1>4, <2>1, <3>1, <3>2
  <2>2. CASE f # h
    <3>1. f \in At("join") /\ run'[f] = run[f] /\ run[f].user \notin raced
      BY <1>4, <1>5, <1>8, <2>2
    <3>2. /\ \A k \in Members : member[k].user # run[f].user
          /\ \A g \in At("join") : run[g].user = run[f].user => g = f
      BY <1>8, <3>1 DEF MemberInv, JoinsAlone
    <3>3. run[f].user # u
      BY <1>2, <1>8, <3>1, <3>2
    <3>4. run'[h].user = u
      BY <1>1, <1>3
    <3>5. QED
      BY <1>4, <3>1, <3>2, <3>3, <3>4
  <2>3. QED
    BY <2>1, <2>2
<1>9. JoinsAlone'
  BY <1>2, <1>8 DEF JoinsAlone
<1>10. QED
  BY <1>6, <1>7, <1>9 DEF MemberInv

LEMMA CommitJoinMembers ==
  ASSUME TypeInv, MemberInv, NEW h \in Handler, CommitJoin(h)
  PROVE  MemberInv'
<1>1. /\ run[h].at = "join" /\ raced' = raced /\ run' = [run EXCEPT ![h] = Idle]
      /\ run[h].user \in User /\ run[h].user # None /\ h \in At("join")
  BY ConstantsAssumption DEF CommitJoin, TypeInv, JoinNames, At
<1>2. PICK j \in IF run[h].cu = None THEN CompanyUser \ Members ELSE {run[h].cu} :
        member' = [member EXCEPT ![j] = [user |-> run[h].user, active |-> TRUE]]
  BY DEF CommitJoin
<1>3. j \in CompanyUser
  BY <1>1, <1>2 DEF MemberInv, JoinsOwnRow, Members
<1>4. /\ \A k \in CompanyUser : member'[k].user = IF k = j THEN run[h].user ELSE member[k].user
      /\ Members' = Members \cup {j}
  BY <1>1, <1>2, <1>3 DEF TypeInv, TypeOK, Members
<1>5. Idle.at = "idle"
  BY DEF Idle
<1>6. \A g \in At("join")' : g # h /\ g \in At("join") /\ run'[g] = run[g]
  BY <1>1, <1>5 DEF TypeInv, RunType, At
<1>7. Members \subseteq CompanyUser
  BY DEF Members
<1>8. CASE run[h].cu # None
  <2>1. j \in Members /\ member[j].user = run[h].user
    BY <1>1, <1>2, <1>8 DEF MemberInv, JoinsOwnRow
  <2>2. Members' = Members /\ \A k \in Members : member'[k].user = member[k].user
    BY <1>4, <1>7, <2>1
  <2>3. \A g \in Handler : run'[g] = run[g] \/ run'[g].at # "join"
    BY <1>1, <1>5 DEF TypeInv, RunType
  <2>4. QED
    BY <1>1, <2>2, <2>3, MembersKept
<1>9. CASE run[h].cu = None
  <2>1. j \notin Members
    BY <1>2, <1>9
  <2>2. \A k \in Members : member'[k].user = member[k].user
    BY <1>4, <1>7, <2>1
  <2>3. member'[j].user = run[h].user
    BY <1>3, <1>4
  <2>4. run[h].user \notin raced => \A k \in Members : member[k].user # run[h].user
    BY <1>1, <1>9 DEF MemberInv, JoinsAlone
  <2>5. OneRowEach'
    BY <1>1, <1>4, <2>2, <2>3, <2>4 DEF MemberInv, OneRowEach
  <2>6. JoinsAlone'
    <3> SUFFICES ASSUME NEW f \in At("join")', run'[f].cu = None, run'[f].user \notin raced'
                 PROVE  /\ \A k \in Members' : member'[k].user # run'[f].user
                        /\ \A g \in At("join")' : run'[g].user = run'[f].user => g = f
      BY DEF JoinsAlone
    <3>1. f # h /\ f \in At("join") /\ run'[f] = run[f] /\ run[f].user \notin raced
      BY <1>1, <1>6
    <3>2. /\ \A k \in Members : member[k].user # run[f].user
          /\ \A g \in At("join") : run[g].user = run[f].user => g = f
      BY <3>1 DEF MemberInv, JoinsAlone
    <3>3. run[h].user # run[f].user
      BY <1>1, <3>1, <3>2
    <3>4. QED
      BY <1>4, <1>6, <2>2, <2>3, <3>1, <3>2, <3>3
  <2>7. JoinsOwnRow'
    BY <1>4, <1>6, <2>2 DEF MemberInv, JoinsOwnRow
  <2>8. QED
    BY <2>5, <2>6, <2>7 DEF MemberInv
<1>10. QED
  BY <1>8, <1>9

(* Requests that begin with something else than a join.                     *)
LEMMA BeginMembers ==
  ASSUME TypeInv, MemberInv, NEW h \in Handler, NEW q, run' = [run EXCEPT ![h] = q],
         q.at # "join", member' = member, raced' = raced
  PROVE  MemberInv'
<1>1. \A g \in Handler : run'[g] = run[g] \/ run'[g].at # "join"
  BY DEF TypeInv, RunType
<1>2. Members' = Members
  BY DEF Members
<1>3. QED
  BY <1>1, <1>2, MembersKept

LEMMA MessagesMembers ==
  ASSUME TypeInv, MemberInv, Messages
  PROVE  MemberInv'
<1>1. PICK h \in Handler, c \in Conversation, kind \in Kind, x \in Item : \E s \in Senders(kind) :
        OpenConversation(h, c, kind, x, s) \/ BeginMessage(h, c, kind, x, s)
  BY DEF Messages
<1>2. PICK s \in Senders(kind) : OpenConversation(h, c, kind, x, s) \/ BeginMessage(h, c, kind, x, s)
  BY <1>1
<1>3. CASE OpenConversation(h, c, kind, x, s)
  <2>1. PICK kd :
          run' = [run EXCEPT ![h] = [Idle EXCEPT !.at = "open", !.conv = c, !.kind = kd, !.item = x,
                                                 !.user = s, !.set = UsersInCompany]]
    BY <1>3 DEF OpenConversation
  <2> DEFINE q == [Idle EXCEPT !.at = "open", !.conv = c, !.kind = kd, !.item = x,
                               !.user = s, !.set = UsersInCompany]
  <2>2. q.at = "open"
    BY DEF Idle
  <2>3. run' = [run EXCEPT ![h] = q] /\ member' = member /\ raced' = raced
    BY <1>3, <2>1 DEF OpenConversation
  <2> HIDE DEF q
  <2>4. QED
    BY <2>2, <2>3, BeginMembers
<1>4. CASE BeginMessage(h, c, kind, x, s)
  <2> DEFINE as == IF kind = "inbound" /\ conv[c] = "inactive" THEN "revived" ELSE kind
             q == [Idle EXCEPT !.at = "message", !.kind = as, !.conv = c, !.item = x, !.user = s,
                               !.seen = [r \in Attendances(as, c) |-> seat[r].umn]]
  <2>1. q.at = "message"
    BY DEF Idle
  <2>2. run' = [run EXCEPT ![h] = q] /\ member' = member /\ raced' = raced
    BY <1>4 DEF BeginMessage
  <2> HIDE DEF q
  <2>3. QED
    BY <2>1, <2>2, BeginMembers
<1>5. QED
  BY <1>2, <1>3, <1>4

LEMMA OtherMembers ==
  ASSUME TypeInv, MemberInv,
         \/ \E u \in User : Leave(u)
         \/ \E c \in Conversation, k \in CompanyUser : AddUserIntoConversation(c, k)
         \/ \E R \in SUBSET Taken, read \in BOOLEAN : UpdateUmnConversations(R, read)
         \/ \E c \in Conversation : Deactivate(c)
         \/ UNCHANGED vars
  PROVE  MemberInv'
<1>1. raced' = raced /\ run' = run
  BY DEF Leave, AddUserIntoConversation, UpdateUmnConversations, Deactivate, vars
<1>2. CASE \E u \in User : Leave(u)
  <2>1. PICK u \in User :
          member' = [k \in CompanyUser |-> IF member[k].user = u THEN [member[k] EXCEPT !.active = FALSE]
                                                                ELSE member[k]]
    BY <1>2 DEF Leave
  <2>2. \A k \in CompanyUser : member'[k].user = member[k].user
    BY <2>1 DEF TypeInv, TypeOK, Member
  <2>3. Members' = Members
    BY <2>2 DEF Members
  <2>4. QED
    BY <1>1, <2>2, <2>3, MembersKept DEF Members
<1>3. CASE member' = member
  BY <1>1, <1>3, MembersKept DEF Members
<1>4. QED
  BY <1>2, <1>3 DEF AddUserIntoConversation, UpdateUmnConversations, Deactivate, vars

LEMMA CallMembers ==
  ASSUME TypeInv, MemberInv, NEW h \in Handler,
         \/ CommitOpen(h) \/ AddCustomerFromExcel(h) \/ CommitMessage(h) \/ Refuse(h)
         \/ ReviveFails(h) \/ SaveTouch(h) \/ Fail(h)
  PROVE  MemberInv'
<1>1. member' = member /\ raced' = raced
  BY DEF CommitOpen, AddCustomerFromExcel, CommitMessage, Refuse, ReviveFails, SaveTouch, Fail
<1>2. CASE AddCustomerFromExcel(h)
  <2>1. PICK q : run' = [run EXCEPT ![h] = q] /\ q.at # "join"
    BY <1>2, ImportRequest
  <2>2. QED
    BY <1>1, <2>1, BeginMembers
<1>3. CASE ~ AddCustomerFromExcel(h)
  <2>1. run' = [run EXCEPT ![h] = Idle]
    BY <1>3 DEF CommitOpen, CommitMessage, Refuse, ReviveFails, SaveTouch, Fail, Save
  <2>2. Idle.at # "join"
    BY DEF Idle
  <2>3. QED
    BY <1>1, <2>1, <2>2, BeginMembers
<1>4. QED
  BY <1>2, <1>3

LEMMA UsersMembers ==
  ASSUME TypeInv, MemberInv, Users
  PROVE  MemberInv'
<1>1. CASE \E h \in Handler, u \in User : Join(h, u)
  BY <1>1, JoinMembers
<1>2. CASE \E h \in Handler, c \in Conversation : CheckCustomer(h, c)
  <2>1. PICK h \in Handler, c \in Conversation : CheckCustomer(h, c)
    BY <1>2
  <2> DEFINE q == [Idle EXCEPT !.at = "file", !.kind = "import", !.conv = c]
  <2>2. q.at = "file"
    BY DEF Idle
  <2>3. run' = [run EXCEPT ![h] = q] /\ member' = member /\ raced' = raced
    BY <2>1 DEF CheckCustomer
  <2> HIDE DEF q
  <2>4. QED
    BY <2>2, <2>3, BeginMembers
<1>3. CASE \E h \in Handler, r \in Row, kind \in {"read", "unread", "count", "modified"} :
             Touch(h, r, kind)
  <2>1. PICK h \in Handler, r \in Row, kind \in {"read", "unread", "count", "modified"} :
          Touch(h, r, kind)
    BY <1>3
  <2> DEFINE q == [Idle EXCEPT !.at = "touch", !.kind = kind, !.seen = [t \in {r} |-> seat[t].umn]]
  <2>2. q.at = "touch"
    BY DEF Idle
  <2>3. run' = [run EXCEPT ![h] = q] /\ member' = member /\ raced' = raced
    BY <2>1 DEF Touch
  <2> HIDE DEF q
  <2>4. QED
    BY <2>2, <2>3, BeginMembers
<1>4. QED
  BY <1>1, <1>2, <1>3, OtherMembers DEF Users, AddUser, UpdateUser

LEMMA MemberStep == TypeInv /\ MemberInv /\ [Next]_vars => MemberInv'
<1> SUFFICES ASSUME TypeInv, MemberInv, [Next]_vars PROVE MemberInv'
  OBVIOUS
<1>1. CASE Users
  BY <1>1, UsersMembers
<1>2. CASE Messages
  BY <1>2, MessagesMembers
<1>3. ASSUME NEW h \in Handler, Proceed(h) PROVE MemberInv'
  BY <1>3, CommitJoinMembers, CallMembers DEF Proceed
<1>4. CASE (\E c \in Conversation : Deactivate(c)) \/ UNCHANGED vars
  BY <1>4, OtherMembers
<1>5. QED
  BY <1>1, <1>2, <1>3, <1>4 DEF Next

LEMMA InitMembers == Init => MemberInv
<1> SUFFICES ASSUME Init PROVE MemberInv
  OBVIOUS
<1>1. At("join") = {}
  BY DEF Init, At, Idle
<1>2. \A j, k \in Members : j = k
  BY DEF Init, Members, NoMember
<1>3. QED
  BY <1>1, <1>2 DEF MemberInv, OneRowEach, JoinsAlone, JoinsOwnRow

(* However many users join, leave and come back while conversations are     *)
(* opened, with the reads of both outside their transactions, no user takes *)
(* part twice in a conversation that nobody was added to by hand, unless two*)
(* requests were adding him to the company at once.                         *)
THEOREM NobodySeatedTwice == Spec => []SeatedOnce
<1>1. ASSUME SeatInv, MemberInv PROVE SeatedOnce
  <2> SUFFICES ASSUME NEW q \in Taken, NEW r \in Taken, seat[q].conv = seat[r].conv,
                      Owner(q) = Owner(r), seat[q].conv \notin byHand, Owner(q) \notin raced
               PROVE  q = r
    BY DEF SeatedOnce
  <2>1. seat[q].of \in Members /\ seat[r].of \in Members
    BY <1>1 DEF SeatInv, Placed
  <2>2. seat[q].of = seat[r].of
    BY <1>1, <2>1 DEF MemberInv, OneRowEach, Owner
  <2>3. QED
    BY <1>1, <2>2 DEF SeatInv, RowsOnce
<1>2. SeatInv => TypeInv
  BY DEF SeatInv
<1>3. QED
  BY <1>1, <1>2, AlwaysSeats, InitMembers, MemberStep, PTL DEF Spec

-----------------------------------------------------------------------------
(* Everybody takes part.  As long as no user joined while a conversation    *)
(* was being opened, requests of the two kinds are never in progress        *)
(* together: those that open one know all members, and the rows that a      *)
(* joining user is given the likes of are of every conversation.            *)
KnownAgain == \A h \in At("join") : run[h].cu \in Members \cup {None}

NoGap == /\ At("join") = {} \/ At("open") = {}
         /\ \A h \in At("open") : run[h].set = Members /\ Members # {}
         /\ \A h \in At("join") : run[h].cu = None =>
              \A c \in Conversation : conv[c] # "none" =>
                \E r \in run[h].set : r \in Taken /\ seat[r].conv = c
         /\ Members = {} => \A c \in Conversation : conv[c] = "none"
         /\ SeatsComplete

GapInv == SeatInv /\ KnownAgain /\ (~ gap => NoGap)

(* Rows, members and open conversations stay; requests in G go on.          *)
LEMMA KeptGaps ==
  ASSUME GapInv, gap' = gap, Members' = Members,
         \A r \in Taken : r \in Taken' /\ seat'[r].conv = seat[r].conv /\ seat'[r].of = seat[r].of,
         \A c \in Conversation : conv[c] = "none" <=> conv'[c] = "none",
         \A h \in Handler : run'[h] = run[h] \/ run'[h].at \notin {"join", "open"}
  PROVE  KnownAgain' /\ (~ gap' => NoGap')
<1>1. \A h \in At("join")' : h \in At("join") /\ run'[h] = run[h]
  BY DEF At
<1>2. \A h \in At("open")' : h \in At("open") /\ run'[h] = run[h]
  BY DEF At
<1>3. KnownAgain'
  BY <1>1 DEF GapInv, KnownAgain
<1>4. ASSUME ~ gap PROVE NoGap'
  <2>1. NoGap
    BY <1>4 DEF GapInv
  <2>2. (At("join") = {} \/ At("open") = {})'
    BY <1>1, <1>2, <2>1 DEF NoGap
  <2>3. \A h \in At("open")' : run'[h].set = Members' /\ Members' # {}
    BY <1>2, <2>1 DEF NoGap
  <2>4. ASSUME NEW h \in At("join")', run'[h].cu = None, NEW c \in Conversation, conv'[c] # "none"
        PROVE  \E r \in run'[h].set : r \in Taken' /\ seat'[r].conv = c
    <3>1. h \in At("join") /\ run'[h] = run[h] /\ conv[c] # "none"
      BY <1>1, <2>4
    <3>2. PICK r \in run[h].set : r \in Taken /\ seat[r].conv = c
      BY <2>1, <2>4, <3>1 DEF NoGap
    <3>3. QED
      BY <3>1, <3>2
  <2>5. Members' = {} => \A c \in Conversation : conv'[c] = "none"
    BY <2>1 DEF NoGap
  <2>6. SeatsComplete'
    <3> SUFFICES ASSUME NEW k \in Members', NEW c \in Conversation, conv'[c] # "none"
                 PROVE  \E r \in Taken' : seat'[r].conv = c /\ seat'[r].of = k
      BY DEF SeatsComplete
    <3>1. k \in Members /\ conv[c] # "none"
      OBVIOUS
    <3>2. PICK r \in Taken : seat[r].conv = c /\ seat[r].of = k
      BY <1>4, <2>1, <3>1 DEF NoGap, SeatsComplete
    <3>3. QED
      BY <3>2
  <2>7. QED
    BY <2>2, <2>3, <2>4, <2>5, <2>6 DEF NoGap
<1>5. QED
  BY <1>3, <1>4

LEMMA SameGaps ==
  ASSUME GapInv, SameSeats, gap' = gap,
         \A h \in Handler : run'[h] = run[h] \/ run'[h].at \notin {"join", "open"}
  PROVE  KnownAgain' /\ (~ gap' => NoGap')
BY KeptGaps DEF SameSeats, Taken

LEMMA IdleGaps ==
  ASSUME GapInv, SameSeats, gap' = gap, NEW h \in Handler, NEW q, run' = [run EXCEPT ![h] = q],
         q.at \notin {"join", "open"}
  PROVE  KnownAgain' /\ (~ gap' => NoGap')
<1>1. \A g \in Handler : run'[g] = IF g = h THEN q ELSE run[g]
  BY DEF GapInv, SeatInv, TypeInv, RunType
<1>2. QED
  BY <1>1, SameGaps

(* A join that begins has rows of every conversation, or is a return, or    *)
(* there are none.                                                          *)
LEMMA JoinRequest ==
  ASSUME TypeInv, NEW h \in Handler, NEW u \in User, Join(h, u)
  PROVE  \E q : /\ run' = [run EXCEPT ![h] = q] /\ q.at = "join"
                /\ \/ q.cu \in Members
                   \/ q.cu = None /\ \E k \in Members : q.set = {r \in Taken : seat[r].of = k}
                   \/ q.cu = None /\ Members = {}
<1> DEFINE Again(k) == [Idle EXCEPT !.at = "join", !.user = u, !.cu = k]
           Like(k)  == [Idle EXCEPT !.at = "join", !.user = u,
                                    !.set = {r \in Taken : seat[r].of = k}]
           First    == [Idle EXCEPT !.at = "join", !.user = u]
<1>1. \A k \in Members : /\ Again(k).at = "join" /\ Again(k).cu = k
                         /\ Like(k).at = "join" /\ Like(k).cu = None
                         /\ Like(k).set = {r \in Taken : seat[r].of = k}
  BY DEF Idle
<1>2. First.at = "join" /\ First.cu = None
  BY DEF Idle
<1>3. \/ \E k \in Members : run' = [run EXCEPT ![h] = Again(k)]
      \/ \E k \in Members : run' = [run EXCEPT ![h] = Like(k)]
      \/ Members = {} /\ run' = [run EXCEPT ![h] = First]
  BY DEF Join
<1> HIDE DEF Again, Like, First
<1>4. CASE \E k \in Members : run' = [run EXCEPT ![h] = Again(k)]
  BY <1>1, <1>4
<1>5. CASE \E k \in Members : run' = [run EXCEPT ![h] = Like(k)]
  BY <1>1, <1>5
<1>6. CASE Members = {} /\ run' = [run EXCEPT ![h] = First]
  BY <1>2, <1>6
<1>7. QED
  BY <1>3, <1>4, <1>5, <1>6

LEMMA JoinGaps ==
  ASSUME GapInv, NEW h \in Handler, NEW u \in User, Join(h, u)
  PROVE  KnownAgain' /\ (~ gap' => NoGap')
<1>1. TypeInv
  BY DEF GapInv, SeatInv
<1>2. PICK q : /\ run' = [run EXCEPT ![h] = q] /\ q.at = "join"
               /\ \/ q.cu \in Members
                  \/ q.cu = None /\ \E k \in Members : q.set = {r \in Taken : seat[r].of = k}
                  \/ q.cu = None /\ Members = {}
  BY <1>1, JoinRequest
<1>3. /\ run[h].at = "idle" /\ gap' = (gap \/ At("open") # {})
      /\ conv' = conv /\ seat' = seat /\ Members' = Members /\ Taken' = Taken
  BY DEF Join, Members, Taken
<1>4. \A g \in Handler : run'[g] = IF g = h THEN q ELSE run[g]
  BY <1>1, <1>2 DEF TypeInv, RunType
<1>5. \A g \in At("join")' : g = h \/ (g \in At("join") /\ run'[g] = run[g])
  BY <1>4 DEF At
<1>6. KnownAgain'
  BY <1>2, <1>3, <1>4, <1>5 DEF GapInv, KnownAgain
<1>7. ASSUME ~ gap' PROVE NoGap'
  <2>0. ~ gap /\ At("open") = {}
    BY <1>3, <1>7, Zenon
  <2>1. NoGap /\ At("open") = {}
    BY <2>0 DEF GapInv
  <2>2. At("open")' = {}
    BY <1>2, <1>4, <2>1 DEF At
  <2>3. ASSUME NEW g \in At("join")', run'[g].cu = None, NEW c \in Conversation, conv[c] # "none"
        PROVE  \E r \in run'[g].set : r \in Taken /\ seat[r].conv = c
    <3>1. CASE g = h
      <4>1. PICK k \in Members : q.set = {r \in Taken : seat[r].of = k}
        <5>1. q.cu = None /\ Members # {} /\ None \notin Members
          BY <1>4, <2>1, <2>3, <3>1, ConstantsAssumption DEF NoGap, Members
        <5>2. QED
          BY <1>2, <5>1
      <4>2. PICK r \in Taken : seat[r].conv = c /\ seat[r].of = k
        BY <2>0, <2>1, <2>3 DEF NoGap, SeatsComplete
      <4>3. run'[g].set = {p \in Taken : seat[p].of = k}
        BY <1>4, <3>1, <4>1
      <4>4. r \in run'[g].set
        BY <4>2, <4>3
      <4>5. QED
        BY <4>2, <4>4
    <3>2. CASE g # h
      BY <1>5, <2>1, <2>3, <3>2 DEF NoGap
    <3>3. QED
      BY <3>1, <3>2
  <2>4. (~ gap') = (~ gap)
    BY <1>3, <1>7
  <2>5. SeatsComplete'
    BY <1>3, <2>1, <2>4 DEF NoGap, SeatsComplete
  <2>6. QED
    BY <1>3, <2>1, <2>2, <2>3, <2>5 DEF NoGap
<1>8. QED
  BY <1>6, <1>7

(* A conversation that begins to be opened, by a message or by a file.      *)
LEMMA OpenGaps ==
  ASSUME GapInv, NEW h \in Handler, NEW q, run' = [run EXCEPT ![h] = q],
         q.at = "open", q.set = Members, run[h].at \notin {"join", "open"},
         gap' = (gap \/ At("join") # {} \/ Members = {}),
         member' = member, conv' = conv, seat' = seat
  PROVE  KnownAgain' /\ (~ gap' => NoGap')
<1>1. TypeInv
  BY DEF GapInv, SeatInv
<1>2. Members' = Members /\ Taken' = Taken
  BY DEF Members, Taken
<1>3. \A g \in Handler : run'[g] = IF g = h THEN q ELSE run[g]
  BY <1>1 DEF TypeInv, RunType
<1>4. \A g \in At("join")' : g \in At("join") /\ run'[g] = run[g]
  BY <1>3 DEF At
<1>5. KnownAgain'
  BY <1>2, <1>4 DEF GapInv, KnownAgain
<1>6. ASSUME ~ gap' PROVE NoGap'
  <2>1. NoGap /\ At("join") = {} /\ Members # {}
    BY <1>6 DEF GapInv
  <2>2. At("join")' = {}
    BY <1>4, <2>1
  <2>3. \A g \in At("open")' : run'[g].set = Members
    BY <1>3, <2>1 DEF At, NoGap
  <2>4. (~ gap') = (~ gap)
    BY <1>6
  <2>5. SeatsComplete'
    BY <1>2, <2>1, <2>4 DEF NoGap, SeatsComplete
  <2>6. QED
    BY <1>2, <2>1, <2>2, <2>3, <2>5 DEF NoGap
<1>7. QED
  BY <1>5, <1>6

LEMMA CommitJoinGaps ==
  ASSUME GapInv, NEW h \in Handler, CommitJoin(h)
  PROVE  KnownAgain' /\ (~ gap' => NoGap')
<1>1. TypeInv /\ SeatInv
  BY DEF GapInv, SeatInv
<1>2. PICK j \in CompanyUser, N \in SUBSET Fresh : \E from \in [N -> Taken] :
        JoinedRows(h, j, N, from)
  BY <1>1, JoinRows
<1>3. PICK from \in [N -> Taken] : JoinedRows(h, j, N, from)
  BY <1>2
<1>4. /\ run[h].at = "join" /\ conv' = conv /\ gap' = gap
      /\ run' = [run EXCEPT ![h] = Idle]
  BY DEF CommitJoin
<1>5. h \in At("join") /\ run[h].user # None
  BY <1>1, <1>4, ConstantsAssumption DEF TypeInv, JoinNames, At
<1>6. Members' = Members \cup {j}
  BY <1>1, <1>3, <1>5 DEF TypeInv, TypeOK, Members, JoinedRows
<1>7. \A r \in Taken : r \notin N /\ seat'[r] = seat[r] /\ r \in Taken'
  BY <1>3 DEF Taken, Fresh, JoinedRows
<1>8. \A g \in Handler : run'[g] = IF g = h THEN Idle ELSE run[g]
  BY <1>1, <1>4 DEF TypeInv, RunType
<1>9. Idle.at = "idle"
  BY DEF Idle
<1>10. \A g \in At("join")' : g \in At("join") /\ run'[g] = run[g]
  BY <1>8, <1>9 DEF At
<1>11. \A g \in At("open")' : g \in At("open")
  BY <1>8, <1>9 DEF At
<1>12. KnownAgain'
  BY <1>6, <1>10 DEF GapInv, KnownAgain
<1>13. ASSUME ~ gap PROVE NoGap'
  <2>1. NoGap
    BY <1>13 DEF GapInv
  <2>2. At("open")' = {}
    BY <1>5, <1>11, <2>1 DEF NoGap
  <2>3. ASSUME NEW g \in At("join")', run'[g].cu = None, NEW c \in Conversation, conv[c] # "none"
        PROVE  \E r \in run'[g].set : r \in Taken' /\ seat'[r].conv = c
    BY <1>7, <1>10, <2>1, <2>3 DEF NoGap
  <2>4. SeatsComplete'
    <3> SUFFICES ASSUME NEW k \in Members \cup {j}, NEW c \in Conversation, conv[c] # "none"
                 PROVE  \E r \in Taken' : seat'[r].conv = c /\ seat'[r].of = k
      BY <1>4, <1>6 DEF SeatsComplete
    <3>1. CASE k \in Members
      BY <1>7, <1>13, <2>1, <3>1 DEF NoGap, SeatsComplete
    <3>2. CASE k \notin Members
      <4>1. k = j /\ run[h].cu = None
        BY <1>3, <1>5, <3>2, ConstantsAssumption DEF JoinedRows, GapInv, KnownAgain
      <4>2. PICK q \in run[h].set : q \in Taken /\ seat[q].conv = c
        BY <1>5, <2>1, <4>1 DEF NoGap
      <4>3. PICK r \in N : from[r] = q
        BY <1>3 DEF JoinedRows
      <4>4. r \in Row /\ seat'[r] = [conv |-> seat[q].conv, of |-> j, umn |-> 0]
        BY <1>3, <4>3 DEF JoinedRows, Fresh
      <4>5. seat'[r].conv = c /\ seat'[r].of = k
        BY <4>1, <4>2, <4>4
      <4>6. r \in Taken'
        BY <4>2, <4>4, <4>5 DEF Taken
      <4>7. QED
        BY <4>5, <4>6
    <3>3. QED
      BY <3>1, <3>2
  <2>5. QED
    BY <1>4, <1>6, <2>2, <2>3, <2>4 DEF NoGap
<1>14. QED
  BY <1>4, <1>12, <1>13

LEMMA CommitOpenGaps ==
  ASSUME GapInv, NEW h \in Handler, CommitOpen(h)
  PROVE  KnownAgain' /\ (~ gap' => NoGap')
<1>1. TypeInv /\ SeatInv
  BY DEF GapInv, SeatInv
<1>2. PICK N \in SUBSET Fresh : \E from \in [N -> Members] : OpenedRows(h, N, from)
  BY <1>1, OpenRows
<1>3. PICK from \in [N -> Members] : OpenedRows(h, N, from)
  BY <1>2
<1>4. /\ run[h].at = "open" /\ conv' = [conv EXCEPT ![run[h].conv] = "active"]
      /\ gap' = gap /\ run' = [run EXCEPT ![h] = Idle] /\ Members' = Members
  BY DEF CommitOpen, Members
<1>5. h \in At("open") /\ run[h].conv \in Conversation /\ run[h].conv # None
  BY <1>1, <1>4, ConstantsAssumption DEF TypeInv, OpenNames, At
<1>6. \A c \in Conversation : conv'[c] = IF c = run[h].conv THEN "active" ELSE conv[c]
  BY <1>1, <1>4 DEF TypeInv, TypeOK
<1>7. \A r \in Taken : r \notin N /\ seat'[r] = seat[r] /\ r \in Taken'
  BY <1>3 DEF Taken, Fresh, OpenedRows
<1>8. \A g \in Handler : run'[g] = IF g = h THEN Idle ELSE run[g]
  BY <1>1, <1>4 DEF TypeInv, RunType
<1>9. Idle.at = "idle"
  BY DEF Idle
<1>10. \A g \in At("join")' : g \in At("join") /\ run'[g] = run[g]
  BY <1>8, <1>9 DEF At
<1>11. \A g \in At("open")' : g \in At("open") /\ run'[g] = run[g]
  BY <1>8, <1>9 DEF At
<1>12. KnownAgain'
  BY <1>4, <1>10 DEF GapInv, KnownAgain
<1>13. ASSUME ~ gap PROVE NoGap'
  <2>1. NoGap
    BY <1>13 DEF GapInv
  <2>2. At("join")' = {} /\ run[h].set = Members /\ Members # {}
    BY <1>5, <1>10, <2>1 DEF NoGap
  <2>3. \A g \in At("open")' : run'[g].set = Members
    BY <1>11, <2>1 DEF NoGap
  <2>4. SeatsComplete'
    <3> SUFFICES ASSUME NEW k \in Members, NEW c \in Conversation, conv'[c] # "none"
                 PROVE  \E r \in Taken' : seat'[r].conv = c /\ seat'[r].of = k
      BY <1>4 DEF SeatsComplete
    <3>1. CASE c # run[h].conv
      BY <1>6, <1>7, <1>13, <2>1, <3>1 DEF NoGap, SeatsComplete
    <3>2. CASE c = run[h].conv
      <4>1. PICK r \in N : from[r] = k
        BY <1>3, <2>2 DEF OpenedRows
      <4>2. r \in Row /\ seat'[r] = [conv |-> run[h].conv, of |-> from[r],
                        umn |-> FirstCount(run[h].kind, from[r], run[h].user)]
        BY <1>3, <4>1 DEF OpenedRows, Fresh
      <4>3. seat'[r].conv = c /\ seat'[r].of = k
        BY <3>2, <4>1, <4>2
      <4>4. r \in Taken'
        BY <1>5, <3>2, <4>2, <4>3 DEF Taken
      <4>5. QED
        BY <4>3, <4>4
    <3>3. QED
      BY <3>1, <3>2
  <2>5. QED
    BY <1>4, <2>2, <2>3, <2>4 DEF NoGap
<1>14. QED
  BY <1>4, <1>12, <1>13

LEMMA NewGaps ==
  ASSUME GapInv, Messages
  PROVE  KnownAgain' /\ (~ gap' => NoGap')
<1>1. PICK h \in Handler, c \in Conversation, kind \in Kind, x \in Item : \E s \in Senders(kind) :
        OpenConversation(h, c, kind, x, s) \/ BeginMessage(h, c, kind, x, s)
  BY DEF Messages
<1>2. PICK s \in Senders(kind) : OpenConversation(h, c, kind, x, s) \/ BeginMessage(h, c, kind, x, s)
  BY <1>1
<1>3. CASE OpenConversation(h, c, kind, x, s)
  <2>0. PICK kd \in {kind, "elsewhere"} :
        run' = [run EXCEPT ![h] = [Idle EXCEPT !.at = "open", !.conv = c, !.kind = kd, !.item = x,
                                           !.user = s, !.set = UsersInCompany]]
    BY <1>3 DEF OpenConversation
  <2> DEFINE q == [Idle EXCEPT !.at = "open", !.conv = c, !.kind = kd, !.item = x,
                               !.user = s, !.set = UsersInCompany]
  <2>1. q.at = "open" /\ q.set = Members
    BY DEF Idle, UsersInCompany
  <2>2. run' = [run EXCEPT ![h] = q]
    BY <2>0
  <2> HIDE DEF q
  <2>3. /\ run[h].at = "idle" /\ gap' = (gap \/ At("join") # {} \/ Members = {})
        /\ member' = member /\ conv' = conv /\ seat' = seat
    BY <1>3 DEF OpenConversation, UsersInCompany
  <2>4. QED
    BY <2>1, <2>2, <2>3, OpenGaps
<1>4. CASE BeginMessage(h, c, kind, x, s)
  <2> DEFINE as == IF kind = "inbound" /\ conv[c] = "inactive" THEN "revived" ELSE kind
             seen == [r \in Attendances(as, c) |-> seat[r].umn]
             q == [Idle EXCEPT !.at = "message", !.kind = as, !.conv = c, !.item = x,
                               !.user = s, !.seen = seen]
  <2>1. run' = [run EXCEPT ![h] = q]
    BY <1>4 DEF BeginMessage
  <2> HIDE DEF as, seen
  <2>2. q.at = "message"
    BY DEF Idle
  <2> HIDE DEF q
  <2>3. SameSeats /\ gap' = gap
    BY <1>4 DEF BeginMessage, SameSeats, Members
  <2>4. QED
    BY <2>1, <2>2, <2>3, IdleGaps
<1>5. QED
  BY <1>2, <1>3, <1>4

LEMMA ImportGaps ==
  ASSUME GapInv, NEW h \in Handler, AddCustomerFromExcel(h)
  PROVE  KnownAgain' /\ (~ gap' => NoGap')
<1> DEFINE seen == [r \in Attendances("import", run[h].conv) |-> seat[r].umn]
           open == [run[h] EXCEPT !.at = "open", !.set = UsersInCompany]
           give == [run[h] EXCEPT !.at = "message", !.seen = seen]
<1>1. run[h].at = "file" /\ run[h] \in Request
  BY DEF AddCustomerFromExcel, GapInv, SeatInv, TypeInv, RunType
<1>2. \/ run' = [run EXCEPT ![h] = open] /\ gap' = (gap \/ At("join") # {} \/ Members = {})
      \/ run' = [run EXCEPT ![h] = give] /\ gap' = gap
  BY DEF AddCustomerFromExcel, UsersInCompany
<1> HIDE DEF seen
<1>3. open.at = "open" /\ open.set = Members /\ give.at = "message"
  BY <1>1 DEF Request, UsersInCompany
<1> HIDE DEF open, give
<1>4. member' = member /\ conv' = conv /\ seat' = seat /\ SameSeats
  BY DEF AddCustomerFromExcel, SameSeats, Members
<1>5. PICK o, g : o = open /\ g = give
  OBVIOUS
<1>6. CASE run' = [run EXCEPT ![h] = o] /\ gap' = (gap \/ At("join") # {} \/ Members = {})
  BY <1>1, <1>3, <1>4, <1>5, <1>6, OpenGaps
<1>7. CASE run' = [run EXCEPT ![h] = g] /\ gap' = gap
  BY <1>3, <1>4, <1>5, <1>7, IdleGaps
<1>8. QED
  BY <1>2, <1>5, <1>6, <1>7

LEMMA AddByHandGaps ==
  ASSUME GapInv, NEW c \in Conversation, NEW k \in CompanyUser, AddUserIntoConversation(c, k)
  PROVE  KnownAgain' /\ (~ gap' => NoGap')
<1>1. PICK n \in Fresh : seat' = [seat EXCEPT ![n] = [conv |-> c, of |-> k, umn |-> 0]]
  BY DEF AddUserIntoConversation
<1>2. \A r \in Row : r # n => seat'[r] = seat[r]
  BY <1>1 DEF GapInv, SeatInv, TypeInv, TypeOK
<1>3. \A r \in Taken : r \in Taken' /\ seat'[r] = seat[r]
  BY <1>2 DEF Taken, Fresh
<1>4. member' = member /\ conv' = conv /\ run' = run /\ gap' = gap /\ Members' = Members
  BY DEF AddUserIntoConversation, Members
<1>5. QED
  BY <1>3, <1>4, KeptGaps

(* Steps that leave who takes part in what alone.                           *)
LEMMA OtherGaps ==
  ASSUME GapInv, NEW h \in Handler,
         \/ CommitMessage(h) \/ ReviveFails(h) \/ SaveTouch(h) \/ Refuse(h) \/ Fail(h)
         \/ \E r \in Row, kind \in {"read", "unread", "count", "modified"} : Touch(h, r, kind)
         \/ \E c \in Conversation : CheckCustomer(h, c)
  PROVE  KnownAgain' /\ (~ gap' => NoGap')
<1>1. Idle.at \notin {"join", "open"}
  BY DEF Idle
<1>2. CASE CommitMessage(h) \/ ReviveFails(h) \/ SaveTouch(h)
  <2>1. SameSeats /\ run' = [run EXCEPT ![h] = Idle]
    BY <1>2, SavedSame DEF GapInv
  <2>2. gap' = gap
    BY <1>2 DEF CommitMessage, ReviveFails, SaveTouch
  <2>3. QED
    BY <1>1, <2>1, <2>2, IdleGaps
<1>3. CASE Refuse(h) \/ Fail(h)
  <2>1. SameSeats /\ gap' = gap /\ run' = [run EXCEPT ![h] = Idle]
    BY <1>3 DEF Refuse, Fail, SameSeats, Members
  <2>2. QED
    BY <1>1, <2>1, IdleGaps
<1>4. ASSUME NEW r \in Row, NEW kind \in {"read", "unread", "count", "modified"}, Touch(h, r, kind)
      PROVE  KnownAgain' /\ (~ gap' => NoGap')
  <2> DEFINE seen == [p \in {r} |-> seat[p].umn]
             q == [Idle EXCEPT !.at = "touch", !.kind = kind, !.seen = seen]
  <2> HIDE DEF seen
  <2>1. q.at = "touch"
    BY DEF Idle
  <2>2. run' = [run EXCEPT ![h] = q] /\ SameSeats /\ gap' = gap
    BY <1>4 DEF Touch, seen, SameSeats, Members
  <2> HIDE DEF q
  <2>3. QED
    BY <2>1, <2>2, IdleGaps
<1>5. ASSUME NEW c \in Conversation, CheckCustomer(h, c)
      PROVE  KnownAgain' /\ (~ gap' => NoGap')
  <2> DEFINE q == [Idle EXCEPT !.at = "file", !.kind = "import", !.conv = c]
  <2>1. q.at = "file"
    BY DEF Idle
  <2>2. run' = [run EXCEPT ![h] = q] /\ SameSeats /\ gap' = gap
    BY <1>5 DEF CheckCustomer, SameSeats, Members
  <2> HIDE DEF q
  <2>3. QED
    BY <2>1, <2>2, IdleGaps
<1>6. QED
  BY <1>2, <1>3, <1>4, <1>5

LEMMA StepGaps ==
  ASSUME GapInv,
         \/ \E u \in User : Leave(u)
         \/ \E R \in SUBSET Taken, read \in BOOLEAN : UpdateUmnConversations(R, read)
         \/ \E c \in Conversation : Deactivate(c)
         \/ UNCHANGED vars
  PROVE  KnownAgain' /\ (~ gap' => NoGap')
<1>1. SameSeats /\ run' = run
  BY StepSame DEF GapInv
<1>2. gap' = gap
  BY DEF Leave, UpdateUmnConversations, Deactivate, vars
<1>3. QED
  BY <1>1, <1>2, SameGaps

LEMMA GapStep == GapInv /\ [Next]_vars => GapInv'
<1> SUFFICES ASSUME GapInv, [Next]_vars PROVE GapInv'
  OBVIOUS
<1>1. SeatInv'
  BY SeatStep DEF GapInv
<1>2. CASE Users
  <2>1. \/ \E h \in Handler, u \in User : Join(h, u)
        \/ \E u \in User : Leave(u)
        \/ \E c \in Conversation, k \in CompanyUser : AddUserIntoConversation(c, k)
        \/ \E h \in Handler, c \in Conversation : CheckCustomer(h, c)
        \/ \E h \in Handler, r \in Row, kind \in {"read", "unread", "count", "modified"} :
             Touch(h, r, kind)
        \/ \E R \in SUBSET Taken, read \in BOOLEAN : UpdateUmnConversations(R, read)
    BY <1>2 DEF Users, AddUser, UpdateUser
  <2>2. KnownAgain' /\ (~ gap' => NoGap')
    BY <2>1, JoinGaps, StepGaps, AddByHandGaps, OtherGaps
  <2>3. QED
    BY <1>1, <2>2 DEF GapInv
<1>3. CASE Messages
  BY <1>1, <1>3, NewGaps DEF GapInv
<1>4. ASSUME NEW h \in Handler, Proceed(h) PROVE GapInv'
  <2>1. KnownAgain' /\ (~ gap' => NoGap')
    BY <1>4, CommitJoinGaps, CommitOpenGaps, ImportGaps, OtherGaps DEF Proceed
  <2>2. QED
    BY <1>1, <2>1 DEF GapInv
<1>5. CASE (\E c \in Conversation : Deactivate(c)) \/ UNCHANGED vars
  BY <1>1, <1>5, StepGaps DEF GapInv
<1>6. QED
  BY <1>2, <1>3, <1>4, <1>5 DEF Next

LEMMA InitGaps == Init => GapInv
<1> SUFFICES ASSUME Init PROVE GapInv
  OBVIOUS
<1>1. At("join") = {} /\ At("open") = {}
  BY DEF Init, Idle, At
<1>2. \A c \in Conversation : conv[c] = "none"
  BY DEF Init
<1>3. QED
  BY <1>1, <1>2, InitSeats DEF GapInv, KnownAgain, NoGap, SeatsComplete

(* However users join, leave and come back while messages and files open     *)
(* conversations, every user of the company takes part in every one of them, *)
(* unless a user once joined while one was being opened.                     *)
THEOREM EverybodySeated == Spec => []SeatsComplete
<1>1. GapInv => SeatsComplete
  BY DEF GapInv, NoGap, SeatsComplete
<1>2. QED
  BY <1>1, InitGaps, GapStep, PTL DEF Spec

-----------------------------------------------------------------------------
(* What a request is about: a customer's message and a line of a file have  *)
(* no sender, and whatever is not a line of a file is an item.              *)
Proper(q) == q.at \in {"open", "message", "file"} =>
    /\ q.kind \in {"revived", "import"} => q.user = None
    /\ q.kind # "import" => q.at # "file" /\ q.item \in Item

AllProper == \A h \in Handler : Proper(run[h])

LEMMA ProperStep ==
  ASSUME TypeInv, AllProper, NEW h \in Handler, NEW q, run' = [run EXCEPT ![h] = q],
         q.at \in {"idle", "join", "touch"} \/ Proper(q)
  PROVE  AllProper'
<1>1. \A g \in Handler : run'[g] = IF g = h THEN q ELSE run[g]
  BY DEF TypeInv, RunType
<1>2. QED
  BY <1>1 DEF AllProper, Proper

LEMMA NewProper ==
  ASSUME TypeInv, AllProper, Messages
  PROVE  AllProper'
<1>0. PICK h \in Handler, c \in Conversation, kind \in Kind, x \in Item : \E s \in Senders(kind) :
        OpenConversation(h, c, kind, x, s) \/ BeginMessage(h, c, kind, x, s)
  BY DEF Messages
<1>1. PICK s \in Senders(kind) : OpenConversation(h, c, kind, x, s) \/ BeginMessage(h, c, kind, x, s)
  BY <1>0
<1>2. /\ kind \in {"inbound", "call", "softphone", "compose", "schedule"}
      /\ kind = "inbound" => s = None
  BY ConstantsAssumption DEF Senders
<1>3. CASE OpenConversation(h, c, kind, x, s)
  <2>0. PICK kd \in {kind, "elsewhere"} :
        run' = [run EXCEPT ![h] = [Idle EXCEPT !.at = "open", !.conv = c, !.kind = kd, !.item = x,
                                           !.user = s, !.set = UsersInCompany]]
    BY <1>3 DEF OpenConversation
  <2> DEFINE q == [Idle EXCEPT !.at = "open", !.conv = c, !.kind = kd, !.item = x,
                               !.user = s, !.set = UsersInCompany]
  <2>1. q.kind = kd /\ q.user = s /\ q.item = x /\ q.at = "open"
    BY DEF Idle
  <2>2. run' = [run EXCEPT ![h] = q]
    BY <2>0
  <2> HIDE DEF q
  <2>3. Proper(q)
    BY <1>2, <2>1 DEF Proper
  <2>4. QED
    BY <2>2, <2>3, ProperStep
<1>4. CASE BeginMessage(h, c, kind, x, s)
  <2> DEFINE as == IF kind = "inbound" /\ conv[c] = "inactive" THEN "revived" ELSE kind
             seen == [r \in Attendances(as, c) |-> seat[r].umn]
             q == [Idle EXCEPT !.at = "message", !.kind = as, !.conv = c, !.item = x,
                               !.user = s, !.seen = seen]
  <2>1. as # "import" /\ (as = "revived" => s = None)
    BY <1>2
  <2>2. run' = [run EXCEPT ![h] = q]
    BY <1>4 DEF BeginMessage
  <2> HIDE DEF as, seen
  <2>3. q.kind = as /\ q.user = s /\ q.item = x /\ q.at = "message"
    BY DEF Idle
  <2> HIDE DEF q
  <2>4. Proper(q)
    BY <2>1, <2>3 DEF Proper
  <2>5. QED
    BY <2>2, <2>4, ProperStep
<1>5. QED
  BY <1>1, <1>3, <1>4

LEMMA FileProper ==
  ASSUME TypeInv, AllProper, NEW h \in Handler,
         AddCustomerFromExcel(h) \/ \E c \in Conversation : CheckCustomer(h, c)
  PROVE  AllProper'
<1>1. CASE AddCustomerFromExcel(h)
  <2>1. run[h].at = "file" /\ Proper(run[h]) /\ run[h] \in Request
    BY <1>1 DEF AddCustomerFromExcel, AllProper, TypeInv, RunType
  <2>2. PICK q : /\ run' = [run EXCEPT ![h] = q] /\ q.kind = run[h].kind /\ q.user = run[h].user
    <3> DEFINE seen == [r \in Attendances("import", run[h].conv) |-> seat[r].umn]
               open == [run[h] EXCEPT !.at = "open", !.set = UsersInCompany]
               give == [run[h] EXCEPT !.at = "message", !.seen = seen]
    <3> HIDE DEF seen
    <3>1. /\ open.kind = run[h].kind /\ open.user = run[h].user
          /\ give.kind = run[h].kind /\ give.user = run[h].user
      BY <2>1 DEF Request
    <3>2. run' = [run EXCEPT ![h] = open] \/ run' = [run EXCEPT ![h] = give]
      BY <1>1 DEF AddCustomerFromExcel, seen
    <3> HIDE DEF open, give
    <3>3. QED
      BY <3>1, <3>2
  <2>3. Proper(q)
    BY <2>1, <2>2 DEF Proper
  <2>4. QED
    BY <2>2, <2>3, ProperStep
<1>2. ASSUME NEW c \in Conversation, CheckCustomer(h, c) PROVE AllProper'
  <2> DEFINE q == [Idle EXCEPT !.at = "file", !.kind = "import", !.conv = c]
  <2>1. q.kind = "import" /\ q.user = None
    BY DEF Idle
  <2>2. run' = [run EXCEPT ![h] = q]
    BY <1>2 DEF CheckCustomer
  <2> HIDE DEF q
  <2>3. Proper(q)
    BY <2>1 DEF Proper
  <2>4. QED
    BY <2>2, <2>3, ProperStep
<1>3. QED
  BY <1>1, <1>2

LEMMA OthersProper ==
  ASSUME TypeInv, AllProper, NEW h \in Handler,
         \/ \E u \in User : Join(h, u)
         \/ \E r \in Row, kind \in {"read", "unread", "count", "modified"} : Touch(h, r, kind)
         \/ CommitJoin(h) \/ CommitOpen(h) \/ CommitMessage(h) \/ Refuse(h) \/ ReviveFails(h)
         \/ SaveTouch(h) \/ Fail(h)
  PROVE  AllProper'
<1>1. CASE \E u \in User : Join(h, u)
  <2>1. PICK u \in User : Join(h, u)
    BY <1>1
  <2> DEFINE Again(k) == [Idle EXCEPT !.at = "join", !.user = u, !.cu = k]
             Like(k)  == [Idle EXCEPT !.at = "join", !.user = u,
                                      !.set = {r \in Taken : seat[r].of = k}]
             First    == [Idle EXCEPT !.at = "join", !.user = u]
  <2>2. First.at = "join" /\ \A k : Again(k).at = "join" /\ Like(k).at = "join"
    BY DEF Idle
  <2> HIDE DEF Again, Like, First
  <2>3. \/ \E k \in Members : run' = [run EXCEPT ![h] = Again(k)]
        \/ \E k \in Members : run' = [run EXCEPT ![h] = Like(k)]
        \/ run' = [run EXCEPT ![h] = First]
    BY <2>1 DEF Join, Again, Like, First
  <2>4. QED
    BY <2>2, <2>3, ProperStep
<1>2. CASE \E r \in Row, kind \in {"read", "unread", "count", "modified"} : Touch(h, r, kind)
  <2>1. PICK r \in Row, kind \in {"read", "unread", "count", "modified"} : Touch(h, r, kind)
    BY <1>2
  <2> DEFINE seen == [p \in {r} |-> seat[p].umn]
             q == [Idle EXCEPT !.at = "touch", !.kind = kind, !.seen = seen]
  <2>2. run' = [run EXCEPT ![h] = q]
    BY <2>1 DEF Touch
  <2> HIDE DEF seen
  <2>3. q.at = "touch"
    BY DEF Idle
  <2> HIDE DEF q
  <2>4. QED
    BY <2>2, <2>3, ProperStep
<1>3. CASE CommitJoin(h) \/ CommitOpen(h) \/ CommitMessage(h) \/ Refuse(h) \/ ReviveFails(h)
           \/ SaveTouch(h) \/ Fail(h)
  <2>1. Idle.at = "idle"
    BY DEF Idle
  <2>2. run' = [run EXCEPT ![h] = Idle]
    <3>1. CASE CommitMessage(h) \/ ReviveFails(h) \/ SaveTouch(h)
      <4>1. \E f, counted, cleared : Save(h, f, counted, cleared)
        BY <3>1 DEF CommitMessage, ReviveFails, SaveTouch
      <4>2. QED
        BY <4>1 DEF Save
    <3>2. CASE CommitJoin(h) \/ CommitOpen(h) \/ Refuse(h) \/ Fail(h)
      BY <3>2 DEF CommitJoin, CommitOpen, Refuse, Fail
    <3>3. QED
      BY <1>3, <3>1, <3>2
  <2>3. QED
    BY <2>1, <2>2, ProperStep
<1>4. QED
  BY <1>1, <1>2, <1>3

LEMMA AllProperStep == TypeInv /\ AllProper /\ [Next]_vars => AllProper'
<1> SUFFICES ASSUME TypeInv, AllProper, [Next]_vars PROVE AllProper'
  OBVIOUS
<1>1. CASE run' = run
  BY <1>1 DEF AllProper
<1>2. CASE Users
  BY <1>1, <1>2, OthersProper, FileProper DEF Users, AddUser, UpdateUser, Leave,
     AddUserIntoConversation, UpdateUmnConversations
<1>3. CASE Messages
  BY <1>3, NewProper
<1>4. ASSUME NEW h \in Handler, Proceed(h) PROVE AllProper'
  BY <1>4, OthersProper, FileProper DEF Proceed
<1>5. QED
  BY <1>1, <1>2, <1>3, <1>4 DEF Next, Deactivate, vars

-----------------------------------------------------------------------------
(* The counters.  A request never read more than Bound, and one that counts *)
(* without storing an item was counted in the bound when it began.          *)
Bound == Cardinality(stored) + touches + 1

Spare(q) == IF q.at = "touch" THEN 1 ELSE 0

Within(q) == \A r \in DOMAIN q.seen : q.seen[r] + Spare(q) <= Bound

CountInv == /\ IsFiniteSet(stored) /\ CountedOnce
            /\ \A h \in Handler : Within(run[h])

UmnInv == SeatInv /\ AllProper /\ UnreadIsShown /\ CountInv

LEMMA BoundType == TypeInv /\ IsFiniteSet(stored) => Bound \in Nat
  BY FS_CardinalityType DEF TypeInv, TypeOK, Bound

LEMMA UmnType == TypeInv => \A r \in Row : seat[r].umn \in Nat
  BY DEF TypeInv, TypeOK, Seat

(* The bound grows with what is stored and with the changes to single rows. *)
LEMMA BoundGrows ==
  ASSUME TypeInv, IsFiniteSet(stored), touches' \in {touches, touches + 1},
         NEW x \in Item \cup {None}, stored' = stored \cup New(x) \/ stored' = stored
  PROVE  /\ IsFiniteSet(stored') /\ Bound' \in Nat /\ Bound <= Bound'
         /\ touches' = touches + 1 => Bound + 1 <= Bound'
         /\ stored' = stored \cup New(x) /\ x \in Item /\ x \notin stored => Bound + 1 <= Bound'
         /\ stored' # {} => 2 <= Bound'
<1>1. Cardinality(stored) \in Nat /\ touches \in Nat
  BY FS_CardinalityType DEF TypeInv, TypeOK
<1>2. /\ IsFiniteSet(stored')
      /\ Cardinality(stored') \in {Cardinality(stored), Cardinality(stored) + 1}
      /\ stored' = stored \cup New(x) /\ x \in Item /\ x \notin stored
         => Cardinality(stored') = Cardinality(stored) + 1
  <2>1. stored' = stored \/ (x \in Item /\ x \notin stored /\ stored' = stored \cup {x})
    BY DEF New
  <2>2. x \in Item => x # None
    BY ConstantsAssumption
  <2>3. QED
    BY <1>1, <2>1, <2>2, FS_AddElement DEF New
<1>3. stored' # {} => Cardinality(stored') >= 1
  BY <1>1, <1>2, FS_EmptySet
<1>4. QED
  BY <1>1, <1>2, <1>3 DEF Bound

(* The bound holds for what a step writes and reads.                        *)
LEMMA WithinStep ==
  ASSUME TypeInv, CountInv, TypeInv', IsFiniteSet(stored'), Bound' \in Nat, Bound <= Bound',
         \A r \in Row : seat'[r].umn <= Bound',
         \A h \in Handler : run'[h] = run[h] \/ Within(run[h])'
  PROVE  CountInv'
<1>1. Bound \in Nat
  BY BoundType DEF CountInv
<1>2. \A h \in Handler : Within(run[h])'
  <2> SUFFICES ASSUME NEW h \in Handler, run'[h] = run[h] PROVE Within(run[h])'
    OBVIOUS
  <2>1. \A r \in DOMAIN run[h].seen : run[h].seen[r] \in Nat
    BY SeenNat
  <2>2. Within(run[h])
    BY DEF CountInv
  <2>3. QED
    BY <1>1, <2>1, <2>2 DEF Within, Spare
<1>3. CountedOnce'
  BY DEF CountedOnce, Bound
<1>4. QED
  BY <1>2, <1>3 DEF CountInv

LEMMA WithinStays ==
  ASSUME TypeInv, NEW h \in Handler, NEW q, run' = [run EXCEPT ![h] = q], Within(q)'
  PROVE  \A g \in Handler : run'[g] = run[g] \/ Within(run[g])'
<1>1. \A g \in Handler : run'[g] = IF g = h THEN q ELSE run[g]
  BY DEF TypeInv, RunType
<1>2. QED
  BY <1>1 DEF Within, Spare

(* Requests that begin, go on or fail, and steps on other tables.           *)
LEMMA KeptCounters ==
  ASSUME UmnInv, TypeInv', seat' = seat, unseen' = unseen, stray' = stray, stored' = stored,
         touches' \in {touches, touches + 1},
         \A h \in Handler : run'[h] = run[h] \/ Within(run[h])'
  PROVE  UnreadIsShown' /\ CountInv'
<1>1. TypeInv /\ CountInv /\ UnreadIsShown /\ IsFiniteSet(stored)
  BY DEF UmnInv, SeatInv, CountInv
<1>2. IsFiniteSet(stored') /\ Bound \in Nat /\ Bound' \in Nat /\ Bound <= Bound'
  BY <1>1, BoundType, BoundGrows
<1>3. \A r \in Row : seat'[r].umn <= Bound'
  BY <1>1, <1>2, UmnType DEF CountInv, CountedOnce, Bound
<1>4. QED
  BY <1>1, <1>2, <1>3, WithinStep DEF UnreadIsShown

(* What a handler read is within the bound, with the change it will make.   *)
LEMMA ReadWithin ==
  ASSUME UmnInv, TypeInv', NEW h \in Handler, NEW q, run' = [run EXCEPT ![h] = q],
         stored' = stored, touches' \in {touches, touches + 1}, touches + Spare(q) <= touches',
         \A r \in DOMAIN q.seen : r \in Row /\ q.seen[r] = seat[r].umn
  PROVE  \A g \in Handler : run'[g] = run[g] \/ Within(run[g])'
<1>1. TypeInv /\ CountInv /\ IsFiniteSet(stored)
  BY DEF UmnInv, SeatInv, CountInv
<1>2. Cardinality(stored) \in Nat /\ touches \in Nat
  BY <1>1, FS_CardinalityType DEF TypeInv, TypeOK
<1>3. Within(q)'
  <2> SUFFICES ASSUME NEW r \in DOMAIN q.seen
               PROVE  q.seen[r] + Spare(q) <= Cardinality(stored) + touches' + 1
    BY <1>2 DEF Within, Bound, Spare
  <2>1. seat[r].umn <= Cardinality(stored) + touches + 1 /\ seat[r].umn \in Nat
    BY <1>1, UmnType DEF CountInv, CountedOnce
  <2>2. QED
    BY <1>2, <2>1 DEF Spare
<1>4. QED
  BY <1>1, <1>3, WithinStays

(* Rows N are added, some of them as unread.                                *)
LEMMA AddedCounters ==
  ASSUME UmnInv, TypeInv', NEW N \in SUBSET Fresh,
         \A r \in Row \ N : seat'[r] = seat[r],
         \A r \in N : seat'[r].umn <= Bound',
         \A r \in unseen' \ unseen : r \in N /\ seat'[r].umn > 0, stray' = stray,
         touches' \in {touches, touches + 1},
         NEW x \in Item \cup {None}, stored' = stored \cup New(x) \/ stored' = stored,
         \A h \in Handler : run'[h] = run[h] \/ Within(run[h])'
  PROVE  UnreadIsShown' /\ CountInv'
<1>1. TypeInv /\ CountInv /\ UnreadIsShown /\ IsFiniteSet(stored)
  BY DEF UmnInv, SeatInv, CountInv
<1>2. IsFiniteSet(stored') /\ Bound \in Nat /\ Bound' \in Nat /\ Bound <= Bound'
  BY <1>1, BoundType, BoundGrows
<1>3. \A r \in Row : seat'[r].umn <= Bound'
  BY <1>1, <1>2, UmnType DEF CountInv, CountedOnce, Bound
<1>4. \A r \in unseen : r \in Row \ N
  BY <1>1 DEF TypeInv, TypeOK, Taken, Fresh
<1>5. UnreadIsShown'
  BY <1>1, <1>4 DEF UnreadIsShown
<1>6. QED
  BY <1>1, <1>2, <1>3, <1>5, WithinStep

(* A save: a counter that becomes zero was cleared, or was zero before, or  *)
(* had changed since it was read.                                           *)
LEMMA SavedCounters ==
  ASSUME UmnInv, TypeInv', NEW h \in Handler, NEW f, NEW counted, NEW cleared,
         Save(h, f, counted, cleared), counted \subseteq DOMAIN run[h].seen,
         \A r \in DOMAIN run[h].seen :
           /\ f[r] \in Nat /\ f[r] <= Bound'
           /\ f[r] = 0 => /\ r \notin counted
                          /\ r \in cleared \/ f[r] = seat[r].umn \/ f[r] = run[h].seen[r],
         touches' = touches,
         NEW x \in Item \cup {None}, stored' = stored \cup New(x) \/ stored' = stored
  PROVE  UnreadIsShown' /\ CountInv'
<1> DEFINE rows == DOMAIN run[h].seen
<1>1. TypeInv /\ CountInv /\ UnreadIsShown /\ IsFiniteSet(stored) /\ TypeOK
  BY DEF UmnInv, SeatInv, CountInv, TypeInv
<1>2. IsFiniteSet(stored') /\ Bound \in Nat /\ Bound' \in Nat /\ Bound <= Bound'
  BY <1>1, BoundType, BoundGrows
<1>3. rows \subseteq Row
  BY <1>1, SeenNat
<1>4. /\ seat' = [r \in Row |-> IF r \in rows THEN [seat[r] EXCEPT !.umn = f[r]] ELSE seat[r]]
      /\ stray' = stray \cup {r \in rows : f[r] = 0 /\ seat[r].umn # run[h].seen[r]}
      /\ unseen' = (unseen \ cleared) \cup counted
      /\ run' = [run EXCEPT ![h] = Idle]
  BY DEF Save
<1>5. \A r \in Row : seat'[r].umn = IF r \in rows THEN f[r] ELSE seat[r].umn
  <2>1. \A r \in Row : [seat[r] EXCEPT !.umn = f[r]].umn = f[r]
    BY <1>1 DEF TypeOK, Seat
  <2> HIDE DEF rows
  <2>2. QED
    BY <1>4, <2>1
<1>6. \A r \in Row : seat'[r].umn <= Bound'
  BY <1>1, <1>2, <1>5, UmnType DEF CountInv, CountedOnce, Bound
<1>7. UnreadIsShown'
  <2> SUFFICES ASSUME NEW r \in unseen' \ stray' PROVE seat'[r].umn > 0
    BY DEF UnreadIsShown
  <2>1. r \in Row
    BY DEF TypeInv, TypeOK, Taken
  <2>2. r \in unseen => seat[r].umn > 0
    BY <1>1, <1>4 DEF UnreadIsShown
  <2>3. CASE r \in rows
    BY <1>4, <1>5, <2>1, <2>2, <2>3
  <2>4. CASE r \notin rows
    BY <1>4, <1>5, <2>1, <2>2, <2>4
  <2>5. QED
    BY <2>3, <2>4
<1>8. \A g \in Handler : run'[g] = run[g] \/ Within(run[g])'
  <2>1. Within(Idle)'
    BY DEF Within, Idle
  <2>2. QED
    BY <1>1, <1>4, <2>1, WithinStays
<1>9. QED
  BY <1>1, <1>2, <1>6, <1>7, <1>8, WithinStep

(* A row is somebody's: nobody's message is not the message of its owner.   *)
LEMMA NobodyOwns == SeatInv => \A r \in Taken : Owner(r) # None
  BY DEF SeatInv, Placed, Members, Owner

LEMMA CommitMessageCounters ==
  ASSUME UmnInv, TypeInv', NEW h \in Handler, CommitMessage(h)
  PROVE  UnreadIsShown' /\ CountInv'
<1> DEFINE now == run[h]
           rows == DOMAIN now.seen
           own(r) == Owner(r) = now.user
           active(r) == member[seat[r].of].active
           f == [r \in rows |-> Count(now.kind, now.seen[r], own(r), active(r))]
           counted == CASE now.kind \in {"schedule", "import"} -> {}
                        [] now.kind = "compose"  -> {r \in rows : ~ own(r)}
                        [] now.kind = "revived"  -> {r \in rows : active(r)}
                        [] OTHER                 -> rows
           cleared == IF now.kind \in {"schedule", "revived", "import"} THEN {r \in rows : ~ own(r)} ELSE {}
<1>1. Save(h, f, counted, cleared)
  BY DEF CommitMessage
<1>2. /\ now.at = "message" /\ now.item \notin stored /\ now.item \in Item \cup {None}
      /\ stored' = stored \cup New(now.item) /\ touches' = touches
  BY DEF CommitMessage, UmnInv, SeatInv, TypeInv, RunType, Request
<1>3. TypeInv /\ CountInv /\ IsFiniteSet(stored)
  BY DEF UmnInv, SeatInv, CountInv
<1>4. /\ now.kind # "import" => now.item \in Item
      /\ now.kind \in {"revived", "import"} => \A r \in rows : ~ own(r)
  <2>1. Proper(now)
    BY DEF UmnInv, AllProper
  <2>2. rows \subseteq Taken
    BY <1>3 DEF TypeInv, SeenTaken
  <2>3. QED
    BY <1>2, <2>1, <2>2, NobodyOwns DEF Proper, UmnInv
<1>5. \A r \in rows : now.seen[r] \in Nat /\ now.seen[r] <= Bound
  <2>1. Within(now)
    BY <1>3 DEF CountInv
  <2>2. QED
    BY <1>2, <1>3, <2>1, SeenNat DEF Within, Spare
<1>6. /\ Bound \in Nat /\ Bound' \in Nat /\ Bound <= Bound' /\ 1 <= Bound'
      /\ now.kind # "import" => Bound + 1 <= Bound'
  <2>1. Bound \in Nat /\ Bound' \in Nat /\ Bound <= Bound'
    BY <1>2, <1>3, BoundType, BoundGrows
  <2>2. 1 <= Bound
    BY <1>3, FS_CardinalityType DEF Bound, TypeInv, TypeOK
  <2>3. now.kind # "import" => Bound + 1 <= Bound'
    BY <1>2, <1>3, <1>4, BoundGrows
  <2>4. QED
    BY <2>1, <2>2, <2>3
<1>7. ASSUME NEW r \in rows
      PROVE  /\ f[r] \in Nat /\ f[r] <= Bound'
             /\ f[r] = 0 => /\ r \notin counted
                            /\ r \in cleared \/ f[r] = seat[r].umn \/ f[r] = now.seen[r]
  <2> DEFINE n == Count(now.kind, now.seen[r], own(r), active(r))
  <2>1. f[r] = n
    OBVIOUS
  <2>2. CASE own(r) /\ now.kind \in {"compose", "schedule"}
    <3>1. n = now.seen[r]
      BY <2>2 DEF Count
    <3>2. r \notin counted
      BY <2>2
    <3>3. QED
      BY <2>1, <3>1, <3>2, <1>5, <1>6
  <2>3. CASE now.kind \in {"schedule", "import"} /\ ~ own(r)
    <3>1. n = 0 /\ r \notin counted /\ r \in cleared
      BY <2>3 DEF Count
    <3>2. QED
      BY <2>1, <3>1, <1>6
  <2>4. CASE now.kind = "revived"
    <3>1. n = IF active(r) THEN 1 ELSE 0
      BY <2>4 DEF Count
    <3>2. r \in cleared /\ (r \in counted <=> active(r))
      BY <2>4, <1>4
    <3>3. QED
      BY <2>1, <3>1, <3>2, <1>6
  <2>5. CASE now.kind \notin {"schedule", "import", "revived"} /\ (now.kind = "compose" => ~ own(r))
    <3>1. n = now.seen[r] + 1
      BY <2>5 DEF Count
    <3>2. QED
      BY <2>1, <2>5, <3>1, <1>5, <1>6
  <2>6. QED
    BY <2>2, <2>3, <2>4, <2>5, <1>4
<1>8. counted \subseteq rows
  OBVIOUS
<1> HIDE DEF f, counted, cleared
<1>9. QED
  BY <1>1, <1>2, <1>7, <1>8, SavedCounters

LEMMA ReviveFailsCounters ==
  ASSUME UmnInv, TypeInv', NEW h \in Handler, ReviveFails(h)
  PROVE  UnreadIsShown' /\ CountInv'
<1>1. PICK R \in SUBSET DOMAIN run[h].seen :
        Save(h, [r \in DOMAIN run[h].seen |-> IF r \in R THEN 0 ELSE seat[r].umn], {}, R)
  BY DEF ReviveFails
<1> DEFINE f == [r \in DOMAIN run[h].seen |-> IF r \in R THEN 0 ELSE seat[r].umn]
<1>2. TypeInv /\ CountInv /\ IsFiniteSet(stored)
  BY DEF UmnInv, SeatInv, CountInv
<1>3. stored' = stored /\ touches' = touches
  BY DEF ReviveFails
<1>4. Bound' = Bound /\ Bound \in Nat
  BY <1>2, <1>3, BoundType DEF Bound
<1>5. \A r \in DOMAIN run[h].seen :
        /\ f[r] \in Nat /\ f[r] <= Bound'
        /\ f[r] = 0 => r \in R \/ f[r] = seat[r].umn
  BY <1>2, <1>4, UmnType, SeenNat DEF CountInv, CountedOnce, Bound
<1>6. Save(h, f, {}, R)
  BY <1>1
<1> HIDE DEF f
<1>7. QED
  BY <1>3, <1>5, <1>6, SavedCounters

LEMMA SaveTouchCounters ==
  ASSUME UmnInv, TypeInv', NEW h \in Handler, SaveTouch(h)
  PROVE  UnreadIsShown' /\ CountInv'
<1> DEFINE rows == DOMAIN run[h].seen
           f == [r \in rows |-> Touched(run[h].kind, run[h].seen[r])]
           counted == IF run[h].kind = "count" THEN rows ELSE {}
           cleared == IF run[h].kind = "read" THEN rows ELSE {}
<1>1. Save(h, f, counted, cleared) /\ counted \subseteq rows
  BY DEF SaveTouch
<1>2. TypeInv /\ CountInv /\ IsFiniteSet(stored)
  BY DEF UmnInv, SeatInv, CountInv
<1>3. run[h].at = "touch" /\ stored' = stored /\ touches' = touches
  BY DEF SaveTouch
<1>4. Bound' = Bound /\ Bound \in Nat
  BY <1>2, <1>3, BoundType DEF Bound
<1>5. \A r \in rows : run[h].seen[r] \in Nat /\ run[h].seen[r] + 1 <= Bound
  BY <1>2, <1>3, SeenNat DEF CountInv, Within, Spare
<1>6. \A r \in rows :
        /\ f[r] \in Nat /\ f[r] <= Bound'
        /\ f[r] = 0 => r \notin counted /\ (r \in cleared \/ f[r] = run[h].seen[r])
  BY <1>4, <1>5 DEF Touched
<1> HIDE DEF f, counted, cleared
<1>7. QED
  BY <1>1, <1>3, <1>6, SavedCounters

LEMMA UpdateManyCounters ==
  ASSUME UmnInv, TypeInv', NEW R \in SUBSET Taken, NEW read \in BOOLEAN,
         UpdateUmnConversations(R, read)
  PROVE  UnreadIsShown' /\ CountInv'
<1> DEFINE n(r) == IF read THEN 0 ELSE IF seat[r].umn = 0 THEN 1 ELSE seat[r].umn
<1>1. TypeInv /\ CountInv /\ UnreadIsShown /\ IsFiniteSet(stored) /\ TypeOK
  BY DEF UmnInv, SeatInv, CountInv, TypeInv
<1>2. /\ stored' = stored /\ touches' = touches + 1 /\ run' = run /\ stray' = stray
      /\ unseen' = IF read THEN unseen \ R ELSE unseen
  BY DEF UpdateUmnConversations
<1>3. \A r \in Row : seat'[r].umn = IF r \in R THEN n(r) ELSE seat[r].umn
  <2>1. \A r \in Row : [seat[r] EXCEPT !.umn = n(r)].umn = n(r)
    BY <1>1 DEF TypeOK, Seat
  <2>2. \A r \in Row : seat'[r] = IF r \in R THEN [seat[r] EXCEPT !.umn = n(r)] ELSE seat[r]
    BY <1>1 DEF UpdateUmnConversations, TypeOK, Seat
  <2> HIDE DEF n
  <2>3. QED
    BY <2>1, <2>2
<1>4. IsFiniteSet(stored') /\ Bound \in Nat /\ Bound' \in Nat /\ Bound + 1 <= Bound' /\ Bound <= Bound'
  BY <1>1, <1>2, BoundType, BoundGrows
<1>5. \A r \in Row : seat'[r].umn <= Bound'
  BY <1>1, <1>3, <1>4, UmnType DEF CountInv, CountedOnce, Bound
<1>6. UnreadIsShown'
  BY <1>1, <1>2, <1>3 DEF UnreadIsShown, TypeOK, Taken
<1>7. QED
  BY <1>1, <1>2, <1>4, <1>5, <1>6, WithinStep

(* A request that begins or goes on has read the counters that it holds.    *)
LEMMA BeganCounters ==
  ASSUME UmnInv, TypeInv', NEW h \in Handler, NEW q, run' = [run EXCEPT ![h] = q],
         seat' = seat, unseen' = unseen, stray' = stray, stored' = stored,
         touches' \in {touches, touches + 1}, q.at = "touch" => touches' = touches + 1,
         \A r \in DOMAIN q.seen : r \in Row /\ q.seen[r] = seat[r].umn
  PROVE  UnreadIsShown' /\ CountInv'
<1>1. touches \in Nat
  BY DEF UmnInv, SeatInv, TypeInv, TypeOK
<1>2. touches + Spare(q) <= touches'
  BY <1>1 DEF Spare
<1>3. QED
  BY <1>2, ReadWithin, KeptCounters

LEMMA AttendancesSeen ==
  ASSUME TypeInv, NEW as, NEW c \in Conversation,
         NEW seen, seen = [r \in Attendances(as, c) |-> seat[r].umn]
  PROVE  \A r \in DOMAIN seen : r \in Row /\ seen[r] = seat[r].umn
  BY DEF Attendances, Seats

LEMMA JoinCounters ==
  ASSUME UmnInv, TypeInv', NEW h \in Handler, NEW u \in User, Join(h, u)
  PROVE  UnreadIsShown' /\ CountInv'
<1> DEFINE Again(k) == [Idle EXCEPT !.at = "join", !.user = u, !.cu = k]
           Like(k)  == [Idle EXCEPT !.at = "join", !.user = u,
                                    !.set = {r \in Taken : seat[r].of = k}]
           First    == [Idle EXCEPT !.at = "join", !.user = u]
<1>1. \A k : /\ Again(k).at = "join" /\ DOMAIN Again(k).seen = {}
             /\ Like(k).at = "join" /\ DOMAIN Like(k).seen = {}
             /\ First.at = "join" /\ DOMAIN First.seen = {}
  BY DEF Idle
<1>2. \/ \E k \in Members : run' = [run EXCEPT ![h] = Again(k)]
      \/ \E k \in Members : run' = [run EXCEPT ![h] = Like(k)]
      \/ run' = [run EXCEPT ![h] = First]
  BY DEF Join
<1> HIDE DEF Again, Like, First
<1>3. PICK q : run' = [run EXCEPT ![h] = q] /\ q.at = "join" /\ DOMAIN q.seen = {}
  BY <1>1, <1>2
<1>4. /\ seat' = seat /\ unseen' = unseen /\ stray' = stray /\ stored' = stored
      /\ touches' = touches
  BY DEF Join
<1>5. QED
  BY <1>3, <1>4, BeganCounters

LEMMA TouchCounters ==
  ASSUME UmnInv, TypeInv', NEW h \in Handler, NEW r \in Row,
         NEW kind \in {"read", "unread", "count", "modified"}, Touch(h, r, kind)
  PROVE  UnreadIsShown' /\ CountInv'
<1> DEFINE seen == [p \in {r} |-> seat[p].umn]
           q == [Idle EXCEPT !.at = "touch", !.kind = kind, !.seen = seen]
<1>1. run' = [run EXCEPT ![h] = q]
  BY DEF Touch
<1>2. \A p \in DOMAIN seen : p \in Row /\ seen[p] = seat[p].umn
  OBVIOUS
<1> HIDE DEF seen
<1>3. q.seen = seen
  BY DEF Idle
<1>4. /\ seat' = seat /\ unseen' = unseen /\ stray' = stray /\ stored' = stored
      /\ touches' = touches + 1
  BY DEF Touch
<1> HIDE DEF q
<1>5. QED
  BY <1>1, <1>2, <1>3, <1>4, BeganCounters

LEMMA CheckCustomerCounters ==
  ASSUME UmnInv, TypeInv', NEW h \in Handler, NEW c \in Conversation, CheckCustomer(h, c)
  PROVE  UnreadIsShown' /\ CountInv'
<1> DEFINE q == [Idle EXCEPT !.at = "file", !.kind = "import", !.conv = c]
<1>1. run' = [run EXCEPT ![h] = q]
  BY DEF CheckCustomer
<1>2. DOMAIN q.seen = {} /\ q.at = "file"
  BY DEF Idle
<1>3. /\ seat' = seat /\ unseen' = unseen /\ stray' = stray /\ stored' = stored
      /\ touches' = touches + 1
  BY DEF CheckCustomer
<1> HIDE DEF q
<1>4. QED
  BY <1>1, <1>2, <1>3, BeganCounters

LEMMA ImportCounters ==
  ASSUME UmnInv, TypeInv', NEW h \in Handler, AddCustomerFromExcel(h)
  PROVE  UnreadIsShown' /\ CountInv'
<1> DEFINE seen == [r \in Attendances("import", run[h].conv) |-> seat[r].umn]
           open == [run[h] EXCEPT !.at = "open", !.set = UsersInCompany]
           give == [run[h] EXCEPT !.at = "message", !.seen = seen]
<1>1. TypeInv /\ run[h].at = "file" /\ run[h] \in Request /\ run[h].conv \in Conversation
  BY DEF AddCustomerFromExcel, UmnInv, SeatInv, TypeInv, RunType, MessageNames
<1>2. run' = [run EXCEPT ![h] = open] \/ run' = [run EXCEPT ![h] = give]
  BY DEF AddCustomerFromExcel
<1>3. \A r \in DOMAIN seen : r \in Row /\ seen[r] = seat[r].umn
  BY <1>1, AttendancesSeen
<1> HIDE DEF seen
<1>4. /\ open.at = "open" /\ open.seen = run[h].seen
      /\ give.at = "message" /\ give.seen = seen
  BY <1>1 DEF Request
<1> HIDE DEF open, give
<1>5. /\ seat' = seat /\ unseen' = unseen /\ stray' = stray /\ stored' = stored
      /\ touches' = touches
  BY DEF AddCustomerFromExcel
<1>6. CASE run' = [run EXCEPT ![h] = give]
  BY <1>3, <1>4, <1>5, <1>6, BeganCounters
<1>7. CASE run' = [run EXCEPT ![h] = open]
  <2>1. PICK q : q = open
    OBVIOUS
  <2>2. touches \in Nat /\ Within(run[h]) /\ Bound' = Bound
    BY <1>1, <1>5 DEF UmnInv, CountInv, TypeInv, TypeOK, Bound
  <2>3. \A r \in DOMAIN q.seen : q.seen[r] + 0 <= Bound
    BY <1>1, <1>4, <2>1, <2>2 DEF Within, Spare
  <2>4. Within(q)'
    BY <1>4, <2>1, <2>2, <2>3 DEF Within, Spare
  <2>5. run' = [run EXCEPT ![h] = q]
    BY <1>7, <2>1
  <2>6. QED
    BY <1>1, <1>5, <2>4, <2>5, WithinStays, KeptCounters
<1>8. QED
  BY <1>2, <1>6, <1>7

LEMMA NewCounters ==
  ASSUME UmnInv, TypeInv', Messages
  PROVE  UnreadIsShown' /\ CountInv'
<1>1. PICK h \in Handler, c \in Conversation, kind \in Kind, x \in Item : \E s \in Senders(kind) :
        OpenConversation(h, c, kind, x, s) \/ BeginMessage(h, c, kind, x, s)
  BY DEF Messages
<1>2. PICK s \in Senders(kind) : OpenConversation(h, c, kind, x, s) \/ BeginMessage(h, c, kind, x, s)
  BY <1>1
<1>3. CASE OpenConversation(h, c, kind, x, s)
  <2>0. PICK kd \in {kind, "elsewhere"} :
        run' = [run EXCEPT ![h] = [Idle EXCEPT !.at = "open", !.conv = c, !.kind = kd, !.item = x,
                                           !.user = s, !.set = UsersInCompany]]
    BY <1>3 DEF OpenConversation
  <2> DEFINE q == [Idle EXCEPT !.at = "open", !.conv = c, !.kind = kd, !.item = x,
                               !.user = s, !.set = UsersInCompany]
  <2>1. q.at = "open" /\ DOMAIN q.seen = {}
    BY DEF Idle
  <2>2. run' = [run EXCEPT ![h] = q]
    BY <2>0
  <2> HIDE DEF q
  <2>3. /\ seat' = seat /\ unseen' = unseen /\ stray' = stray /\ stored' = stored
        /\ touches' = touches
    BY <1>3 DEF OpenConversation
  <2>4. QED
    BY <2>1, <2>2, <2>3, BeganCounters
<1>4. CASE BeginMessage(h, c, kind, x, s)
  <2> DEFINE as == IF kind = "inbound" /\ conv[c] = "inactive" THEN "revived" ELSE kind
             seen == [r \in Attendances(as, c) |-> seat[r].umn]
             q == [Idle EXCEPT !.at = "message", !.kind = as, !.conv = c, !.item = x,
                               !.user = s, !.seen = seen]
  <2>1. run' = [run EXCEPT ![h] = q]
    BY <1>4 DEF BeginMessage
  <2> HIDE DEF as
  <2>2. \A r \in DOMAIN seen : r \in Row /\ seen[r] = seat[r].umn
    BY AttendancesSeen DEF UmnInv, SeatInv
  <2> HIDE DEF seen
  <2>3. q.at = "message" /\ q.seen = seen
    BY DEF Idle
  <2> HIDE DEF q
  <2>4. /\ seat' = seat /\ unseen' = unseen /\ stray' = stray /\ stored' = stored
        /\ touches' = touches
    BY <1>4 DEF BeginMessage
  <2>5. QED
    BY <2>1, <2>2, <2>3, <2>4, BeganCounters
<1>5. QED
  BY <1>2, <1>3, <1>4

LEMMA EndCounters ==
  ASSUME UmnInv, TypeInv', NEW h \in Handler, Refuse(h) \/ Fail(h)
  PROVE  UnreadIsShown' /\ CountInv'
<1>1. /\ seat' = seat /\ unseen' = unseen /\ stray' = stray /\ stored' = stored
      /\ touches' = touches /\ run' = [run EXCEPT ![h] = Idle]
  BY DEF Refuse, Fail
<1>2. DOMAIN Idle.seen = {} /\ Idle.at = "idle"
  BY DEF Idle
<1>3. QED
  BY <1>1, <1>2, BeganCounters

(* Rows that a join or a new conversation adds, and one that is added by hand. *)
LEMMA CommitJoinCounters ==
  ASSUME UmnInv, TypeInv', NEW h \in Handler, CommitJoin(h)
  PROVE  UnreadIsShown' /\ CountInv'
<1>1. TypeInv /\ IsFiniteSet(stored)
  BY DEF UmnInv, SeatInv, CountInv
<1>2. PICK j \in CompanyUser, N \in SUBSET Fresh : \E from \in [N -> Taken] :
        JoinedRows(h, j, N, from)
  BY <1>1, JoinRows
<1>3. PICK from \in [N -> Taken] : JoinedRows(h, j, N, from)
  BY <1>2
<1>4. /\ stored' = stored /\ touches' = touches /\ stray' = stray /\ unseen' = unseen
      /\ run' = [run EXCEPT ![h] = Idle]
  BY DEF CommitJoin
<1>5. Bound' \in Nat
  BY <1>1, <1>4, BoundType DEF Bound
<1>6. \A r \in N : seat'[r].umn <= Bound'
  BY <1>3, <1>5 DEF JoinedRows, Fresh
<1>7. Within(Idle)'
  BY DEF Within, Idle
<1>8. \A g \in Handler : run'[g] = run[g] \/ Within(run[g])'
  BY <1>1, <1>4, <1>7, WithinStays
<1>9. \A r \in Row \ N : seat'[r] = seat[r]
  BY <1>3 DEF JoinedRows
<1>10. QED
  BY <1>4, <1>6, <1>8, <1>9, AddedCounters

LEMMA CommitOpenCounters ==
  ASSUME UmnInv, TypeInv', NEW h \in Handler, CommitOpen(h)
  PROVE  UnreadIsShown' /\ CountInv'
<1>1. TypeInv /\ IsFiniteSet(stored) /\ run[h].item \in Item \cup {None} /\ run[h].at = "open"
  BY DEF UmnInv, SeatInv, CountInv, CommitOpen, TypeInv, RunType, Request
<1>2. PICK N \in SUBSET Fresh : \E from \in [N -> Members] : OpenedRows(h, N, from)
  BY <1>1, OpenRows
<1>3. PICK from \in [N -> Members] : OpenedRows(h, N, from)
  BY <1>2
<1>4. /\ stored' = stored \cup New(run[h].item) /\ touches' = touches /\ stray' = stray
      /\ run' = [run EXCEPT ![h] = Idle]
  BY DEF CommitOpen
<1>5. /\ Bound' \in Nat /\ Bound \in Nat /\ Bound <= Bound'
      /\ stored' # {} => 2 <= Bound'
  BY <1>1, <1>4, BoundGrows, BoundType
<1>6. 1 <= Bound'
  BY <1>1, <1>4, <1>5, FS_CardinalityType DEF Bound, TypeInv, TypeOK
<1>7. run[h].kind # "import" => stored' # {}
  <2>1. Proper(run[h])
    BY DEF UmnInv, AllProper
  <2>2. run[h].kind # "import" => run[h].item \in Item
    BY <1>1, <2>1 DEF Proper
  <2>3. QED
    BY <1>4, <2>2, ConstantsAssumption DEF New
<1>8. \A k, s : FirstCount(run[h].kind, k, s) <= Bound'
  BY <1>5, <1>6, <1>7 DEF FirstCount
<1>9. \A r \in N : seat'[r].umn = FirstCount(run[h].kind, from[r], run[h].user)
  BY <1>3 DEF OpenedRows, Fresh
<1>10. \A r \in N : seat'[r].umn <= Bound'
  BY <1>8, <1>9
<1>11. \A r \in unseen' \ unseen : r \in N /\ seat'[r].umn > 0
  BY <1>3, <1>9 DEF OpenedRows
<1>12. Within(Idle)'
  BY DEF Within, Idle
<1>13. \A g \in Handler : run'[g] = run[g] \/ Within(run[g])'
  BY <1>1, <1>4, <1>12, WithinStays
<1>14. \A r \in Row \ N : seat'[r] = seat[r]
  BY <1>3 DEF OpenedRows
<1>15. QED
  BY <1>1, <1>4, <1>10, <1>11, <1>13, <1>14, AddedCounters

LEMMA AddByHandCounters ==
  ASSUME UmnInv, TypeInv', NEW c \in Conversation, NEW k \in CompanyUser,
         AddUserIntoConversation(c, k)
  PROVE  UnreadIsShown' /\ CountInv'
<1>1. TypeInv /\ IsFiniteSet(stored)
  BY DEF UmnInv, SeatInv, CountInv
<1>2. PICK r \in Fresh : seat' = [seat EXCEPT ![r] = [conv |-> c, of |-> k, umn |-> 0]]
  BY DEF AddUserIntoConversation
<1>3. /\ stored' = stored /\ touches' = touches + 1 /\ stray' = stray /\ unseen' = unseen
      /\ run' = run
  BY DEF AddUserIntoConversation
<1>4. Bound' \in Nat
  BY <1>1, <1>3, BoundGrows
<1>5. \A q \in Row : seat'[q] = IF q = r THEN [conv |-> c, of |-> k, umn |-> 0] ELSE seat[q]
  BY <1>1, <1>2 DEF TypeInv, TypeOK
<1>6. seat'[r].umn <= Bound'
  BY <1>4, <1>5 DEF Fresh
<1>7. {r} \in SUBSET Fresh /\ \A q \in Row \ {r} : seat'[q] = seat[q]
  BY <1>5
<1>8. QED
  BY <1>3, <1>6, <1>7, AddedCounters

LEMMA InitCounters == Init => UnreadIsShown /\ CountInv /\ AllProper
<1> SUFFICES ASSUME Init PROVE UnreadIsShown /\ CountInv /\ AllProper
  OBVIOUS
<1>1. Idle.at = "idle" /\ DOMAIN Idle.seen = {}
  BY DEF Idle
<1>2. \A h \in Handler : run[h] = Idle
  BY DEF Init
<1>3. \A r \in Row : seat[r].umn = 0
  BY DEF Init, NoSeat
<1>4. IsFiniteSet(stored) /\ Cardinality(stored) = 0 /\ touches = 0 /\ unseen = {}
  BY FS_EmptySet DEF Init
<1>5. QED
  BY <1>1, <1>2, <1>3, <1>4 DEF UnreadIsShown, CountInv, CountedOnce, Within, AllProper, Proper

LEMMA StepCounters ==
  ASSUME UmnInv, TypeInv', [Next]_vars
  PROVE  UnreadIsShown' /\ CountInv'
<1>1. CASE UNCHANGED vars
  BY <1>1, KeptCounters DEF vars
<1>2. CASE Users
  <2>1. ASSUME NEW h \in Handler, NEW u \in User, AddUser(h, u) \/ UpdateUser(h, u)
        PROVE  UnreadIsShown' /\ CountInv'
    <3>1. CASE Join(h, u)
      BY <3>1, JoinCounters
    <3>2. CASE Leave(u)
      BY <3>2, KeptCounters DEF Leave
    <3>3. QED
      BY <2>1, <3>1, <3>2 DEF AddUser, UpdateUser
  <2>2. ASSUME NEW c \in Conversation, NEW k \in CompanyUser, AddUserIntoConversation(c, k)
        PROVE  UnreadIsShown' /\ CountInv'
    BY <2>2, AddByHandCounters
  <2>3. ASSUME NEW h \in Handler, NEW c \in Conversation, CheckCustomer(h, c)
        PROVE  UnreadIsShown' /\ CountInv'
    BY <2>3, CheckCustomerCounters
  <2>4. ASSUME NEW h \in Handler, NEW r \in Row,
               NEW kind \in {"read", "unread", "count", "modified"}, Touch(h, r, kind)
        PROVE  UnreadIsShown' /\ CountInv'
    BY <2>4, TouchCounters
  <2>5. ASSUME NEW R \in SUBSET Taken, NEW read \in BOOLEAN, UpdateUmnConversations(R, read)
        PROVE  UnreadIsShown' /\ CountInv'
    BY <2>5, UpdateManyCounters
  <2>6. QED
    BY <1>2, <2>1, <2>2, <2>3, <2>4, <2>5 DEF Users
<1>3. CASE Messages
  BY <1>3, NewCounters
<1>4. ASSUME NEW c \in Conversation, Deactivate(c) PROVE UnreadIsShown' /\ CountInv'
  BY <1>4, KeptCounters DEF Deactivate
<1>5. ASSUME NEW h \in Handler, Proceed(h) PROVE UnreadIsShown' /\ CountInv'
  BY <1>5, CommitJoinCounters, CommitOpenCounters, ImportCounters, CommitMessageCounters,
     EndCounters, ReviveFailsCounters, SaveTouchCounters DEF Proceed
<1>6. QED
  BY <1>1, <1>2, <1>3, <1>4, <1>5 DEF Next

LEMMA UmnStep == UmnInv /\ [Next]_vars => UmnInv'
<1> SUFFICES ASSUME UmnInv, [Next]_vars PROVE UmnInv'
  OBVIOUS
<1>1. SeatInv /\ TypeInv /\ AllProper
  BY DEF UmnInv, SeatInv
<1>2. SeatInv' /\ TypeInv'
  BY <1>1, SeatStep DEF SeatInv
<1>3. AllProper'
  BY <1>1, AllProperStep
<1>4. UnreadIsShown' /\ CountInv'
  BY <1>2, StepCounters
<1>5. QED
  BY <1>2, <1>3, <1>4 DEF UmnInv

LEMMA Counters == Spec => []UmnInv
<1>1. Init => UmnInv
  BY InitSeats, InitCounters DEF UmnInv
<1>2. QED
  BY <1>1, UmnStep, PTL DEF Spec

(* However the handlers that count, clear and save interleave, whoever a     *)
(* message was counted for is shown an unread conversation until it is       *)
(* cleared, or until a save of a number that had changed sets it to zero.    *)
THEOREM UnreadIsShownToAll == Spec => []UnreadIsShown
<1>1. UmnInv => UnreadIsShown
  BY DEF UmnInv
<1>2. QED
  BY <1>1, Counters, PTL

(* Whatever is delivered again, refused or rolled back, a counter is never   *)
(* above the number of stored items, changes to single rows and one.         *)
THEOREM NothingCountedTwice == Spec => []CountedOnce
<1>1. UmnInv => CountedOnce
  BY DEF UmnInv, CountInv
<1>2. QED
  BY <1>1, Counters, PTL
=============================================================================
