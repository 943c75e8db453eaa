----------------------- MODULE OutboundMessagesProofs -----------------------
(***************************************************************************)
(* Type correctness of OutboundMessages and its three safety properties,   *)
(* for any number of rows, messages of RingCentral, handlers, lists,       *)
(* failures and restarts.                                                  *)
(***************************************************************************)
EXTENDS OutboundMessages, TLAPS

Call == [kind : {"create", "answer", "error", "list", "queued"}, m : Msg \cup {None},
         list : Seq(Report), to : Phone, text : Text]

Rows == UNION {[M -> Message] : M \in SUBSET Msg}

State == [at : Place, call : Call, i : Nat, new : Rows, m : Msg \cup {None},
          seen : Message, known : [Phone -> Contact]]

Rc == [ex : {"none"} \cup ExternalStatus, of : Msg \cup {None}, to : Phone, text : Text]

Lists == {"listLookup", "listApp", "listWho", "listNew", "listAdopt", "listInsert"}
Reads == {"answer", "listApp", "listAdopt", "queued", "error", "edit"}
Http  == {"compose", "commitComposed", "publishComposed", "edit"}

Has(x) == x # None => rc[x].ex # "none"

(* A call names rows that are committed and messages that RingCentral has.  *)
Sane(c) ==
    /\ c \in Call
    /\ c.kind \in {"answer", "error"} => c.m \in Msg
    /\ c.m # None => message[c.m].saved
    /\ c.kind \in {"answer", "queued", "list"} => Len(c.list) > 0
    /\ \A i \in 1..Len(c.list) : rc[c.list[i].x].ex # "none"

(* A handler: the row it read was committed; what it publishes is.          *)
Sound(s) ==
    /\ s \in State
    /\ s.at \notin {"idle"} \cup Http => Sane(s.call)
    /\ s.at \in Lists => s.i \in 1..Len(s.call.list)
    /\ s.at = "answer" => s.call.kind = "answer" /\ s.m = s.call.m
    /\ s.at = "queued" => s.call.kind = "queued"
    /\ s.at \in Reads \cup {"publishCreated"} => s.m \in Msg /\ message[s.m].saved
    /\ s.at \in Reads => s.seen.saved
    /\ Has(s.seen.exId)
    /\ s.at = "publishComposed" => \A m \in DOMAIN s.new : message[m].saved
    /\ \A m \in DOMAIN s.new : s.new[m].saved /\ s.new[m].exId = None

RowsInv == /\ message \in [Msg -> Message] /\ contact \in [Phone -> Contact]
           /\ \A m \in Msg : Has(message[m].exId)
RcInv   == /\ rc \in [Ext -> Rc] /\ toRc \subseteq Msg
           /\ \A m \in toRc : message[m].saved
           /\ \A x \in Ext : rc[x].of # None => message[rc[x].of].saved
RunInv  == run \in [Handler -> State] /\ \A h \in Handler : Sound(run[h])
CallInv == \A c \in calls : Sane(c)

TypeInv == RowsInv /\ RcInv /\ RunInv /\ CallInv

LEMMA NoMessageType ==
  /\ NoMessage \in Message /\ ~ NoMessage.saved /\ NoMessage.exId = None /\ NoMessage.to \in Phone
  /\ NoMessage.text \in Text
BY ConstantsAssumption DEF NoMessage, NewMessage, Message, InternalStatus

LEMMA NewMessageType ==
  ASSUME NEW p \in Phone, NEW t \in Text
  PROVE  /\ NewMessage(p, t) \in Message /\ NewMessage(p, t).saved
         /\ NewMessage(p, t).exId = None /\ NewMessage(p, t).own
BY DEF NewMessage, Message, InternalStatus

LEMMA IdleType ==
  /\ Idle \in State /\ Idle.at = "idle" /\ DOMAIN Idle.new = {} /\ Idle.seen = NoMessage
  /\ Idle.i = 1 /\ Sound(Idle)
<1>1. Asked("error", None, <<>>) \in Call
  BY NoMessageType DEF Asked, Call
<1>2. Idle.new \in [{} -> Message] /\ DOMAIN Idle.new = {}
  BY DEF Idle
<1>3. Idle.new \in Rows
  BY <1>2 DEF Rows
<1>4. [p \in Phone |-> "active"] \in [Phone -> Contact]
  BY DEF Contact
<1>5. Idle \in State
  BY <1>1, <1>3, <1>4, NoMessageType DEF Idle, State, Place
<1>6. QED
  BY <1>2, <1>5, NoMessageType DEF Idle, Sound, Lists, Reads, Http, Has

LEMMA InitType == Init => TypeInv
<1> SUFFICES ASSUME Init PROVE TypeInv
  OBVIOUS
<1>1. RunInv
  BY IdleType DEF Init, RunInv
<1>2. contact \in [Phone -> Contact]
  BY ConstantsAssumption DEF Init, Contact
<1>3. RowsInv
  BY <1>2, NoMessageType DEF Init, RowsInv, Has
<1>4. RcInv
  BY NoMessageType DEF Init, RcInv, Rc
<1>5. QED
  BY <1>1, <1>3, <1>4 DEF Init, TypeInv, CallInv

LEMMA TypeInvIsTypeOK == TypeInv => TypeOK
<1> SUFFICES ASSUME TypeInv PROVE TypeOK
  OBVIOUS
<1>1. \A h \in Handler : /\ run[h].at \in Place /\ run[h].m \in Msg \cup {None}
                         /\ run[h].seen \in Message /\ DOMAIN run[h].new \subseteq Msg
  BY DEF TypeInv, RunInv, State, Rows
<1>2. \A c \in calls : c.m \in Msg \cup {None} /\ c.list \in Seq(Report)
  BY DEF TypeInv, CallInv, Sane, Call
<1>3. QED
  BY <1>1, <1>2 DEF TypeInv, RowsInv, RcInv, TypeOK

-----------------------------------------------------------------------------
(* Rows stay committed, and RingCentral keeps what it has.                  *)
Onward == /\ \A m \in Msg : message[m].saved => message'[m].saved
          /\ \A x \in Ext : rc[x].ex # "none" => rc'[x].ex # "none"

LEMMA SaneStays ==
  ASSUME Onward, NEW c, Sane(c)
  PROVE  Sane(c)'
<1>1. \A i \in 1..Len(c.list) : c.list[i].x \in Ext
  <2>1. c.list \in Seq(Report)
    BY DEF Sane, Call
  <2>2. \A i \in 1..Len(c.list) : c.list[i] \in Report
    BY <2>1
  <2>3. QED
    BY <2>2 DEF Report
<1>2. c.m # None => c.m \in Msg
  BY DEF Sane, Call
<1>3. QED
  BY <1>1, <1>2 DEF Sane, Onward

LEMMA SoundStays ==
  ASSUME Onward, NEW s, Sound(s)
  PROVE  Sound(s)'
<1>1. s.at \notin {"idle"} \cup Http => Sane(s.call)'
  BY SaneStays DEF Sound
<1>2. s.seen.exId # None => s.seen.exId \in Ext
  BY DEF Sound, State, Message
<1>3. DOMAIN s.new \subseteq Msg
  BY DEF Sound, State, Rows
<1>4. QED
  BY <1>1, <1>2, <1>3 DEF Sound, Onward, Has, Reads

(* A step of one handler.                                                   *)
LEMMA HandlerStep ==
  ASSUME TypeInv, Onward, RowsInv', RcInv',
         NEW h \in Handler, NEW s, run' = [run EXCEPT ![h] = s], Sound(s)',
         \A c \in calls' : c \in calls \/ Sane(c)'
  PROVE  TypeInv'
<1>1. s \in State
  BY DEF Sound
<1>2. run' \in [Handler -> State]
  BY <1>1 DEF TypeInv, RunInv
<1>3. \A g \in Handler : Sound(run[g])'
  <2> TAKE g \in Handler
  <2>1. CASE g = h
    BY <2>1 DEF TypeInv, RunInv
  <2>2. CASE g # h
    <3>1. run'[g] = run[g] /\ Sound(run[g])
      BY <2>2 DEF TypeInv, RunInv
    <3>2. \A r : Sound(r) => Sound(r)'
      BY SoundStays
    <3>3. QED
      BY <3>1, <3>2
  <2>3. QED
    BY <2>1, <2>2
<1>4. CallInv'
  BY SaneStays DEF TypeInv, CallInv
<1>5. QED
  BY <1>2, <1>3, <1>4 DEF TypeInv, RunInv

(* A step of one handler that writes no row and hands nothing over.         *)
LEMMA QuietStep ==
  ASSUME TypeInv, message' = message, contact' = contact, rc' = rc, toRc' = toRc,
         NEW h \in Handler, NEW s, run' = [run EXCEPT ![h] = s], Sound(s),
         \A c \in calls' : c \in calls \/ Sane(c)
  PROVE  TypeInv'
<1>1. Onward /\ RowsInv' /\ RcInv'
  BY DEF Onward, TypeInv, RowsInv, RcInv, Has
<1>2. Sound(s)'
  BY <1>1, SoundStays
<1>3. \A c \in calls' : c \in calls \/ Sane(c)'
  BY <1>1, SaneStays
<1>4. QED
  BY <1>1, <1>2, <1>3, HandlerStep

(* A step of users or of RingCentral: no handler runs.                      *)
LEMMA OutsideStep ==
  ASSUME TypeInv, message' = message, contact' = contact, run' = run, RcInv', Onward,
         \A c \in calls' : c \in calls \/ Sane(c)'
  PROVE  TypeInv'
<1>1. RowsInv'
  <2>1. \A m \in Msg : message[m].exId # None => message[m].exId \in Ext
    BY DEF TypeInv, RowsInv, Message
  <2>2. QED
    BY <2>1 DEF TypeInv, RowsInv, Has, Onward
<1>2. RunInv'
  <2>1. \A h \in Handler : Sound(run[h])'
    <3>1. \A s : Sound(s) => Sound(s)'
      BY SoundStays
    <3>2. QED
      BY <3>1 DEF TypeInv, RunInv
  <2>2. QED
    BY <2>1 DEF TypeInv, RunInv
<1>3. CallInv'
  BY SaneStays DEF TypeInv, CallInv
<1>4. QED
  BY <1>1, <1>2, <1>3 DEF TypeInv

LEMMA BusyType ==
  ASSUME TypeInv, NEW h \in Handler
  PROVE  /\ run[h] \in State /\ Sound(run[h]) /\ run[h].new \in Rows
         /\ DOMAIN run[h].new \subseteq Msg
         /\ \A m \in DOMAIN run[h].new : run[h].new[m] \in Message
         /\ \A s : run' = [run EXCEPT ![h] = s] =>
              run'[h] = s /\ \A g \in Handler : g # h => run'[g] = run[g]
<1>1. run[h] \in State /\ Sound(run[h]) /\ run[h].new \in Rows
  BY DEF TypeInv, RunInv, State
<1>2. PICK M \in SUBSET Msg : run[h].new \in [M -> Message]
  BY <1>1 DEF Rows
<1>3. QED
  BY <1>1, <1>2 DEF TypeInv, RunInv

-----------------------------------------------------------------------------
(* Users *)

LEMMA AskedType ==
  ASSUME NEW kind \in {"create", "answer", "error", "list", "queued"}, NEW m \in Msg \cup {None},
         NEW list \in Seq(Report)
  PROVE  /\ Asked(kind, m, list) \in Call /\ Asked(kind, m, list).kind = kind
         /\ Asked(kind, m, list).m = m /\ Asked(kind, m, list).list = list
BY NoMessageType DEF Asked, Call

LEMMA WriteType ==
  ASSUME TypeInv, NEW p \in Phone, NEW t \in Text, Write(p, t)
  PROVE  TypeInv'
<1> DEFINE a == Asked("create", None, <<>>)
           c == [a EXCEPT !.to = p, !.text = t]
<1>1. a \in Call /\ a.kind = "create" /\ a.m = None /\ a.list = <<>>
  <2>1. <<>> \in Seq(Report)
    OBVIOUS
  <2>2. QED
    BY <2>1, NoMessageType DEF Asked, Call
<1>2. calls' = calls \cup {c} /\ UNCHANGED <<message, contact, run, toRc, rc>>
  BY DEF Write
<1> HIDE DEF a
<1>3. c \in Call /\ c.kind = "create" /\ c.m = None /\ c.list = <<>>
  BY <1>1 DEF Call
<1> HIDE DEF c
<1>4. Sane(c)
  BY <1>3 DEF Sane
<1>5. Onward /\ RcInv'
  BY <1>2 DEF Onward, TypeInv, RcInv
<1>6. QED
  BY <1>2, <1>4, <1>5, SaneStays, OutsideStep

LEMMA BeginComposeType ==
  ASSUME TypeInv, NEW h \in Handler, NEW S \in SUBSET Phone, NEW t \in Text,
         CreateComposeMessages(h, S, t)
  PROVE  TypeInv'
<1>1. PICK ids \in [S -> Fresh] :
        run' = [run EXCEPT ![h] = [Idle EXCEPT !.at = "compose", !.known = contact,
                !.new = [m \in {ids[p] : p \in S} |->
                           NewMessage(CHOOSE p \in S : ids[p] = m, t)]]]
  BY DEF CreateComposeMessages
<1> DEFINE M == {ids[p] : p \in S}
           new == [m \in M |-> NewMessage(CHOOSE p \in S : ids[p] = m, t)]
           s == [Idle EXCEPT !.at = "compose", !.known = contact, !.new = new]
<1>2. M \subseteq Msg
  BY DEF Fresh
<1>3. \A m \in M : (CHOOSE p \in S : ids[p] = m) \in Phone
  OBVIOUS
<1>4. \A m \in M : new[m] \in Message /\ new[m].saved /\ new[m].exId = None
  BY <1>3, NewMessageType
<1>5. DOMAIN new = M
  OBVIOUS
<1>6. new \in [M -> Message]
  BY <1>4
<1>7. run' = [run EXCEPT ![h] = s]
  BY <1>1
<1> HIDE DEF M, new
<1>8. new \in Rows
  BY <1>2, <1>6 DEF Rows
<1>9. s \in State /\ s.at = "compose" /\ s.new = new /\ s.seen = NoMessage
  BY <1>8, IdleType DEF State, Place, TypeInv, RowsInv
<1> HIDE DEF s
<1>10. Sound(s)
  BY <1>4, <1>5, <1>9, NoMessageType DEF Sound, Http, Lists, Reads, Has
<1>11. QED
  BY <1>7, <1>10, QuietStep DEF CreateComposeMessages

(* A handler reads a row that is committed.                                 *)
LEMMA ReadingType ==
  ASSUME TypeInv, NEW m \in Msg, message[m].saved, NEW at \in Reads
  PROVE  /\ Reading(at, m) \in State /\ Reading(at, m).at = at /\ Reading(at, m).m = m
         /\ Reading(at, m).seen = message[m] /\ Reading(at, m).new = Idle.new
         /\ Has(message[m].exId)
BY IdleType DEF Reading, State, Place, Reads, TypeInv, RowsInv

LEMMA BeginEditType ==
  ASSUME TypeInv, NEW h \in Handler, NEW m \in Msg, EditMessage(h, m)
  PROVE  TypeInv'
<1> DEFINE s == Reading("edit", m)
<1>1. message[m].saved
  BY DEF EditMessage, Saved
<1>2. /\ s \in State /\ s.at = "edit" /\ s.m = m /\ s.seen = message[m]
      /\ s.new = Idle.new /\ Has(message[m].exId)
  BY <1>1, ReadingType DEF Reads
<1>3. run' = [run EXCEPT ![h] = s]
  BY DEF EditMessage
<1> HIDE DEF s
<1>4. Sound(s)
  BY <1>1, <1>2, IdleType DEF Sound, Http, Lists, Reads
<1>5. QED
  BY <1>3, <1>4, QuietStep DEF EditMessage

-----------------------------------------------------------------------------
(* Calls that are served *)

LEMMA ServeType ==
  ASSUME TypeInv, NEW h \in Handler, NEW c \in calls, NEW state, Serve(h, c, state),
         UNCHANGED <<message, contact, toRc, rc>>,
         state \in State, Sound([state EXCEPT !.call = c])
  PROVE  TypeInv'
BY QuietStep DEF Serve

LEMMA CreateOutboundType ==
  ASSUME TypeInv, NEW h \in Handler, NEW c \in calls, CreateOutboundMessage(h, c)
  PROVE  TypeInv'
<1> DEFINE s == [At("commitCreated") EXCEPT !.call = c]
<1>1. Sane(c) /\ c \in Call
  BY DEF TypeInv, CallInv, Sane
<1>2. At("commitCreated") \in State
  BY IdleType DEF At, State, Place
<1>3. s \in State /\ s.at = "commitCreated" /\ s.call = c /\ s.seen = NoMessage /\ s.new = Idle.new
  BY <1>1, IdleType DEF At, State, Place
<1> HIDE DEF s
<1>4. Sound(s)
  BY <1>1, <1>3, NoMessageType, IdleType DEF Sound, Lists, Reads, Has
<1>5. QED
  BY <1>2, <1>4, ServeType DEF CreateOutboundMessage, s

LEMMA ReadCallType ==
  ASSUME TypeInv, NEW c \in calls, NEW m \in Msg, message[m].saved, NEW at \in {"answer", "error", "queued"},
         at = "answer" => c.kind = "answer" /\ c.m = m,
         at = "queued" => c.kind = "queued"
  PROVE  Reading(at, m) \in State /\ Sound([Reading(at, m) EXCEPT !.call = c])
<1> DEFINE s == [Reading(at, m) EXCEPT !.call = c]
<1>1. Sane(c) /\ c \in Call
  BY DEF TypeInv, CallInv, Sane
<1>2. at \in Reads
  BY DEF Reads
<1>3. /\ Reading(at, m) \in State /\ Reading(at, m).at = at /\ Reading(at, m).m = m
      /\ Reading(at, m).seen = message[m] /\ Reading(at, m).new = Idle.new
      /\ Has(message[m].exId)
  BY <1>2, ReadingType
<1>4. s \in State /\ s.at = at /\ s.m = m /\ s.seen = message[m] /\ s.new = Idle.new /\ s.call = c
  BY <1>1, <1>3 DEF State
<1> HIDE DEF s
<1>5. Sound(s)
  BY <1>1, <1>3, <1>4, IdleType DEF Sound, Lists, Reads
<1>6. QED
  BY <1>3, <1>5 DEF s

LEMMA UpdateOutboundType ==
  ASSUME TypeInv, NEW h \in Handler, NEW c \in calls,
         UpdateOutboundMessage(h, c) \/ SendMessageError(h, c)
  PROVE  TypeInv'
<1>1. c.m \in Msg /\ message[c.m].saved
  BY ConstantsAssumption DEF TypeInv, CallInv, Sane, UpdateOutboundMessage, SendMessageError
<1>2. CASE UpdateOutboundMessage(h, c)
  BY <1>1, <1>2, ReadCallType, ServeType DEF UpdateOutboundMessage
<1>3. CASE SendMessageError(h, c)
  BY <1>1, <1>3, ReadCallType, ServeType DEF SendMessageError
<1>4. QED
  BY <1>2, <1>3

LEMMA UpdateListType ==
  ASSUME TypeInv, NEW h \in Handler, NEW c \in calls, UpdateOutBoundListMessages(h, c)
  PROVE  TypeInv'
<1> DEFINE s == [At("listLookup") EXCEPT !.call = c]
<1>1. Sane(c) /\ c \in Call /\ c.kind = "list" /\ c.list \in Seq(Report)
  BY DEF TypeInv, CallInv, Sane, Call, UpdateOutBoundListMessages
<1>2. At("listLookup") \in State
  BY IdleType DEF At, State, Place
<1>3. /\ s \in State /\ s.at = "listLookup" /\ s.call = c /\ s.seen = NoMessage
      /\ s.new = Idle.new /\ s.i = 1
  BY <1>1, IdleType DEF At, State, Place
<1> HIDE DEF s
<1>4. 1 \in 1..Len(c.list)
  BY <1>1 DEF Sane
<1>5. Sound(s)
  BY <1>1, <1>3, <1>4, NoMessageType, IdleType DEF Sound, Reads, Has
<1>6. QED
  BY <1>2, <1>5, ServeType DEF UpdateOutBoundListMessages, s

LEMMA UpdateQueuedType ==
  ASSUME TypeInv, NEW h \in Handler, NEW c \in calls, UpdateQueuedMessage(h, c)
  PROVE  TypeInv'
<1>1. CASE \E m \in WithExId(c.list[1].x) : Serve(h, c, Reading("queued", m))
  <2>1. PICK m \in WithExId(c.list[1].x) : Serve(h, c, Reading("queued", m))
    BY <1>1
  <2>2. m \in Msg /\ message[m].saved
    BY DEF WithExId, Saved
  <2>3. QED
    BY <2>1, <2>2, ReadCallType, ServeType DEF UpdateQueuedMessage
<1>2. CASE Serve(h, c, Idle)
  <2> DEFINE s == [Idle EXCEPT !.call = c]
  <2>1. c \in Call
    BY DEF TypeInv, CallInv, Sane
  <2>2. s \in State /\ s.at = "idle" /\ s.seen = NoMessage /\ s.new = Idle.new
    BY <2>1, IdleType DEF State
  <2> HIDE DEF s
  <2>3. Sound(s)
    BY <2>2, NoMessageType, IdleType DEF Sound, Lists, Reads, Has
  <2>4. QED
    BY <1>2, <2>3, IdleType, ServeType DEF UpdateQueuedMessage, s
<1>3. QED
  BY <1>1, <1>2 DEF UpdateQueuedMessage

LEMMA ReceiveType ==
  ASSUME TypeInv, NEW h \in Handler, NEW c \in calls, Receive(h, c)
  PROVE  TypeInv'
BY CreateOutboundType, UpdateOutboundType, UpdateListType, UpdateQueuedType DEF Receive

-----------------------------------------------------------------------------
(* Handlers that go on *)

(* A row that was read is saved, changed to row.                            *)
LEMMA SaveType ==
  ASSUME TypeInv, NEW h \in Handler, NEW m \in Msg, NEW row \in Message, row.saved, Has(row.exId),
         NEW next, Sound(next), Save(h, m, row, next), contact' = contact, calls' = calls,
         toRc' = toRc, rc' = rc
  PROVE  TypeInv'
<1>1. CASE Nack(h, {m})
  BY <1>1, IdleType, QuietStep DEF Nack
<1>2. CASE message' = [message EXCEPT ![m] = row] /\ run' = [run EXCEPT ![h] = next]
  <2>1. \A n \in Msg : message'[n] = IF n = m THEN row ELSE message[n]
    BY <1>2 DEF TypeInv, RowsInv
  <2>2. RowsInv'
    BY <1>2, <2>1 DEF TypeInv, RowsInv, Has
  <2>3. Onward
    BY <2>1 DEF Onward
  <2>4. RcInv'
    BY <2>3 DEF TypeInv, RcInv, Onward, Rc
  <2>5. Sound(next)'
    BY <2>3, SoundStays
  <2>6. QED
    BY <1>2, <2>2, <2>3, <2>4, <2>5, HandlerStep
<1>3. QED
  BY <1>1, <1>2 DEF Save

LEMMA ItemType ==
  ASSUME TypeInv, NEW h \in Handler, run[h].at \in Lists
  PROVE  /\ Item(h) \in Report /\ Item(h).x \in Ext /\ Item(h).ex \in ExternalStatus
         /\ rc[Item(h).x].ex # "none" /\ Sound(Rest(h)) /\ Rest(h).new = Idle.new
         /\ Rest(h).at \in {"idle", "listLookup"} /\ Rest(h).seen = NoMessage
<1> DEFINE c == run[h].call
           n == run[h].i
           s == [At("listLookup") EXCEPT !.call = c, !.i = n + 1]
<1>1. Sane(c) /\ n \in 1..Len(c.list) /\ c \in Call
  BY BusyType DEF Sound, State, Lists, Http
<1>2. c.list \in Seq(Report)
  BY <1>1 DEF Call
<1>3. c.list[n] \in Report /\ rc[c.list[n].x].ex # "none" /\ Len(c.list) \in Nat
  BY <1>1, <1>2 DEF Sane
<1>4. CASE n = Len(c.list)
  <2>1. Rest(h) = Idle
    BY <1>4 DEF Rest
  <2>2. QED
    BY <1>3, <2>1, IdleType DEF Item, Report
<1>5. CASE n # Len(c.list)
  <2>1. Rest(h) = s
    BY <1>5 DEF Rest
  <2>2. n + 1 \in 1..Len(c.list) /\ n + 1 \in Nat
    BY <1>1, <1>3, <1>5
  <2>3. /\ s \in State /\ s.at = "listLookup" /\ s.call = c /\ s.i = n + 1 /\ s.seen = NoMessage
        /\ s.new = Idle.new
    BY <1>1, <2>2, IdleType DEF At, State, Place
  <2> HIDE DEF s
  <2>4. Sound(s)
    BY <1>1, <2>2, <2>3, NoMessageType, IdleType DEF Sound, Reads, Has
  <2>5. QED
    BY <1>3, <2>1, <2>3, <2>4 DEF Item, Report
<1>6. QED
  BY <1>4, <1>5

(* Every save of a row that a handler read.                                 *)
LEMMA SavesType ==
  ASSUME TypeInv, NEW h \in Handler,
         \/ SaveEdited(h) \/ SaveAnswer(h) \/ SaveListed(h) \/ AdoptMessage(h)
         \/ SaveQueued(h) \/ SaveError(h)
  PROVE  TypeInv'
<1> DEFINE m == run[h].m
           seen == run[h].seen
<1>1. /\ m \in Msg /\ seen \in Message /\ seen.saved /\ Has(seen.exId)
  BY BusyType DEF SaveEdited, SaveAnswer, SaveListed, AdoptMessage, SaveQueued, SaveError, Sound,
                  Reads, State
<1>2. ExternalStatus \subseteq {"none"} \cup ExternalStatus \cup {Raw[e] : e \in ExternalStatus}
  OBVIOUS
<1>3. CASE SaveEdited(h)
  BY <1>1, <1>3, IdleType, SaveType DEF SaveEdited
<1>4. ASSUME NEW r \in Report, rc[r.x].ex # "none"
      PROVE  LET row == [seen EXCEPT !.exId = r.x, !.ex = r.ex, !.status = "sent"]
             IN  row \in Message /\ row.saved /\ Has(row.exId)
  BY <1>1, <1>4 DEF Message, Report, InternalStatus, Has
<1>5. CASE SaveAnswer(h)
  <2> DEFINE r == run[h].call.list[1]
             row == [seen EXCEPT !.exId = r.x, !.ex = r.ex, !.status = "sent"]
  <2>1. Sane(run[h].call) /\ run[h].call \in Call /\ run[h].call.kind = "answer"
    BY <1>5, BusyType DEF SaveAnswer, Sound, Http, State
  <2>2. run[h].call.list \in Seq(Report) /\ Len(run[h].call.list) > 0
    BY <2>1 DEF Sane, Call
  <2>3. r \in Report /\ 1 \in 1..Len(run[h].call.list)
    BY <2>2
  <2>4. rc[r.x].ex # "none"
    BY <2>1, <2>3 DEF Sane
  <2>5. row \in Message /\ row.saved /\ Has(row.exId)
    BY <1>4, <2>3, <2>4
  <2>6. Save(h, m, row, Idle) /\ UNCHANGED <<contact, calls, toRc, rc>>
    BY <1>5 DEF SaveAnswer
  <2> HIDE DEF row
  <2>7. QED
    BY <1>1, <2>5, <2>6, IdleType, SaveType
<1>6. CASE SaveListed(h)
  <2> DEFINE row == [seen EXCEPT !.ex = Item(h).ex, !.status = "sent"]
  <2>1. Item(h).ex \in ExternalStatus /\ Sound(Rest(h))
    BY <1>6, ItemType DEF SaveListed, Lists
  <2>2. row \in Message /\ row.saved /\ Has(row.exId)
    BY <1>1, <2>1 DEF Message, InternalStatus
  <2>3. Save(h, m, row, Rest(h)) /\ UNCHANGED <<contact, calls, toRc, rc>>
    BY <1>6 DEF SaveListed
  <2> HIDE DEF row
  <2>4. QED
    BY <1>1, <2>1, <2>2, <2>3, SaveType
<1>7. CASE AdoptMessage(h)
  <2> DEFINE row == [seen EXCEPT !.exId = Item(h).x, !.ex = Raw[Item(h).ex], !.status = "sent"]
  <2>1. /\ Item(h).ex \in ExternalStatus /\ Sound(Rest(h)) /\ Item(h).x \in Ext
        /\ rc[Item(h).x].ex # "none"
    BY <1>7, ItemType DEF AdoptMessage, Lists
  <2>2. Raw[Item(h).ex] \in {Raw[e] : e \in ExternalStatus}
    BY <2>1
  <2>3. row \in Message /\ row.saved /\ Has(row.exId)
    BY <1>1, <2>1, <2>2 DEF Message, InternalStatus, Has
  <2>4. Save(h, m, row, Rest(h)) /\ UNCHANGED <<contact, calls, toRc, rc>>
    BY <1>7 DEF AdoptMessage
  <2> HIDE DEF row
  <2>5. QED
    BY <1>1, <2>1, <2>3, <2>4, SaveType
<1>8. CASE SaveQueued(h)
  <2> DEFINE row == [seen EXCEPT !.ex = run[h].call.list[1].ex]
  <2>1. Sane(run[h].call) /\ run[h].call \in Call /\ run[h].call.kind = "queued"
    BY <1>8, BusyType DEF SaveQueued, Sound, Http, State
  <2>2. run[h].call.list \in Seq(Report) /\ Len(run[h].call.list) > 0
    BY <2>1 DEF Sane, Call
  <2>3. run[h].call.list[1] \in Report
    BY <2>2
  <2>4. row \in Message /\ row.saved /\ Has(row.exId)
    BY <1>1, <2>3 DEF Message, Report
  <2>5. Save(h, m, row, Idle) /\ UNCHANGED <<contact, calls, toRc, rc>>
    BY <1>8 DEF SaveQueued
  <2> HIDE DEF row
  <2>6. QED
    BY <1>1, <2>4, <2>5, IdleType, SaveType
<1>9. CASE SaveError(h)
  <2> DEFINE row == [seen EXCEPT !.status = "error"]
  <2>1. row \in Message /\ row.saved /\ Has(row.exId)
    BY <1>1 DEF Message, InternalStatus
  <2>2. Save(h, m, row, Idle) /\ UNCHANGED <<contact, calls, toRc, rc>>
    BY <1>9 DEF SaveError
  <2> HIDE DEF row
  <2>3. QED
    BY <1>1, <2>1, <2>2, IdleType, SaveType
<1>10. QED
  BY <1>3, <1>5, <1>6, <1>7, <1>8, <1>9

(* What a handler of a list finds out of the next message of it.            *)
LEMMA FindType ==
  ASSUME TypeInv, NEW h \in Handler, FindListed(h) \/ FindSender(h)
  PROVE  TypeInv'
<1>1. /\ run[h] \in State /\ Sound(run[h]) /\ run[h].at \in {"listLookup", "listWho"}
      /\ UNCHANGED <<message, contact, calls, toRc, rc>>
  BY BusyType DEF FindListed, FindSender
<1>2. ASSUME NEW m \in Saved, NEW at \in {"listApp", "listAdopt"},
             run' = [run EXCEPT ![h] = [@ EXCEPT !.at = at, !.m = m, !.seen = message[m]]]
      PROVE  TypeInv'
  <2> DEFINE s == [run[h] EXCEPT !.at = at, !.m = m, !.seen = message[m]]
  <2>1. m \in Msg /\ message[m].saved /\ message[m] \in Message /\ Has(message[m].exId)
    BY DEF Saved, TypeInv, RowsInv
  <2>2. /\ s \in State /\ s.at = at /\ s.m = m /\ s.seen = message[m] /\ s.call = run[h].call
        /\ s.i = run[h].i /\ s.new = run[h].new
    BY <1>1, <2>1 DEF State, Place
  <2>3. run' = [run EXCEPT ![h] = s]
    BY <1>2 DEF TypeInv, RunInv
  <2> HIDE DEF s
  <2>4. Sound(s)
    BY <1>1, <2>1, <2>2 DEF Sound, Lists, Reads, Http
  <2>5. QED
    BY <1>1, <2>3, <2>4, QuietStep
<1>3. ASSUME NEW known \in [Phone -> Contact], NEW at \in {"listWho", "listNew", "listInsert"},
             run' = [run EXCEPT ![h] = [@ EXCEPT !.at = at, !.known = known]]
      PROVE  TypeInv'
  <2> DEFINE s == [run[h] EXCEPT !.at = at, !.known = known]
  <2>1. /\ s \in State /\ s.at = at /\ s.seen = run[h].seen /\ s.call = run[h].call
        /\ s.i = run[h].i /\ s.new = run[h].new
    BY <1>1 DEF State, Place
  <2>2. run' = [run EXCEPT ![h] = s]
    BY <1>3 DEF TypeInv, RunInv
  <2> HIDE DEF s
  <2>3. Sound(s)
    BY <1>1, <2>1 DEF Sound, Lists, Reads, Http
  <2>4. QED
    BY <1>1, <2>2, <2>3, QuietStep
<1>4. ASSUME NEW at \in {"listWho", "listInsert"}, run' = [run EXCEPT ![h].at = at]
      PROVE  TypeInv'
  <2>1. [run[h] EXCEPT !.at = at] = [run[h] EXCEPT !.at = at, !.known = run[h].known]
    BY <1>1 DEF State
  <2>2. run[h].known \in [Phone -> Contact]
    BY <1>1 DEF State
  <2>3. run' = [run EXCEPT ![h] = [@ EXCEPT !.at = at, !.known = run[h].known]]
    BY <1>4, <2>1 DEF TypeInv, RunInv
  <2>4. QED
    BY <1>3, <2>2, <2>3
<1>5. CASE FindListed(h)
  BY <1>2, <1>4, <1>5 DEF FindListed, WithExId
<1>6. CASE FindSender(h)
  <2>1. contact \in [Phone -> Contact]
    BY DEF TypeInv, RowsInv
  <2>2. CASE \E m \in Adoptable(Item(h).x) :
               run' = [run EXCEPT ![h] = [@ EXCEPT !.at = "listAdopt", !.m = m, !.seen = message[m]]]
    BY <1>2, <2>2 DEF Adoptable
  <2>3. CASE run' = [run EXCEPT ![h] = [@ EXCEPT !.at = "listNew", !.known = contact]]
    BY <1>3, <2>1, <2>3
  <2>4. CASE run' = [run EXCEPT ![h].at = "listInsert"]
    BY <1>4, <2>4
  <2>5. QED
    BY <1>6, <2>2, <2>3, <2>4 DEF FindSender
<1>7. QED
  BY <1>5, <1>6

(* New rows are committed by a handler.                                     *)
LEMMA CommitType ==
  ASSUME TypeInv, NEW h \in Handler, NEW M \in SUBSET Msg, message' \in [Msg -> Message],
         \A m \in Msg \ M : message'[m] = message[m],
         \A m \in M : message'[m].saved /\ Has(message'[m].exId),
         contact' \in [Phone -> Contact], rc' = rc, toRc' = toRc, calls' = calls,
         NEW s, run' = [run EXCEPT ![h] = s], Sound(s)'
  PROVE  TypeInv'
<1>1. Onward
  BY DEF Onward
<1>2. RowsInv'
  BY DEF TypeInv, RowsInv, Has
<1>3. RcInv'
  BY <1>1 DEF TypeInv, RcInv, Onward, Rc
<1>4. QED
  BY <1>1, <1>2, <1>3, HandlerStep

LEMMA CommitCreatedType ==
  ASSUME TypeInv, NEW h \in Handler, CommitCreated(h)
  PROVE  TypeInv'
<1>1. PICK old : old = run[h]
  OBVIOUS
<1>2. PICK row : row = NewMessage(old.call.to, old.call.text)
  OBVIOUS
<1>3. PICK m \in Fresh :
        /\ message' = [message EXCEPT ![m] = row]
        /\ run' = [run EXCEPT ![h] = [@ EXCEPT !.at = "publishCreated", !.m = m]]
  BY <1>1, <1>2 DEF CommitCreated
<1> DEFINE s == [old EXCEPT !.at = "publishCreated", !.m = m]
<1>4. m \in Msg /\ old \in State /\ Sound(old) /\ old.at = "commitCreated"
  BY <1>1, BusyType DEF Fresh, CommitCreated
<1>5. old.call \in Call
  BY <1>4 DEF State
<1>6. row \in Message /\ row.saved /\ row.exId = None
  BY <1>2, <1>5, NewMessageType DEF Call
<1>7. run' = [run EXCEPT ![h] = s]
  BY <1>1, <1>3 DEF TypeInv, RunInv
<1>8. /\ message' \in [Msg -> Message] /\ message'[m] = row
      /\ \A n \in Msg \ {m} : message'[n] = message[n]
  BY <1>3, <1>4, <1>6 DEF TypeInv, RowsInv
<1>9. Onward
  BY <1>6, <1>8 DEF Onward, CommitCreated
<1>10. Sound(old)'
  BY <1>4, <1>9, SoundStays
<1>11. /\ s \in State /\ s.at = "publishCreated" /\ s.m = m /\ s.seen = old.seen
       /\ s.call = old.call /\ s.new = old.new
  BY <1>4 DEF State, Place
<1> HIDE DEF s
<1>12. Sound(s)'
  BY <1>4, <1>6, <1>8, <1>10, <1>11 DEF Sound, Http, Lists, Reads
<1>13. contact' \in [Phone -> Contact] /\ UNCHANGED <<rc, toRc, calls>>
  BY DEF CommitCreated, TypeInv, RowsInv
<1>14. \A n \in {m} : message'[n].saved /\ Has(message'[n].exId)
  BY <1>6, <1>8 DEF Has
<1>15. PICK M \in SUBSET Msg : M = {m}
  BY <1>4
<1>16. QED
  BY <1>7, <1>8, <1>12, <1>13, <1>14, <1>15, CommitType

LEMMA WithLinksType ==
  ASSUME TypeInv, NEW P
  PROVE  WithLinks(P) \in [Phone -> Contact]
BY DEF WithLinks, TypeInv, RowsInv, Contact

LEMMA CommitComposedType ==
  ASSUME TypeInv, NEW h \in Handler, CommitComposed(h)
  PROVE  TypeInv'
<1>1. PICK old : old = run[h]
  OBVIOUS
<1> DEFINE new == old.new
           s == [old EXCEPT !.at = "publishComposed"]
<1>2. /\ old \in State /\ Sound(old) /\ old.at = "commitComposed" /\ DOMAIN new \subseteq Msg
      /\ \A m \in DOMAIN new : new[m] \in Message /\ new[m].saved /\ new[m].exId = None
  BY <1>1, BusyType DEF CommitComposed, Sound
<1>3. /\ message' \in [Msg -> Message] /\ \A m \in DOMAIN new : message'[m] = new[m]
      /\ \A m \in Msg \ DOMAIN new : message'[m] = message[m]
  BY <1>1, <1>2 DEF CommitComposed, TypeInv, RowsInv
<1>4. run' = [run EXCEPT ![h] = s]
  BY <1>1 DEF CommitComposed, TypeInv, RunInv
<1>5. Onward
  BY <1>2, <1>3 DEF Onward, CommitComposed
<1>6. Sound(old)'
  BY <1>2, <1>5, SoundStays
<1>7. s \in State /\ s.at = "publishComposed" /\ s.seen = old.seen /\ s.new = new
  BY <1>2 DEF State, Place
<1> HIDE DEF s
<1>8. Sound(s)'
  BY <1>2, <1>3, <1>6, <1>7 DEF Sound, Http, Lists, Reads
<1>9. contact' \in [Phone -> Contact] /\ UNCHANGED <<rc, toRc, calls>>
  BY WithLinksType DEF CommitComposed
<1>10. \A m \in DOMAIN new : message'[m].saved /\ Has(message'[m].exId)
  BY <1>2, <1>3 DEF Has
<1>11. PICK M \in SUBSET Msg : M = DOMAIN new
  BY <1>2
<1> HIDE DEF new
<1>12. QED
  BY <1>3, <1>4, <1>8, <1>9, <1>10, <1>11, CommitType

(* A row for a message of a softphone.                                      *)
LEMMA InsertRowType ==
  ASSUME TypeInv, NEW h \in Handler, run[h].at \in Lists, InsertRow(h), UNCHANGED <<calls, toRc, rc>>
  PROVE  TypeInv'
<1> DEFINE row == SoftphoneMessage(Item(h))
<1>1. PICK m \in Fresh : message' = [message EXCEPT ![m] = row]
  BY DEF InsertRow
<1>2. m \in Msg
  BY DEF Fresh
<1>3. /\ Item(h).x \in Ext /\ Item(h).ex \in ExternalStatus /\ rc[Item(h).x].ex # "none"
      /\ Sound(Rest(h))
  BY ItemType
<1>4. rc[Item(h).x].to \in Phone /\ rc[Item(h).x].text \in Text
  BY <1>3 DEF TypeInv, RcInv, Rc
<1>5. StatusOfNew[Item(h).ex] \in InternalStatus
  BY <1>3 DEF StatusOfNew, InternalStatus, ExternalStatus
<1>6. row \in Message /\ row.saved /\ row.exId = Item(h).x
  BY <1>3, <1>4, <1>5 DEF SoftphoneMessage, Message
<1> HIDE DEF row
<1>7. /\ message' \in [Msg -> Message] /\ message'[m] = row
      /\ \A n \in Msg \ {m} : message'[n] = message[n]
  BY <1>1, <1>2, <1>6 DEF TypeInv, RowsInv
<1>8. Onward
  BY <1>6, <1>7 DEF Onward
<1>9. \A n \in {m} : message'[n].saved /\ Has(message'[n].exId)
  BY <1>3, <1>6, <1>7 DEF Has
<1>10. contact' \in [Phone -> Contact] /\ run' = [run EXCEPT ![h] = Rest(h)]
  BY WithLinksType DEF InsertRow
<1>11. PICK next : next = Rest(h)
  OBVIOUS
<1>12. run' = [run EXCEPT ![h] = next] /\ Sound(next)
  BY <1>3, <1>10, <1>11
<1>13. Sound(next)'
  BY <1>8, <1>12, SoundStays
<1>14. PICK M \in SUBSET Msg : M = {m}
  BY <1>2
<1>15. QED
  BY <1>7, <1>9, <1>10, <1>12, <1>13, <1>14, CommitType

LEMMA InsertsType ==
  ASSUME TypeInv, NEW h \in Handler, InsertForStranger(h) \/ InsertForOther(h) \/ InsertForMember(h)
  PROVE  TypeInv'
<1>1. run[h].at \in Lists /\ UNCHANGED <<calls, toRc, rc>>
  BY DEF InsertForStranger, InsertForOther, InsertForMember, Newcomer, Lists
<1>2. InsertRow(h) \/ RefuseRow(h)
  BY DEF InsertForStranger, InsertForOther, InsertForMember
<1>3. CASE RefuseRow(h)
  BY <1>1, <1>3, IdleType, QuietStep DEF RefuseRow, Nack
<1>4. QED
  BY <1>1, <1>2, <1>3, InsertRowType

(* A composed message is written, refused or rolled back.                   *)
LEMMA ComposeType ==
  ASSUME TypeInv, NEW h \in Handler, WriteComposed(h) \/ RefuseComposed(h) \/ RollBackComposed(h)
  PROVE  TypeInv'
<1>1. CASE WriteComposed(h)
  <2> DEFINE s == [run[h] EXCEPT !.at = "commitComposed"]
  <2>1. run[h] \in State /\ Sound(run[h])
    BY BusyType
  <2>2. run' = [run EXCEPT ![h] = s]
    BY <1>1 DEF WriteComposed, TypeInv, RunInv
  <2>3. s \in State /\ s.at = "commitComposed" /\ s.seen = run[h].seen /\ s.new = run[h].new
    BY <2>1 DEF State, Place
  <2> HIDE DEF s
  <2>4. Sound(s)
    BY <2>1, <2>3 DEF Sound, Http, Lists, Reads
  <2>5. QED
    BY <1>1, <2>2, <2>4, QuietStep DEF WriteComposed
<1>2. CASE RefuseComposed(h) \/ RollBackComposed(h)
  BY <1>2, IdleType, QuietStep DEF RefuseComposed, RollBackComposed
<1>3. QED
  BY <1>1, <1>2

LEMMA RollBackCreatedType ==
  ASSUME TypeInv, NEW h \in Handler, RollBackCreated(h)
  PROVE  TypeInv'
  BY IdleType, QuietStep DEF RollBackCreated

(* Messages are handed over.                                                *)
LEMMA PublishType ==
  ASSUME TypeInv, NEW h \in Handler, PublishCreated(h) \/ PublishComposed(h)
  PROVE  TypeInv'
<1>1. PICK M \in SUBSET Msg : toRc' = toRc \cup M /\ \A m \in M : message[m].saved
  <2>1. CASE PublishCreated(h)
    <3>1. run[h].m \in Msg /\ message[run[h].m].saved
      BY <2>1, BusyType DEF PublishCreated, Sound
    <3>2. toRc' = toRc \cup {run[h].m}
      BY <2>1 DEF PublishCreated
    <3>3. {run[h].m} \in SUBSET Msg /\ \A m \in {run[h].m} : message[m].saved
      BY <3>1
    <3>4. QED
      BY <3>2, <3>3
  <2>2. CASE PublishComposed(h)
    <3>1. DOMAIN run[h].new \subseteq Msg /\ \A m \in DOMAIN run[h].new : message[m].saved
      BY <2>2, BusyType DEF PublishComposed, Sound
    <3>2. toRc' = toRc \cup DOMAIN run[h].new
      BY <2>2 DEF PublishComposed
    <3>3. QED
      BY <3>1, <3>2
  <2>3. QED
    BY <2>1, <2>2
<1>2. /\ run' = [run EXCEPT ![h] = Idle] /\ UNCHANGED <<message, contact, rc, calls>>
  BY DEF PublishCreated, PublishComposed
<1>3. Onward /\ RowsInv' /\ RcInv'
  BY <1>1, <1>2 DEF Onward, TypeInv, RowsInv, RcInv, Has
<1>4. Sound(Idle)'
  BY <1>3, IdleType, SoundStays
<1>5. QED
  BY <1>2, <1>3, <1>4, HandlerStep

LEMMA ProceedType ==
  ASSUME TypeInv, NEW h \in Handler, Proceed(h) \/ Fail(h)
  PROVE  TypeInv'
BY SavesType, FindType, InsertsType, CommitCreatedType, CommitComposedType, ComposeType,
   PublishType, RollBackCreatedType DEF Proceed, Fail

-----------------------------------------------------------------------------
(* RingCentral and restarts *)

LEMMA TakeType ==
  ASSUME TypeInv, NEW m \in Msg, NEW x \in Ext, RcTake(m, x)
  PROVE  TypeInv'
<1> DEFINE item == [x |-> x, ex |-> "queued"]
           list == <<item>>
           c == Asked("answer", m, list)
<1>1. /\ m \in toRc /\ toRc' = toRc \ {m} /\ UNCHANGED <<message, contact, run>>
      /\ rc' = [rc EXCEPT ![x] = [ex |-> "queued", of |-> m, to |-> message[m].to,
                                   text |-> message[m].text]]
      /\ calls' = calls \cup {c}
  BY DEF RcTake
<1>2. message[m].saved /\ message[m].to \in Phone /\ message[m].text \in Text
  BY <1>1 DEF TypeInv, RcInv, RowsInv, Message
<1>3. \A y \in Ext : rc'[y] = IF y = x THEN [ex |-> "queued", of |-> m, to |-> message[m].to,
                                              text |-> message[m].text]
                               ELSE rc[y]
  BY <1>1 DEF TypeInv, RcInv
<1>4. rc' \in [Ext -> Rc]
  BY <1>1, <1>2 DEF TypeInv, RcInv, Rc, ExternalStatus
<1>5. Onward
  BY <1>1, <1>3 DEF Onward
<1>6. RcInv'
  BY <1>1, <1>2, <1>3, <1>4 DEF TypeInv, RcInv
<1>7. item \in Report
  BY DEF Report, ExternalStatus
<1> HIDE DEF item
<1>8. list \in Seq(Report) /\ Len(list) = 1 /\ list[1] = item
  BY <1>7
<1> HIDE DEF list
<1>9. c \in Call /\ c.kind = "answer" /\ c.m = m /\ c.list = list
  BY <1>8, AskedType
<1> HIDE DEF c
<1>10. item.x = x
  BY DEF item
<1>11. PICK d : d = c
  OBVIOUS
<1>12. Sane(d)'
  <2>1. message'[m].saved
    BY <1>1, <1>2
  <2>2. d \in Call /\ d.kind = "answer" /\ d.m = m /\ Len(d.list) = 1 /\ d.list[1].x = x
    BY <1>8, <1>9, <1>10, <1>11
  <2>3. rc'[x].ex # "none"
    BY <1>3
  <2>4. QED
    BY <2>1, <2>2, <2>3 DEF Sane
<1>13. QED
  BY <1>1, <1>5, <1>6, <1>11, <1>12, OutsideStep

LEMMA RejectType ==
  ASSUME TypeInv, NEW m \in Msg, RcReject(m)
  PROVE  TypeInv'
<1> DEFINE list == <<>>
           c == Asked("error", m, list)
<1>1. /\ m \in toRc /\ toRc' = toRc \ {m} /\ UNCHANGED <<message, contact, run, rc>>
      /\ calls' = calls \cup {c}
  BY DEF RcReject
<1>2. message[m].saved /\ Onward /\ RcInv'
  BY <1>1 DEF TypeInv, RcInv, Onward
<1>3. list \in Seq(Report) /\ Len(list) = 0
  OBVIOUS
<1> HIDE DEF list
<1>4. c \in Call /\ c.kind = "error" /\ c.m = m /\ c.list = list
  BY <1>3, NoMessageType DEF Asked, Call
<1> HIDE DEF c
<1>5. Sane(c)
  BY <1>2, <1>3, <1>4 DEF Sane
<1>6. \A d \in calls' : d \in calls \/ Sane(d)'
  BY <1>1, <1>2, <1>5, SaneStays
<1>7. QED
  BY <1>1, <1>2, <1>6, OutsideStep

LEMMA FinishType ==
  ASSUME TypeInv, NEW x \in Ext, RcFinish(x) \/ \E p \in Phone, t \in Text : Softphone(p, t, x)
  PROVE  TypeInv'
<1>1. UNCHANGED <<message, contact, run, calls, toRc>>
  BY DEF RcFinish, Softphone
<1>2. PICK r \in Rc : /\ rc' = [rc EXCEPT ![x] = r] /\ r.ex # "none"
                      /\ r.of \in {None, rc[x].of}
  <2>1. CASE RcFinish(x)
    <3>1. PICK e \in {"delivered", "failed"} : rc' = [rc EXCEPT ![x].ex = e]
      BY <2>1 DEF RcFinish
    <3>2. rc' = [rc EXCEPT ![x] = [rc[x] EXCEPT !.ex = e]]
      BY <3>1 DEF TypeInv, RcInv
    <3>3. rc[x] \in Rc
      BY DEF TypeInv, RcInv
    <3>4. /\ [rc[x] EXCEPT !.ex = e] \in Rc /\ [rc[x] EXCEPT !.ex = e].ex # "none"
          /\ [rc[x] EXCEPT !.ex = e].of = rc[x].of
      BY <3>3 DEF Rc, ExternalStatus
    <3>5. QED
      BY <3>2, <3>4
  <2>2. ASSUME NEW p \in Phone, NEW t \in Text, Softphone(p, t, x)
        PROVE  \E r \in Rc : /\ rc' = [rc EXCEPT ![x] = r] /\ r.ex # "none"
                             /\ r.of \in {None, rc[x].of}
    <3>1. [ex |-> "queued", of |-> None, to |-> p, text |-> t] \in Rc
      BY DEF Rc, ExternalStatus
    <3>2. QED
      BY <2>2, <3>1 DEF Softphone
  <2>3. QED
    BY <2>1, <2>2
<1>3. /\ rc' \in [Ext -> Rc]
      /\ \A y \in Ext : rc'[y] = IF y = x THEN r ELSE rc[y]
  BY <1>2 DEF TypeInv, RcInv
<1>4. Onward
  BY <1>1, <1>2, <1>3 DEF Onward
<1>5. RcInv'
  BY <1>1, <1>2, <1>3 DEF TypeInv, RcInv
<1>6. QED
  BY <1>1, <1>4, <1>5, OutsideStep

(* Lists of messages that RingCentral has.                                  *)
LEMMA SaneList ==
  ASSUME TypeInv, NEW kind \in {"list", "queued"}, NEW list \in Seq(Report), Len(list) > 0,
         \A i \in 1..Len(list) : rc[list[i].x].ex # "none"
  PROVE  Sane(Asked(kind, None, list))
<1> DEFINE c == Asked(kind, None, list)
<1>1. c \in Call /\ c.kind = kind /\ c.m = None /\ c.list = list
  BY AskedType
<1> HIDE DEF c
<1>2. Sane(c)
  BY <1>1 DEF Sane
<1>3. QED
  BY <1>2 DEF c

LEMMA ListType ==
  ASSUME TypeInv, (\E x \in Known : RcList(<<x>>)) \/ \E x, y \in Known : x # y /\ RcList(<<x, y>>)
  PROVE  TypeInv'
<1>1. PICK xs \in Seq(Known) : Len(xs) > 0 /\ RcList(xs)
  <2>1. CASE \E x \in Known : RcList(<<x>>)
    <3>1. PICK x \in Known : RcList(<<x>>)
      BY <2>1
    <3> DEFINE xs == <<x>>
    <3>2. xs \in Seq(Known) /\ Len(xs) > 0
      OBVIOUS
    <3>3. RcList(xs)
      BY <3>1
    <3> HIDE DEF xs
    <3>4. QED
      BY <3>2, <3>3
  <2>2. CASE \E x, y \in Known : x # y /\ RcList(<<x, y>>)
    <3>1. PICK x, y \in Known : RcList(<<x, y>>)
      BY <2>2
    <3> DEFINE xs == <<x, y>>
    <3>2. xs \in Seq(Known) /\ Len(xs) > 0
      OBVIOUS
    <3>3. RcList(xs)
      BY <3>1
    <3> HIDE DEF xs
    <3>4. QED
      BY <3>2, <3>3
  <2>3. QED
    BY <2>1, <2>2
<1> DEFINE list == [i \in 1..Len(xs) |-> [x |-> xs[i], ex |-> rc[xs[i]].ex]]
<1>2. \A i \in 1..Len(xs) : xs[i] \in Known
  OBVIOUS
<1>3. \A x \in Known : x \in Ext /\ rc[x].ex # "none" /\ rc[x].ex \in ExternalStatus
  BY DEF Known, TypeInv, RcInv, Rc
<1>4. \A i \in 1..Len(xs) : list[i] \in Report /\ list[i].x = xs[i]
  BY <1>2, <1>3 DEF Report
<1>5. list \in Seq(Report) /\ Len(list) = Len(xs)
  BY <1>4
<1>6. calls' = calls \cup {Asked("list", None, list)} /\ UNCHANGED <<message, contact, run, toRc, rc>>
  BY <1>1 DEF RcList
<1>7. \A i \in 1..Len(list) : rc[list[i].x].ex # "none"
  BY <1>2, <1>3, <1>4, <1>5
<1> HIDE DEF list
<1>8. Sane(Asked("list", None, list))
  BY <1>1, <1>5, <1>7, SaneList
<1>9. Onward /\ RcInv'
  BY <1>6 DEF Onward, TypeInv, RcInv
<1>10. \A d \in calls' : d \in calls \/ Sane(d)'
  BY <1>6, <1>8, <1>9, SaneStays
<1>11. QED
  BY <1>6, <1>9, <1>10, OutsideStep

LEMMA SyncType ==
  ASSUME TypeInv, SyncQueuedMessage
  PROVE  TypeInv'
<1>1. PICK M \in SUBSET {m \in Saved : message[m].ex = "queued"} :
        calls' = calls \cup
          {Asked("queued", None, <<[x |-> x, ex |-> rc[x].ex]>>) :
             x \in {y \in Ext : rc[y].ex # "queued" /\ \E m \in M : message[m].exId = y}}
  BY DEF SyncQueuedMessage
<1>2. UNCHANGED <<message, contact, run, toRc, rc>>
  BY DEF SyncQueuedMessage
<1>3. ASSUME NEW x \in Ext, NEW m \in M, message[m].exId = x
      PROVE  Sane(Asked("queued", None, <<[x |-> x, ex |-> rc[x].ex]>>))
  <2> DEFINE item == [x |-> x, ex |-> rc[x].ex]
  <2>1. m \in Msg /\ x # None
    BY ConstantsAssumption DEF Saved
  <2>2. rc[x].ex # "none" /\ rc[x] \in Rc
    BY <1>3, <2>1 DEF TypeInv, RowsInv, RcInv, Has
  <2>3. item \in Report /\ item.x = x
    BY <2>2 DEF Report, Rc
  <2> HIDE DEF item
  <2> DEFINE list == <<item>>
  <2>4. list \in Seq(Report) /\ Len(list) = 1 /\ \A i \in 1..1 : list[i] = item
    BY <2>3
  <2> HIDE DEF list
  <2>5. Sane(Asked("queued", None, list))
    BY <2>2, <2>3, <2>4, SaneList
  <2>6. QED
    BY <2>5 DEF item, list
<1>4. Onward /\ RcInv'
  BY <1>2 DEF Onward, TypeInv, RcInv
<1>5. \A d \in calls' : d \in calls \/ Sane(d)
  BY <1>1, <1>3
<1>6. \A d \in calls' : d \in calls \/ Sane(d)'
  BY <1>4, <1>5, SaneStays
<1>7. QED
  BY <1>2, <1>4, <1>6, OutsideStep

LEMMA RestartType ==
  ASSUME TypeInv, Restart
  PROVE  TypeInv'
<1>1. /\ run' = [h \in Handler |-> Idle] /\ UNCHANGED <<message, contact, toRc, rc>>
      /\ \A c \in calls' : \/ c \in calls
                           \/ \E h \in Handler : /\ c = run[h].call
                                                 /\ run[h].at \notin {"idle"} \cup Http
  BY DEF Restart, Http
<1>2. Onward /\ RowsInv' /\ RcInv'
  BY <1>1 DEF Onward, TypeInv, RowsInv, RcInv, Has
<1>3. \A c \in calls' : Sane(c)
  BY <1>1, BusyType DEF Sound, TypeInv, CallInv
<1>4. CallInv'
  BY <1>2, <1>3, SaneStays DEF CallInv
<1>5. Sound(Idle)'
  BY <1>2, IdleType, SoundStays
<1>6. RunInv'
  BY <1>1, <1>5, IdleType DEF RunInv
<1>7. QED
  BY <1>2, <1>4, <1>6 DEF TypeInv

LEMMA TypeStep ==
  ASSUME TypeInv, [Next]_vars
  PROVE  TypeInv'
<1>1. CASE Users
  BY <1>1, WriteType, BeginComposeType, BeginEditType DEF Users
<1>2. CASE RingCentral
  BY <1>2, TakeType, RejectType, FinishType, ListType DEF RingCentral
<1>3. ASSUME NEW h \in Handler, NEW c \in calls, Receive(h, c) PROVE TypeInv'
  BY <1>3, ReceiveType
<1>4. ASSUME NEW h \in Handler, Proceed(h) \/ Fail(h) PROVE TypeInv'
  BY <1>4, ProceedType
<1>5. CASE UNCHANGED vars
  BY <1>5 DEF vars, TypeInv, RowsInv, RcInv, RunInv, CallInv, Sound, Sane, Has
<1>6. QED
  BY <1>1, <1>2, <1>3, <1>4, <1>5, SyncType, RestartType DEF Next

(* Rows, handlers and calls keep their types, whatever RingCentral reports, *)
(* in any order, and whenever the backend restarts.                         *)
THEOREM TypeCorrect == Spec => []TypeOK
<1>1. TypeInv /\ [Next]_vars => TypeInv'
  BY TypeStep
<1>2. QED
  BY <1>1, InitType, TypeInvIsTypeOK, PTL DEF Spec

(* RingCentral is given only what is committed: the invariant says so of    *)
(* every row that is handed over, published, answered or read again.        *)
THEOREM OnlyCommittedIsGiven == Spec => []GivenIsCommitted
<1>1. TypeInv => GivenIsCommitted
  <2> SUFFICES ASSUME TypeInv, NEW m \in Msg,
                      m \in toRc \/ HandingOver(m) \/ (\E x \in Ext : rc[x].of = m)
               PROVE  message[m].saved
    BY DEF GivenIsCommitted
  <2>1. CASE m \in toRc
    BY <2>1 DEF TypeInv, RcInv
  <2>2. CASE HandingOver(m)
    BY <2>2, BusyType DEF HandingOver, Sound
  <2>3. CASE \E x \in Ext : rc[x].of = m
    BY <2>3, ConstantsAssumption DEF TypeInv, RcInv
  <2>4. QED
    BY <2>1, <2>2, <2>3
<1>2. TypeInv /\ [Next]_vars => TypeInv'
  BY TypeStep
<1>3. QED
  BY <1>1, <1>2, InitType, PTL DEF Spec

-----------------------------------------------------------------------------
(* Messages that show "sending" *)

OnWay(m) == HandingOver(m) \/ m \in toRc \/ Reported(m)

(* The handler in slot h is the reason why m is on its way.                 *)
Carries(h, m) == \/ run[h].at \in {"publishCreated", "answer", "error"} /\ run[h].m = m
                 \/ run[h].at = "publishComposed" /\ m \in DOMAIN run[h].new

LEMMA WayStays ==
  ASSUME TypeInv, NEW h \in Handler, NEW s, run' = [run EXCEPT ![h] = s],
         toRc \subseteq toRc', calls \subseteq calls', NEW m, OnWay(m), ~ Carries(h, m)
  PROVE  OnWay(m)'
<1>1. \A g \in Handler : g # h => run'[g] = run[g]
  BY BusyType
<1>2. CASE HandingOver(m)
  BY <1>1, <1>2 DEF HandingOver, OnWay, Carries
<1>3. CASE m \in toRc
  BY <1>3 DEF OnWay
<1>4. CASE Reported(m)
  BY <1>1, <1>4 DEF Reported, OnWay, Carries
<1>5. QED
  BY <1>2, <1>3, <1>4 DEF OnWay

(* What a step may do with a row that no loss befalls: leave its status and *)
(* its way, or end "sending", or set it on its way.                         *)
MayMove(m) ==
    \/ /\ message'[m].saved = message[m].saved /\ message'[m].own = message[m].own
       /\ message'[m].status = message[m].status
       /\ OnWay(m) => OnWay(m)'
    \/ ~ message'[m].own \/ message'[m].status # "sending" \/ OnWay(m)'

LEMMA SendingStays ==
  ASSUME SendingIsOnItsWay, stray \subseteq stray', \A m \in Msg \ stray' : MayMove(m)
  PROVE  SendingIsOnItsWay'
BY DEF SendingIsOnItsWay, MayMove, OnWay, Saved

(* A handler that carries nothing goes on.                                  *)
LEMMA SendingQuiet ==
  ASSUME TypeInv, SendingIsOnItsWay, NEW h \in Handler, NEW s, run' = [run EXCEPT ![h] = s],
         run[h].at \notin {"publishCreated", "publishComposed", "answer", "error"},
         message' = message, toRc' = toRc, calls \subseteq calls', stray \subseteq stray'
  PROVE  SendingIsOnItsWay'
<1>1. \A m \in Msg : ~ Carries(h, m)
  BY DEF Carries
<1>2. \A m \in Msg : OnWay(m) => OnWay(m)'
  BY <1>1, WayStays
<1>3. \A m \in Msg : MayMove(m)
  BY <1>2 DEF MayMove
<1>4. QED
  BY <1>3, SendingStays

(* A call is served: an answer or an error is then its handler's.           *)
LEMMA SendingServe ==
  ASSUME TypeInv, SendingIsOnItsWay, NEW h \in Handler, NEW c \in calls, Receive(h, c)
  PROVE  SendingIsOnItsWay'
<1>1. /\ run[h].at = "idle" /\ calls' = calls \ {c} /\ message' = message /\ toRc' = toRc
      /\ stray' = stray
  BY DEF Receive, CreateOutboundMessage, UpdateOutboundMessage, UpdateOutBoundListMessages,
         UpdateQueuedMessage, SendMessageError, Serve
<1>2. \A g \in Handler : g # h => run'[g] = run[g]
  BY BusyType DEF Receive, CreateOutboundMessage, UpdateOutboundMessage, UpdateOutBoundListMessages,
         UpdateQueuedMessage, SendMessageError, Serve
<1>3. c.kind \in {"answer", "error"} => run'[h].at = c.kind /\ run'[h].m = c.m
  <2>1. ASSUME c.kind \in {"answer", "error"} PROVE Serve(h, c, Reading(c.kind, c.m))
    BY <2>1 DEF Receive, CreateOutboundMessage, UpdateOutboundMessage, UpdateOutBoundListMessages,
         UpdateQueuedMessage, SendMessageError
  <2>2. ASSUME c.kind \in {"answer", "error"}
        PROVE  LET s == [Reading(c.kind, c.m) EXCEPT !.call = c] IN s.at = c.kind /\ s.m = c.m
    BY DEF Reading, Idle
  <2>3. QED
    BY <2>1, <2>2, BusyType DEF Serve
<1>4. ASSUME NEW m \in Msg, OnWay(m) PROVE OnWay(m)'
  <2>1. CASE HandingOver(m)
    BY <1>1, <1>2, <2>1 DEF HandingOver, OnWay
  <2>2. CASE m \in toRc
    BY <1>1, <2>2 DEF OnWay
  <2>3. CASE Reported(m)
    BY <1>1, <1>2, <1>3, <2>3 DEF Reported, OnWay
  <2>4. QED
    BY <1>4, <2>1, <2>2, <2>3 DEF OnWay
<1>5. \A m \in Msg : MayMove(m)
  BY <1>1, <1>4 DEF MayMove
<1>6. QED
  BY <1>1, <1>5, SendingStays

LEMMA SendingSaves ==
  ASSUME TypeInv, SendingIsOnItsWay, NEW h \in Handler,
         \/ SaveEdited(h) \/ SaveAnswer(h) \/ SaveListed(h) \/ AdoptMessage(h)
         \/ SaveQueued(h) \/ SaveError(h)
  PROVE  SendingIsOnItsWay'
<1> DEFINE n == run[h].m
           seen == run[h].seen
<1>1. PICK row, next :
        /\ Save(h, n, row, next) /\ toRc' = toRc /\ calls' = calls
        /\ \/ /\ run[h].at \in {"edit", "queued"} /\ row.status = seen.status
              /\ row.own = seen.own /\ row.saved = seen.saved
           \/ row.status # "sending"
        /\ run[h].at \in Reads
  <2>1. seen \in Message
    BY BusyType DEF State
  <2>2. CASE SaveEdited(h)
    BY <2>2 DEF SaveEdited, Reads
  <2>3. CASE SaveQueued(h)
    <3> DEFINE row == [seen EXCEPT !.ex = run[h].call.list[1].ex]
    <3>1. Save(h, n, row, Idle) /\ toRc' = toRc /\ calls' = calls /\ run[h].at = "queued"
      BY <2>3 DEF SaveQueued
    <3>2. row.status = seen.status /\ row.own = seen.own /\ row.saved = seen.saved
      BY <2>1 DEF Message
    <3> HIDE DEF row
    <3>3. QED
      BY <3>1, <3>2 DEF Reads
  <2>4. CASE SaveAnswer(h)
    <3> DEFINE r == run[h].call.list[1]
               row == [seen EXCEPT !.exId = r.x, !.ex = r.ex, !.status = "sent"]
    <3>1. Save(h, n, row, Idle) /\ toRc' = toRc /\ calls' = calls /\ run[h].at = "answer"
      BY <2>4 DEF SaveAnswer
    <3>2. row.status = "sent"
      BY <2>1 DEF Message
    <3> HIDE DEF row
    <3>3. QED
      BY <3>1, <3>2 DEF Reads
  <2>5. CASE SaveListed(h)
    <3> DEFINE row == [seen EXCEPT !.ex = Item(h).ex, !.status = "sent"]
    <3>1. Save(h, n, row, Rest(h)) /\ toRc' = toRc /\ calls' = calls /\ run[h].at = "listApp"
      BY <2>5 DEF SaveListed
    <3>2. row.status = "sent"
      BY <2>1 DEF Message
    <3> HIDE DEF row
    <3>3. QED
      BY <3>1, <3>2 DEF Reads
  <2>6. CASE AdoptMessage(h)
    <3> DEFINE row == [seen EXCEPT !.exId = Item(h).x, !.ex = Raw[Item(h).ex], !.status = "sent"]
    <3>1. Save(h, n, row, Rest(h)) /\ toRc' = toRc /\ calls' = calls /\ run[h].at = "listAdopt"
      BY <2>6 DEF AdoptMessage
    <3>2. row.status = "sent"
      BY <2>1 DEF Message
    <3> HIDE DEF row
    <3>3. QED
      BY <3>1, <3>2 DEF Reads
  <2>7. CASE SaveError(h)
    <3> DEFINE row == [seen EXCEPT !.status = "error"]
    <3>1. Save(h, n, row, Idle) /\ toRc' = toRc /\ calls' = calls /\ run[h].at = "error"
      BY <2>7 DEF SaveError
    <3>2. row.status = "error"
      BY <2>1 DEF Message
    <3> HIDE DEF row
    <3>3. QED
      BY <3>1, <3>2 DEF Reads
  <2>8. QED
    BY <2>2, <2>3, <2>4, <2>5, <2>6, <2>7
<1>2. /\ n \in Msg /\ stray \subseteq stray'
      /\ \E s : run' = [run EXCEPT ![h] = s]
      /\ \A m \in Msg : m # n => message'[m] = message[m]
      /\ n \notin stray' => message'[n] = row /\ message[n] = seen
  BY <1>1, BusyType DEF Save, Nack, Sound, TypeInv, RowsInv
<1>3. \A m \in Msg : m # n => ~ Carries(h, m)
  BY <1>1 DEF Carries, Reads
<1>4. run[h].at \in {"edit", "queued"} => ~ Carries(h, n)
  BY DEF Carries
<1>5. \A m \in Msg : OnWay(m) /\ ~ Carries(h, m) => OnWay(m)'
  BY <1>1, <1>2, WayStays
<1>6. \A m \in Msg \ stray' : MayMove(m)
  BY <1>1, <1>2, <1>3, <1>4, <1>5 DEF MayMove
<1>7. QED
  BY <1>2, <1>6, SendingStays

(* New rows: a user's is handed over next, a softphone's is not own.        *)
LEMMA SendingCommits ==
  ASSUME TypeInv, SendingIsOnItsWay, NEW h \in Handler,
         \/ CommitCreated(h) \/ CommitComposed(h)
         \/ InsertForStranger(h) \/ InsertForOther(h) \/ InsertForMember(h)
  PROVE  SendingIsOnItsWay'
<1>1. CASE CommitCreated(h)
  <2>1. PICK m \in Fresh :
          /\ message' = [message EXCEPT ![m] = NewMessage(run[h].call.to, run[h].call.text)]
          /\ run' = [run EXCEPT ![h] = [@ EXCEPT !.at = "publishCreated", !.m = m]]
    BY <1>1 DEF CommitCreated
  <2> DEFINE s == [run[h] EXCEPT !.at = "publishCreated", !.m = m]
  <2>2. /\ run' = [run EXCEPT ![h] = s] /\ run[h].at = "commitCreated" /\ run[h] \in State
        /\ toRc' = toRc /\ calls' = calls /\ stray' = stray
    BY <1>1, <2>1, BusyType DEF CommitCreated, TypeInv, RunInv
  <2>3. s.at = "publishCreated" /\ s.m = m
    BY <2>2 DEF State
  <2> HIDE DEF s
  <2>4. OnWay(m)'
    BY <2>2, <2>3, BusyType DEF OnWay, HandingOver
  <2>5. \A n \in Msg : OnWay(n) => OnWay(n)'
    BY <2>2, WayStays DEF Carries
  <2>6. \A n \in Msg : n # m => message'[n] = message[n]
    BY <2>1 DEF TypeInv, RowsInv
  <2>7. \A n \in Msg : MayMove(n)
    BY <2>4, <2>5, <2>6 DEF MayMove
  <2>8. QED
    BY <2>2, <2>7, SendingStays
<1>2. CASE CommitComposed(h)
  <2> DEFINE s == [run[h] EXCEPT !.at = "publishComposed"]
  <2>1. /\ run' = [run EXCEPT ![h] = s] /\ run[h].at = "commitComposed" /\ run[h] \in State
        /\ toRc' = toRc /\ calls' = calls /\ stray' = stray
    BY <1>2, BusyType DEF CommitComposed, TypeInv, RunInv
  <2>2. s.at = "publishComposed" /\ s.new = run[h].new
    BY <2>1 DEF State
  <2> HIDE DEF s
  <2>3. \A n \in DOMAIN run[h].new : OnWay(n)'
    BY <2>1, <2>2, BusyType DEF OnWay, HandingOver
  <2>4. \A n \in Msg : OnWay(n) => OnWay(n)'
    BY <2>1, WayStays DEF Carries
  <2>5. \A n \in Msg \ DOMAIN run[h].new : message'[n] = message[n]
    BY <1>2 DEF CommitComposed
  <2>6. \A n \in Msg : MayMove(n)
    BY <2>3, <2>4, <2>5 DEF MayMove
  <2>7. QED
    BY <2>1, <2>6, SendingStays
<1>3. CASE InsertForStranger(h) \/ InsertForOther(h) \/ InsertForMember(h)
  <2>1. /\ run[h].at \in {"listNew", "listInsert"} /\ toRc' = toRc /\ calls' = calls
        /\ InsertRow(h) \/ RefuseRow(h)
    BY <1>3 DEF InsertForStranger, InsertForOther, InsertForMember, Newcomer
  <2>2. CASE RefuseRow(h)
    BY <2>1, <2>2, SendingQuiet DEF RefuseRow, Nack
  <2>3. CASE InsertRow(h)
    <3>1. PICK m \in Fresh : message' = [message EXCEPT ![m] = SoftphoneMessage(Item(h))]
      BY <2>3 DEF InsertRow
    <3>2. run' = [run EXCEPT ![h] = Rest(h)] /\ stray' = stray
      BY <2>3 DEF InsertRow
    <3>3. ~ message'[m].own /\ \A n \in Msg : n # m => message'[n] = message[n]
      BY <3>1 DEF SoftphoneMessage, Fresh, TypeInv, RowsInv
    <3>4. \A n \in Msg : OnWay(n) => OnWay(n)'
      BY <2>1, <3>2, WayStays DEF Carries
    <3>5. \A n \in Msg : MayMove(n)
      BY <3>3, <3>4 DEF MayMove
    <3>6. QED
      BY <3>2, <3>5, SendingStays
  <2>4. QED
    BY <2>1, <2>2, <2>3
<1>4. QED
  BY <1>1, <1>2, <1>3

LEMMA SendingPublishes ==
  ASSUME TypeInv, SendingIsOnItsWay, NEW h \in Handler, PublishCreated(h) \/ PublishComposed(h)
  PROVE  SendingIsOnItsWay'
<1>1. /\ run' = [run EXCEPT ![h] = Idle] /\ message' = message /\ calls' = calls /\ stray' = stray
      /\ toRc \subseteq toRc' /\ \A m \in Msg : Carries(h, m) => m \in toRc'
  BY DEF PublishCreated, PublishComposed, Carries
<1>2. \A m \in Msg : OnWay(m) => OnWay(m)'
  BY <1>1, WayStays DEF OnWay
<1>3. \A m \in Msg : MayMove(m)
  BY <1>1, <1>2 DEF MayMove
<1>4. QED
  BY <1>1, <1>3, SendingStays

LEMMA SendingOutside ==
  ASSUME TypeInv, SendingIsOnItsWay,
         \/ \E p \in Phone, t \in Text : Write(p, t)
         \/ RingCentral \/ SyncQueuedMessage
  PROVE  SendingIsOnItsWay'
<1>1. /\ message' = message /\ run' = run /\ stray' = stray /\ calls \subseteq calls'
  BY DEF Write, RingCentral, RcTake, RcReject, RcFinish, Softphone, RcList, SyncQueuedMessage
<1>2. \A m \in toRc : m \in toRc' \/ \E c \in calls' : c.m = m /\ c.kind \in {"answer", "error"}
  <2>1. ASSUME NEW m \in Msg, RcReject(m)
        PROVE  \A n \in toRc : n \in toRc' \/ \E c \in calls' : c.m = n /\ c.kind \in {"answer", "error"}
    <3> DEFINE c == Asked("error", m, <<>>)
    <3>1. c.m = m /\ c.kind = "error"
      BY DEF Asked
    <3> HIDE DEF c
    <3>2. toRc' = toRc \ {m} /\ calls' = calls \cup {c}
      BY <2>1 DEF RcReject, c
    <3>3. QED
      BY <3>1, <3>2
  <2>2. ASSUME NEW m \in Msg, NEW x \in Ext, RcTake(m, x)
        PROVE  \A n \in toRc : n \in toRc' \/ \E c \in calls' : c.m = n /\ c.kind \in {"answer", "error"}
    <3> DEFINE c == Asked("answer", m, <<[x |-> x, ex |-> "queued"]>>)
    <3>1. c.m = m /\ c.kind = "answer"
      BY DEF Asked
    <3> HIDE DEF c
    <3>2. toRc' = toRc \ {m} /\ calls' = calls \cup {c}
      BY <2>2 DEF RcTake, c
    <3>3. QED
      BY <3>1, <3>2
  <2>3. QED
    BY <2>1, <2>2 DEF Write, RingCentral, RcFinish, Softphone, RcList, SyncQueuedMessage
<1>3. \A m \in Msg : OnWay(m) => OnWay(m)'
  BY <1>1, <1>2 DEF OnWay, HandingOver, Reported
<1>4. \A m \in Msg : MayMove(m)
  BY <1>1, <1>3 DEF MayMove
<1>5. QED
  BY <1>1, <1>4, SendingStays

(* A restart delivers the answers again, and loses the rest.                *)
LEMMA SendingRestart ==
  ASSUME TypeInv, SendingIsOnItsWay, Restart
  PROVE  SendingIsOnItsWay'
<1>1. /\ message' = message /\ toRc' = toRc /\ calls \subseteq calls' /\ stray \subseteq stray'
      /\ \A h \in Handler :
           /\ run[h].at \in {"publishCreated", "error"} => run[h].m \in stray'
           /\ run[h].at = "publishComposed" => DOMAIN run[h].new \subseteq stray'
           /\ run[h].at = "answer" => run[h].call \in calls'
  BY DEF Restart
<1>2. \A h \in Handler : run[h].at = "answer" => run[h].call.kind = "answer" /\ run[h].call.m = run[h].m
  BY BusyType DEF Sound
<1>3. \A m \in Msg \ stray' : OnWay(m) => OnWay(m)'
  BY <1>1, <1>2 DEF OnWay, HandingOver, Reported
<1>4. \A m \in Msg \ stray' : MayMove(m)
  BY <1>1, <1>3 DEF MayMove
<1>5. QED
  BY <1>1, <1>4, SendingStays

LEMMA SendingStep ==
  ASSUME TypeInv, SendingIsOnItsWay, [Next]_vars
  PROVE  SendingIsOnItsWay'
<1>1. CASE \/ \E h \in Handler, S \in SUBSET Phone \ {{}}, t \in Text : CreateComposeMessages(h, S, t)
         \/ \E h \in Handler, m \in Msg : EditMessage(h, m)
  BY <1>1, SendingQuiet DEF CreateComposeMessages, EditMessage
<1>2. ASSUME NEW h \in Handler, Proceed(h) \/ Fail(h) PROVE SendingIsOnItsWay'
  <2>1. CASE \/ WriteComposed(h) \/ RefuseComposed(h) \/ RollBackComposed(h) \/ RollBackCreated(h)
             \/ FindListed(h) \/ FindSender(h)
    BY <2>1, SendingQuiet DEF WriteComposed, RefuseComposed, RollBackComposed, RollBackCreated,
                              FindListed, FindSender
  <2>2. QED
    BY <1>2, <2>1, SendingSaves, SendingCommits, SendingPublishes DEF Proceed, Fail
<1>3. CASE UNCHANGED vars
  BY <1>3 DEF vars, SendingIsOnItsWay, Saved, HandingOver, Reported
<1>4. CASE Users
  BY <1>1, <1>4, SendingOutside DEF Users
<1>5. CASE RingCentral \/ SyncQueuedMessage
  BY <1>5, SendingOutside
<1>6. ASSUME NEW h \in Handler, NEW c \in calls, Receive(h, c) PROVE SendingIsOnItsWay'
  BY <1>6, SendingServe
<1>7. CASE Restart
  BY <1>7, SendingRestart
<1>8. QED
  BY <1>2, <1>3, <1>4, <1>5, <1>6, <1>7 DEF Next

(* A message of a user that shows "sending" is on its way, unless a stale   *)
(* copy, a refused save or a restart befell it.                             *)
THEOREM SendingMessagesAreOnTheirWay == Spec => []SendingIsOnItsWay
<1>1. Init => SendingIsOnItsWay
  BY NoMessageType DEF Init, SendingIsOnItsWay, Saved
<1>2. TypeInv /\ SendingIsOnItsWay /\ [Next]_vars => TypeInv' /\ SendingIsOnItsWay'
  BY TypeStep, SendingStep
<1>3. QED
  BY <1>1, <1>2, InitType, PTL DEF Spec

-----------------------------------------------------------------------------
(* Answers.  A row is handed over once, by the handler that committed it;   *)
(* RingCentral takes it under one exId or refuses it, and its answer names  *)
(* that exId, however often it is delivered.                                *)

(* The calls that wait, and those that a restart delivers again.            *)
Pending == calls \cup {run[h].call : h \in {g \in Handler : run[g].at \notin {"idle"} \cup Http}}

Gives(h, m) == \/ run[h].at = "publishCreated" /\ run[h].m = m
               \/ run[h].at = "publishComposed" /\ m \in DOMAIN run[h].new
Sent(m)     == \E x \in Ext : rc[x].of = m
Refused(m)  == \E c \in Pending : c.kind = "error" /\ c.m = m

(* Rows that are composed are nobody else's, and no rows yet.               *)
DraftInv ==
    /\ \A h, g \in Handler : h # g => DOMAIN run[h].new \cap DOMAIN run[g].new = {}
    /\ \A h \in Handler : run[h].at # "publishComposed" => DOMAIN run[h].new \cap Saved = {}

OnceInv ==
    /\ \A m \in Msg : \A h, g \in Handler : Gives(h, m) /\ Gives(g, m) => h = g
    /\ \A m \in Msg : HandingOver(m) => m \notin toRc /\ ~ Sent(m) /\ ~ Refused(m)
    /\ \A m \in toRc : ~ Sent(m) /\ ~ Refused(m)
    /\ \A m \in Msg : ~ (Sent(m) /\ Refused(m))
    /\ \A x, y \in Ext : rc[x].of # None /\ rc[x].of = rc[y].of => x = y
    /\ \A c \in Pending : c.kind = "answer" => rc[c.list[1].x].of = c.m

(* What a handler remembers of the row and the call it serves.              *)
Recalls(s) == /\ s.at = "listAdopt" => s.seen.exId = None
              /\ s.at = "error" => s.call.kind = "error" /\ s.m = s.call.m

AnswerInv == DraftInv /\ OnceInv /\ (\A h \in Handler : Recalls(run[h])) /\ AnswerBinds

LEMMA HandingOverGives ==
  ASSUME NEW m
  PROVE  HandingOver(m) <=> \E h \in Handler : Gives(h, m)
BY DEF HandingOver, Gives

LEMMA PendingType ==
  ASSUME TypeInv, NEW c \in Pending
  PROVE  /\ Sane(c)
         /\ c.kind \in {"answer", "error"} => c.m \in Msg /\ message[c.m].saved
         /\ c.kind = "answer" => c.list[1].x \in Ext /\ rc[c.list[1].x].ex # "none"
<1>1. Sane(c)
  BY BusyType DEF Pending, TypeInv, CallInv, Sound
<1>2. c.kind \in {"answer", "error"} => c.m \in Msg /\ message[c.m].saved
  BY <1>1, ConstantsAssumption DEF Sane
<1>3. ASSUME c.kind = "answer" PROVE c.list[1].x \in Ext /\ rc[c.list[1].x].ex # "none"
  <2>1. c.list \in Seq(Report) /\ Len(c.list) > 0 /\ Len(c.list) \in Nat
    BY <1>1, <1>3 DEF Sane, Call
  <2>2. 1 \in 1..Len(c.list) /\ c.list[1] \in Report
    BY <2>1
  <2>3. QED
    BY <1>1, <2>2 DEF Sane, Report
<1>4. QED
  BY <1>1, <1>2, <1>3

(* Nothing has happened to a row that is not committed.                     *)
LEMMA NothingYet ==
  ASSUME TypeInv, NEW m \in Msg, ~ message[m].saved
  PROVE  m \notin toRc /\ ~ Sent(m) /\ ~ Refused(m) /\ \A h \in Handler : ~ Gives(h, m)
<1>1. m \notin toRc
  BY DEF TypeInv, RcInv
<1>2. ~ Sent(m)
  BY ConstantsAssumption DEF TypeInv, RcInv, Sent
<1>3. ~ Refused(m)
  BY PendingType DEF Refused
<1>4. \A h \in Handler : ~ Gives(h, m)
  BY BusyType DEF Gives, Sound
<1>5. QED
  BY <1>1, <1>2, <1>3, <1>4

(* A step that hands over nothing but rows that h commits.                  *)
LEMMA OnceStays ==
  ASSUME TypeInv, OnceInv, NEW h,
         \A g \in Handler, m \in Msg : Gives(g, m)' => Gives(g, m) \/ (g = h /\ ~ message[m].saved),
         toRc' \subseteq toRc,
         \A x \in Ext : rc'[x].of \in {None, rc[x].of},
         \A x \in Ext : rc[x].ex # "none" => rc'[x].of = rc[x].of,
         \A c \in Pending' : c \in Pending \/ c.kind \notin {"answer", "error"}
  PROVE  OnceInv'
<1>1. /\ toRc \subseteq Msg /\ None \notin Msg
      /\ \A m : Sent(m)' /\ m # None => Sent(m)
      /\ \A m : Refused(m)' => Refused(m)
  BY ConstantsAssumption DEF Sent, Refused, TypeInv, RcInv
<1>2. \A m \in Msg : \A f, g \in Handler : Gives(f, m)' /\ Gives(g, m)' => f = g
  BY NothingYet DEF OnceInv
<1>3. ASSUME NEW m \in Msg, NEW g \in Handler, Gives(g, m)'
      PROVE  m \notin toRc' /\ ~ Sent(m)' /\ ~ Refused(m)'
  <2>1. m \notin toRc /\ ~ Sent(m) /\ ~ Refused(m)
    <3>1. CASE Gives(g, m)
      BY <3>1, HandingOverGives DEF OnceInv
    <3>2. CASE ~ message[m].saved
      BY <3>2, NothingYet
    <3>3. QED
      BY <1>3, <3>1, <3>2
  <2>2. QED
    BY <1>1, <2>1
<1>4. \A m \in Msg : HandingOver(m)' => m \notin toRc' /\ ~ Sent(m)' /\ ~ Refused(m)'
  BY <1>3 DEF HandingOver, Gives
<1>5. \A m \in toRc' : ~ Sent(m)' /\ ~ Refused(m)'
  BY <1>1 DEF OnceInv
<1>6. \A m \in Msg : ~ (Sent(m)' /\ Refused(m)')
  BY <1>1 DEF OnceInv
<1>7. \A x, y \in Ext : rc'[x].of # None /\ rc'[x].of = rc'[y].of => x = y
  BY DEF OnceInv
<1>8. \A c \in Pending' : c.kind = "answer" => rc'[c.list[1].x].of = c.m
  BY PendingType DEF OnceInv
<1>9. QED
  BY <1>2, <1>4, <1>5, <1>6, <1>7, <1>8 DEF OnceInv

LEMMA PendingStays ==
  ASSUME TypeInv, NEW h \in Handler, NEW s, run' = [run EXCEPT ![h] = s],
         calls' \subseteq Pending,
         s.at \in {"idle"} \cup Http \/ s.call \in Pending
  PROVE  Pending' \subseteq Pending
<1>1. run'[h] = s /\ \A g \in Handler : g # h => run'[g] = run[g]
  BY BusyType
<1>2. ASSUME NEW g \in Handler, run'[g].at \notin {"idle"} \cup Http PROVE run'[g].call \in Pending
  <2>1. CASE g = h
    BY <1>1, <1>2, <2>1
  <2>2. CASE g # h
    BY <1>1, <1>2, <2>2 DEF Pending
  <2>3. QED
    BY <2>1, <2>2
<1>3. QED
  BY <1>2 DEF Pending

(* The drafts of one handler go on, are given up, committed, or begun.      *)
LEMMA DraftsStay ==
  ASSUME TypeInv, DraftInv, NEW h \in Handler, NEW s, run' = [run EXCEPT ![h] = s],
         \/ DOMAIN s.new = {}
         \/ DOMAIN s.new \subseteq Fresh /\ message' = message
         \/ DOMAIN s.new = DOMAIN run[h].new /\ run[h].at # "publishComposed",
         \A m \in Msg : message'[m].saved =>
            \/ message[m].saved
            \/ m \notin Drafts
            \/ m \in DOMAIN run[h].new /\ s.new = run[h].new /\ s.at = "publishComposed"
  PROVE  DraftInv'
<1>1. /\ run'[h] = s /\ \A g \in Handler : g # h => run'[g] = run[g]
      /\ \A g \in Handler : DOMAIN run[g].new \subseteq Drafts
  BY BusyType DEF Drafts
<1>2. DOMAIN s.new \cap Saved = {} \/ s.at = "publishComposed"
  BY DEF DraftInv, Fresh
<1>3. \A g \in Handler : g # h => DOMAIN s.new \cap DOMAIN run[g].new = {}
  BY <1>1 DEF DraftInv, Fresh
<1>4. ASSUME NEW g \in Handler, run'[g].at # "publishComposed", NEW m \in DOMAIN run'[g].new,
             m \in Msg, message'[m].saved
      PROVE  FALSE
  <2>1. CASE g = h
    BY <1>1, <1>2, <1>4, <2>1 DEF Saved, Drafts
  <2>2. CASE g # h
    <3>1. m \in DOMAIN run[g].new /\ ~ message[m].saved /\ m \in Drafts
      BY <1>1, <1>4, <2>2 DEF DraftInv, Saved
    <3>2. m \notin DOMAIN run[h].new
      BY <2>2, <3>1 DEF DraftInv
    <3>3. QED
      BY <1>4, <3>1, <3>2
  <2>3. QED
    BY <2>1, <2>2
<1>5. QED
  BY <1>1, <1>3, <1>4 DEF DraftInv, Saved

LEMMA RecallsStay ==
  ASSUME TypeInv, \A g \in Handler : Recalls(run[g]), NEW h \in Handler, NEW s,
         run' = [run EXCEPT ![h] = s], Recalls(s)
  PROVE  \A g \in Handler : Recalls(run'[g])
<1>1. run'[h] = s /\ \A g \in Handler : g # h => run'[g] = run[g]
  BY BusyType
<1>2. QED
  BY <1>1

LEMMA BindsStay ==
  ASSUME AnswerBinds, stray \subseteq stray',
         \A m \in Msg \ stray', x \in Ext :
            rc'[x].of = m /\ ~ Reported(m)'
            => \/ message'[m].exId = x
               \/ rc[x].of = m /\ ~ Reported(m) /\ message'[m].exId = message[m].exId
  PROVE  AnswerBinds'
BY DEF AnswerBinds

LEMMA ReportsStay ==
  ASSUME TypeInv, NEW h \in Handler, NEW s, run' = [run EXCEPT ![h] = s], calls \subseteq calls',
         NEW m, Reported(m), ~ (run[h].at \in {"answer", "error"} /\ run[h].m = m)
  PROVE  Reported(m)'
<1>1. \A g \in Handler : g # h => run'[g] = run[g]
  BY BusyType
<1>2. QED
  BY <1>1 DEF Reported

(* A handler goes on, or gives up, and commits nothing.                     *)
LEMMA QuietAnswers ==
  ASSUME TypeInv, AnswerInv, NEW h \in Handler, NEW s, run' = [run EXCEPT ![h] = s],
         run[h].at \notin {"answer", "error"},
         message' = message, toRc' = toRc, rc' = rc, calls \subseteq calls', calls' \subseteq Pending,
         stray \subseteq stray',
         s.at \in {"idle"} \cup Http \/ s.call \in Pending,
         s.at \notin {"publishCreated", "publishComposed"}, Recalls(s),
         \/ DOMAIN s.new = {}
         \/ DOMAIN s.new \subseteq Fresh
         \/ DOMAIN s.new = DOMAIN run[h].new /\ run[h].at # "publishComposed"
  PROVE  AnswerInv'
<1>1. run'[h] = s /\ \A g \in Handler : g # h => run'[g] = run[g]
  BY BusyType
<1>2. DraftInv'
  BY DraftsStay DEF AnswerInv
<1>3. OnceInv'
  <2>1. \A g \in Handler, m \in Msg : Gives(g, m)' => Gives(g, m)
    BY <1>1 DEF Gives
  <2>2. Pending' \subseteq Pending
    BY PendingStays
  <2>3. QED
    BY <2>1, <2>2, OnceStays DEF AnswerInv
<1>4. \A g \in Handler : Recalls(run'[g])
  BY RecallsStay DEF AnswerInv
<1>5. AnswerBinds'
  BY ReportsStay, BindsStay DEF AnswerInv
<1>6. QED
  BY <1>2, <1>3, <1>4, <1>5 DEF AnswerInv

LEMMA IdleAnswers ==
  /\ Idle.at = "idle" /\ DOMAIN Idle.new = {} /\ Recalls(Idle)
BY IdleType DEF Recalls

LEMMA BusyPending ==
  ASSUME NEW h \in Handler, run[h].at \notin {"idle"} \cup Http
  PROVE  run[h].call \in Pending
BY DEF Pending

LEMMA ComposeAnswers ==
  ASSUME TypeInv, AnswerInv, NEW h \in Handler,
         \/ \E S \in SUBSET Phone \ {{}}, t \in Text : CreateComposeMessages(h, S, t)
         \/ \E m \in Msg : EditMessage(h, m)
         \/ WriteComposed(h) \/ RefuseComposed(h) \/ RollBackComposed(h) \/ RollBackCreated(h)
  PROVE  AnswerInv'
<1>1. calls \subseteq Pending
  BY DEF Pending
<1>2. ASSUME NEW S \in SUBSET Phone, NEW t \in Text, CreateComposeMessages(h, S, t)
      PROVE  AnswerInv'
  <2>1. PICK ids \in [S -> Fresh] :
          run' = [run EXCEPT ![h] = [Idle EXCEPT !.at = "compose", !.known = contact,
                  !.new = [m \in {ids[p] : p \in S} |->
                             NewMessage(CHOOSE p \in S : ids[p] = m, t)]]]
    BY <1>2 DEF CreateComposeMessages
  <2>2. PICK new : new = [m \in {ids[p] : p \in S} |-> NewMessage(CHOOSE p \in S : ids[p] = m, t)]
    OBVIOUS
  <2>3. DOMAIN new \subseteq Fresh
    BY <2>2
  <2>4. PICK s : s = [Idle EXCEPT !.at = "compose", !.known = contact, !.new = new]
    OBVIOUS
  <2>5. s.at = "compose" /\ s.new = new /\ run' = [run EXCEPT ![h] = s]
    BY <2>1, <2>2, <2>4 DEF Idle
  <2>6. Recalls(s) /\ s.at \in Http
    BY <2>5 DEF Recalls, Http
  <2>7. QED
    BY <1>1, <1>2, <2>3, <2>5, <2>6, QuietAnswers DEF CreateComposeMessages
<1>3. ASSUME NEW m \in Msg, EditMessage(h, m) PROVE AnswerInv'
  <2>1. PICK s : s = Reading("edit", m)
    OBVIOUS
  <2>2. s.at = "edit" /\ DOMAIN s.new = {}
    BY <2>1, IdleAnswers DEF Reading, Idle
  <2>3. Recalls(s) /\ s.at \in Http
    BY <2>2 DEF Recalls, Http
  <2>4. QED
    BY <1>1, <1>3, <2>1, <2>2, <2>3, QuietAnswers DEF EditMessage
<1>4. CASE WriteComposed(h)
  <2>1. PICK s : s = [run[h] EXCEPT !.at = "commitComposed"]
    OBVIOUS
  <2>2. s.at = "commitComposed" /\ s.new = run[h].new /\ run' = [run EXCEPT ![h] = s]
    BY <1>4, <2>1, BusyType DEF State, WriteComposed, TypeInv, RunInv
  <2>3. Recalls(s) /\ s.at \in Http
    BY <2>2 DEF Recalls, Http
  <2>4. QED
    BY <1>1, <1>4, <2>2, <2>3, QuietAnswers DEF WriteComposed
<1>5. CASE RefuseComposed(h) \/ RollBackComposed(h) \/ RollBackCreated(h)
  BY <1>1, <1>5, IdleAnswers, QuietAnswers
     DEF RefuseComposed, RollBackComposed, RollBackCreated
<1>6. QED
  BY <1>2, <1>3, <1>4, <1>5

(* The next step of a list: a row that is taken for the message has no exId.*)
Finds(h, s) ==
    /\ run' = [run EXCEPT ![h] = s] /\ s.call = run[h].call /\ s.new = run[h].new
    /\ s.at \in {"listApp", "listWho", "listNew", "listAdopt", "listInsert"}
    /\ s.at = "listAdopt" => s.seen.exId = None

LEMMA FindAnswers ==
  ASSUME TypeInv, AnswerInv, NEW h \in Handler, FindListed(h) \/ FindSender(h)
  PROVE  AnswerInv'
<1>1. /\ run[h] \in State /\ run[h].at \in {"listLookup", "listWho"} /\ run[h].call \in Pending
      /\ UNCHANGED <<message, contact, calls, toRc, rc, stray>> /\ calls \subseteq Pending
  BY BusyType, BusyPending DEF FindListed, FindSender, Pending, Http
<1>2. PICK s : Finds(h, s)
  <2>1. ASSUME NEW m \in Msg, NEW at \in {"listApp", "listAdopt"},
               at = "listAdopt" => message[m].exId = None,
               run' = [run EXCEPT ![h] = [@ EXCEPT !.at = at, !.m = m, !.seen = message[m]]]
        PROVE  \E s : Finds(h, s)
    <3>1. PICK s : s = [run[h] EXCEPT !.at = at, !.m = m, !.seen = message[m]]
      OBVIOUS
    <3>2. s.at = at /\ s.seen = message[m] /\ s.call = run[h].call /\ s.new = run[h].new
      BY <1>1, <3>1 DEF State
    <3>3. run' = [run EXCEPT ![h] = s]
      BY <2>1, <3>1 DEF TypeInv, RunInv
    <3>4. QED
      BY <2>1, <3>2, <3>3 DEF Finds
  <2>2. ASSUME NEW known, NEW at \in {"listWho", "listNew", "listInsert"},
               run' = [run EXCEPT ![h] = [@ EXCEPT !.at = at, !.known = known]]
        PROVE  \E s : Finds(h, s)
    <3>1. PICK s : s = [run[h] EXCEPT !.at = at, !.known = known]
      OBVIOUS
    <3>2. s.at = at /\ s.call = run[h].call /\ s.new = run[h].new
      BY <1>1, <3>1 DEF State
    <3>3. run' = [run EXCEPT ![h] = s]
      BY <2>2, <3>1 DEF TypeInv, RunInv
    <3>4. QED
      BY <3>2, <3>3 DEF Finds
  <2>3. ASSUME NEW at \in {"listWho", "listInsert"}, run' = [run EXCEPT ![h].at = at]
        PROVE  \E s : Finds(h, s)
    <3>1. PICK s : s = [run[h] EXCEPT !.at = at]
      OBVIOUS
    <3>2. s.at = at /\ s.call = run[h].call /\ s.new = run[h].new
      BY <1>1, <3>1 DEF State
    <3>3. run' = [run EXCEPT ![h] = s]
      BY <2>3, <3>1 DEF TypeInv, RunInv
    <3>4. QED
      BY <3>2, <3>3 DEF Finds
  <2>4. CASE FindListed(h)
    <3>1. CASE \E m \in WithExId(Item(h).x) :
                 run' = [run EXCEPT ![h] = [@ EXCEPT !.at = "listApp", !.m = m, !.seen = message[m]]]
      BY <2>1, <3>1 DEF WithExId, Saved
    <3>2. CASE run' = [run EXCEPT ![h].at = "listWho"]
      BY <2>3, <3>2
    <3>3. QED
      BY <2>4, <3>1, <3>2 DEF FindListed
  <2>5. CASE FindSender(h)
    <3>1. CASE \E m \in Adoptable(Item(h).x) :
                 run' = [run EXCEPT ![h] = [@ EXCEPT !.at = "listAdopt", !.m = m, !.seen = message[m]]]
      BY <2>1, <3>1 DEF Adoptable, Saved
    <3>2. CASE run' = [run EXCEPT ![h] = [@ EXCEPT !.at = "listNew", !.known = contact]]
      BY <2>2, <3>2
    <3>3. CASE run' = [run EXCEPT ![h].at = "listInsert"]
      BY <2>3, <3>3
    <3>4. QED
      BY <2>5, <3>1, <3>2, <3>3 DEF FindSender
  <2>6. QED
    BY <2>4, <2>5
<1>3. Recalls(s)
  BY <1>2 DEF Recalls, Finds
<1>4. QED
  BY <1>1, <1>2, <1>3, QuietAnswers DEF Finds

(* Where a handler is after a row of its list.                              *)
LEMMA RestAnswers ==
  ASSUME TypeInv, NEW h \in Handler, run[h].at \in Lists
  PROVE  /\ DOMAIN Rest(h).new = {} /\ Recalls(Rest(h))
         /\ Rest(h).at \in {"idle", "listLookup"}
         /\ Rest(h).at \in {"idle"} \cup Http \/ Rest(h).call \in Pending
<1>1. Rest(h).new = Idle.new /\ Rest(h).at \in {"idle", "listLookup"}
  BY ItemType
<1>2. Recalls(Rest(h))
  BY <1>1 DEF Recalls
<1>3. run[h].call \in Pending
  BY BusyPending DEF Lists, Http
<1>4. Rest(h) = Idle \/ Rest(h).call = run[h].call
  BY DEF Rest, At, Idle
<1>5. QED
  BY <1>1, <1>2, <1>3, <1>4, IdleAnswers

(* A row that was read is saved with an exId: that of the row, or that of   *)
(* the message it is taken for, or that of the answer.                      *)
Writes(h, row, next) ==
    /\ Save(h, run[h].m, row, next) /\ toRc' = toRc /\ calls' = calls /\ rc' = rc
    /\ \/ run[h].at \in {"edit", "queued", "listApp", "error"} /\ row.exId = run[h].seen.exId
       \/ run[h].at = "listAdopt"
       \/ run[h].at = "answer" /\ row.exId = run[h].call.list[1].x
    /\ DOMAIN next.new = {} /\ Recalls(next) /\ next.at \in {"idle", "listLookup"}
    /\ next.at \in {"idle"} \cup Http \/ next.call \in Pending

LEMMA SavesWrite ==
  ASSUME TypeInv, NEW h \in Handler,
         \/ SaveEdited(h) \/ SaveAnswer(h) \/ SaveListed(h) \/ AdoptMessage(h)
         \/ SaveQueued(h) \/ SaveError(h)
  PROVE  \E row, next : Writes(h, row, next)
<1>1. PICK seen \in Message : seen = run[h].seen
  BY BusyType DEF State
<1>2. CASE SaveEdited(h)
  <2>1. Writes(h, seen, Idle)
    BY <1>1, <1>2, IdleAnswers DEF SaveEdited, Writes
  <2>2. QED
    BY <2>1
<1>3. CASE SaveQueued(h)
  <2>1. PICK row : row = [seen EXCEPT !.ex = run[h].call.list[1].ex]
    OBVIOUS
  <2>2. row.exId = seen.exId
    BY <2>1 DEF Message
  <2>3. Writes(h, row, Idle)
    BY <1>1, <1>3, <2>1, <2>2, IdleAnswers DEF SaveQueued, Writes
  <2>4. QED
    BY <2>3
<1>4. CASE SaveAnswer(h)
  <2>1. PICK r : r = run[h].call.list[1]
    OBVIOUS
  <2>2. PICK row : row = [seen EXCEPT !.exId = r.x, !.ex = r.ex, !.status = "sent"]
    OBVIOUS
  <2>3. row.exId = r.x
    BY <2>2 DEF Message
  <2>4. Save(h, run[h].m, row, Idle)
    BY <1>1, <1>4, <2>1, <2>2 DEF SaveAnswer
  <2>5. Writes(h, row, Idle)
    BY <1>4, <2>1, <2>3, <2>4, IdleAnswers DEF SaveAnswer, Writes
  <2>6. QED
    BY <2>5
<1>5. CASE SaveListed(h)
  <2>1. PICK row : row = [seen EXCEPT !.ex = Item(h).ex, !.status = "sent"]
    OBVIOUS
  <2>2. row.exId = seen.exId
    BY <2>1 DEF Message
  <2>3. Save(h, run[h].m, row, Rest(h)) /\ run[h].at = "listApp"
    BY <1>1, <1>5, <2>1 DEF SaveListed
  <2>4. Writes(h, row, Rest(h))
    BY <1>1, <1>5, <2>2, <2>3, RestAnswers DEF SaveListed, Writes, Lists
  <2>5. QED
    BY <2>4
<1>6. CASE AdoptMessage(h)
  <2>1. PICK row : row = [seen EXCEPT !.exId = Item(h).x, !.ex = Raw[Item(h).ex], !.status = "sent"]
    OBVIOUS
  <2>2. Save(h, run[h].m, row, Rest(h)) /\ run[h].at = "listAdopt"
    BY <1>1, <1>6, <2>1 DEF AdoptMessage
  <2>3. Writes(h, row, Rest(h))
    BY <1>1, <1>6, <2>2, RestAnswers DEF AdoptMessage, Writes, Lists
  <2>4. QED
    BY <2>3
<1>7. CASE SaveError(h)
  <2>1. PICK row : row = [seen EXCEPT !.status = "error"]
    OBVIOUS
  <2>2. row.exId = seen.exId
    BY <2>1 DEF Message
  <2>3. Writes(h, row, Idle)
    BY <1>1, <1>7, <2>1, <2>2, IdleAnswers DEF SaveError, Writes
  <2>4. QED
    BY <2>3
<1>8. QED
  BY <1>2, <1>3, <1>4, <1>5, <1>6, <1>7

LEMMA SavesAnswers ==
  ASSUME TypeInv, AnswerInv, NEW h \in Handler,
         \/ SaveEdited(h) \/ SaveAnswer(h) \/ SaveListed(h) \/ AdoptMessage(h)
         \/ SaveQueued(h) \/ SaveError(h)
  PROVE  AnswerInv'
<1>1. PICK row, next : Writes(h, row, next)
  BY SavesWrite
<1>2. PICK n \in Msg : n = run[h].m /\ message[n].saved
  BY <1>1, BusyType DEF Sound, Writes, Reads
<1>3. /\ stray \subseteq stray' /\ toRc' = toRc /\ calls' = calls /\ rc' = rc
      /\ \A m \in Msg : m # n => message'[m] = message[m]
      /\ n \notin stray' => message'[n] = row /\ message[n] = run[h].seen
  BY <1>1, <1>2 DEF Writes, Save, Nack, TypeInv, RowsInv
<1>4. PICK s : /\ run' = [run EXCEPT ![h] = s]
               /\ DOMAIN s.new = {} /\ Recalls(s) /\ s.at \in {"idle", "listLookup"}
               /\ s.at \in {"idle"} \cup Http \/ s.call \in Pending
  BY <1>1, IdleAnswers DEF Writes, Save, Nack
<1>5. run'[h] = s /\ \A g \in Handler : g # h => run'[g] = run[g]
  BY <1>4, BusyType
<1>6. DraftInv'
  <2>1. \A m \in Msg : message'[m].saved => message[m].saved
    BY <1>2, <1>3
  <2>2. QED
    BY <1>4, <2>1, DraftsStay DEF AnswerInv
<1>7. OnceInv'
  <2>1. \A g \in Handler, m \in Msg : Gives(g, m)' => Gives(g, m)
    BY <1>4, <1>5 DEF Gives
  <2>2. Pending' \subseteq Pending
    <3>1. calls' \subseteq Pending
      BY <1>3 DEF Pending
    <3>2. QED
      BY <1>4, <3>1, PendingStays
  <2>3. QED
    BY <1>3, <2>1, <2>2, OnceStays DEF AnswerInv
<1>8. \A g \in Handler : Recalls(run'[g])
  BY <1>4, RecallsStay DEF AnswerInv
<1>9. AnswerBinds'
  <2>1. ASSUME NEW m \in Msg \ stray', NEW x \in Ext, rc[x].of = m, ~ Reported(m)'
        PROVE  \/ message'[m].exId = x
               \/ ~ Reported(m) /\ message'[m].exId = message[m].exId
    <3>1. CASE m # n
      BY <1>2, <1>3, <1>4, <2>1, <3>1, ReportsStay
    <3>2. CASE m = n /\ run[h].at \in {"edit", "queued", "listApp", "listAdopt"}
      <4>1. ~ Reported(n)
        BY <1>3, <1>4, <2>1, <3>2, ReportsStay
      <4>2. message[n].exId = x
        BY <1>3, <2>1, <3>2, <4>1 DEF AnswerInv, AnswerBinds
      <4>3. run[h].at # "listAdopt"
        BY <1>3, <2>1, <3>2, <4>2, ConstantsAssumption DEF AnswerInv, Recalls
      <4>4. QED
        BY <1>1, <1>3, <2>1, <3>2, <4>1, <4>3 DEF Writes
    <3>3. CASE m = n /\ run[h].at = "error"
      <4>1. run[h].call \in Pending /\ run[h].call.kind = "error" /\ run[h].call.m = n
        BY <1>2, <3>3, BusyPending DEF AnswerInv, Recalls, Http
      <4>2. Refused(n) /\ Sent(n)
        BY <2>1, <3>3, <4>1 DEF Refused, Sent
      <4>3. QED
        BY <4>2 DEF AnswerInv, OnceInv
    <3>4. CASE m = n /\ run[h].at = "answer"
      <4>1. run[h].call \in Pending /\ run[h].call.kind = "answer" /\ run[h].call.m = n
        BY <1>2, <3>4, BusyPending, BusyType DEF Sound, Http
      <4>2. /\ rc[run[h].call.list[1].x].of = n /\ run[h].call.list[1].x \in Ext
        BY <4>1, PendingType DEF AnswerInv, OnceInv
      <4>3. run[h].call.list[1].x = x
        BY <2>1, <3>4, <4>2, ConstantsAssumption DEF AnswerInv, OnceInv
      <4>4. QED
        BY <1>1, <1>3, <2>1, <3>4, <4>3 DEF Writes
    <3>5. QED
      BY <1>1, <3>1, <3>2, <3>3, <3>4 DEF Writes
  <2>2. QED
    BY <1>3, <2>1, BindsStay DEF AnswerInv
<1>10. QED
  BY <1>6, <1>7, <1>8, <1>9 DEF AnswerInv

(* New rows are committed: no call and no handler knows of them before.     *)
LEMMA CommitsAnswers ==
  ASSUME TypeInv, AnswerInv, NEW h \in Handler, NEW s, run' = [run EXCEPT ![h] = s],
         run[h].at \notin {"answer", "error", "publishCreated", "publishComposed"},
         toRc' = toRc, rc' = rc, calls' = calls, stray' = stray,
         NEW M \in SUBSET Msg, \A m \in M : ~ message[m].saved,
         \A m \in Msg \ M : message'[m] = message[m],
         \A m \in Msg : Gives(h, m)' => m \in M,
         s.at \in {"idle"} \cup Http \/ s.call \in Pending, Recalls(s),
         \/ M \cap Drafts = {} /\ DOMAIN s.new = {}
         \/ M \cap Drafts = {} /\ DOMAIN s.new = DOMAIN run[h].new
         \/ M = DOMAIN run[h].new /\ s.new = run[h].new /\ s.at = "publishComposed"
  PROVE  AnswerInv'
<1>1. run'[h] = s /\ \A g \in Handler : g # h => run'[g] = run[g]
  BY BusyType
<1>2. DraftInv'
  BY DraftsStay DEF AnswerInv
<1>3. OnceInv'
  <2>1. \A g \in Handler, m \in Msg : Gives(g, m)' => Gives(g, m) \/ (g = h /\ ~ message[m].saved)
    BY <1>1 DEF Gives
  <2>2. Pending' \subseteq Pending
    <3>1. calls' \subseteq Pending
      BY DEF Pending
    <3>2. QED
      BY <3>1, PendingStays
  <2>3. QED
    BY <2>1, <2>2, OnceStays DEF AnswerInv
<1>4. \A g \in Handler : Recalls(run'[g])
  BY RecallsStay DEF AnswerInv
<1>5. AnswerBinds'
  <2>1. ASSUME NEW m \in Msg, NEW x \in Ext, rc[x].of = m, ~ Reported(m)'
        PROVE  ~ Reported(m) /\ message'[m].exId = message[m].exId
    <3>1. m \notin M
      BY <2>1, NothingYet DEF Sent
    <3>2. ~ Reported(m)
      BY <2>1, ReportsStay
    <3>3. QED
      BY <3>1, <3>2
  <2>2. QED
    BY <2>1, BindsStay DEF AnswerInv
<1>6. QED
  BY <1>2, <1>3, <1>4, <1>5 DEF AnswerInv

LEMMA NewRowsAnswers ==
  ASSUME TypeInv, AnswerInv, NEW h \in Handler,
         \/ CommitCreated(h) \/ CommitComposed(h)
         \/ InsertForStranger(h) \/ InsertForOther(h) \/ InsertForMember(h)
  PROVE  AnswerInv'
<1>1. CASE CommitCreated(h)
  <2>1. PICK m \in Fresh :
          /\ message' = [message EXCEPT ![m] = NewMessage(run[h].call.to, run[h].call.text)]
          /\ run' = [run EXCEPT ![h] = [@ EXCEPT !.at = "publishCreated", !.m = m]]
    BY <1>1 DEF CommitCreated
  <2>2. PICK s : s = [run[h] EXCEPT !.at = "publishCreated", !.m = m]
    OBVIOUS
  <2>3. /\ run' = [run EXCEPT ![h] = s] /\ run[h].at = "commitCreated" /\ run[h] \in State
        /\ toRc' = toRc /\ calls' = calls /\ stray' = stray /\ rc' = rc
    BY <1>1, <2>1, <2>2, BusyType DEF CommitCreated, TypeInv, RunInv
  <2>4. s.at = "publishCreated" /\ s.m = m /\ s.call = run[h].call /\ s.new = run[h].new
    BY <2>2, <2>3 DEF State
  <2>5. PICK M \in SUBSET Msg : M = {m}
    BY DEF Fresh
  <2>6. \A n \in M : ~ message[n].saved /\ n \notin Drafts
    BY <2>5 DEF Fresh, Saved
  <2>7. \A n \in Msg \ M : message'[n] = message[n]
    BY <2>1, <2>5 DEF TypeInv, RowsInv
  <2>8. run[h].call \in Pending
    BY <2>3, BusyPending DEF Http
  <2>9. Recalls(s)
    BY <2>4 DEF Recalls
  <2>10. \A n \in Msg : Gives(h, n)' => n \in M
    BY <2>3, <2>4, <2>5, BusyType DEF Gives
  <2>11. QED
    BY <2>3, <2>4, <2>6, <2>7, <2>8, <2>9, <2>10, CommitsAnswers
<1>2. CASE CommitComposed(h)
  <2>1. PICK s : s = [run[h] EXCEPT !.at = "publishComposed"]
    OBVIOUS
  <2>2. /\ run' = [run EXCEPT ![h] = s] /\ run[h].at = "commitComposed" /\ run[h] \in State
        /\ toRc' = toRc /\ calls' = calls /\ stray' = stray /\ rc' = rc
    BY <1>2, <2>1, BusyType DEF CommitComposed, TypeInv, RunInv
  <2>3. s.at = "publishComposed" /\ s.new = run[h].new
    BY <2>1, <2>2 DEF State
  <2>4. PICK M \in SUBSET Msg : M = DOMAIN run[h].new
    BY BusyType
  <2>5. \A n \in M : ~ message[n].saved
    BY <2>2, <2>4 DEF AnswerInv, DraftInv, Saved
  <2>6. \A n \in Msg \ M : message'[n] = message[n]
    BY <1>2, <2>4 DEF CommitComposed
  <2>7. Recalls(s) /\ s.at \in Http
    BY <2>3 DEF Recalls, Http
  <2>8. \A n \in Msg : Gives(h, n)' => n \in M
    BY <2>2, <2>3, <2>4, BusyType DEF Gives
  <2>9. QED
    BY <2>2, <2>3, <2>4, <2>5, <2>6, <2>7, <2>8, CommitsAnswers
<1>3. CASE InsertForStranger(h) \/ InsertForOther(h) \/ InsertForMember(h)
  <2>1. /\ run[h].at \in {"listNew", "listInsert"} /\ toRc' = toRc /\ calls' = calls /\ rc' = rc
        /\ InsertRow(h) \/ RefuseRow(h)
    BY <1>3 DEF InsertForStranger, InsertForOther, InsertForMember, Newcomer
  <2>2. CASE RefuseRow(h)
    <3>1. calls \subseteq Pending
      BY DEF Pending
    <3>2. QED
      BY <2>1, <2>2, <3>1, IdleAnswers, QuietAnswers DEF RefuseRow, Nack
  <2>3. CASE InsertRow(h)
    <3>1. PICK m \in Fresh : message' = [message EXCEPT ![m] = SoftphoneMessage(Item(h))]
      BY <2>3 DEF InsertRow
    <3>2. PICK s : s = Rest(h)
      OBVIOUS
    <3>3. run' = [run EXCEPT ![h] = s] /\ stray' = stray
      BY <2>3, <3>2 DEF InsertRow
    <3>4. /\ DOMAIN s.new = {} /\ Recalls(s) /\ s.at \in {"idle", "listLookup"}
          /\ s.at \in {"idle"} \cup Http \/ s.call \in Pending
      BY <2>1, <3>2, RestAnswers DEF Lists
    <3>5. PICK M \in SUBSET Msg : M = {m}
      BY DEF Fresh
    <3>6. \A n \in M : ~ message[n].saved /\ n \notin Drafts
      BY <3>5 DEF Fresh, Saved
    <3>7. \A n \in Msg \ M : message'[n] = message[n]
      BY <3>1, <3>5 DEF TypeInv, RowsInv
    <3>8. \A n \in Msg : Gives(h, n)' => n \in M
      BY <3>3, <3>4, BusyType DEF Gives
    <3>9. QED
      BY <2>1, <3>3, <3>4, <3>6, <3>7, <3>8, CommitsAnswers
  <2>4. QED
    BY <2>1, <2>2, <2>3
<1>4. QED
  BY <1>1, <1>2, <1>3

(* What a handler has committed it hands over, once.                        *)
LEMMA PublishesAnswers ==
  ASSUME TypeInv, AnswerInv, NEW h \in Handler, PublishCreated(h) \/ PublishComposed(h)
  PROVE  AnswerInv'
<1>1. /\ run' = [run EXCEPT ![h] = Idle] /\ message' = message /\ calls' = calls /\ stray' = stray
      /\ rc' = rc /\ run[h].at \in {"publishCreated", "publishComposed"}
      /\ \A m \in toRc' : m \in toRc \/ Gives(h, m)
  BY DEF PublishCreated, PublishComposed, Gives
<1>2. run'[h] = Idle /\ \A g \in Handler : g # h => run'[g] = run[g]
  BY <1>1, BusyType
<1>3. Pending' \subseteq Pending
  <2>1. calls' \subseteq Pending
    BY <1>1 DEF Pending
  <2>2. QED
    BY <1>1, <2>1, IdleAnswers, PendingStays
<1>4. DraftInv'
  BY <1>1, IdleAnswers, DraftsStay DEF AnswerInv
<1>5. \A g \in Handler : Recalls(run'[g])
  BY <1>1, IdleAnswers, RecallsStay DEF AnswerInv
<1>6. OnceInv'
  <2>1. \A m : (Sent(m)' => Sent(m)) /\ (Refused(m)' => Refused(m))
    BY <1>1, <1>3 DEF Sent, Refused
  <2>2. \A g \in Handler, m \in Msg : Gives(g, m)' => g # h /\ Gives(g, m)
    BY <1>2, IdleAnswers DEF Gives
  <2>3. toRc' \subseteq Msg
    BY <1>1, BusyType DEF Gives, TypeInv, RcInv, Sound, Reads
  <2>4. ASSUME NEW m \in toRc' PROVE ~ Sent(m)' /\ ~ Refused(m)'
    BY <1>1, <2>1, <2>3, HandingOverGives DEF AnswerInv, OnceInv
  <2>5. ASSUME NEW m \in Msg, NEW g \in Handler, Gives(g, m)'
        PROVE  m \notin toRc' /\ ~ Sent(m)' /\ ~ Refused(m)'
    BY <1>1, <2>1, <2>2, <2>5, HandingOverGives DEF AnswerInv, OnceInv
  <2>6. \A m \in Msg : HandingOver(m)' => m \notin toRc' /\ ~ Sent(m)' /\ ~ Refused(m)'
    BY <2>5 DEF HandingOver, Gives
  <2>7. \A m \in Msg : \A f, g \in Handler : Gives(f, m)' /\ Gives(g, m)' => f = g
    BY <2>2 DEF AnswerInv, OnceInv
  <2>8. \A m \in Msg : ~ (Sent(m)' /\ Refused(m)')
    BY <2>1 DEF AnswerInv, OnceInv
  <2>9. QED
    BY <1>1, <1>3, <2>4, <2>6, <2>7, <2>8 DEF AnswerInv, OnceInv
<1>7. AnswerBinds'
  BY <1>1, ReportsStay, BindsStay DEF AnswerInv
<1>8. QED
  BY <1>4, <1>5, <1>6, <1>7 DEF AnswerInv

(* A call is served: it waits no more, and its handler has it.              *)
LEMMA ReceiveAnswers ==
  ASSUME TypeInv, AnswerInv, NEW h \in Handler, NEW c \in calls, Receive(h, c)
  PROVE  AnswerInv'
<1>1. /\ run[h].at = "idle" /\ calls' = calls \ {c} /\ message' = message /\ toRc' = toRc
      /\ rc' = rc /\ stray' = stray
  BY DEF Receive, CreateOutboundMessage, UpdateOutboundMessage, UpdateOutBoundListMessages,
         UpdateQueuedMessage, SendMessageError, Serve
<1>2. PICK s : /\ run' = [run EXCEPT ![h] = s] /\ s.call = c /\ DOMAIN s.new = {}
               /\ s.at \in {"idle", "commitCreated", "answer", "listLookup", "queued", "error"}
               /\ s.at \in {"answer", "error"} => s.m = c.m
               /\ c.kind \in {"answer", "error"} => s.at = c.kind
               /\ s.at = "error" => c.kind = "error"
  <2>1. ASSUME NEW at, at \in {"idle", "commitCreated", "listLookup"}, c.kind \notin {"answer", "error"},
               Serve(h, c, At(at))
        PROVE  \E s : /\ run' = [run EXCEPT ![h] = s] /\ s.call = c /\ DOMAIN s.new = {}
                      /\ s.at = at
    <3>1. PICK s : s = [At(at) EXCEPT !.call = c]
      OBVIOUS
    <3>2. s.call = c /\ DOMAIN s.new = {} /\ s.at = at
      BY <3>1 DEF At, Idle
    <3>3. QED
      BY <2>1, <3>1, <3>2 DEF Serve
  <2>2. ASSUME NEW at, at \in {"answer", "error", "queued"}, NEW m, Serve(h, c, Reading(at, m))
        PROVE  \E s : /\ run' = [run EXCEPT ![h] = s] /\ s.call = c /\ DOMAIN s.new = {}
                      /\ s.at = at /\ s.m = m
    <3>1. PICK s : s = [Reading(at, m) EXCEPT !.call = c]
      OBVIOUS
    <3>2. s.call = c /\ DOMAIN s.new = {} /\ s.at = at /\ s.m = m
      BY <3>1 DEF Reading, Idle
    <3>3. QED
      BY <2>2, <3>1, <3>2 DEF Serve
  <2>3. CASE CreateOutboundMessage(h, c)
    BY <2>1, <2>3 DEF CreateOutboundMessage
  <2>4. CASE UpdateOutBoundListMessages(h, c)
    BY <2>1, <2>4 DEF UpdateOutBoundListMessages
  <2>5. CASE UpdateOutboundMessage(h, c)
    BY <2>2, <2>5 DEF UpdateOutboundMessage
  <2>6. CASE SendMessageError(h, c)
    BY <2>2, <2>6 DEF SendMessageError
  <2>7. CASE UpdateQueuedMessage(h, c)
    <3>1. CASE \E m \in WithExId(c.list[1].x) : Serve(h, c, Reading("queued", m))
      BY <2>2, <2>7, <3>1 DEF UpdateQueuedMessage
    <3>2. CASE Serve(h, c, Idle)
      <4>1. PICK s : s = [Idle EXCEPT !.call = c]
        OBVIOUS
      <4>2. s.call = c /\ DOMAIN s.new = {} /\ s.at = "idle"
        BY <4>1 DEF Idle
      <4>3. QED
        BY <2>7, <3>2, <4>1, <4>2 DEF Serve, UpdateQueuedMessage
    <3>3. QED
      BY <2>7, <3>1, <3>2 DEF UpdateQueuedMessage
  <2>8. QED
    BY <2>3, <2>4, <2>5, <2>6, <2>7 DEF Receive
<1>3. run'[h] = s /\ \A g \in Handler : g # h => run'[g] = run[g]
  BY <1>2, BusyType
<1>4. Recalls(s)
  BY <1>2 DEF Recalls
<1>5. DraftInv'
  BY <1>1, <1>2, DraftsStay DEF AnswerInv
<1>6. OnceInv'
  <2>1. \A g \in Handler, m \in Msg : Gives(g, m)' => Gives(g, m)
    BY <1>2, <1>3 DEF Gives
  <2>2. Pending' \subseteq Pending
    <3>1. calls' \subseteq Pending /\ s.call \in Pending
      BY <1>1, <1>2 DEF Pending
    <3>2. QED
      BY <1>2, <3>1, PendingStays
  <2>3. QED
    BY <1>1, <2>1, <2>2, OnceStays DEF AnswerInv
<1>7. \A g \in Handler : Recalls(run'[g])
  BY <1>2, <1>4, RecallsStay DEF AnswerInv
<1>8. AnswerBinds'
  <2>1. \A m : Reported(m) => Reported(m)'
    BY <1>1, <1>2, <1>3 DEF Reported
  <2>2. QED
    BY <1>1, <2>1, BindsStay DEF AnswerInv
<1>9. QED
  BY <1>5, <1>6, <1>7, <1>8 DEF AnswerInv

(* Outside the handlers: rows, handlers and what is at RingCentral's door   *)
(* stay, and calls are added.                                               *)
Around(C) == /\ message' = message /\ run' = run /\ stray' = stray
             /\ calls' = calls \cup C

LEMMA AroundAnswers ==
  ASSUME AnswerInv, NEW C, Around(C)
  PROVE  /\ DraftInv' /\ (\A h \in Handler : Recalls(run'[h]))
         /\ Pending' = Pending \cup C
         /\ \A h \in Handler, m \in Msg : Gives(h, m)' <=> Gives(h, m)
         /\ \A m : Reported(m) => Reported(m)'
<1>1. DraftInv' /\ (\A h \in Handler : Recalls(run'[h]))
  BY DEF Around, AnswerInv, DraftInv, Saved
<1>2. Pending' = Pending \cup C
  BY DEF Around, Pending
<1>3. \A h \in Handler, m \in Msg : Gives(h, m)' <=> Gives(h, m)
  BY DEF Around, Gives
<1>4. \A m : Reported(m) => Reported(m)'
  BY DEF Around, Reported
<1>5. QED
  BY <1>1, <1>2, <1>3, <1>4

(* Nothing is taken or refused: there are only new lists and reports, and   *)
(* messages of softphones.                                                  *)
LEMMA OutsideAnswers ==
  ASSUME TypeInv, AnswerInv, NEW C, Around(C), toRc' = toRc,
         \A c \in C : c.kind \in {"create", "list", "queued"},
         \A x \in Ext : rc'[x].of \in {None, rc[x].of},
         \A x \in Ext : rc[x].ex # "none" => rc'[x].of = rc[x].of
  PROVE  AnswerInv'
<1>1. OnceInv'
  <2>1. PICK h : h = None
    OBVIOUS
  <2>2. \A g \in Handler, m \in Msg : Gives(g, m)' => Gives(g, m)
    BY AroundAnswers
  <2>3. \A c \in Pending' : c \in Pending \/ c.kind \notin {"answer", "error"}
    BY AroundAnswers
  <2>4. QED
    BY <2>2, <2>3, OnceStays DEF AnswerInv
<1>2. AnswerBinds'
  <2>1. \A m \in Msg : m # None
    BY ConstantsAssumption
  <2>2. \A m \in Msg, x \in Ext : rc'[x].of = m /\ ~ Reported(m)' => rc[x].of = m /\ ~ Reported(m)
    BY <2>1, AroundAnswers
  <2>3. QED
    BY <2>2, BindsStay DEF AnswerInv, Around
<1>3. QED
  BY <1>1, <1>2, AroundAnswers DEF AnswerInv

LEMMA ReportsAnswers ==
  ASSUME TypeInv, AnswerInv,
         \/ \E p \in Phone, t \in Text : Write(p, t)
         \/ \E x \in Ext : RcFinish(x)
         \/ \E p \in Phone, t \in Text, x \in Ext : Softphone(p, t, x)
         \/ \E xs : RcList(xs)
         \/ SyncQueuedMessage
  PROVE  AnswerInv'
<1>1. CASE \E p \in Phone, t \in Text : Write(p, t)
  <2>1. PICK p \in Phone, t \in Text : Write(p, t)
    BY <1>1
  <2>2. PICK c : c = [Asked("create", None, <<>>) EXCEPT !.to = p, !.text = t]
    OBVIOUS
  <2>3. c.kind = "create"
    BY <2>2 DEF Asked
  <2>4. Around({c}) /\ toRc' = toRc /\ rc' = rc
    BY <2>1, <2>2 DEF Write, Around
  <2>5. QED
    BY <2>3, <2>4, OutsideAnswers
<1>2. CASE \E x \in Ext : RcFinish(x)
  <2>1. PICK x \in Ext, e \in {"delivered", "failed"} : RcFinish(x) /\ rc' = [rc EXCEPT ![x].ex = e]
    BY <1>2 DEF RcFinish
  <2>2. \A y \in Ext : rc'[y].of = rc[y].of
    BY <2>1 DEF TypeInv, RcInv, Rc
  <2>3. Around({}) /\ toRc' = toRc
    BY <2>1 DEF RcFinish, Around
  <2>4. QED
    BY <2>2, <2>3, OutsideAnswers
<1>3. CASE \E p \in Phone, t \in Text, x \in Ext : Softphone(p, t, x)
  <2>1. PICK p \in Phone, t \in Text, x \in Ext : Softphone(p, t, x)
    BY <1>3
  <2>2. rc[x].ex = "none" /\ rc'[x].of = None /\ \A y \in Ext : y # x => rc'[y] = rc[y]
    BY <2>1 DEF Softphone, Unused, TypeInv, RcInv
  <2>3. Around({}) /\ toRc' = toRc
    BY <2>1 DEF Softphone, Around
  <2>4. QED
    BY <2>2, <2>3, OutsideAnswers
<1>4. CASE \E xs : RcList(xs)
  <2>1. PICK xs : RcList(xs)
    BY <1>4
  <2>2. PICK c : c = Asked("list", None, [i \in 1..Len(xs) |-> [x |-> xs[i], ex |-> rc[xs[i]].ex]])
    OBVIOUS
  <2>3. c.kind = "list"
    BY <2>2 DEF Asked
  <2>4. Around({c}) /\ toRc' = toRc /\ rc' = rc
    BY <2>1, <2>2 DEF RcList, Around
  <2>5. QED
    BY <2>3, <2>4, OutsideAnswers
<1>5. CASE SyncQueuedMessage
  <2>1. PICK X : /\ calls' = calls \cup {Asked("queued", None, <<[x |-> x, ex |-> rc[x].ex]>>) : x \in X}
                 /\ UNCHANGED <<message, run, toRc, rc, stray>>
    BY <1>5 DEF SyncQueuedMessage
  <2>2. PICK C : C = {Asked("queued", None, <<[x |-> x, ex |-> rc[x].ex]>>) : x \in X}
    OBVIOUS
  <2>3. \A c \in C : c.kind = "queued"
    BY <2>2 DEF Asked
  <2>4. Around(C)
    BY <2>1, <2>2 DEF Around
  <2>5. QED
    BY <2>1, <2>3, <2>4, OutsideAnswers
<1>6. QED
  BY <1>1, <1>2, <1>3, <1>4, <1>5

(* RingCentral takes a row under an exId of its own, and answers with it.   *)
LEMMA TakeAnswers ==
  ASSUME TypeInv, AnswerInv, NEW n \in Msg, NEW z \in Ext, RcTake(n, z)
  PROVE  AnswerInv'
<1>1. PICK a : a = Asked("answer", n, <<[x |-> z, ex |-> "queued"]>>)
  OBVIOUS
<1>2. a.kind = "answer" /\ a.m = n /\ a.list[1].x = z
  BY <1>1 DEF Asked
<1>3. /\ Around({a}) /\ n \in toRc /\ toRc' = toRc \ {n} /\ rc[z].ex = "none"
      /\ rc'[z].of = n /\ \A y \in Ext : y # z => rc'[y] = rc[y]
  BY <1>1 DEF RcTake, Around, Unused, TypeInv, RcInv
<1>4. ~ Sent(n) /\ ~ Refused(n) /\ \A h \in Handler : ~ Gives(h, n)
  BY <1>3, HandingOverGives DEF AnswerInv, OnceInv
<1>5. \A m \in Msg : /\ Sent(m)' => m = n \/ Sent(m)
                     /\ Refused(m)' <=> Refused(m)
  BY <1>2, <1>3, AroundAnswers DEF Sent, Refused
<1>6. OnceInv'
  <2>1. \A m \in Msg : \A h, g \in Handler : Gives(h, m)' /\ Gives(g, m)' => h = g
    BY <1>3, AroundAnswers DEF AnswerInv, OnceInv
  <2>2. ASSUME NEW m \in Msg, NEW h \in Handler, Gives(h, m)'
        PROVE  m \notin toRc' /\ ~ Sent(m)' /\ ~ Refused(m)'
    BY <1>3, <1>4, <1>5, <2>2, AroundAnswers, HandingOverGives DEF AnswerInv, OnceInv
  <2>3. \A m \in Msg : HandingOver(m)' => m \notin toRc' /\ ~ Sent(m)' /\ ~ Refused(m)'
    BY <2>2 DEF HandingOver, Gives
  <2>4. \A m \in toRc' : ~ Sent(m)' /\ ~ Refused(m)'
    BY <1>3, <1>5 DEF AnswerInv, OnceInv, TypeInv, RcInv
  <2>5. \A m \in Msg : ~ (Sent(m)' /\ Refused(m)')
    BY <1>4, <1>5 DEF AnswerInv, OnceInv
  <2>6. \A x, y \in Ext : rc'[x].of # None /\ rc'[x].of = rc'[y].of => x = y
    BY <1>3, <1>4 DEF AnswerInv, OnceInv, Sent
  <2>7. ASSUME NEW c \in Pending', c.kind = "answer" PROVE rc'[c.list[1].x].of = c.m
    <3>1. CASE c = a
      BY <1>2, <1>3, <3>1
    <3>2. CASE c \in Pending
      <4>1. c.list[1].x \in Ext /\ c.list[1].x # z
        BY <1>3, <2>7, <3>2, PendingType
      <4>2. QED
        BY <1>3, <2>7, <3>2, <4>1 DEF AnswerInv, OnceInv
    <3>3. QED
      BY <1>3, <3>1, <3>2, AroundAnswers
  <2>8. QED
    BY <2>1, <2>3, <2>4, <2>5, <2>6, <2>7 DEF OnceInv
<1>7. AnswerBinds'
  <2>1. Reported(n)'
    BY <1>2, <1>3 DEF Around, Reported
  <2>2. \A m \in Msg, x \in Ext : rc'[x].of = m /\ ~ Reported(m)' => rc[x].of = m /\ ~ Reported(m)
    BY <1>3, <2>1, AroundAnswers
  <2>3. QED
    BY <1>3, <2>2, BindsStay DEF AnswerInv, Around
<1>8. QED
  BY <1>3, <1>6, <1>7, AroundAnswers DEF AnswerInv

LEMMA RejectAnswers ==
  ASSUME TypeInv, AnswerInv, NEW n \in Msg, RcReject(n)
  PROVE  AnswerInv'
<1>1. PICK a : a = Asked("error", n, <<>>)
  OBVIOUS
<1>2. a.kind = "error" /\ a.m = n
  BY <1>1 DEF Asked
<1>3. Around({a}) /\ n \in toRc /\ toRc' = toRc \ {n} /\ rc' = rc
  BY <1>1 DEF RcReject, Around
<1>4. ~ Sent(n) /\ \A h \in Handler : ~ Gives(h, n)
  BY <1>3, HandingOverGives DEF AnswerInv, OnceInv
<1>5. \A m \in Msg : /\ Sent(m)' <=> Sent(m)
                     /\ Refused(m)' => m = n \/ Refused(m)
  BY <1>2, <1>3, AroundAnswers DEF Sent, Refused
<1>6. OnceInv'
  <2>1. \A m \in Msg : \A h, g \in Handler : Gives(h, m)' /\ Gives(g, m)' => h = g
    BY <1>3, AroundAnswers DEF AnswerInv, OnceInv
  <2>2. ASSUME NEW m \in Msg, NEW h \in Handler, Gives(h, m)'
        PROVE  m \notin toRc' /\ ~ Sent(m)' /\ ~ Refused(m)'
    BY <1>3, <1>4, <1>5, <2>2, AroundAnswers, HandingOverGives DEF AnswerInv, OnceInv
  <2>3. \A m \in Msg : HandingOver(m)' => m \notin toRc' /\ ~ Sent(m)' /\ ~ Refused(m)'
    BY <2>2 DEF HandingOver, Gives
  <2>4. \A m \in toRc' : ~ Sent(m)' /\ ~ Refused(m)'
    BY <1>3, <1>5 DEF AnswerInv, OnceInv, TypeInv, RcInv
  <2>5. \A m \in Msg : ~ (Sent(m)' /\ Refused(m)')
    BY <1>4, <1>5 DEF AnswerInv, OnceInv
  <2>6. \A c \in Pending' : c.kind = "answer" => rc'[c.list[1].x].of = c.m
    BY <1>2, <1>3, AroundAnswers DEF AnswerInv, OnceInv
  <2>7. QED
    BY <1>3, <2>1, <2>3, <2>4, <2>5, <2>6 DEF AnswerInv, OnceInv
<1>7. AnswerBinds'
  <2>1. \A m \in Msg, x \in Ext : rc'[x].of = m /\ ~ Reported(m)' => rc[x].of = m /\ ~ Reported(m)
    BY <1>3, AroundAnswers
  <2>2. QED
    BY <1>3, <2>1, BindsStay DEF AnswerInv, Around
<1>8. QED
  BY <1>3, <1>6, <1>7, AroundAnswers DEF AnswerInv

(* A restart forgets what was about to be handed over, and the refusals     *)
(* that were being noted: their rows are stray.                             *)
LEMMA RestartAnswers ==
  ASSUME TypeInv, AnswerInv, Restart
  PROVE  AnswerInv'
<1>1. /\ UNCHANGED <<message, toRc, rc>> /\ calls \subseteq calls' /\ stray \subseteq stray'
      /\ run' = [h \in Handler |-> Idle]
      /\ \A h \in Handler : /\ run[h].at = "error" => run[h].m \in stray'
                            /\ run[h].at = "answer" => run[h].call \in calls'
  BY DEF Restart
<1>2. \A h \in Handler : run'[h] = Idle
  BY <1>1
<1>3. Pending' \subseteq Pending
  <2>1. calls' \subseteq Pending
    BY DEF Restart, Pending, Http
  <2>2. QED
    BY <1>2, <2>1, IdleAnswers DEF Pending
<1>4. DraftInv' /\ (\A h \in Handler : Recalls(run'[h]))
  BY <1>2, IdleAnswers DEF DraftInv
<1>5. OnceInv'
  <2>1. \A g \in Handler, m \in Msg : ~ Gives(g, m)'
    BY <1>2, IdleAnswers DEF Gives
  <2>2. PICK h : h = None
    OBVIOUS
  <2>3. QED
    BY <1>1, <1>3, <2>1, OnceStays DEF AnswerInv
<1>6. AnswerBinds'
  <2>1. \A h \in Handler : run[h].at = "answer" => run[h].call.kind = "answer" /\ run[h].call.m = run[h].m
    BY BusyType DEF Sound
  <2>2. \A m \in Msg \ stray' : Reported(m) => Reported(m)'
    BY <1>1, <2>1 DEF Reported
  <2>3. QED
    BY <1>1, <2>2, BindsStay DEF AnswerInv
<1>7. QED
  BY <1>4, <1>5, <1>6 DEF AnswerInv

LEMMA InitAnswers == Init => AnswerInv
<1> SUFFICES ASSUME Init PROVE AnswerInv
  OBVIOUS
<1>1. /\ \A h \in Handler : run[h] = Idle
      /\ \A x \in Ext : rc[x].of = None
      /\ toRc = {} /\ calls = {} /\ \A m \in Msg : m # None
  BY ConstantsAssumption DEF Init
<1>2. Pending = {} /\ \A h \in Handler, m \in Msg : ~ Gives(h, m)
  BY <1>1, IdleAnswers DEF Pending, Gives
<1>3. DraftInv /\ \A h \in Handler : Recalls(run[h])
  BY <1>1, IdleAnswers DEF DraftInv
<1>4. OnceInv
  BY <1>1, <1>2, HandingOverGives DEF OnceInv, Sent, Refused
<1>5. AnswerBinds
  BY <1>1 DEF AnswerBinds
<1>6. QED
  BY <1>3, <1>4, <1>5 DEF AnswerInv

LEMMA AnswerStutter ==
  ASSUME AnswerInv, UNCHANGED vars
  PROVE  AnswerInv'
<1>1. Around({})
  BY DEF vars, Around
<1>2. OnceInv'
  BY DEF vars, AnswerInv, OnceInv, Gives, HandingOver, Sent, Refused, Pending
<1>3. AnswerBinds'
  BY DEF vars, AnswerInv, AnswerBinds, Reported
<1>4. QED
  BY <1>1, <1>2, <1>3, AroundAnswers DEF AnswerInv

LEMMA AnswerStep ==
  ASSUME TypeInv, AnswerInv, [Next]_vars
  PROVE  AnswerInv'
<1>1. CASE Users
  BY <1>1, ComposeAnswers, ReportsAnswers DEF Users
<1>2. CASE RingCentral
  BY <1>2, TakeAnswers, RejectAnswers, ReportsAnswers DEF RingCentral
<1>3. CASE SyncQueuedMessage
  BY <1>3, ReportsAnswers
<1>4. ASSUME NEW h \in Handler, NEW c \in calls, Receive(h, c) PROVE AnswerInv'
  BY <1>4, ReceiveAnswers
<1>5. ASSUME NEW h \in Handler, Proceed(h) \/ Fail(h) PROVE AnswerInv'
  BY <1>5, ComposeAnswers, FindAnswers, SavesAnswers, NewRowsAnswers, PublishesAnswers DEF Proceed, Fail
<1>6. CASE Restart
  BY <1>6, RestartAnswers
<1>7. CASE UNCHANGED vars
  BY <1>7, AnswerStutter
<1>8. QED
  BY <1>1, <1>2, <1>3, <1>4, <1>5, <1>6, <1>7 DEF Next

(* Once RingCentral's answer to a message has been handled, the row has the *)
(* exId of that answer, in whatever order answers, lists and statuses are   *)
(* handled, however often they are delivered, and whichever message of a    *)
(* softphone was taken for the row before, unless the row is stray.         *)
THEOREM AnswersBind == Spec => []AnswerBinds
<1>1. TypeInv /\ AnswerInv /\ [Next]_vars => TypeInv' /\ AnswerInv'
  BY TypeStep, AnswerStep
<1>2. AnswerInv => AnswerBinds
  BY DEF AnswerInv
<1>3. QED
  BY <1>1, <1>2, InitType, InitAnswers, PTL DEF Spec
=============================================================================
