----------------------- MODULE InboundMessagesProofs -----------------------
(***************************************************************************)
(* Type correctness of InboundMessages, and its safety properties, for any *)
(* number of items, customers, handlers, connections and failures.         *)
(***************************************************************************)
EXTENDS InboundMessages, FiniteSetTheorems, TLAPS

Run == [at : Place, x : Item \cup {None}, did : SUBSET Touch, extra : SUBSET Touch]

RcState == [kind : {"none", "message", "group", "call"}, from : Phone]

Connections == [clean : Nat, aborted : Nat, orphans : SUBSET Orphan]

RowsInv == /\ contact \in [Phone -> Contact] /\ convs \in [Phone -> Nat]
           /\ met \in [Phone -> Contact]
           /\ stored \cup dropped \cup dead \subseteq Item
           /\ rc \in [Item -> RcState]
RunInv  == /\ run \in [Handler -> Run]
           /\ \A h \in Handler : IF run[h].at = "idle" THEN run[h] = Idle
                                 ELSE run[h].x \in Item /\ rc[run[h].x].kind # "none"
PoolInv == /\ pool \in Connections
           /\ IsFiniteSet(pool.orphans)
           /\ pool.clean + pool.aborted + Cardinality(pool.orphans)
                + Cardinality(Serving) <= Pool

TypeInv == RowsInv /\ RunInv /\ PoolInv

(* Where the handler of item x may be, given its kind and who sent it.      *)
May(x, at) ==
    /\ at = "group" <=> rc[x].kind = "group"
    /\ at \in {"template", "newTemplate"} => met[rc[x].from] \in {"elsewhere", "inactive"}
    /\ at = "insert" => met[rc[x].from] \in {"stranger", "disabled"}
    /\ at \in {"create", "insert", "callNew"} /\ company => met[rc[x].from] # "active"

Placed(h) == run[h].at # "idle" => May(run[h].x, run[h].at)

(* What a transaction may have done: for one who is unique, a stranger or a *)
(* customer who is inactive, only while nobody else has, and then that is   *)
(* not committed yet.                                                       *)
Proper(t) == \/ met[t.p] = "elsewhere"
             \/ /\ met[t.p] \in {"stranger", "inactive"} /\ contact[t.p] = met[t.p]
                /\ met[t.p] = "inactive" => t.did # "created"

(* What was left on a connection was left with an item that is accounted    *)
(* for.                                                                     *)
Known(t) == met[t.p] = "stranger" => \E x \in stored \cup dropped : rc[x].from = t.p

Holds(T, p) == \E t \in T : t.p = p

Apart(p) ==
    /\ \A h, g \in Handler : Holds(Done(h), p) /\ Holds(Done(g), p) => h = g
    /\ \A h \in Handler, o \in pool.orphans : ~ (Holds(Done(h), p) /\ Holds(o.did, p))
    /\ \A o, q \in pool.orphans : Holds(o.did, p) /\ Holds(q.did, p) => o = q

TouchInv ==
    /\ \A o \in pool.orphans : \A t \in o.did : Proper(t) /\ Known(t)
    /\ \A h \in Handler : \A t \in run[h].extra : Proper(t) /\ Known(t)
    /\ \A h \in Handler : \A t \in run[h].did : Proper(t) /\ t.p = From(h)
    /\ \A h \in Handler :
         run[h].at \in {"template", "newTemplate"} => Holds(run[h].did, From(h))
    /\ \A p \in Phone : met[p] \in {"stranger", "inactive"} => Apart(p)

ContactInv ==
    \A p \in Phone : /\ contact[p] \in {met[p], "active"}
                     /\ met[p] # "elsewhere" => convs[p] <= 1
                     /\ contact[p] = "stranger" => convs[p] = 0
                     /\ met[p] = "disabled" => contact[p] = "disabled"

(* An item that is dropped has arrived.                                     *)
ItemInv == \A x \in stored \cup dropped : rc[x].kind # "none"

Inv == /\ ItemInv /\ ContactInv /\ TouchInv
       /\ \A h \in Handler : Placed(h)
       /\ FirstContactIsWhole /\ DroppedIsFirstContact

-----------------------------------------------------------------------------
(* Connections are conserved.                                               *)

LEMMA ServingFinite == IsFiniteSet(Serving) /\ Cardinality(Serving) \in Nat
BY ConstantsAssumption, FS_Subset, FS_CardinalityType DEF Serving

LEMMA ServingLess ==
  ASSUME TypeInv, NEW h \in Handler, run[h].at # "idle", run' = [run EXCEPT ![h] = Idle]
  PROVE  Cardinality(Serving)' = Cardinality(Serving) - 1
<1>1. Serving' = Serving \ {h} /\ h \in Serving
  BY DEF Serving, TypeInv, RunInv, Idle
<1>2. QED
  BY <1>1, ServingFinite, FS_RemoveElement

LEMMA ServingMore ==
  ASSUME TypeInv, NEW h \in Handler, run[h].at = "idle", NEW s, s.at # "idle",
         run' = [run EXCEPT ![h] = s]
  PROVE  Cardinality(Serving)' = Cardinality(Serving) + 1
<1>1. Serving' = Serving \cup {h} /\ h \notin Serving
  BY DEF Serving, TypeInv, RunInv
<1>2. QED
  BY <1>1, ServingFinite, FS_AddElement

LEMMA IdleType == Idle \in Run /\ Idle.at = "idle" /\ Idle.did = {} /\ Idle.extra = {}
BY DEF Idle, Run, Place

(* Two connections that were left with the same are told apart: there are   *)
(* fewer of them than connections, for the handler has one.                 *)
LEMMA NumberedType ==
  ASSUME PoolInv, NEW h \in Handler, run[h].at # "idle", NEW T \in SUBSET Touch
  PROVE  Numbered(T) \in Orphan \ pool.orphans /\ Numbered(T).did = T
<1>1. /\ IsFiniteSet(pool.orphans) /\ Cardinality(pool.orphans) \in Nat /\ Pool \in Nat
      /\ pool.clean \in Nat /\ pool.aborted \in Nat
  BY FS_CardinalityType, ConstantsAssumption DEF PoolInv, Connections
<1>2. Cardinality(Serving) > 0
  BY ServingFinite, FS_EmptySet DEF Serving
<1>3. Cardinality(pool.orphans) < Pool
  BY <1>1, <1>2, ServingFinite DEF PoolInv
<1>4. \E n \in 1..Pool : [did |-> T, nr |-> n] \notin pool.orphans
  <2> SUFFICES ASSUME \A n \in 1..Pool : [did |-> T, nr |-> n] \in pool.orphans PROVE FALSE
    OBVIOUS
  <2> DEFINE f == [n \in 1..Pool |-> [did |-> T, nr |-> n]]
  <2>1. f \in Injection(1..Pool, pool.orphans)
    <3>1. \A n, m \in 1..Pool : [did |-> T, nr |-> n] = [did |-> T, nr |-> m] => n = m
      <4>1. \A n : [did |-> T, nr |-> n].nr = n
        OBVIOUS
      <4>2. QED
        BY <4>1, Zenon
    <3>2. f \in [1..Pool -> pool.orphans]
      OBVIOUS
    <3>3. \A n \in 1..Pool : f[n] = [did |-> T, nr |-> n]
      OBVIOUS
    <3> HIDE DEF f
    <3>4. ASSUME NEW n \in 1..Pool, NEW m \in 1..Pool, f[n] = f[m] PROVE n = m
      <4>1. f[n] = [did |-> T, nr |-> n] /\ f[m] = [did |-> T, nr |-> m]
        BY <3>3
      <4>2. [did |-> T, nr |-> n] = [did |-> T, nr |-> m]
        BY <4>1, <3>4, Zenon
      <4>3. QED
        BY <3>1, <4>2, Zenon
    <3>5. QED
      BY <3>2, <3>4 DEF Injection, IsInjective
  <2>2. Cardinality(1..Pool) <= Cardinality(pool.orphans)
    BY <1>1, <2>1, FS_Injection
  <2>3. Cardinality(1..Pool) = Pool
    BY <1>1, FS_Interval
  <2>4. QED
    BY <1>1, <1>3, <2>2, <2>3
<1>5. PICK n \in 1..Pool : /\ n = CHOOSE k \in 1..Pool : [did |-> T, nr |-> k] \notin pool.orphans
                           /\ [did |-> T, nr |-> n] \notin pool.orphans
  BY <1>4
<1>6. Numbered(T) = [did |-> T, nr |-> n]
  BY <1>5 DEF Numbered
<1>7. QED
  BY <1>5, <1>6 DEF Orphan

(* A connection that is released as it is, is one more.                     *)
LEMMA OpenType ==
  ASSUME PoolInv, NEW h \in Handler, run[h].at # "idle", NEW T \in SUBSET Touch
  PROVE  /\ Open(T) \in Connections
         /\ IsFiniteSet(Open(T).orphans)
         /\ Open(T).aborted = pool.aborted
         /\ Open(T).clean + Cardinality(Open(T).orphans) = pool.clean + Cardinality(pool.orphans) + 1
         /\ \/ Open(T).orphans = pool.orphans
            \/ \E o : /\ o.did = T /\ o \notin pool.orphans
                      /\ Open(T).orphans = pool.orphans \cup {o}
<1>1. IsFiniteSet(pool.orphans) /\ pool \in Connections /\ Cardinality(pool.orphans) \in Nat
  BY FS_CardinalityType DEF PoolInv
<1>2. PICK o \in Orphan \ pool.orphans : o = Numbered(T) /\ o.did = T
  BY NumberedType
<1>3. /\ IsFiniteSet(pool.orphans \cup {o})
      /\ Cardinality(pool.orphans \cup {o}) = Cardinality(pool.orphans) + 1
  BY <1>1, FS_AddElement
<1>4. CASE T = {}
  BY <1>1, <1>4 DEF Open, Connections
<1>5. CASE T # {}
  <2>1. Open(T) = [clean |-> pool.clean, aborted |-> pool.aborted, orphans |-> pool.orphans \cup {o}]
    BY <1>1, <1>2, <1>5 DEF Open, Connections
  <2>2. QED
    BY <1>1, <1>2, <1>3, <2>1 DEF Connections
<1>6. QED
  BY <1>4, <1>5

Created(T, p) == \E t \in T : t.p = p /\ t.did = "created"

LEMMA NoItems == {} \in SUBSET Item /\ stored \cup {} = stored
OBVIOUS

(* A commit adds one conversation at most for each customer.                *)
LEMMA CommitEffect ==
  ASSUME RowsInv, NEW T \in SUBSET Touch, NEW X \in SUBSET Item, Commit(T, X)
  PROVE  /\ contact' \in [Phone -> Contact] /\ convs' \in [Phone -> Nat]
         /\ \A p \in Phone : contact'[p] = IF Holds(T, p) THEN "active" ELSE contact[p]
         /\ \A p \in Phone : convs'[p] = IF Created(T, p) THEN convs[p] + 1 ELSE convs[p]
         /\ stored' = stored \cup X
<1>1. contact' \in [Phone -> Contact]
  BY DEF Commit, Seen, RowsInv, Contact
<1>2. \A p \in Phone : contact'[p] = IF Holds(T, p) THEN "active" ELSE contact[p]
  BY DEF Commit, Seen, Holds
<1>3. ASSUME NEW p \in Phone
      PROVE  convs'[p] = IF Created(T, p) THEN convs[p] + 1 ELSE convs[p]
  <2> DEFINE N == {t \in T : t.p = p /\ t.did = "created"}
  <2>1. convs'[p] = convs[p] + Cardinality(N)
    BY DEF Commit
  <2>2. CASE Created(T, p)
    <3>1. N = {[p |-> p, did |-> "created"]}
      BY <2>2 DEF Created, Touch
    <3>2. Cardinality(N) = 1
      BY <3>1, FS_Singleton
    <3>3. QED
      BY <2>1, <2>2, <3>2
  <2>3. CASE ~ Created(T, p)
    <3>1. N = {}
      BY <2>3 DEF Created
    <3>2. Cardinality(N) = 0
      BY <3>1, FS_EmptySet
    <3>3. QED
      BY <2>1, <2>3, <3>2 DEF RowsInv
  <2>4. QED
    BY <2>2, <2>3
<1>4. convs' \in [Phone -> Nat]
  <2>1. convs' = [p \in Phone |-> convs'[p]]
    BY DEF Commit
  <2>2. \A p \in Phone : convs'[p] \in Nat
    BY <1>3 DEF RowsInv
  <2>3. QED
    BY <2>1, <2>2
<1>5. QED
  BY <1>1, <1>2, <1>3, <1>4 DEF Commit

-----------------------------------------------------------------------------
(* What a step of a handler comes to *)

(* Nobody else's transaction has done anything for p.                       *)
Unheld(h, p) == \A T \in Left \cup {Done(g) : g \in Handler \ {h}} : ~ Holds(T, p)

(* T is what the handler has done, or a first contact that is its own.      *)
MayDo(h, T) ==
    /\ T \in SUBSET Touch
    /\ \A t \in T :
         \/ t \in run[h].did
         \/ /\ t.p = From(h)
            /\ \/ met[t.p] = "elsewhere"
               \/ /\ met[t.p] \in {"stranger", "inactive"} /\ contact[t.p] = met[t.p]
                  /\ Unheld(h, t.p)
                  /\ met[t.p] = "inactive" => t.did # "created"

(* Where it may get to: to insert a stranger who is not committed, or a     *)
(* template that is not, for a customer whom it has done something for.     *)
Enters(h, at, D) ==
    /\ at = "insert" => met[From(h)] = "disabled" \/ contact[From(h)] = "stranger"
    /\ at = "newTemplate" => From(h) \notin template
    /\ at \in {"template", "newTemplate"} => Holds(D, From(h))

(* It goes on in its transaction.                                           *)
GoesOn(h) ==
    \E s \in Run :
      /\ run' = [run EXCEPT ![h] = s]
      /\ s.at # "idle" /\ s.x = run[h].x /\ s.extra = run[h].extra
      /\ MayDo(h, s.did) /\ May(s.x, s.at) /\ Enters(h, s.at, s.did)
      /\ UNCHANGED <<rows, pool, dropped, dead>>

MayLeave(h) == \/ run[h].x \in stored \/ ~ company \/ rc[run[h].x].kind = "group"
               \/ met[From(h)] # "active"

(* Postgres has aborted its transaction: somebody was first.                *)
Aborts(h) ==
    \/ /\ run[h].at = "insert"
       /\ contact[From(h)] \notin {"stranger", "disabled"}
    \/ /\ run[h].at = "template" /\ From(h) \notin template
       /\ \E T \in Left : From(h) \in Announcing(T)
    \/ run[h].at = "newTemplate" /\ From(h) \in template

(* What it has done is left behind with its connection: a look-up failed, or*)
(* a write.                                                                 *)
LeavesBehind(T) ==
    T # {} => \/ pool.aborted > 0
              \/ faults' = faults + 1 /\ \A t \in T : t.did # "announced"

(* It leaves its item, and what its transaction did with the connection.    *)
Leaves(h) ==
    /\ MayLeave(h)
    /\ \/ Leave(h, [pool EXCEPT !.clean = @ + 1])
       \/ Aborts(h) /\ Leave(h, Aborted)
       \/ \E T : MayDo(h, T) /\ LeavesBehind(T) /\ Leave(h, Open(run[h].extra \cup T))

(* A group message to an unknown company: what was open is committed.       *)
Drops(h) ==
    /\ run[h].at = "group" /\ ~ company
    /\ Commit(Done(h), {}) /\ Free(h) /\ Return
    /\ dropped' = dropped \cup {run[h].x}
    /\ UNCHANGED dead

Given == /\ company' = company /\ met' = met /\ rc' = rc
         /\ faults' \in {faults, faults + 1}

Effect(h) == /\ run[h].at # "idle" /\ Given
             /\ GoesOn(h) \/ Finish(h) \/ Nack(h) \/ Leaves(h) \/ Drops(h)

-----------------------------------------------------------------------------
(* Types *)

LEMMA FreeType ==
  ASSUME TypeInv, NEW h \in Handler, run[h].at # "idle", Free(h), Given
  PROVE  RunInv'
<1>1. run' \in [Handler -> Run] /\ \A g \in Handler : run'[g] = IF g = h THEN Idle ELSE run[g]
  BY IdleType DEF Free, TypeInv, RunInv
<1>2. QED
  BY <1>1, IdleType DEF TypeInv, RunInv, Given

LEMMA ReleasedType ==
  ASSUME TypeInv, NEW h \in Handler, run[h].at # "idle", Free(h),
         NEW state \in Connections, pool' = state, IsFiniteSet(state.orphans),
         state.clean + state.aborted + Cardinality(state.orphans)
           <= pool.clean + pool.aborted + Cardinality(pool.orphans) + 1
  PROVE  PoolInv'
<1>1. Cardinality(Serving)' = Cardinality(Serving) - 1
  BY ServingLess DEF Free
<1>2. /\ Cardinality(Serving) \in Nat /\ Cardinality(pool.orphans) \in Nat
      /\ Cardinality(state.orphans) \in Nat
  BY ServingFinite, FS_CardinalityType DEF TypeInv, PoolInv
<1>3. QED
  BY <1>1, <1>2, ConstantsAssumption DEF TypeInv, PoolInv, Connections

LEMMA ReturnType ==
  ASSUME TypeInv, NEW h \in Handler, run[h].at # "idle", Free(h), Return
  PROVE  PoolInv'
<1> DEFINE state == [pool EXCEPT !.clean = @ + 1]
<1>1. /\ state \in Connections /\ state.clean = pool.clean + 1 /\ state.aborted = pool.aborted
      /\ state.orphans = pool.orphans
  BY DEF TypeInv, PoolInv, Connections
<1>2. IsFiniteSet(pool.orphans) /\ Cardinality(pool.orphans) \in Nat /\ pool \in Connections
  BY FS_CardinalityType DEF TypeInv, PoolInv
<1>3. pool' = state
  BY DEF Return
<1> HIDE DEF state
<1>4. state.clean + state.aborted + Cardinality(state.orphans)
        <= pool.clean + pool.aborted + Cardinality(pool.orphans) + 1
  BY <1>1, <1>2 DEF Connections
<1>5. QED
  BY <1>1, <1>2, <1>3, <1>4, ReleasedType

LEMMA EffectType ==
  ASSUME TypeInv, NEW h \in Handler, Effect(h)
  PROVE  TypeInv'
<1>1. run[h].x \in Item /\ Done(h) \in SUBSET Touch
  BY DEF TypeInv, RunInv, Run, Done, Effect
<1>2. CASE GoesOn(h)
  <2>1. PICK s \in Run :
          run' = [run EXCEPT ![h] = s] /\ s.at # "idle" /\ s.x = run[h].x
    BY <1>2 DEF GoesOn
  <2>2. UNCHANGED <<rows, pool, dropped, dead>>
    BY <1>2 DEF GoesOn
  <2>3. RunInv'
    BY <2>1 DEF TypeInv, RunInv, Effect, Given
  <2>4. Serving' = Serving
    BY <2>1 DEF Serving, TypeInv, RunInv, Effect
  <2>5. QED
    BY <2>2, <2>3, <2>4 DEF TypeInv, RowsInv, PoolInv, rows, Effect, Given
<1>3. CASE Finish(h)
  <2>1. Commit(Done(h), {run[h].x}) /\ RowsInv /\ dropped' = dropped /\ dead' = dead
    BY <1>3 DEF Finish, TypeInv
  <2>2. /\ contact' \in [Phone -> Contact] /\ convs' \in [Phone -> Nat]
        /\ stored' = stored \cup {run[h].x}
    BY <1>1, <2>1, CommitEffect
  <2>3. RowsInv'
    BY <1>1, <2>1, <2>2 DEF RowsInv, Effect, Given
  <2>4. QED
    BY <1>3, <2>3, FreeType, ReturnType DEF Finish, TypeInv, Effect
<1>4. CASE Nack(h)
  <2>1. RowsInv'
    BY <1>1, <1>4 DEF Nack, TypeInv, RowsInv, Effect, Given, rows
  <2>2. QED
    BY <1>4, <2>1, FreeType, ReturnType DEF Nack, TypeInv, Effect
<1>5. CASE Leaves(h)
  <2>1. PICK state : Leave(h, state) /\ \/ state = [pool EXCEPT !.clean = @ + 1]
                                        \/ state = Aborted
                                        \/ \E T \in SUBSET Touch : state = Open(T)
    <3>1. ASSUME NEW T, MayDo(h, T) PROVE run[h].extra \cup T \in SUBSET Touch
      BY <3>1 DEF MayDo, TypeInv, RunInv, Run
    <3>2. QED
      BY <1>5, <3>1 DEF Leaves
  <2>2. RowsInv'
    BY <1>1, <2>1 DEF Leave, TypeInv, RowsInv, Effect, Given, rows
  <2>3. RunInv' /\ Free(h) /\ pool' = state
    BY <2>1, FreeType DEF Leave, Effect
  <2>4. IsFiniteSet(pool.orphans) /\ Cardinality(pool.orphans) \in Nat /\ pool \in Connections
    BY FS_CardinalityType DEF TypeInv, PoolInv
  <2>5. CASE state = [pool EXCEPT !.clean = @ + 1]
    BY <2>2, <2>3, <2>5, ReturnType DEF Return, TypeInv, Effect
  <2>6. CASE state = Aborted
    <3>1. /\ state \in Connections /\ state.clean = pool.clean
          /\ state.aborted = pool.aborted + 1 /\ state.orphans = pool.orphans
      BY <2>4, <2>6 DEF Aborted, Connections
    <3>2. state.clean + state.aborted + Cardinality(state.orphans)
            <= pool.clean + pool.aborted + Cardinality(pool.orphans) + 1
      BY <2>4, <3>1 DEF Connections
    <3>3. QED
      BY <2>2, <2>3, <2>4, <3>1, <3>2, ReleasedType DEF TypeInv, Effect
  <2>7. CASE \E T \in SUBSET Touch : state = Open(T)
    <3>1. PICK T \in SUBSET Touch : state = Open(T)
      BY <2>7
    <3>2. /\ state \in Connections /\ IsFiniteSet(state.orphans) /\ state.aborted = pool.aborted
          /\ state.clean + Cardinality(state.orphans) = pool.clean + Cardinality(pool.orphans) + 1
      BY <3>1, OpenType DEF TypeInv, Effect
    <3>3. Cardinality(state.orphans) \in Nat
      BY <3>2, FS_CardinalityType
    <3>4. state.clean + state.aborted + Cardinality(state.orphans)
            <= pool.clean + pool.aborted + Cardinality(pool.orphans) + 1
      BY <2>4, <3>2, <3>3 DEF Connections
    <3>5. QED
      BY <2>2, <2>3, <3>2, <3>4, ReleasedType DEF TypeInv, Effect
  <2>8. QED
    BY <2>1, <2>5, <2>6, <2>7
<1>6. CASE Drops(h)
  <2>1. Commit(Done(h), {}) /\ RowsInv /\ dropped' = dropped \cup {run[h].x} /\ dead' = dead
    BY <1>6 DEF Drops, TypeInv
  <2>2. contact' \in [Phone -> Contact] /\ convs' \in [Phone -> Nat] /\ stored' = stored
    BY <1>1, <2>1, CommitEffect, NoItems, Zenon
  <2>3. RowsInv'
    BY <1>1, <2>1, <2>2 DEF RowsInv, Effect, Given
  <2>4. QED
    BY <1>6, <2>3, FreeType, ReturnType DEF Drops, TypeInv, Effect
<1>7. QED
  BY <1>2, <1>3, <1>4, <1>5, <1>6 DEF Effect

-----------------------------------------------------------------------------
(* Every action of a handler has such an effect *)

(* What is seen of a customer is what he was or what he becomes.            *)
LEMMA SeenContact ==
  ASSUME Inv, NEW v, v \in Views \/ \E T : v = Seen(T), NEW p \in Phone
  PROVE  v[p] # "active" => v[p] = contact[p] /\ v[p] = met[p]
<1>1. v = contact \/ \E T : v = Seen(T)
  BY DEF Views
<1>2. v[p] \in {contact[p], "active"}
  BY <1>1 DEF Seen
<1>3. QED
  BY <1>2 DEF Inv, ContactInv

LEMMA ServedType ==
  ASSUME TypeInv, NEW h \in Handler, run[h].at # "idle"
  PROVE  /\ run[h] \in Run /\ run[h].x \in Item /\ From(h) \in Phone
         /\ run[h].did \in SUBSET Touch /\ run[h].extra \in SUBSET Touch
BY DEF TypeInv, RunInv, RowsInv, RcState, Run, From

LEMMA Moves ==
  ASSUME TypeInv, NEW h \in Handler, run[h].at # "idle", Given,
         NEW D, MayDo(h, D), NEW at \in Place \ {"idle"}, May(run[h].x, at), Enters(h, at, D),
         run' = [run EXCEPT ![h] = [@ EXCEPT !.at = at, !.did = D]],
         UNCHANGED <<rows, pool, dropped, dead>>
  PROVE  Effect(h)
<1> DEFINE s == [run[h] EXCEPT !.at = at, !.did = D]
<1>1. s \in Run /\ s.at = at /\ s.did = D /\ s.x = run[h].x /\ s.extra = run[h].extra
  BY ServedType DEF MayDo, Run
<1>2. run' = [run EXCEPT ![h] = s]
  OBVIOUS
<1> HIDE DEF s
<1>3. GoesOn(h)
  BY <1>1, <1>2 DEF GoesOn
<1>4. QED
  BY <1>3 DEF Effect

LEMMA GoesTo ==
  ASSUME TypeInv, NEW h \in Handler, run[h].at # "idle", Given,
         NEW at \in Place \ {"idle"}, May(run[h].x, at), Enters(h, at, run[h].did), Goto(h, at)
  PROVE  Effect(h)
<1> DEFINE s == [run[h] EXCEPT !.at = at]
<1>1. s \in Run /\ s.at = at /\ s.did = run[h].did /\ s.x = run[h].x /\ s.extra = run[h].extra
  BY ServedType DEF Run
<1>2. run' = [run EXCEPT ![h] = s] /\ UNCHANGED <<rows, pool, dropped, dead>>
  BY DEF Goto
<1> HIDE DEF s
<1>3. MayDo(h, run[h].did)
  BY ServedType DEF MayDo
<1>4. GoesOn(h)
  BY <1>1, <1>2, <1>3 DEF GoesOn
<1>5. QED
  BY <1>4 DEF Effect

LEMMA LeavesWith ==
  ASSUME TypeInv, NEW h \in Handler, run[h].at # "idle", Given, MayLeave(h),
         NEW T, MayDo(h, T), LeavesBehind(T), Leave(h, Open(run[h].extra \cup T))
  PROVE  Effect(h)
BY DEF Effect, Leaves

LEMMA LeavesAlone ==
  ASSUME TypeInv, NEW h \in Handler, run[h].at # "idle", Given, MayLeave(h),
         \/ Leave(h, Open(run[h].extra))
         \/ pool.aborted > 0 /\ Leave(h, Open(Done(h)))
         \/ Aborts(h) /\ Leave(h, Aborted)
  PROVE  Effect(h)
<1>1. MayDo(h, {}) /\ MayDo(h, run[h].did)
  BY ServedType DEF MayDo
<1>2. run[h].extra \cup {} = run[h].extra /\ run[h].extra \cup run[h].did = Done(h)
  BY DEF Done
<1>3. CASE Aborts(h) /\ Leave(h, Aborted)
  BY <1>3 DEF Effect, Leaves
<1>4. CASE Leave(h, Open(run[h].extra))
  <2>1. LeavesBehind({})
    BY DEF LeavesBehind
  <2>2. QED
    BY <1>1, <1>2, <1>4, <2>1, LeavesWith, Zenon
<1>5. CASE pool.aborted > 0 /\ Leave(h, Open(Done(h)))
  <2>1. LeavesBehind(run[h].did)
    BY <1>5 DEF LeavesBehind
  <2>2. QED
    BY <1>1, <1>2, <1>5, <2>1, LeavesWith, Zenon
<1>6. QED
  BY <1>3, <1>4, <1>5

(* A first contact that nobody else has made.                               *)
LEMMA FirstTouch ==
  ASSUME TypeInv, Inv, NEW h \in Handler, run[h].at # "idle",
         NEW did \in {"created", "reactivated", "announced"},
         \/ met[From(h)] = "elsewhere"
         \/ /\ met[From(h)] \in {"stranger", "inactive"} /\ contact[From(h)] = met[From(h)]
            /\ ~ Inserting(h, From(h))
            /\ met[From(h)] = "inactive" => did # "created"
  PROVE  MayDo(h, {[p |-> From(h), did |-> did]})
<1>1. {[p |-> From(h), did |-> did]} \in SUBSET Touch
  BY ServedType DEF Touch
<1>2. contact[From(h)] \in {"stranger", "inactive"} /\ ~ Inserting(h, From(h))
        => Unheld(h, From(h))
  BY DEF Inserting, Unheld, Holds
<1>3. QED
  BY <1>1, <1>2 DEF MayDo

LEMMA FirstNotActive ==
  ASSUME Inv, NEW h \in Handler, met[From(h)] # "active" PROVE MayLeave(h)
BY DEF MayLeave

LEMMA GivenKept == Keep => Given
BY DEF Keep, Given

LEMMA GroupEffect ==
  ASSUME TypeInv, Inv, NEW h \in Handler, HandleGroupMessage(h)
  PROVE  Effect(h)
<1>1. run[h].at = "group" /\ rc[run[h].x].kind = "group" /\ Given
  BY GivenKept DEF HandleGroupMessage, Inv, Placed, May
<1>2. QED
  BY <1>1 DEF HandleGroupMessage, Effect, Leaves, MayLeave, Drops

LEMMA TextEffect ==
  ASSUME TypeInv, Inv, NEW h \in Handler,
         FindDuplicate(h) \/ FindConversation(h) \/ CreateConversation(h) \/ InsertCustomer(h)
  PROVE  Effect(h)
<1> USE DEF Place
<1>0. Given /\ run[h].at \in {"lookup", "find", "create", "insert"} /\ May(run[h].x, run[h].at)
  BY GivenKept DEF FindDuplicate, FindConversation, CreateConversation, InsertCustomer, Inv, Placed
<1>1. CASE FindDuplicate(h)
  BY <1>0, <1>1, LeavesAlone, GoesTo DEF FindDuplicate, May, MayLeave, Enters
<1>2. CASE FindConversation(h)
  <2>1. PICK v \in Views :
          Goto(h, IF company /\ v[From(h)] = "active" THEN "write" ELSE "create")
    BY <1>2 DEF FindConversation
  <2>2. CASE company /\ v[From(h)] = "active"
    BY <1>0, <2>1, <2>2, GoesTo DEF May, Enters
  <2>3. CASE ~ (company /\ v[From(h)] = "active")
    <3>1. company => met[From(h)] # "active"
      BY <1>0, <2>3, SeenContact, ServedType
    <3>2. Goto(h, "create")
      BY <2>1, <2>3
    <3>3. QED
      BY <1>0, <3>1, <3>2, GoesTo DEF May, Enters, From
  <2>4. QED
    BY <2>2, <2>3
<1>3. CASE CreateConversation(h)
  <2> DEFINE known == Seen(run[h].extra)[From(h)]
             did == IF known = "inactive" THEN "reactivated" ELSE "created"
  <2>1. known # "active" => known = contact[From(h)] /\ known = met[From(h)]
    BY <1>0, SeenContact, ServedType
  <2>2. \/ known \in {"stranger", "disabled"} /\ company /\ Goto(h, "insert")
        \/ Nack(h)
        \/ ~ company /\ Leave(h, Open(run[h].extra))
        \/ company /\ Goto(h, "write")
        \/ /\ known \in {"elsewhere", "inactive"} /\ company
           /\ run' = [run EXCEPT ![h] = [@ EXCEPT !.at = "template",
                                                  !.did = {[p |-> From(h), did |-> did]}]]
           /\ UNCHANGED <<rows, pool, dropped, dead>>
        \/ /\ known \in {"elsewhere", "inactive"} /\ company /\ pool.aborted > 0
           /\ Leave(h, Open(run[h].extra \cup {[p |-> From(h), did |-> did]}))
    BY <1>3 DEF CreateConversation
  <2>3. CreateConversation(h) /\ known \in {"elsewhere", "inactive"} /\ company
          => ~ Inserting(h, From(h))
    BY DEF CreateConversation
  <2>4. known \in {"elsewhere", "inactive"} /\ company => MayDo(h, {[p |-> From(h), did |-> did]})
    BY <1>0, <1>3, <2>1, <2>3, FirstTouch
  <2>5. Holds({[p |-> From(h), did |-> did]}, From(h))
    BY DEF Holds
  <2> HIDE DEF did
  <2>6. CASE known \in {"stranger", "disabled"} /\ company /\ Goto(h, "insert")
    <3>1. May(run[h].x, "insert") /\ Enters(h, "insert", run[h].did)
      BY <1>0, <2>1, <2>6 DEF May, Enters, From
    <3>2. QED
      BY <1>0, <2>6, <3>1, GoesTo
  <2>7. CASE Nack(h)
    BY <1>0, <2>7 DEF Effect
  <2>8. CASE ~ company /\ Leave(h, Open(run[h].extra))
    BY <1>0, <2>8, LeavesAlone DEF MayLeave
  <2>9. CASE company /\ Goto(h, "write")
    BY <1>0, <2>9, GoesTo DEF May, Enters
  <2>10. CASE /\ known \in {"elsewhere", "inactive"} /\ company
             /\ run' = [run EXCEPT ![h] = [@ EXCEPT !.at = "template",
                                                    !.did = {[p |-> From(h), did |-> did]}]]
             /\ UNCHANGED <<rows, pool, dropped, dead>>
    <3>1. May(run[h].x, "template")
      BY <1>0, <2>1, <2>10 DEF May, From
    <3>2. Enters(h, "template", {[p |-> From(h), did |-> did]})
      BY <2>5 DEF Enters
    <3>3. QED
      BY <1>0, <2>4, <2>10, <3>1, <3>2, Moves
  <2>11. CASE /\ known \in {"elsewhere", "inactive"} /\ company /\ pool.aborted > 0
             /\ Leave(h, Open(run[h].extra \cup {[p |-> From(h), did |-> did]}))
    <3>1. LeavesBehind({[p |-> From(h), did |-> did]})
      BY <2>11 DEF LeavesBehind
    <3>2. QED
      BY <1>0, <2>1, <2>4, <2>11, <3>1, LeavesWith DEF MayLeave
  <2>12. QED
    BY <2>2, <2>6, <2>7, <2>8, <2>9, <2>10, <2>11
<1>4. CASE InsertCustomer(h)
  <2> DEFINE new == {[p |-> From(h), did |-> "created"]}
  <2>1. \/ /\ contact[From(h)] = "stranger" /\ ~ Inserting(h, From(h))
           /\ \/ /\ run' = [run EXCEPT ![h] = [@ EXCEPT !.at = "write", !.did = new]]
                 /\ UNCHANGED <<rows, pool, dropped, dead>>
              \/ pool.aborted > 0 /\ Leave(h, Open(run[h].extra \cup new))
        \/ contact[From(h)] \notin {"stranger", "disabled"} /\ Leave(h, Aborted)
        \/ Leave(h, Open(run[h].extra))
    BY <1>4 DEF InsertCustomer
  <2>2. contact[From(h)] = "stranger" => met[From(h)] = "stranger"
    BY <1>0, ServedType DEF Inv, ContactInv
  <2>3. contact[From(h)] = "stranger" /\ ~ Inserting(h, From(h)) => MayDo(h, new)
    BY <1>0, <2>2, FirstTouch
  <2>4. MayLeave(h) /\ May(run[h].x, "write")
    BY <1>0, <1>4 DEF InsertCustomer, May, MayLeave, From
  <2>5. /\ pool.aborted > 0 => LeavesBehind(new)
        /\ contact[From(h)] \notin {"stranger", "disabled"} => Aborts(h)
        /\ Enters(h, "write", new)
    BY <1>4 DEF InsertCustomer, LeavesBehind, Aborts, Enters
  <2> HIDE DEF new
  <2>6. QED
    BY <1>0, <2>1, <2>3, <2>4, <2>5, Moves, LeavesWith, LeavesAlone
<1>5. QED
  BY <1>1, <1>2, <1>3, <1>4

LEMMA FailureEffect ==
  ASSUME TypeInv, Inv, NEW h \in Handler,
         LookupFails(h) \/ CreationFails(h) \/ WriteFails(h) \/ WriteItem(h)
  PROVE  Effect(h)
<1>1. CASE CreationFails(h)
  <2> DEFINE known == Seen(run[h].extra)[From(h)]
             did == IF known = "inactive" THEN "reactivated" ELSE "created"
             new == {[p |-> From(h), did |-> did]}
  <2>1. /\ Given /\ run[h].at \in {"insert", "create"} /\ May(run[h].x, run[h].at)
        /\ ~ Inserting(h, From(h)) /\ known \in {"stranger", "elsewhere", "inactive"}
        /\ Leave(h, Open(run[h].extra \cup new)) /\ faults' = faults + 1
    BY <1>1 DEF CreationFails, Given, Inv, Placed
  <2>2. known = contact[From(h)] /\ known = met[From(h)]
    BY <2>1, SeenContact, ServedType
  <2>3. MayDo(h, new)
    BY <2>1, <2>2, FirstTouch
  <2>4. MayLeave(h) /\ LeavesBehind(new)
    BY <2>1, <2>2 DEF MayLeave, LeavesBehind
  <2> HIDE DEF new
  <2>5. QED
    BY <2>1, <2>3, <2>4, LeavesWith
<1>2. CASE LookupFails(h) \/ WriteFails(h) \/ WriteItem(h)
  BY <1>2, GivenKept DEF LookupFails, WriteFails, WriteItem, Effect, Given
<1>3. QED
  BY <1>1, <1>2

(* The notification of a new customer: refused, or left as it is, or done.  *)
LEMMA PushEffect ==
  ASSUME TypeInv, Inv, NEW h \in Handler, Given, run[h].at \in {"template", "newTemplate"},
         NEW D, MayDo(h, D),
         \/ FindReceivers(h, D)
         \/ Aborts(h) /\ PushFails(h, Aborted)
         \/ pool.aborted > 0 /\ PushFails(h, Open(run[h].extra \cup D))
  PROVE  Effect(h)
<1>1. May(run[h].x, "write") /\ met[From(h)] \in {"elsewhere", "inactive"} /\ "write" \in Place
  BY DEF Inv, Placed, May, From, Place
<1>2. CASE \/ Nack(h)
           \/ Aborts(h) /\ Leave(h, Aborted)
           \/ pool.aborted > 0 /\ Leave(h, Open(run[h].extra \cup D))
  <2>1. pool.aborted > 0 => LeavesBehind(D)
    BY DEF LeavesBehind
  <2>2. QED
    BY <1>1, <1>2, <2>1, LeavesWith, LeavesAlone DEF MayLeave, Effect
<1>3. CASE /\ run' = [run EXCEPT ![h] = [@ EXCEPT !.at = "write", !.did = D]]
           /\ UNCHANGED <<rows, pool, dropped, dead>>
  BY <1>1, <1>3, Moves DEF Enters
<1>4. FindReceivers(h, D) =>
        \/ pool.aborted > 0 /\ PushFails(h, Open(run[h].extra \cup D))
        \/ /\ run' = [run EXCEPT ![h] = [@ EXCEPT !.at = "write", !.did = D]]
           /\ UNCHANGED <<rows, pool, dropped, dead>>
  BY DEF FindReceivers
<1>5. /\ PushFails(h, Aborted) => Nack(h) \/ Leave(h, Aborted)
      /\ PushFails(h, Open(run[h].extra \cup D)) => Nack(h) \/ Leave(h, Open(run[h].extra \cup D))
  BY DEF PushFails
<1>6. QED
  BY <1>2, <1>3, <1>4, <1>5

LEMMA TemplateEffect ==
  ASSUME TypeInv, Inv, NEW h \in Handler, FindTemplate(h) \/ InsertTemplate(h)
  PROVE  Effect(h)
<1>1. /\ Given /\ run[h].at \in {"template", "newTemplate"} /\ May(run[h].x, run[h].at)
      /\ met[From(h)] \in {"elsewhere", "inactive"}
  BY GivenKept DEF FindTemplate, InsertTemplate, Inv, Placed, May, From
<1>2. MayDo(h, run[h].did) /\ run[h].extra \cup run[h].did = Done(h)
  BY <1>1, ServedType DEF MayDo, Done
<1>3. CASE FindTemplate(h)
  <2>1. \/ FindReceivers(h, run[h].did)
        \/ From(h) \notin template /\ Goto(h, "newTemplate")
        \/ Aborts(h) /\ PushFails(h, Aborted)
        \/ pool.aborted > 0 /\ PushFails(h, Open(Done(h)))
    BY <1>3 DEF FindTemplate, Aborts
  <2>2. CASE From(h) \notin template /\ Goto(h, "newTemplate")
    <3>1. May(run[h].x, "newTemplate") /\ Enters(h, "newTemplate", run[h].did)
      BY <1>1, <2>2 DEF May, From, Enters, Inv, TouchInv
    <3>2. QED
      BY <1>1, <2>2, <3>1, GoesTo DEF Place
  <2>3. QED
    BY <1>1, <1>2, <2>1, <2>2, PushEffect
<1>4. CASE InsertTemplate(h)
  <2> DEFINE new == [p |-> From(h), did |-> "announced"]
  <2>1. \/ Aborts(h) /\ PushFails(h, Aborted)
        \/ FindReceivers(h, run[h].did \cup {new})
    BY <1>4 DEF InsertTemplate, Aborts
  <2>2. MayDo(h, {new})
    <3>1. PICK t \in run[h].did : t.p = From(h)
      BY <1>1 DEF Inv, TouchInv, Holds
    <3>2. Proper(t) /\ Holds(Done(h), From(h)) /\ From(h) \in Phone
      BY <1>1, <3>1, ServedType DEF Inv, TouchInv, Holds, Done
    <3>3. met[From(h)] = "inactive" => contact[From(h)] = "inactive" /\ Unheld(h, From(h))
      BY <1>1, <3>1, <3>2 DEF Proper, Inv, TouchInv, Apart, Unheld, Left
    <3>4. new.p = From(h) /\ new.did = "announced" /\ new \in Touch
      BY <3>2 DEF Touch
    <3> HIDE DEF new
    <3>5. QED
      BY <1>1, <3>3, <3>4 DEF MayDo
  <2> HIDE DEF new
  <2>3. MayDo(h, run[h].did \cup {new})
    BY <1>2, <2>2 DEF MayDo
  <2>4. QED
    BY <1>1, <1>2, <2>1, <2>3, PushEffect
<1>5. QED
  BY <1>3, <1>4

LEMMA CallEffect ==
  ASSUME TypeInv, Inv, NEW h \in Handler,
         FindCall(h) \/ FindCaller(h) \/ AddNewCaller(h) \/ AddCallerToCompany(h)
  PROVE  Effect(h)
<1> USE DEF Place
<1>0. /\ Given /\ run[h].at \in {"callLookup", "callFind", "callNew"} /\ May(run[h].x, run[h].at)
      /\ May(run[h].x, "write")
      /\ \A at \in {"write", "callFind", "callNew"} : \A D : Enters(h, at, D)
  BY GivenKept DEF FindCall, FindCaller, AddNewCaller, AddCallerToCompany, Inv, Placed, May, Enters
<1>1. CASE FindCall(h)
  BY <1>0, <1>1, LeavesAlone, GoesTo DEF FindCall, May, MayLeave
<1>2. CASE FindCaller(h)
  <2> DEFINE new == {[p |-> From(h), did |-> "reactivated"]}
  <2>1. PICK v \in Views :
          \/ ~ company /\ Leave(h, Open(run[h].extra))
          \/ company /\ v[From(h)] \in {"stranger", "elsewhere"} /\ Goto(h, "callNew")
          \/ Goto(h, "write")
          \/ /\ v[From(h)] = "inactive" /\ ~ Inserting(h, From(h))
             /\ run' = [run EXCEPT ![h] = [@ EXCEPT !.at = "write", !.did = new]]
             /\ UNCHANGED <<rows, pool, dropped, dead>>
    BY <1>2 DEF FindCaller
  <2>2. v[From(h)] # "active" => v[From(h)] = met[From(h)] /\ v[From(h)] = contact[From(h)]
    BY <1>0, SeenContact, ServedType
  <2>3. CASE ~ company /\ Leave(h, Open(run[h].extra))
    BY <1>0, <2>3, LeavesAlone DEF MayLeave
  <2>4. CASE company /\ v[From(h)] \in {"stranger", "elsewhere"} /\ Goto(h, "callNew")
    <3>1. May(run[h].x, "callNew")
      BY <1>0, <2>2, <2>4 DEF May, From
    <3>2. QED
      BY <1>0, <2>4, <3>1, GoesTo
  <2>5. CASE Goto(h, "write")
    BY <1>0, <2>5, GoesTo
  <2>6. CASE /\ v[From(h)] = "inactive" /\ ~ Inserting(h, From(h))
             /\ run' = [run EXCEPT ![h] = [@ EXCEPT !.at = "write", !.did = new]]
             /\ UNCHANGED <<rows, pool, dropped, dead>>
    <3>1. MayDo(h, new)
      BY <1>0, <2>2, <2>6, FirstTouch
    <3> HIDE DEF new
    <3>2. QED
      BY <1>0, <2>6, <3>1, Moves
  <2>7. QED
    BY <2>1, <2>3, <2>4, <2>5, <2>6
<1>3. CASE AddNewCaller(h) \/ AddCallerToCompany(h)
  <2> DEFINE new == {[p |-> From(h), did |-> "created"]}
  <2>1. \/ /\ \/ /\ Seen(run[h].extra)[From(h)] = "stranger" /\ met[From(h)] = "stranger"
                 /\ ~ Inserting(h, From(h)) /\ AddCaller(h, "write")
              \/ met[From(h)] = "elsewhere" /\ AddCaller(h, "template")
        \/ Goto(h, "write") \/ Nack(h)
    BY <1>3 DEF AddNewCaller, AddCallerToCompany
  <2>2. CASE Goto(h, "write") \/ Nack(h)
    BY <1>0, <2>2, GoesTo DEF Effect
  <2>3. ASSUME NEW at \in {"write", "template"}, AddCaller(h, at),
               MayDo(h, new), May(run[h].x, at), Enters(h, at, new)
        PROVE  Effect(h)
    <3>1. /\ run' = [run EXCEPT ![h] = [@ EXCEPT !.at = at, !.did = new]]
          /\ UNCHANGED <<rows, pool, dropped, dead>>
      BY <2>3 DEF AddCaller
    <3> HIDE DEF new
    <3>2. QED
      BY <1>0, <2>3, <3>1, Moves
  <2>4. CASE /\ Seen(run[h].extra)[From(h)] = "stranger" /\ met[From(h)] = "stranger"
             /\ ~ Inserting(h, From(h)) /\ AddCaller(h, "write")
    <3>1. contact[From(h)] = "stranger"
      BY <1>0, <2>4, SeenContact, ServedType
    <3>2. QED
      BY <1>0, <2>3, <2>4, <3>1, FirstTouch
  <2>5. CASE met[From(h)] = "elsewhere" /\ AddCaller(h, "template")
    <3>1. MayDo(h, new)
      BY <1>0, <2>5, FirstTouch
    <3>2. May(run[h].x, "template") /\ Enters(h, "template", new)
      BY <1>0, <2>5 DEF May, From, Enters, Holds
    <3>3. QED
      BY <2>3, <2>5, <3>1, <3>2
  <2>6. QED
    BY <2>1, <2>2, <2>4, <2>5
<1>4. QED
  BY <1>1, <1>2, <1>3

LEMMA HandlerEffect ==
  ASSUME TypeInv, Inv, NEW h \in Handler, Serve(h) \/ CreationFails(h) \/ WriteFails(h)
  PROVE  Effect(h)
BY GroupEffect, TextEffect, FailureEffect, TemplateEffect, CallEffect DEF Serve

-----------------------------------------------------------------------------
(* The invariant is kept by a handler *)

LEMMA CommitContacts ==
  ASSUME RowsInv, ContactInv, met' = met, NEW T \in SUBSET Touch, \A t \in T : Proper(t),
         NEW X \in SUBSET Item, Commit(T, X)
  PROVE  ContactInv'
<1>1. SUFFICES ASSUME NEW p \in Phone
               PROVE  /\ contact'[p] \in {met[p], "active"}
                      /\ met[p] # "elsewhere" => convs'[p] <= 1
                      /\ contact'[p] = "stranger" => convs'[p] = 0
                      /\ met[p] = "disabled" => contact'[p] = "disabled"
  BY DEF ContactInv
<1>2. /\ contact'[p] = IF Holds(T, p) THEN "active" ELSE contact[p]
      /\ convs'[p] = IF Created(T, p) THEN convs[p] + 1 ELSE convs[p]
      /\ convs[p] \in Nat
  BY CommitEffect DEF RowsInv
<1>3. Created(T, p) => Holds(T, p) /\ (met[p] # "elsewhere" => contact[p] = "stranger")
  BY DEF Created, Holds, Proper
<1>4. Holds(T, p) => met[p] # "disabled"
  BY DEF Holds, Proper
<1>5. QED
  BY <1>2, <1>3, <1>4 DEF ContactInv

LEMMA ProperStays ==
  ASSUME RowsInv, met' = met, NEW T \in SUBSET Touch, NEW X \in SUBSET Item, Commit(T, X),
         NEW t \in Touch, Proper(t), met[t.p] # "elsewhere" => ~ Holds(T, t.p)
  PROVE  Proper(t)'
<1>1. t.p \in Phone
  BY DEF Touch
<1>2. contact'[t.p] = IF Holds(T, t.p) THEN "active" ELSE contact[t.p]
  BY <1>1, CommitEffect
<1>3. QED
  BY <1>2 DEF Proper

LEMMA KnownStays ==
  ASSUME Given, stored \cup dropped \subseteq stored' \cup dropped', NEW t, Known(t)
  PROVE  Known(t)'
BY DEF Known, Given

(* A handler stops; what its transaction did is committed.                  *)
LEMMA CommitTouches ==
  ASSUME TypeInv, Inv, NEW h \in Handler, run[h].at # "idle", Given, Free(h),
         NEW X \in SUBSET Item, Commit(Done(h), X), pool'.orphans = pool.orphans,
         dropped \subseteq dropped'
  PROVE  TouchInv'
<1>1. Done(h) \in SUBSET Touch /\ RowsInv /\ met' = met /\ rc' = rc
  BY ServedType DEF Done, TypeInv, Given
<1>2. stored \cup dropped \subseteq stored' \cup dropped'
  BY <1>1, CommitEffect
<1>3. \A g \in Handler : run'[g] = IF g = h THEN Idle ELSE run[g]
  BY DEF Free, TypeInv, RunInv
<1>4. \A o \in pool'.orphans : \A t \in o.did : Proper(t)' /\ Known(t)'
  <2>1. ASSUME NEW o \in pool.orphans, NEW t \in o.did
        PROVE  t \in Touch /\ Proper(t) /\ Known(t) /\ (met[t.p] # "elsewhere" => ~ Holds(Done(h), t.p))
    BY DEF Inv, TouchInv, Apart, Holds, Proper, TypeInv, PoolInv, Connections, Orphan, Touch
  <2>2. QED
    BY <1>1, <1>2, <2>1, ProperStays, KnownStays
<1>5. ASSUME NEW g \in Handler, g # h, NEW t \in run[g].did \cup run[g].extra
      PROVE  Proper(t)'
  <2>1. t \in Touch /\ Proper(t) /\ Holds(Done(g), t.p)
    BY DEF Inv, TouchInv, TypeInv, RunInv, Run, Done, Holds
  <2>2. met[t.p] # "elsewhere" => ~ Holds(Done(h), t.p)
    BY <1>5, <2>1 DEF Inv, TouchInv, Apart, Proper, Touch
  <2>3. QED
    BY <1>1, <2>1, <2>2, ProperStays
<1>6. \A g \in Handler : \A t \in run'[g].extra : Proper(t)' /\ Known(t)'
  BY <1>2, <1>3, <1>5, IdleType, KnownStays DEF Inv, TouchInv
<1>7. \A g \in Handler : \A t \in run'[g].did : Proper(t)' /\ t.p = From(g)'
  BY <1>1, <1>3, <1>5, IdleType DEF Inv, TouchInv, From
<1>8. ASSUME NEW p \in Phone, met'[p] \in {"stranger", "inactive"} PROVE Apart(p)'
  <2>1. \A g \in Handler : Holds(Done(g), p)' => g # h /\ Holds(Done(g), p)
    BY <1>3, IdleType DEF Holds, Done
  <2>2. QED
    BY <1>1, <1>8, <2>1 DEF Inv, TouchInv, Apart, Holds
<1>9. \A g \in Handler :
        run'[g].at \in {"template", "newTemplate"} => Holds(run[g].did, From(g))'
  BY <1>1, <1>3, IdleType DEF Inv, TouchInv, From, Holds
<1>10. QED
  BY <1>4, <1>6, <1>7, <1>8, <1>9 DEF TouchInv

(* A handler stops; what its transaction did is undone, or left behind with *)
(* its item.                                                                *)
LEMMA ReleaseTouches ==
  ASSUME TypeInv, Inv, NEW h \in Handler, run[h].at # "idle", Given, Free(h), contact' = contact,
         NEW T, MayDo(h, T), stored \cup dropped \subseteq stored' \cup dropped',
         \/ pool'.orphans \subseteq pool.orphans
         \/ \E o : /\ o.did = run[h].extra \cup T /\ o \notin pool.orphans
                   /\ pool'.orphans = pool.orphans \cup {o}
                   /\ run[h].x \in stored' \cup dropped'
  PROVE  TouchInv'
<1>1. met' = met /\ rc' = rc
  BY DEF Given
<1>2. \A t : (Proper(t) => Proper(t)') /\ (Known(t) => Known(t)')
  BY <1>1, KnownStays DEF Proper
<1>3. \A g \in Handler : run'[g] = IF g = h THEN Idle ELSE run[g]
  BY DEF Free, TypeInv, RunInv
<1>4. ASSUME NEW t \in T PROVE Proper(t) /\ t.p = From(h)
  BY DEF MayDo, Inv, TouchInv, Proper
<1>5. run[h].x \in stored' \cup dropped' => \A t \in T : Known(t)'
  BY <1>1, <1>4 DEF Known, From
<1>6. \A o \in pool'.orphans : \A t \in o.did : Proper(t)' /\ Known(t)'
  BY <1>2, <1>4, <1>5 DEF Inv, TouchInv
<1>7. \A g \in Handler : \A t \in run'[g].extra : Proper(t)' /\ Known(t)'
  BY <1>2, <1>3, IdleType DEF Inv, TouchInv
<1>8. \A g \in Handler : \A t \in run'[g].did : Proper(t)' /\ t.p = From(g)'
  BY <1>1, <1>2, <1>3, IdleType DEF Inv, TouchInv, From
<1>9. ASSUME NEW p \in Phone, met'[p] \in {"stranger", "inactive"} PROVE Apart(p)'
  <2>1. \A g \in Handler : Holds(Done(g), p)' => g # h /\ Holds(Done(g), p)
    BY <1>3, IdleType DEF Holds, Done
  <2>2. Apart(p)
    BY <1>1, <1>9 DEF Inv, TouchInv
  <2>3. Holds(run[h].extra \cup T, p) => Holds(Done(h), p) \/ Unheld(h, p)
    BY <1>1, <1>9 DEF Holds, MayDo, Done
  <2>4. Holds(run[h].extra \cup T, p) =>
          /\ \A g \in Handler : g # h => ~ Holds(Done(g), p)
          /\ \A o \in pool.orphans : ~ Holds(o.did, p)
    BY <2>2, <2>3 DEF Apart, Unheld, Left
  <2>5. QED
    BY <2>1, <2>2, <2>4 DEF Apart, Holds
<1>10. \A g \in Handler :
        run'[g].at \in {"template", "newTemplate"} => Holds(run[g].did, From(g))'
  BY <1>1, <1>3, IdleType DEF Inv, TouchInv, From, Holds
<1>11. QED
  BY <1>6, <1>7, <1>8, <1>9, <1>10 DEF TouchInv

LEMMA GoesOnTouches ==
  ASSUME TypeInv, Inv, NEW h \in Handler, run[h].at # "idle", Given, GoesOn(h)
  PROVE  TouchInv'
<1>1. PICK s \in Run :
        /\ run' = [run EXCEPT ![h] = s]
        /\ s.at # "idle" /\ s.x = run[h].x /\ s.extra = run[h].extra /\ MayDo(h, s.did)
        /\ Enters(h, s.at, s.did)
  BY DEF GoesOn
<1>2. /\ met' = met /\ rc' = rc /\ contact' = contact /\ pool' = pool
      /\ stored' = stored /\ dropped' = dropped
  BY DEF Given, GoesOn, rows
<1>3. \A t : (Proper(t) => Proper(t)') /\ (Known(t) => Known(t)')
  BY <1>2 DEF Proper, Known
<1>4. \A g \in Handler : run'[g] = IF g = h THEN s ELSE run[g]
  BY <1>1 DEF TypeInv, RunInv
<1>5. \A t \in s.did : Proper(t) /\ t.p = From(h)
  BY <1>1 DEF MayDo, Inv, TouchInv, Proper
<1>6. \A o \in pool'.orphans : \A t \in o.did : Proper(t)' /\ Known(t)'
  BY <1>2, <1>3 DEF Inv, TouchInv
<1>7. \A g \in Handler : \A t \in run'[g].extra : Proper(t)' /\ Known(t)'
  BY <1>1, <1>3, <1>4 DEF Inv, TouchInv
<1>8. \A g \in Handler : From(g)' = From(g)
  BY <1>1, <1>2, <1>4 DEF From
<1>9. \A g \in Handler : \A t \in run'[g].did : Proper(t)' /\ t.p = From(g)'
  BY <1>3, <1>4, <1>5, <1>8 DEF Inv, TouchInv
<1>10. ASSUME NEW p \in Phone, met'[p] \in {"stranger", "inactive"} PROVE Apart(p)'
  <2>1. \A g \in Handler : g # h /\ Holds(Done(g), p)' => Holds(Done(g), p)
    BY <1>4 DEF Holds, Done
  <2>2. Apart(p)
    BY <1>2, <1>10 DEF Inv, TouchInv
  <2>3. Holds(Done(h), p)' => Holds(Done(h), p) \/ Unheld(h, p)
    BY <1>1, <1>2, <1>4, <1>10 DEF Holds, MayDo, Done
  <2>4. Holds(Done(h), p)' =>
          /\ \A g \in Handler : g # h => ~ Holds(Done(g), p)
          /\ \A o \in pool.orphans : ~ Holds(o.did, p)
    BY <2>2, <2>3 DEF Apart, Unheld, Left
  <2>5. \A o \in pool'.orphans : o \in pool.orphans /\ (Holds(o.did, p)' <=> Holds(o.did, p))
    BY <1>2 DEF Holds
  <2>6. QED
    BY <2>1, <2>2, <2>4, <2>5 DEF Apart
<1>11. \A g \in Handler :
        run'[g].at \in {"template", "newTemplate"} => Holds(run[g].did, From(g))'
  <2>1. \A g \in Handler : run'[g].at \in {"template", "newTemplate"} => Holds(run'[g].did, From(g))
    BY <1>1, <1>4 DEF Inv, TouchInv, Enters
  <2>2. QED
    BY <1>8, <2>1 DEF Holds
<1>12. QED
  BY <1>6, <1>7, <1>9, <1>10, <1>11 DEF TouchInv

(* What is left on a connection is left by a handler whose item is          *)
(* accounted for.                                                           *)
LEMMA LeavesTouches ==
  ASSUME TypeInv, Inv, NEW h \in Handler, run[h].at # "idle", Given, Leaves(h)
  PROVE  /\ TouchInv' /\ Free(h) /\ UNCHANGED rows
         /\ dropped' \in {dropped, dropped \cup {run[h].x}}
         /\ dropped' # dropped => run[h].x \notin stored
<1>1. PICK state : Leave(h, state) /\ \/ state.orphans = pool.orphans
                                      \/ \E T : MayDo(h, T) /\ state = Open(run[h].extra \cup T)
  <2>1. [pool EXCEPT !.clean = @ + 1].orphans = pool.orphans /\ Aborted.orphans = pool.orphans
    BY DEF Aborted, TypeInv, PoolInv, Connections
  <2>2. QED
    BY <2>1, Zenon DEF Leaves
<1>2. /\ Free(h) /\ UNCHANGED rows /\ pool' = state
      /\ dropped' = IF run[h].x \in stored THEN dropped ELSE dropped \cup {run[h].x}
  BY <1>1 DEF Leave
<1>3. MayDo(h, run[h].did)
  BY ServedType DEF MayDo
<1>4. contact' = contact /\ stored' = stored
  BY <1>2 DEF rows
<1>5. stored \cup dropped \subseteq stored' \cup dropped' /\ run[h].x \in stored' \cup dropped'
  BY <1>2, <1>4
<1>6. CASE state.orphans = pool.orphans
  BY <1>2, <1>3, <1>4, <1>5, <1>6, ReleaseTouches
<1>7. ASSUME NEW T, MayDo(h, T), state = Open(run[h].extra \cup T) PROVE TouchInv'
  <2>1. run[h].extra \cup T \in SUBSET Touch
    BY <1>7, ServedType DEF MayDo
  <2>2. \/ state.orphans = pool.orphans
        \/ \E o : /\ o.did = run[h].extra \cup T /\ o \notin pool.orphans
                  /\ state.orphans = pool.orphans \cup {o}
    BY <1>7, <2>1, OpenType DEF TypeInv
  <2>3. QED
    BY <1>2, <1>4, <1>5, <1>7, <2>2, ReleaseTouches
<1>8. QED
  BY <1>1, <1>2, <1>6, <1>7

LEMMA EffectInv ==
  ASSUME TypeInv, Inv, NEW h \in Handler, Effect(h)
  PROVE  Inv'
<1>0. /\ run[h].at # "idle" /\ run[h].x \in Item /\ Done(h) \in SUBSET Touch /\ RowsInv
      /\ company' = company /\ met' = met /\ rc' = rc /\ Given /\ rc[run[h].x].kind # "none"
  BY ServedType DEF Effect, Given, TypeInv, RunInv, Done
<1>1. \A g \in Handler : Placed(g)'
  <2>1. \A x, at : May(x, at) => May(x, at)'
    BY <1>0 DEF May
  <2>2. CASE Free(h)
    BY <1>0, <2>1, <2>2, IdleType DEF Free, TypeInv, RunInv, Inv, Placed
  <2>3. CASE GoesOn(h)
    BY <1>0, <2>1, <2>3 DEF GoesOn, TypeInv, RunInv, Inv, Placed
  <2>4. QED
    BY <2>2, <2>3 DEF Effect, Finish, Nack, Leaves, Leave, Drops
<1>2. CASE GoesOn(h)
  <2>1. UNCHANGED rows /\ dropped' = dropped
    BY <1>2 DEF GoesOn
  <2>2. TouchInv'
    BY <1>0, <1>2, GoesOnTouches
  <2>3. QED
    BY <1>0, <1>1, <2>1, <2>2 DEF Inv, ItemInv, ContactInv, FirstContactIsWhole,
                                  DroppedIsFirstContact, rows
<1>3. CASE Nack(h)
  <2>1. UNCHANGED rows /\ dropped' = dropped /\ Free(h) /\ Return
    BY <1>3 DEF Nack
  <2>2. MayDo(h, run[h].did)
    BY <1>0, ServedType DEF MayDo
  <2>3. TouchInv'
    <3>1. pool'.orphans = pool.orphans
      BY <2>1 DEF Return, TypeInv, PoolInv, Connections
    <3>2. contact' = contact /\ stored' = stored
      BY <2>1 DEF rows
    <3>3. QED
      BY <1>0, <2>1, <2>2, <3>1, <3>2, ReleaseTouches
  <2>4. QED
    BY <1>0, <1>1, <2>1, <2>3 DEF Inv, ItemInv, ContactInv, FirstContactIsWhole,
                                  DroppedIsFirstContact, rows
<1>4. CASE Leaves(h)
  <2>1. /\ TouchInv' /\ UNCHANGED rows
        /\ dropped' \in {dropped, dropped \cup {run[h].x}}
        /\ dropped' # dropped => run[h].x \notin stored
    BY <1>0, <1>4, LeavesTouches
  <2>2. MayLeave(h)
    BY <1>4 DEF Leaves
  <2>3. DroppedIsFirstContact'
    BY <1>0, <2>1, <2>2 DEF Inv, DroppedIsFirstContact, MayLeave, From, rows
  <2>4. QED
    BY <1>0, <1>1, <2>1, <2>3 DEF Inv, ItemInv, ContactInv, FirstContactIsWhole, rows
<1>5. ASSUME NEW X \in SUBSET {run[h].x}, Commit(Done(h), X), Free(h), Return,
             dropped \subseteq dropped', run[h].x \in X \cup dropped',
             dropped' \subseteq dropped \cup {run[h].x},
             dropped' # dropped => ~ company
      PROVE  Inv'
  <2>1. pool'.orphans = pool.orphans /\ X \in SUBSET Item
    BY <1>0, <1>5 DEF Return, TypeInv, PoolInv, Connections
  <2>2. TouchInv'
    BY <1>0, <1>5, <2>1, CommitTouches
  <2>3. \A t \in Done(h) : Proper(t)
    BY DEF Inv, TouchInv, Done
  <2>4. ContactInv'
    BY <1>0, <1>5, <2>1, <2>3, CommitContacts DEF Inv
  <2>5. /\ stored' = stored \cup X
        /\ \A p \in Phone : contact'[p] = IF Holds(Done(h), p) THEN "active" ELSE contact[p]
    BY <1>0, <1>5, <2>1, CommitEffect
  <2>6. ItemInv' /\ DroppedIsFirstContact'
    BY <1>0, <1>5, <2>5 DEF Inv, ItemInv, DroppedIsFirstContact
  <2>7. ASSUME NEW p \in Phone, met[p] = "stranger", contact'[p] # "stranger"
        PROVE  \E x \in stored' \cup dropped' : rc[x].from = p
    <3>1. stored \cup dropped \subseteq stored' \cup dropped' /\ run[h].x \in stored' \cup dropped'
      BY <1>5, <2>5
    <3>2. CASE Holds(Done(h), p)
      <4>1. PICK t \in Done(h) : t.p = p
        BY <3>2 DEF Holds
      <4>2. CASE t \in run[h].extra
        BY <2>7, <3>1, <4>1, <4>2 DEF Inv, TouchInv, Known
      <4>3. CASE t \in run[h].did
        BY <3>1, <4>1, <4>3 DEF Inv, TouchInv, From
      <4>4. QED
        BY <4>1, <4>2, <4>3 DEF Done
    <3>3. CASE ~ Holds(Done(h), p)
      BY <2>5, <2>7, <3>1, <3>3 DEF Inv, FirstContactIsWhole
    <3>4. QED
      BY <3>2, <3>3
  <2>8. FirstContactIsWhole'
    BY <1>0, <2>7 DEF FirstContactIsWhole
  <2>9. QED
    BY <1>1, <2>2, <2>4, <2>6, <2>8 DEF Inv
<1>6. CASE Finish(h)
  BY <1>5, <1>6 DEF Finish
<1>7. CASE Drops(h)
  <2>1. {} \in SUBSET {run[h].x} /\ run[h].x \in {} \cup dropped'
    BY <1>7 DEF Drops
  <2>2. dropped' = dropped \cup {run[h].x} /\ ~ company /\ Commit(Done(h), {}) /\ Free(h) /\ Return
    BY <1>7 DEF Drops
  <2>3. dropped \subseteq dropped' /\ dropped' \subseteq dropped \cup {run[h].x}
    BY <2>2
  <2>4. QED
    BY <1>5, <2>1, <2>2, <2>3, Zenon
<1>8. QED
  BY <1>2, <1>3, <1>4, <1>6, <1>7 DEF Effect

-----------------------------------------------------------------------------
(* RingCentral, the broker and the rest of the backend *)

LEMMA InitInv == Init => TypeInv /\ Inv
<1> SUFFICES ASSUME Init PROVE TypeInv /\ Inv
  OBVIOUS
<1>1. \A h \in Handler : run[h] = Idle
  BY DEF Init
<1>2. RunInv
  BY <1>1, IdleType DEF Init, RunInv
<1>3. RowsInv
  <2>1. (CHOOSE p \in Phone : TRUE) \in Phone
    BY ConstantsAssumption
  <2>2. Before \subseteq Contact
    BY ConstantsAssumption DEF Contact
  <2>3. QED
    BY <2>1, <2>2 DEF Init, RowsInv, RcState
<1>4. Serving = {}
  BY <1>1, IdleType DEF Serving
<1>5. PoolInv
  BY <1>4, ConstantsAssumption, FS_EmptySet DEF Init, PoolInv, Connections
<1>6. TouchInv
  BY <1>1, IdleType DEF Init, TouchInv, Apart, Holds, Done
<1>7. ContactInv
  BY DEF Init, ContactInv
<1>8. QED
  BY <1>1, <1>2, <1>3, <1>5, <1>6, <1>7, IdleType
     DEF Init, TypeInv, Inv, ItemInv, Placed, FirstContactIsWhole, DroppedIsFirstContact

LEMMA ArriveInv ==
  ASSUME TypeInv, Inv, NEW x \in Item, NEW k \in Kind, NEW p \in Phone, Arrive(x, k, p)
  PROVE  TypeInv' /\ Inv'
<1>1. /\ rc' \in [Item -> RcState] /\ rc'[x].kind = k /\ k # "none"
      /\ \A y \in Item : rc[y].kind # "none" => rc'[y] = rc[y]
  BY ConstantsAssumption DEF Arrive, TypeInv, RowsInv, RcState
<1>2. /\ company' = company /\ run' = run /\ pool' = pool /\ dropped' = dropped /\ dead' = dead
      /\ met' = met /\ contact' = contact /\ convs' = convs /\ stored' = stored
  BY DEF Arrive, rows
<1>3. \A g \in Handler : \/ run[g] = Idle
                         \/ run[g].at # "idle" /\ run[g].x \in Item /\ rc'[run[g].x] = rc[run[g].x]
                              /\ rc[run[g].x].kind # "none"
  BY <1>1 DEF TypeInv, RunInv
<1>4. TypeInv'
  BY <1>1, <1>2, <1>3, IdleType DEF TypeInv, RowsInv, RunInv, PoolInv, Serving
<1>5. \A y \in stored \cup dropped : rc'[y] = rc[y] /\ rc[y].kind # "none"
  BY <1>1 DEF Inv, ItemInv, TypeInv, RowsInv
<1>6. \A t : (Proper(t) => Proper(t)') /\ (Known(t) => Known(t)')
  BY <1>2, <1>5 DEF Proper, Known
<1>7. \A g \in Handler : Placed(g)'
  BY <1>2, <1>3, IdleType DEF Inv, Placed, May, From
<1>8. TouchInv'
  <2>1. \A q \in Phone : Apart(q) => Apart(q)'
    BY <1>2 DEF Apart, Holds, Done
  <2>2. \A g \in Handler : \A t \in run[g].did : Proper(t)' /\ t.p = From(g)'
    BY <1>2, <1>3, <1>6, IdleType DEF Inv, TouchInv, From
  <2>3. \A g \in Handler :
          run'[g].at \in {"template", "newTemplate"} => Holds(run[g].did, From(g))'
    BY <1>2, <1>3, IdleType DEF Inv, TouchInv, From, Holds
  <2>4. QED
    BY <1>2, <1>6, <2>1, <2>2, <2>3 DEF Inv, TouchInv
<1>9. ItemInv' /\ ContactInv' /\ FirstContactIsWhole' /\ DroppedIsFirstContact'
  BY <1>2, <1>5 DEF Inv, ItemInv, ContactInv, FirstContactIsWhole, DroppedIsFirstContact
<1>10. QED
  BY <1>4, <1>7, <1>8, <1>9 DEF Inv

LEMMA Beginning ==
  ASSUME NEW at, NEW x, NEW T, NEW s, s = [Idle EXCEPT !.at = at, !.x = x, !.extra = T]
  PROVE  s = [at |-> at, x |-> x, did |-> {}, extra |-> T]
BY DEF Idle

(* A handler takes over T with its connection.                              *)
LEMMA BeginInv ==
  ASSUME TypeInv, Inv, NEW h \in Handler, NEW x \in Item, Receive(h, x),
         NEW T, pool'.orphans \subseteq pool.orphans,
         T = {} \/ \E o \in pool.orphans \ pool'.orphans : o.did = T,
         NEW a, a = First[rc[x].kind],
         NEW s, s = [at |-> a, x |-> x, did |-> {}, extra |-> T], run' = [run EXCEPT ![h] = s]
  PROVE  RunInv' /\ Inv' /\ Cardinality(Serving)' = Cardinality(Serving) + 1
<1>1. /\ rc[x].kind \in {"message", "group", "call"} /\ run[h].at = "idle" /\ run[h] = Idle
      /\ UNCHANGED <<company, rows, rc, met, dropped>>
  BY DEF Receive, Keep, DeliveredMessages, DeliveredCalls, TypeInv, RunInv
<1>2. s.at = a /\ s.x = x /\ s.extra = T /\ s.did = {}
  OBVIOUS
<1>3. a \in {"lookup", "group", "callLookup"} /\ (a = "group" <=> rc[x].kind = "group")
  BY <1>1 DEF First
<1>4. T \in SUBSET Touch
  BY DEF TypeInv, PoolInv, Connections, Orphan
<1>5. s \in Run
  BY <1>2, <1>3, <1>4 DEF Run, Place
<1>6. /\ run' = [run EXCEPT ![h] = s]
      /\ \A g \in Handler : run'[g] = IF g = h THEN s ELSE run[g]
  BY DEF TypeInv, RunInv
<1>7. RunInv'
  BY <1>1, <1>2, <1>3, <1>5, <1>6 DEF TypeInv, RunInv
<1>8. Cardinality(Serving)' = Cardinality(Serving) + 1
  BY <1>1, <1>2, <1>3, <1>6, ServingMore
<1>9. /\ company' = company /\ met' = met /\ rc' = rc /\ contact' = contact /\ convs' = convs
      /\ stored' = stored /\ dropped' = dropped
  BY <1>1 DEF rows
<1>10. \A g \in Handler : Placed(g)'
  BY <1>2, <1>3, <1>6, <1>9 DEF Inv, Placed, May
<1>11. TouchInv'
  <2>1. \A t : (Proper(t) => Proper(t)') /\ (Known(t) => Known(t)')
    BY <1>9 DEF Proper, Known
  <2>2. \A t \in T : Proper(t) /\ Known(t)
    BY DEF Inv, TouchInv
  <2>3. \A g \in Handler : \A t \in run'[g].extra : Proper(t)' /\ Known(t)'
    BY <1>2, <1>6, <2>1, <2>2 DEF Inv, TouchInv
  <2>4. \A g \in Handler : \A t \in run'[g].did : Proper(t)' /\ t.p = From(g)'
    <3>1. \A g \in Handler : g # h => From(g)' = From(g)
      BY <1>6, <1>9 DEF From
    <3>2. QED
      BY <1>2, <1>6, <2>1, <3>1 DEF Inv, TouchInv
  <2>5. \A o \in pool'.orphans : \A t \in o.did : Proper(t)' /\ Known(t)'
    BY <2>1 DEF Inv, TouchInv
  <2>6. ASSUME NEW p \in Phone, met'[p] \in {"stranger", "inactive"} PROVE Apart(p)'
    <3>1. Apart(p)
      BY <1>9, <2>6 DEF Inv, TouchInv
    <3>2. \A g \in Handler : Holds(Done(g), p)' <=> IF g = h THEN Holds(T, p) ELSE Holds(Done(g), p)
      BY <1>2, <1>6 DEF Holds, Done
    <3>3. Holds(T, p) => \E o \in pool.orphans \ pool'.orphans : o.did = T
      BY DEF Holds
    <3>4. \A S : Holds(S, p)' <=> Holds(S, p)
      BY DEF Holds
    <3>5. QED
      BY <3>1, <3>2, <3>3, <3>4 DEF Apart
  <2>7. \A g \in Handler :
          run'[g].at \in {"template", "newTemplate"} => Holds(run[g].did, From(g))'
    <3>1. \A g \in Handler : g # h => From(g)' = From(g) /\ run'[g] = run[g]
      BY <1>6, <1>9 DEF From
    <3>2. run'[h].at \notin {"template", "newTemplate"}
      BY <1>2, <1>3, <1>6
    <3>3. QED
      BY <3>1, <3>2 DEF Inv, TouchInv, Holds
  <2>8. QED
    BY <2>3, <2>4, <2>5, <2>6, <2>7 DEF TouchInv
<1>12. ItemInv' /\ ContactInv' /\ FirstContactIsWhole' /\ DroppedIsFirstContact'
  BY <1>9 DEF Inv, ItemInv, ContactInv, FirstContactIsWhole, DroppedIsFirstContact
<1>13. QED
  BY <1>7, <1>8, <1>10, <1>11, <1>12 DEF Inv

LEMMA Conserved ==
  ASSUME PoolInv, NEW S \in Connections, pool' = S, IsFiniteSet(S.orphans),
         NEW n \in Nat, Cardinality(Serving)' = n,
         S.clean + S.aborted + Cardinality(S.orphans) + n
           <= pool.clean + pool.aborted + Cardinality(pool.orphans) + Cardinality(Serving)
  PROVE  PoolInv'
<1>1. /\ Cardinality(pool.orphans) \in Nat /\ Cardinality(Serving) \in Nat
      /\ Cardinality(S.orphans) \in Nat /\ pool \in Connections
  BY ServingFinite, FS_CardinalityType DEF PoolInv
<1>2. QED
  BY <1>1, ConstantsAssumption DEF PoolInv, Connections

LEMMA ReceiveInv ==
  ASSUME TypeInv, Inv, NEW h \in Handler, NEW x \in Item, Receive(h, x)
  PROVE  TypeInv' /\ Inv'
<1>1. /\ UNCHANGED <<company, rows, rc, met, dropped>> /\ x \in Item /\ run[h].at = "idle"
      /\ pool \in Connections /\ IsFiniteSet(pool.orphans) /\ Cardinality(pool.orphans) \in Nat
      /\ Cardinality(Serving) \in Nat
      /\ pool.clean + pool.aborted + Cardinality(pool.orphans) + Cardinality(Serving) <= Pool
  BY ServingFinite, FS_CardinalityType DEF Receive, Keep, TypeInv, PoolInv
<1>2. \/ /\ pool.clean > 0
         /\ pool' = [pool EXCEPT !.clean = @ - 1]
         /\ run' = [run EXCEPT ![h] =
              [at |-> First[rc[x].kind], x |-> x, did |-> {}, extra |-> {}]]
         /\ dead' = dead
      \/ \E o \in pool.orphans :
           /\ pool' = [pool EXCEPT !.orphans = @ \ {o}]
           /\ run' = [run EXCEPT ![h] =
                [at |-> First[rc[x].kind], x |-> x, did |-> {}, extra |-> o.did]]
           /\ dead' = dead
      \/ /\ pool.aborted > 0
         /\ pool' = [pool EXCEPT !.aborted = @ - 1]
         /\ dead' = dead \cup {x}
         /\ run' = run
  <2>1. CASE pool.clean > 0 /\ pool' = [pool EXCEPT !.clean = @ - 1] /\ dead' = dead
             /\ run' = [run EXCEPT ![h] = [Idle EXCEPT !.at = First[rc[x].kind], !.x = x, !.extra = {}]]
    BY <2>1, Beginning, Zenon
  <2>2. ASSUME NEW o \in pool.orphans, pool' = [pool EXCEPT !.orphans = @ \ {o}], dead' = dead,
               run' = [run EXCEPT ![h] =
                         [Idle EXCEPT !.at = First[rc[x].kind], !.x = x, !.extra = o.did]]
        PROVE  run' = [run EXCEPT ![h] =
                         [at |-> First[rc[x].kind], x |-> x, did |-> {}, extra |-> o.did]]
    BY <2>2, Beginning, Zenon
  <2>3. QED
    BY <2>1, <2>2 DEF Receive
<1>3. dead' \in {dead, dead \cup {x}}
  BY <1>2
<1>4. RowsInv'
  BY <1>1, <1>3 DEF TypeInv, RowsInv, rows
<1>5. ASSUME pool.clean > 0, pool' = [pool EXCEPT !.clean = @ - 1],
             NEW s, s = [at |-> First[rc[x].kind], x |-> x, did |-> {}, extra |-> {}],
             run' = [run EXCEPT ![h] = s]
      PROVE  TypeInv' /\ Inv'
  <2>1. /\ pool'.orphans = pool.orphans /\ pool'.clean = pool.clean - 1
        /\ pool'.aborted = pool.aborted /\ pool' \in Connections
    BY <1>1, <1>5 DEF Connections
  <2>2. RunInv' /\ Inv' /\ Cardinality(Serving)' = Cardinality(Serving) + 1
    BY <1>5, <2>1, BeginInv
  <2>3. PoolInv'
    <3>1. PICK S \in Connections : S = pool'
      BY <2>1
    <3>2. IsFiniteSet(S.orphans) /\ Cardinality(S.orphans) = Cardinality(pool.orphans)
          /\ S.clean = pool.clean - 1 /\ S.aborted = pool.aborted
      BY <1>1, <2>1, <3>1
    <3>3. S.clean + S.aborted + Cardinality(S.orphans) + (Cardinality(Serving) + 1)
            <= pool.clean + pool.aborted + Cardinality(pool.orphans) + Cardinality(Serving)
      BY <1>1, <3>2 DEF Connections
    <3>4. QED
      BY <1>1, <2>2, <3>1, <3>2, <3>3, Conserved DEF TypeInv
  <2>4. QED
    BY <1>4, <2>2, <2>3 DEF TypeInv
<1>6. ASSUME NEW o \in pool.orphans, pool' = [pool EXCEPT !.orphans = @ \ {o}],
             NEW s, s = [at |-> First[rc[x].kind], x |-> x, did |-> {}, extra |-> o.did],
             run' = [run EXCEPT ![h] = s]
      PROVE  TypeInv' /\ Inv'
  <2>1. /\ pool'.orphans = pool.orphans \ {o} /\ pool'.clean = pool.clean
        /\ pool'.aborted = pool.aborted /\ pool' \in Connections
    BY <1>1, <1>6 DEF Connections
  <2>2. RunInv' /\ Inv' /\ Cardinality(Serving)' = Cardinality(Serving) + 1
    BY <1>6, <2>1, BeginInv
  <2>3. /\ IsFiniteSet(pool'.orphans)
        /\ Cardinality(pool'.orphans) = Cardinality(pool.orphans) - 1
    BY <1>1, <2>1, FS_RemoveElement
  <2>4. PoolInv'
    <3>1. PICK S \in Connections : S = pool'
      BY <2>1
    <3>2. IsFiniteSet(S.orphans) /\ Cardinality(S.orphans) = Cardinality(pool.orphans) - 1
          /\ S.clean = pool.clean /\ S.aborted = pool.aborted
      BY <2>1, <2>3, <3>1
    <3>3. S.clean + S.aborted + Cardinality(S.orphans) + (Cardinality(Serving) + 1)
            <= pool.clean + pool.aborted + Cardinality(pool.orphans) + Cardinality(Serving)
      BY <1>1, <3>2 DEF Connections
    <3>4. QED
      BY <1>1, <2>2, <3>1, <3>2, <3>3, Conserved DEF TypeInv
  <2>5. QED
    BY <1>4, <2>2, <2>4 DEF TypeInv
<1>7. CASE pool.aborted > 0 /\ pool' = [pool EXCEPT !.aborted = @ - 1] /\ run' = run
  <2>1. /\ pool'.orphans = pool.orphans /\ pool'.clean = pool.clean
        /\ pool'.aborted = pool.aborted - 1 /\ pool' \in Connections
    BY <1>1, <1>7 DEF Connections
  <2>2. /\ company' = company /\ met' = met /\ rc' = rc /\ contact' = contact /\ convs' = convs
        /\ stored' = stored /\ dropped' = dropped /\ run' = run
    BY <1>1, <1>7 DEF rows
  <2>3. RunInv' /\ Serving' = Serving
    BY <2>2 DEF TypeInv, RunInv, Serving
  <2>4. PoolInv'
    <3>1. PICK S \in Connections : S = pool'
      BY <2>1
    <3>2. IsFiniteSet(S.orphans) /\ Cardinality(S.orphans) = Cardinality(pool.orphans)
          /\ S.clean = pool.clean /\ S.aborted = pool.aborted - 1
      BY <1>1, <2>1, <3>1
    <3>3. S.clean + S.aborted + Cardinality(S.orphans) + Cardinality(Serving)
            <= pool.clean + pool.aborted + Cardinality(pool.orphans) + Cardinality(Serving)
      BY <1>1, <3>2 DEF Connections
    <3>4. QED
      BY <1>1, <2>3, <3>1, <3>2, <3>3, Conserved DEF TypeInv
  <2>5. TouchInv'
    <3>1. \A t : (Proper(t) => Proper(t)') /\ (Known(t) => Known(t)')
      BY <2>2 DEF Proper, Known
    <3>2. \A p \in Phone : Apart(p) => Apart(p)'
      BY <2>1, <2>2 DEF Apart, Holds, Done
    <3>3. QED
      BY <2>1, <2>2, <3>1, <3>2 DEF Inv, TouchInv, From
  <2>6. Inv'
    BY <2>2, <2>5 DEF Inv, ItemInv, ContactInv, Placed, May, From, FirstContactIsWhole,
                      DroppedIsFirstContact
  <2>7. QED
    BY <1>4, <2>3, <2>4, <2>6 DEF TypeInv
<1>8. QED
  BY <1>2, <1>5, <1>6, <1>7

(* A connection that is idle again, without the transaction it held.       *)
LEMMA OneMore ==
  ASSUME NEW r \in Connections, NEW s, s = [r EXCEPT !.clean = @ + 1]
  PROVE  s.clean = r.clean + 1 /\ s.aborted =  r.aborted /\ s.orphans = r.orphans /\ s \in Connections
BY DEF Connections

LEMMA Freed ==
  ASSUME NEW r \in Connections, NEW T, NEW s, s = [r EXCEPT !.orphans = @ \ {T}, !.clean = @ + 1]
  PROVE  s.clean = r.clean + 1 /\ s.aborted =  r.aborted /\ s.orphans = r.orphans \ {T} /\ s \in Connections
<1>1. PICK q : q = [r EXCEPT !.orphans = @ \ {T}]
  OBVIOUS
<1>2. q \in Connections /\ q.clean = r.clean /\ q.aborted = r.aborted /\ q.orphans = r.orphans \ {T}
  BY <1>1 DEF Connections
<1>3. s = [q EXCEPT !.clean = q.clean + 1]
  BY <1>1, <1>2, Zenon
<1>4. s.clean = q.clean + 1 /\ s.aborted = q.aborted /\ s.orphans = q.orphans /\ s \in Connections
  BY <1>2, <1>3, OneMore, Zenon
<1>5. QED
  BY ONLY <1>2, <1>4

LEMMA Ended ==
  ASSUME NEW r \in Connections, r.aborted > 0, NEW s, s = [r EXCEPT !.aborted = @ - 1, !.clean = @ + 1]
  PROVE  s.clean = r.clean + 1 /\ s.aborted =  r.aborted - 1 /\ s.orphans = r.orphans /\ s \in Connections
<1>1. PICK q : q = [r EXCEPT !.aborted = @ - 1]
  OBVIOUS
<1>2. q \in Connections /\ q.clean = r.clean /\ q.aborted = r.aborted - 1 /\ q.orphans = r.orphans
  BY <1>1 DEF Connections
<1>3. s = [q EXCEPT !.clean = q.clean + 1]
  BY <1>1, <1>2, Zenon
<1>4. QED
  BY <1>2, <1>3, OneMore, Zenon

(* Somebody commits what he finds on a connection, or frees an aborted one. *)
LEMMA OthersInv ==
  ASSUME TypeInv, Inv, OthersUsePool
  PROVE  TypeInv' /\ Inv'
<1>1. /\ company' = company /\ met' = met /\ rc' = rc /\ run' = run /\ dropped' = dropped
      /\ dead' = dead /\ Given /\ RowsInv
      /\ pool \in Connections /\ IsFiniteSet(pool.orphans) /\ Cardinality(pool.orphans) \in Nat
      /\ Cardinality(Serving) \in Nat
      /\ pool.clean + pool.aborted + Cardinality(pool.orphans) + Cardinality(Serving) <= Pool
  BY ServingFinite, FS_CardinalityType DEF OthersUsePool, Keep, Given, TypeInv, PoolInv
<1>2. RunInv' /\ Serving' = Serving
  BY <1>1 DEF TypeInv, RunInv, Serving
<1>3. \A g \in Handler : Placed(g)'
  BY <1>1 DEF Inv, Placed, May, From
<1>4. ASSUME NEW o \in pool.orphans, Commit(o.did, {}),
             pool' = [pool EXCEPT !.orphans = @ \ {o}, !.clean = @ + 1]
      PROVE  TypeInv' /\ Inv'
  <2>1. /\ pool'.orphans = pool.orphans \ {o} /\ pool'.clean = pool.clean + 1
        /\ pool'.aborted = pool.aborted /\ pool' \in Connections /\ o.did \in SUBSET Touch
    <3>1. PICK S : S = [pool EXCEPT !.orphans = @ \ {o}, !.clean = @ + 1]
      OBVIOUS
    <3>2. /\ S.orphans = pool.orphans \ {o} /\ S.clean = pool.clean + 1
          /\ S.aborted = pool.aborted /\ S \in Connections
      BY <1>1, <3>1, Freed, Zenon
    <3>3. pool' = S
      BY <1>4, <3>1, Zenon
    <3>4. o.did \in SUBSET Touch
      BY <1>1 DEF Connections, Orphan
    <3>5. QED
      BY ONLY <3>2, <3>3, <3>4
  <2>2. /\ IsFiniteSet(pool'.orphans)
        /\ Cardinality(pool'.orphans) = Cardinality(pool.orphans) - 1
    <3>1. /\ IsFiniteSet(pool.orphans \ {o})
          /\ Cardinality(pool.orphans \ {o}) = Cardinality(pool.orphans) - 1
      BY <1>1, FS_RemoveElement, Zenon
    <3>2. QED
      BY ONLY <2>1, <3>1
  <2>3. PoolInv'
    BY <1>1, <1>2, <2>1, <2>2 DEF PoolInv, Connections
  <2>4. PICK X \in SUBSET Item : X = {}
    BY NoItems
  <2>5. Commit(o.did, X) /\ stored \cup X = stored
    BY <1>4, <2>4
  <2>6. /\ contact' \in [Phone -> Contact] /\ convs' \in [Phone -> Nat] /\ stored' = stored
        /\ \A p \in Phone : contact'[p] = IF Holds(o.did, p) THEN "active" ELSE contact[p]
    BY <1>1, <2>1, <2>5, CommitEffect
  <2>7. RowsInv'
    BY <1>1, <2>6 DEF RowsInv
  <2>8. \A t \in o.did : Proper(t) /\ Known(t)
    BY DEF Inv, TouchInv
  <2>9. ContactInv'
    BY <1>1, <2>1, <2>5, <2>8, CommitContacts DEF Inv
  <2>10. FirstContactIsWhole'
    BY <1>1, <2>6, <2>8 DEF Inv, FirstContactIsWhole, Known, Holds
  <2>11. TouchInv'
    <3>1. ASSUME NEW t \in Touch, Proper(t), met[t.p] # "elsewhere" => ~ Holds(o.did, t.p)
          PROVE  Proper(t)'
      BY <1>1, <2>1, <2>5, <3>1, ProperStays
    <3>2. \A t : Known(t) => Known(t)'
      BY <1>1, <2>6 DEF Known
    <3>3. ASSUME NEW q \in pool'.orphans, NEW t \in q.did PROVE Proper(t)' /\ Known(t)'
      <4>1. t \in Touch /\ Proper(t) /\ Known(t) /\ Holds(q.did, t.p) /\ q # o /\ t.p \in Phone
        BY <1>1, <2>1 DEF Inv, TouchInv, Connections, Orphan, Holds, Touch
      <4>2. met[t.p] # "elsewhere" => ~ Holds(o.did, t.p)
        BY <2>1, <4>1 DEF Inv, TouchInv, Apart, Proper
      <4>3. QED
        BY <3>1, <3>2, <4>1, <4>2
    <3>4. ASSUME NEW g \in Handler, NEW t \in Done(g) PROVE Proper(t)'
      <4>1. t \in Touch /\ Proper(t) /\ Holds(Done(g), t.p) /\ t.p \in Phone
        BY DEF Inv, TouchInv, Holds, Touch, Done, TypeInv, RunInv, Run
      <4>2. met[t.p] # "elsewhere" => ~ Holds(o.did, t.p)
        BY <4>1 DEF Inv, TouchInv, Apart, Proper
      <4>3. QED
        BY <3>1, <4>1, <4>2
    <3>5. \A p \in Phone : Apart(p) => Apart(p)'
      BY <1>1, <2>1 DEF Apart, Holds, Done
    <3>6. QED
      BY <1>1, <3>2, <3>3, <3>4, <3>5 DEF Inv, TouchInv, From, Done
  <2>12. ItemInv' /\ DroppedIsFirstContact'
    BY <1>1, <2>6 DEF Inv, ItemInv, DroppedIsFirstContact
  <2>13. QED
    BY <1>2, <1>3, <2>3, <2>7, <2>9, <2>10, <2>11, <2>12 DEF TypeInv, Inv
<1>5. CASE /\ pool.aborted > 0 /\ UNCHANGED rows
           /\ pool' = [pool EXCEPT !.aborted = @ - 1, !.clean = @ + 1]
  <2>1. /\ pool'.orphans = pool.orphans /\ pool'.clean = pool.clean + 1
        /\ pool'.aborted = pool.aborted - 1 /\ pool' \in Connections
    <3>1. PICK S : S = [pool EXCEPT !.aborted = @ - 1, !.clean = @ + 1]
      OBVIOUS
    <3>2. /\ S.orphans = pool.orphans /\ S.clean = pool.clean + 1
          /\ S.aborted = pool.aborted - 1 /\ S \in Connections
      BY <1>1, <1>5, <3>1, Ended, Zenon
    <3>3. pool' = S
      BY <1>5, <3>1, Zenon
    <3>4. QED
      BY ONLY <3>2, <3>3
  <2>2. PoolInv'
    BY <1>1, <1>2, <2>1 DEF PoolInv, Connections
  <2>3. contact' = contact /\ convs' = convs /\ stored' = stored
    BY <1>5 DEF rows
  <2>4. RowsInv'
    BY <1>1, <2>3 DEF RowsInv
  <2>5. TouchInv'
    <3>1. \A t : (Proper(t) => Proper(t)') /\ (Known(t) => Known(t)')
      BY <1>1, <2>3 DEF Proper, Known
    <3>2. \A p \in Phone : Apart(p) => Apart(p)'
      BY <1>1, <2>1 DEF Apart, Holds, Done
    <3>3. QED
      BY <1>1, <2>1, <3>1, <3>2 DEF Inv, TouchInv, From
  <2>6. ItemInv' /\ ContactInv' /\ FirstContactIsWhole' /\ DroppedIsFirstContact'
    BY <1>1, <2>3 DEF Inv, ItemInv, ContactInv, FirstContactIsWhole, DroppedIsFirstContact
  <2>7. QED
    BY <1>2, <1>3, <2>2, <2>4, <2>5, <2>6 DEF TypeInv, Inv
<1>6. QED
  BY <1>4, <1>5 DEF OthersUsePool

LEMMA StutterInv ==
  ASSUME TypeInv, Inv, UNCHANGED vars
  PROVE  TypeInv' /\ Inv'
<1>1. /\ company' = company /\ met' = met /\ rc' = rc /\ run' = run /\ dropped' = dropped
      /\ dead' = dead /\ pool' = pool /\ contact' = contact /\ convs' = convs /\ stored' = stored
  BY DEF vars, rows
<1>2. TypeInv'
  BY <1>1 DEF TypeInv, RowsInv, RunInv, PoolInv, Serving
<1>3. TouchInv'
  BY <1>1 DEF Inv, TouchInv, Proper, Known, Apart, Holds, Done, From
<1>4. QED
  BY <1>1, <1>2, <1>3 DEF Inv, ItemInv, ContactInv, Placed, May, From, FirstContactIsWhole,
                          DroppedIsFirstContact

LEMMA StepInv == TypeInv /\ Inv /\ [Next]_vars => TypeInv' /\ Inv'
<1> SUFFICES ASSUME TypeInv, Inv, [Next]_vars PROVE TypeInv' /\ Inv'
  OBVIOUS
<1>1. ASSUME NEW h \in Handler, Serve(h) \/ CreationFails(h) \/ WriteFails(h)
      PROVE  TypeInv' /\ Inv'
  BY <1>1, HandlerEffect, EffectType, EffectInv
<1>2. QED
  BY <1>1, ArriveInv, ReceiveInv, OthersInv, StutterInv DEF Next

LEMMA TypeInvIsTypeOK == TypeInv => TypeOK
<1> SUFFICES ASSUME TypeInv PROVE TypeOK
  OBVIOUS
<1>1. /\ Cardinality(pool.orphans) \in Nat /\ Cardinality(Serving) \in Nat /\ Pool \in Nat
      /\ pool.clean \in Nat /\ pool.aborted \in Nat
      /\ pool.clean + pool.aborted + Cardinality(pool.orphans) + Cardinality(Serving) <= Pool
  BY ServingFinite, FS_CardinalityType, ConstantsAssumption DEF TypeInv, PoolInv, Connections
<1>2. Lost \in 0..Pool
  BY <1>1 DEF Lost
<1>3. pool.clean \in 0..Pool /\ pool.aborted \in 0..Pool
  BY <1>1
<1>4. pool \in PoolState
  BY <1>3 DEF TypeInv, PoolInv, Connections, PoolState
<1>5. \A h \in Handler : run[h].at \in Place /\ run[h].did \cup run[h].extra \subseteq Touch
  BY DEF TypeInv, RunInv, Run
<1>6. QED
  BY <1>2, <1>4, <1>5 DEF TypeInv, RowsInv, TypeOK

LEMMA InvariantHolds == Spec => [](TypeInv /\ Inv)
BY InitInv, StepInv, PTL DEF Spec

(* Handlers and connections are well typed, and no connection is given to   *)
(* two handlers, whatever is released early, aborted or lost.               *)
THEOREM TypeCorrect == Spec => []TypeOK
BY InvariantHolds, TypeInvIsTypeOK, PTL

(* However many items of a customer are handled at once, and whatever their *)
(* handlers leave behind, he gets one conversation, unless he is known to   *)
(* another company only (elsewhere): such a customer may get several.       *)
THEOREM OneConversationEach == Spec => []OneConversation
<1>1. TypeInv /\ Inv => OneConversation
  BY DEF TypeInv, RowsInv, Inv, ContactInv, OneConversation
<1>2. QED
  BY <1>1, InvariantHolds, PTL

(* A new customer is committed with an item that is stored or dropped.      *)
THEOREM FirstContactsAreWhole == Spec => []FirstContactIsWhole
<1>1. Inv => FirstContactIsWhole
  BY DEF Inv
<1>2. QED
  BY <1>1, InvariantHolds, PTL

(* No item of a customer who was active from the start is dropped.          *)
THEOREM OnlyFirstContactsAreDropped == Spec => []DroppedIsFirstContact
<1>1. Inv => DroppedIsFirstContact
  BY DEF Inv
<1>2. QED
  BY <1>1, InvariantHolds, PTL

-----------------------------------------------------------------------------
(* Lost connections.  A connection is aborted by a handler that was not the *)
(* first: for one new customer those handlers are counted that have looked  *)
(* and found nothing yet.  Nothing is lost before there is a first one, and *)
(* nobody left anything of the customer behind unless a write failed.       *)
New == {p \in Phone : met[p] \in {"stranger", "elsewhere"}}

Damage == Pool - pool.clean - Cardinality(pool.orphans) - Cardinality(Serving)

Settled(p) == IF met[p] = "stranger" THEN contact[p] # "stranger" ELSE p \in template

Racing(p) == {h \in Handler : /\ run[h].at = IF met[p] = "stranger" THEN "insert" ELSE "newTemplate"
                              /\ From(h) = p}

(* What T is of the new customer p, on a connection that somebody left.     *)
Harmless(T, p) == IF met[p] = "stranger" THEN Holds(T, p) => faults > 0 ELSE p \notin Announcing(T)

Quiet(p) == /\ \A o \in pool.orphans : Harmless(o.did, p)
            /\ \A h \in Handler : Harmless(run[h].extra, p)

Bounded(p) ==
    IF Settled(p) THEN Damage + Cardinality(Racing(p)) <= Cardinality(Handler) - 1 + faults
                  ELSE Damage = 0 /\ Quiet(p)

(* Of a customer who is inactive, one handler at most has done anything.    *)
TemplateInv ==
    \A h \in Handler : run[h].at = "newTemplate" /\ met[From(h)] = "inactive" => From(h) \notin template

LossInv == /\ faults \in Nat /\ TemplateInv
           /\ New = {} => Damage = 0
           /\ \A p \in Phone : New = {p} => Bounded(p)

LEMMA DamageType ==
  ASSUME TypeInv
  PROVE  /\ Damage \in Nat /\ Damage = Lost + pool.aborted /\ Damage >= pool.aborted
         /\ pool.aborted \in Nat /\ pool.clean \in Nat
         /\ Cardinality(pool.orphans) \in Nat /\ Cardinality(Serving) \in Nat /\ Pool \in Nat
<1>1. /\ Cardinality(pool.orphans) \in Nat /\ Cardinality(Serving) \in Nat /\ Pool \in Nat
      /\ pool.clean \in Nat /\ pool.aborted \in Nat
      /\ pool.clean + pool.aborted + Cardinality(pool.orphans) + Cardinality(Serving) <= Pool
  BY ServingFinite, FS_CardinalityType, ConstantsAssumption DEF TypeInv, PoolInv, Connections
<1>2. QED
  BY <1>1 DEF Damage, Lost

LEMMA HandlersType == /\ IsFiniteSet(Handler) /\ Cardinality(Handler) \in Nat
                      /\ Cardinality(Handler) >= 1
<1>1. IsFiniteSet(Handler) /\ Cardinality(Handler) \in Nat
  BY ConstantsAssumption, FS_CardinalityType
<1>2. QED
  BY <1>1, ConstantsAssumption, FS_EmptySet

LEMMA RacingType ==
  ASSUME NEW p
  PROVE  /\ IsFiniteSet(Racing(p)) /\ Cardinality(Racing(p)) \in Nat
         /\ Cardinality(Racing(p)) <= Cardinality(Handler)
<1>1. Racing(p) \subseteq Handler
  BY DEF Racing
<1>2. QED
  BY <1>1, HandlersType, FS_Subset, FS_CardinalityType

(* Fewer race.                                                              *)
LEMMA FewerRace ==
  ASSUME NEW p, Racing(p)' \subseteq Racing(p)
  PROVE  Cardinality(Racing(p)') \in Nat /\ Cardinality(Racing(p)') <= Cardinality(Racing(p))
  BY RacingType, FS_Subset, FS_CardinalityType

LEMMA OneLessRaces ==
  ASSUME NEW p, NEW h \in Handler, Racing(p)' \subseteq Handler \ {h}
  PROVE  Cardinality(Racing(p)') \in Nat /\ Cardinality(Racing(p)') <= Cardinality(Handler) - 1
<1>1. Cardinality(Handler \ {h}) = Cardinality(Handler) - 1 /\ IsFiniteSet(Handler \ {h})
  BY HandlersType, FS_RemoveElement
<1>2. QED
  BY <1>1, FS_Subset, FS_CardinalityType

LEMMA OneStopsRacing ==
  ASSUME NEW p, NEW h \in Racing(p), Racing(p)' \subseteq Racing(p) \ {h}
  PROVE  Cardinality(Racing(p)') \in Nat /\ Cardinality(Racing(p)') <= Cardinality(Racing(p)) - 1
<1>1. Cardinality(Racing(p) \ {h}) = Cardinality(Racing(p)) - 1 /\ IsFiniteSet(Racing(p) \ {h})
  BY RacingType, FS_RemoveElement
<1>2. QED
  BY <1>1, FS_Subset, FS_CardinalityType

(* Nothing is lost by a step, nobody begins to race whose customer is       *)
(* settled, and who is not stays so.                                        *)
LEMMA KeepsBound ==
  ASSUME TypeInv, LossInv, Given, TemplateInv', Damage' \in Nat, Damage' <= Damage,
         NEW P, P = New,
         \A p \in P : Settled(p) => Settled(p)' /\ Racing(p)' \subseteq Racing(p),
         \A p \in P : ~ Settled(p) /\ Settled(p)' /\ P = {p} =>
                        \/ \E h \in Handler : Racing(p)' \subseteq Handler \ {h}
                        \/ faults' > 0,
         \A p \in P : ~ Settled(p)' /\ P = {p} => Quiet(p)'
  PROVE  LossInv'
<1>1. faults \in Nat /\ faults' \in Nat /\ faults <= faults' /\ met' = met /\ New' = New
  BY DEF LossInv, Given, New
<1>2. Damage \in Nat
  BY DamageType
<1>3. New = {} => Damage' = 0
  BY <1>2 DEF LossInv
<1>4. ASSUME NEW p \in Phone, New = {p} PROVE Bounded(p)'
  <2>1. Bounded(p) /\ p \in P
    BY <1>4 DEF LossInv
  <2>2. CASE Settled(p)
    <3>1. Cardinality(Racing(p)') \in Nat /\ Cardinality(Racing(p)') <= Cardinality(Racing(p))
      BY <2>1, <2>2, FewerRace
    <3>2. Damage + Cardinality(Racing(p)) <= Cardinality(Handler) - 1 + faults
      BY <2>1, <2>2 DEF Bounded
    <3>3. Damage' + Cardinality(Racing(p)') <= Cardinality(Handler) - 1 + faults'
      BY <1>1, <1>2, <3>1, <3>2, HandlersType, RacingType
    <3>4. QED
      BY <2>1, <2>2, <3>3 DEF Bounded
  <2>3. CASE ~ Settled(p) /\ ~ Settled(p)'
    BY <1>2, <1>4, <2>1, <2>3 DEF Bounded
  <2>4. CASE ~ Settled(p) /\ Settled(p)'
    <3>1. Damage' = 0
      BY <1>2, <2>1, <2>4 DEF Bounded
    <3>2. Cardinality(Racing(p)') \in Nat /\ Cardinality(Racing(p)') <= Cardinality(Handler)
      <4>1. Racing(p)' \subseteq Handler
        BY DEF Racing
      <4>2. QED
        BY <4>1, HandlersType, FS_Subset, FS_CardinalityType
    <3>3. Cardinality(Racing(p)') <= Cardinality(Handler) - 1 + faults'
      <4>1. CASE \E h \in Handler : Racing(p)' \subseteq Handler \ {h}
        BY <1>1, <3>2, <4>1, OneLessRaces, HandlersType
      <4>2. CASE faults' > 0
        BY <1>1, <3>2, <4>2, HandlersType
      <4>3. QED
        BY <1>4, <2>1, <2>4, <4>1, <4>2
    <3>4. QED
      BY <2>4, <3>1, <3>2, <3>3, HandlersType, <1>1 DEF Bounded
  <2>5. QED
    BY <2>2, <2>3, <2>4
<1>5. QED
  BY <1>1, <1>3, <1>4 DEF LossInv

LEMMA FreedRuns ==
  ASSUME TypeInv, NEW h \in Handler, Given, Free(h)
  PROVE  /\ \A g \in Handler : run'[g] = IF g = h THEN Idle ELSE run[g]
         /\ \A g \in Handler : g # h => From(g)' = From(g)
         /\ \A p : Racing(p)' \subseteq Racing(p) \ {h} /\ Racing(p)' \subseteq Handler \ {h}
<1>1. \A g \in Handler : run'[g] = IF g = h THEN Idle ELSE run[g]
  BY DEF Free, TypeInv, RunInv
<1>2. \A g \in Handler : g # h => From(g)' = From(g)
  BY <1>1 DEF From, Given
<1>3. ASSUME NEW p, NEW g \in Racing(p)' PROVE g \in Racing(p) \ {h}
  <2>1. g \in Handler /\ run'[g].at # "idle"
    BY <1>3 DEF Racing
  <2>2. g # h
    BY <1>1, <2>1, IdleType
  <2>3. QED
    BY <1>1, <1>2, <2>1, <2>2, <1>3 DEF Racing, Given
<1>4. QED
  BY <1>1, <1>2, <1>3 DEF Racing

LEMMA CommitSettles ==
  ASSUME TypeInv, NEW T \in SUBSET Touch, NEW X \in SUBSET Item, Commit(T, X), Given,
         NEW p \in Phone
  PROVE  /\ p \in template' <=> p \in template \/ p \in Announcing(T)
         /\ Settled(p)' <=> \/ Settled(p)
                            \/ IF met[p] = "stranger" THEN Holds(T, p) ELSE p \in Announcing(T)
<1>1. p \in template' <=> p \in template \/ p \in Announcing(T)
  BY DEF Commit, Announcing
<1>2. contact'[p] = IF Holds(T, p) THEN "active" ELSE contact[p]
  BY CommitEffect DEF TypeInv
<1>3. QED
  BY <1>1, <1>2 DEF Settled, Given

LEMMA AnnouncesHolds ==
  ASSUME NEW T, NEW p \in Announcing(T) PROVE Holds(T, p)
  BY DEF Announcing, Holds

(* Nobody else has announced a customer who is inactive.                    *)
LEMMA TemplateStays ==
  ASSUME TypeInv, Inv, TemplateInv, Given, NEW T,
         \A p : p \in template' => p \in template \/ Holds(T, p),
         NEW G \in SUBSET Handler,
         \A g \in G : /\ run'[g] = run[g] /\ From(g)' = From(g) /\ run[g].at # "idle"
                      /\ \A p \in Phone : met[p] = "inactive" => ~ (Holds(Done(g), p) /\ Holds(T, p)),
         \A g \in Handler \ G : run'[g].at # "newTemplate" \/ (From(g)' \notin template /\ T = {})
  PROVE  TemplateInv'
<1>1. SUFFICES ASSUME NEW g \in Handler, run'[g].at = "newTemplate", met[From(g)'] = "inactive",
                      From(g)' \in template'
               PROVE  FALSE
  BY DEF TemplateInv, Given
<1>2. CASE g \in G
  <2>1. run[g].at = "newTemplate" /\ From(g) = From(g)' /\ From(g) \in Phone /\ met[From(g)] = "inactive"
    BY <1>1, <1>2, ServedType
  <2>2. From(g) \notin template
    BY <2>1 DEF TemplateInv
  <2>3. Holds(Done(g), From(g))
    BY <2>1 DEF Inv, TouchInv, Holds, Done
  <2>4. QED
    BY <1>1, <1>2, <2>1, <2>2, <2>3
<1>3. CASE g \notin G
  <2>1. From(g)' \notin template /\ T = {}
    BY <1>1, <1>3
  <2>2. ~ Holds(T, From(g)')
    BY <2>1 DEF Holds
  <2>3. QED
    BY <1>1, <2>1, <2>2
<1>4. QED
  BY <1>2, <1>3

LEMMA HarmlessStays ==
  ASSUME NEW S, NEW p, Given, faults \in Nat, Harmless(S, p)
  PROVE  Harmless(S, p)'
<1>1. met' = met /\ faults' \in Nat /\ faults <= faults'
  BY DEF Given
<1>2. CASE met[p] = "stranger"
  <2>1. Holds(S, p) => faults > 0
    BY <1>2 DEF Harmless
  <2>2. Holds(S, p) => faults' > 0
    BY <1>1, <2>1
  <2>3. QED
    BY <1>1, <1>2, <2>2 DEF Harmless
<1>3. CASE met[p] # "stranger"
  BY <1>1, <1>3 DEF Harmless
<1>4. QED
  BY <1>2, <1>3

LEMMA NothingIsHarmless ==
  ASSUME NEW p PROVE Harmless({}, p) /\ Harmless({}, p)'
<1>1. ~ Holds({}, p) /\ p \notin Announcing({})
  BY DEF Holds, Announcing
<1>2. QED
  BY <1>1 DEF Harmless

LEMMA GoesOnLoss ==
  ASSUME TypeInv, Inv, LossInv, NEW h \in Handler, run[h].at # "idle", Given, GoesOn(h)
  PROVE  LossInv'
<1>1. PICK s \in Run :
        /\ run' = [run EXCEPT ![h] = s]
        /\ s.at # "idle" /\ s.x = run[h].x /\ s.extra = run[h].extra /\ Enters(h, s.at, s.did)
  BY DEF GoesOn
<1>2. /\ met' = met /\ rc' = rc /\ contact' = contact /\ pool' = pool /\ template' = template
      /\ faults \in Nat /\ faults <= faults'
  BY DEF Given, GoesOn, rows, LossInv
<1>3. \A g \in Handler : run'[g] = IF g = h THEN s ELSE run[g]
  BY <1>1 DEF TypeInv, RunInv
<1>4. \A g \in Handler : From(g)' = From(g) /\ run'[g].extra = run[g].extra
  BY <1>1, <1>2, <1>3 DEF From
<1>5. TemplateInv'
  BY <1>1, <1>2, <1>3, <1>4 DEF TemplateInv, Enters, LossInv
<1>6. Damage' = Damage
  <2>1. Serving' = Serving
    BY <1>1, <1>3 DEF Serving
  <2>2. QED
    BY <1>2, <2>1 DEF Damage
<1>7. PICK P : P = New
  OBVIOUS
<1>8. ASSUME NEW p \in P PROVE Settled(p)' = Settled(p)
  BY <1>2 DEF Settled
<1>9. ASSUME NEW p \in P, Settled(p) PROVE Racing(p)' \subseteq Racing(p)
  <2> SUFFICES ASSUME NEW g \in Racing(p)' PROVE g \in Racing(p)
    OBVIOUS
  <2>1. /\ g \in Handler /\ From(g) = p
        /\ run'[g].at = IF met[p] = "stranger" THEN "insert" ELSE "newTemplate"
    BY <1>2, <1>4 DEF Racing
  <2>2. g # h
    BY <1>1, <1>3, <1>7, <1>9, <2>1 DEF Enters, Settled, New
  <2>3. QED
    BY <1>3, <2>1, <2>2 DEF Racing
<1>10. ASSUME NEW p \in P, ~ Settled(p)', P = {p} PROVE Quiet(p)'
  <2>1. Quiet(p)
    BY <1>7, <1>8, <1>10 DEF LossInv, Bounded, New
  <2>2. \A S : Harmless(S, p) => Harmless(S, p)'
    BY <1>2, HarmlessStays
  <2>3. \A o \in pool'.orphans : Harmless(o.did, p)'
    <3>1. \A o \in pool.orphans : Harmless(o.did, p)'
      BY <2>1, <2>2 DEF Quiet
    <3>2. QED
      BY <1>2, <3>1
  <2>4. \A g \in Handler : Harmless(run[g].extra, p)'
    <3>1. ASSUME NEW g \in Handler PROVE Harmless(run[g].extra, p)'
      <4>1. PICK S : S = run[g].extra
        OBVIOUS
      <4>2. Harmless(S, p)'
        BY <2>1, <2>2, <4>1 DEF Quiet
      <4>3. run'[g].extra = S
        BY <1>4, <4>1
      <4>4. QED
        BY <4>2, <4>3
    <3>2. QED
      BY <3>1
  <2>5. QED
    BY <2>3, <2>4 DEF Quiet
<1>11. QED
  BY <1>5, <1>6, <1>7, <1>8, <1>9, <1>10, DamageType, KeepsBound

(* A handler stops, and commits what it has done or does not.               *)
LEMMA CommitLoss ==
  ASSUME TypeInv, Inv, LossInv, NEW h \in Handler, run[h].at # "idle", Given, Free(h),
         pool' = pool \/ pool'.orphans = pool.orphans, Damage' = Damage,
         \/ contact' = contact /\ template' = template
         \/ \E X \in SUBSET Item : Commit(Done(h), X)
  PROVE  LossInv'
<1>1. /\ \A g \in Handler : run'[g] = IF g = h THEN Idle ELSE run[g]
      /\ \A g \in Handler : g # h => From(g)' = From(g)
      /\ \A p : Racing(p)' \subseteq Racing(p) \ {h} /\ Racing(p)' \subseteq Handler \ {h}
  BY FreedRuns
<1>2. /\ met' = met /\ rc' = rc /\ faults \in Nat /\ faults <= faults' /\ pool'.orphans = pool.orphans
      /\ Done(h) \in SUBSET Touch
  BY ServedType DEF Given, LossInv, Done
<1>3. PICK T \in SUBSET Touch :
        /\ T = {} \/ T = Done(h)
        /\ \A p : p \in template' => p \in template \/ Holds(T, p)
        /\ \A p \in Phone : Settled(p) => Settled(p)'
  <2>1. CASE contact' = contact /\ template' = template
    <3>1. \A p \in Phone : Settled(p) => Settled(p)'
      BY <1>2, <2>1 DEF Settled
    <3>2. {} \in SUBSET Touch
      OBVIOUS
    <3>3. \A p : p \in template' => p \in template
      BY <2>1
    <3>4. QED
      BY <3>1, <3>2, <3>3
  <2>2. ASSUME NEW X \in SUBSET Item, Commit(Done(h), X)
        PROVE  /\ \A p : p \in template' => p \in template \/ Holds(Done(h), p)
               /\ \A p \in Phone : Settled(p) => Settled(p)'
    <3>1. template' = template \cup Announcing(Done(h))
      BY <2>2 DEF Commit, Announcing
    <3>2. \A p \in Phone : Settled(p) => Settled(p)'
      BY <1>2, <2>2, CommitSettles
    <3>3. QED
      BY <3>1, <3>2, AnnouncesHolds
  <2>3. QED
    BY <1>2, <2>1, <2>2
<1>4. TemplateInv'
  <2>1. PICK G \in SUBSET Handler : G = {g \in Handler : g # h /\ run[g].at # "idle"}
    OBVIOUS
  <2>2. ASSUME NEW g \in G
        PROVE  /\ run'[g] = run[g] /\ From(g)' = From(g) /\ run[g].at # "idle"
               /\ \A p \in Phone : met[p] = "inactive" => ~ (Holds(Done(g), p) /\ Holds(T, p))
    <3>1. \A p \in Phone : met[p] = "inactive" => ~ (Holds(Done(g), p) /\ Holds(Done(h), p))
      BY <2>1 DEF Inv, TouchInv, Apart
    <3>2. \A p : ~ Holds({}, p)
      BY DEF Holds
    <3>3. QED
      BY <1>1, <1>3, <2>1, <3>1, <3>2
  <2>3. \A g \in Handler \ G : run'[g].at # "newTemplate"
    BY <1>1, <2>1, IdleType
  <2>4. QED
    BY <1>3, <2>2, <2>3, TemplateStays DEF LossInv
<1>5. PICK P : P = New
  OBVIOUS
<1>6. ASSUME NEW p \in P, ~ Settled(p)', P = {p} PROVE Quiet(p)'
  <2>1. Quiet(p)
    BY <1>3, <1>5, <1>6 DEF LossInv, Bounded, New
  <2>2. \A g \in Handler : run'[g].extra = {} \/ run'[g].extra = run[g].extra
    BY <1>1, IdleType
  <2>3. \A S : Harmless(S, p) => Harmless(S, p)'
    BY <1>2, HarmlessStays
  <2>4. Harmless({}, p)'
    BY NothingIsHarmless
  <2>5. \A o \in pool'.orphans : Harmless(o.did, p)'
    <3>1. \A o \in pool.orphans : Harmless(o.did, p)'
      BY <2>1, <2>3 DEF Quiet
    <3>2. QED
      BY <1>2, <3>1
  <2>6. \A g \in Handler : Harmless(run[g].extra, p)'
    <3>1. ASSUME NEW g \in Handler PROVE Harmless(run[g].extra, p)'
      <4>1. PICK S : S = run'[g].extra
        OBVIOUS
      <4>2. S = {} \/ Harmless(S, p)
        BY <2>1, <2>2, <4>1 DEF Quiet
      <4>3. Harmless(S, p)'
        BY <2>3, <2>4, <4>2
      <4>4. QED
        BY <4>1, <4>3
    <3>2. QED
      BY <3>1
  <2>7. QED
    BY <2>5, <2>6 DEF Quiet
<1>7. P \subseteq Phone
  BY <1>5 DEF New
<1>8. QED
  BY <1>1, <1>3, <1>4, <1>5, <1>6, <1>7, DamageType, KeepsBound

LEMMA ReturnDamage ==
  ASSUME TypeInv, NEW h \in Handler, run[h].at # "idle", Free(h), Return
  PROVE  Damage' = Damage /\ pool'.orphans = pool.orphans
<1>1. Cardinality(Serving)' = Cardinality(Serving) - 1
  BY ServingLess DEF Free
<1>2. PICK s : s = [pool EXCEPT !.clean = @ + 1]
  OBVIOUS
<1>3. s.clean = pool.clean + 1 /\ s.orphans = pool.orphans
  BY <1>2, OneMore DEF TypeInv, PoolInv
<1>4. pool' = s
  BY <1>2 DEF Return
<1>5. /\ pool'.clean = pool.clean + 1 /\ pool'.orphans = pool.orphans
      /\ Cardinality(pool'.orphans) = Cardinality(pool.orphans)
  BY <1>3, <1>4
<1>6. QED
  BY <1>1, <1>5, DamageType DEF Damage

LEMMA FreedTemplate ==
  ASSUME TypeInv, TemplateInv, NEW h \in Handler, Given, Free(h), template' = template
  PROVE  TemplateInv'
<1>1. /\ \A g \in Handler : run'[g] = IF g = h THEN Idle ELSE run[g]
      /\ \A g \in Handler : g # h => From(g)' = From(g)
  BY FreedRuns
<1>2. \A g \in Handler : run'[g].at = "newTemplate" => g # h
  BY <1>1, IdleType
<1>3. QED
  BY <1>1, <1>2 DEF TemplateInv, Given

(* Who is aborted was not the first.                                        *)
LEMMA AbortedRaced ==
  ASSUME TypeInv, Inv, LossInv, NEW h \in Handler, run[h].at # "idle", Aborts(h)
  PROVE  /\ From(h) \in New
         /\ \A p : New = {p} => From(h) = p /\ Settled(p) /\ h \in Racing(p)
<1>1. PICK p \in Phone : p = From(h)
  BY ServedType
<1>2. May(run[h].x, run[h].at) /\ rc[run[h].x].from = p
  BY <1>1 DEF Inv, Placed, From
<1>3. SUFFICES p \in New /\ (New = {p} => Settled(p) /\ h \in Racing(p))
  BY <1>1
<1>4. CASE run[h].at = "insert" /\ contact[p] \notin {"stranger", "disabled"}
  <2>1. met[p] = "stranger" /\ contact[p] # "stranger"
    BY <1>2, <1>4 DEF May, Inv, ContactInv
  <2>2. QED
    BY <1>1, <1>4, <2>1 DEF New, Settled, Racing
<1>5. CASE run[h].at = "template" /\ p \notin template /\ \E T \in Left : p \in Announcing(T)
  <2>1. met[p] \in {"elsewhere", "inactive"} /\ Holds(run[h].did, p)
    BY <1>1, <1>2, <1>5 DEF May, Inv, TouchInv
  <2>2. PICK o \in pool.orphans : p \in Announcing(o.did)
    BY <1>5 DEF Left
  <2>3. Holds(o.did, p) /\ Holds(Done(h), p)
    BY <2>1, <2>2, AnnouncesHolds DEF Holds, Done
  <2>4. met[p] = "elsewhere"
    BY <2>1, <2>3 DEF Inv, TouchInv, Apart
  <2>5. p \in New /\ ~ Settled(p)
    BY <1>5, <2>4 DEF New, Settled
  <2>6. ASSUME New = {p} PROVE FALSE
    <3>1. Quiet(p)
      BY <2>5, <2>6 DEF LossInv, Bounded
    <3>2. Harmless(o.did, p)
      BY <3>1 DEF Quiet
    <3>3. QED
      BY <2>2, <2>4, <3>2 DEF Harmless
  <2>7. QED
    BY <2>5, <2>6
<1>6. CASE run[h].at = "newTemplate" /\ p \in template
  <2>1. met[p] \in {"elsewhere", "inactive"}
    BY <1>2, <1>6 DEF May
  <2>2. met[p] # "inactive"
    BY <1>1, <1>6 DEF LossInv, TemplateInv
  <2>3. QED
    BY <1>1, <1>6, <2>1, <2>2 DEF New, Settled, Racing
<1>7. QED
  BY <1>1, <1>4, <1>5, <1>6 DEF Aborts

(* One more connection is aborted, and one fewer races.                     *)
LEMMA AbortLoss ==
  ASSUME TypeInv, Inv, LossInv, NEW h \in Handler, run[h].at # "idle", Given,
         Aborts(h), Leave(h, Aborted)
  PROVE  LossInv'
<1>1. /\ met' = met /\ contact' = contact /\ template' = template /\ New' = New
      /\ faults \in Nat /\ faults' \in Nat /\ faults <= faults' /\ Free(h)
  BY DEF Given, LossInv, Leave, rows, New
<1>2. Damage' = Damage + 1
  <2>1. Cardinality(Serving)' = Cardinality(Serving) - 1
    BY <1>1, ServingLess DEF Free
  <2>2. /\ pool'.clean = pool.clean /\ pool'.orphans = pool.orphans
    BY DEF Leave, Aborted, TypeInv, PoolInv, Connections
  <2>3. Cardinality(pool'.orphans) = Cardinality(pool.orphans)
    BY <2>2
  <2>4. QED
    BY <2>1, <2>2, <2>3, DamageType DEF Damage
<1>3. TemplateInv'
  BY <1>1, FreedTemplate DEF LossInv
<1>4. New # {}
  BY AbortedRaced
<1>5. ASSUME NEW p \in Phone, New = {p} PROVE Bounded(p)'
  <2>1. Settled(p) /\ h \in Racing(p)
    BY <1>5, AbortedRaced
  <2>2. Damage + Cardinality(Racing(p)) <= Cardinality(Handler) - 1 + faults
    BY <1>5, <2>1 DEF LossInv, Bounded
  <2>3. Cardinality(Racing(p)') \in Nat /\ Cardinality(Racing(p)') <= Cardinality(Racing(p)) - 1
    <3>1. Racing(p)' \subseteq Racing(p) \ {h}
      BY <1>1, FreedRuns
    <3>2. QED
      BY <2>1, <3>1, OneStopsRacing
  <2>4. Settled(p)'
    BY <1>1, <2>1 DEF Settled
  <2>5. Damage' + Cardinality(Racing(p)') <= Cardinality(Handler) - 1 + faults'
    BY <1>1, <1>2, <2>2, <2>3, DamageType, RacingType, HandlersType
  <2>6. QED
    BY <2>4, <2>5 DEF Bounded
<1>6. QED
  BY <1>1, <1>3, <1>4, <1>5 DEF LossInv

LEMMA HarmlessUnion ==
  ASSUME NEW S, NEW T, NEW p, Harmless(S, p)', Harmless(T, p)' PROVE Harmless(S \cup T, p)'
<1>1. Holds(S \cup T, p) => Holds(S, p) \/ Holds(T, p)
  BY DEF Holds
<1>2. p \in Announcing(S \cup T) => p \in Announcing(S) \/ p \in Announcing(T)
  BY DEF Announcing
<1>3. QED
  BY <1>1, <1>2 DEF Harmless

(* What is left behind of a customer who is not settled is left because a   *)
(* write failed.                                                            *)
LEMMA OpenLoss ==
  ASSUME TypeInv, Inv, LossInv, NEW h \in Handler, run[h].at # "idle", Given,
         NEW T, MayDo(h, T), LeavesBehind(T), Leave(h, Open(run[h].extra \cup T))
  PROVE  LossInv'
<1>1. /\ met' = met /\ contact' = contact /\ template' = template
      /\ faults \in Nat /\ faults' \in Nat /\ faults <= faults' /\ Free(h)
      /\ run[h].extra \cup T \in SUBSET Touch /\ PoolInv
  BY ServedType DEF Given, LossInv, Leave, rows, MayDo, TypeInv, RunInv, Run
<1>2. PICK s : s = Open(run[h].extra \cup T)
  OBVIOUS
<1>3. /\ s \in Connections /\ IsFiniteSet(s.orphans)
      /\ s.clean + Cardinality(s.orphans) = pool.clean + Cardinality(pool.orphans) + 1
      /\ \/ s.orphans = pool.orphans
         \/ \E o : o.did = run[h].extra \cup T /\ s.orphans = pool.orphans \cup {o}
  BY <1>1, <1>2, OpenType
<1>4. pool' = s
  BY <1>2 DEF Leave
<1>5. Damage' = Damage
  <2>1. Cardinality(Serving)' = Cardinality(Serving) - 1
    BY <1>1, ServingLess DEF Free
  <2>2. s.clean \in Nat /\ Cardinality(s.orphans) \in Nat
    BY <1>3, FS_CardinalityType DEF Connections
  <2>3. Damage' = Pool - s.clean - Cardinality(s.orphans) - (Cardinality(Serving) - 1)
    BY <1>4, <2>1 DEF Damage
  <2>4. QED
    BY <1>3, <2>2, <2>3, DamageType DEF Damage
<1>6. TemplateInv'
  BY <1>1, FreedTemplate DEF LossInv
<1>7. PICK P : P = New
  OBVIOUS
<1>8. \A p \in P : Settled(p)' = Settled(p)
  BY <1>1 DEF Settled
<1>9. \A p \in P : Racing(p)' \subseteq Racing(p)
  BY <1>1, FreedRuns
<1>10. ASSUME NEW p \in P, ~ Settled(p)', P = {p} PROVE Quiet(p)'
  <2>1. Quiet(p) /\ Damage = 0
    BY <1>7, <1>8, <1>10 DEF LossInv, Bounded, New
  <2>2. \A S : Harmless(S, p) => Harmless(S, p)'
    BY <1>1, HarmlessStays
  <2>3. Harmless(T, p)'
    <3>1. CASE T = {}
      BY <3>1, NothingIsHarmless
    <3>2. CASE T # {}
      <4>1. faults' = faults + 1 /\ \A t \in T : t.did # "announced"
        BY <2>1, <3>2, DamageType DEF LeavesBehind
      <4>2. p \notin Announcing(T)
        BY <4>1 DEF Announcing
      <4>3. QED
        BY <1>1, <4>1, <4>2 DEF Harmless
    <3>3. QED
      BY <3>1, <3>2
  <2>4. PICK E : E = run[h].extra
    OBVIOUS
  <2>5. Harmless(E, p)'
    BY <2>1, <2>2, <2>4 DEF Quiet
  <2>6. Harmless(E \cup T, p)'
    BY <2>3, <2>5, HarmlessUnion
  <2>7. \A o \in pool'.orphans : Harmless(o.did, p)'
    <3>1. \A o \in pool.orphans : Harmless(o.did, p)'
      BY <2>1, <2>2 DEF Quiet
    <3>2. QED
      BY <1>3, <1>4, <2>4, <2>6, <3>1
  <2>8. \A g \in Handler : run'[g].extra = {} \/ run'[g].extra = run[g].extra
    BY <1>1, FreedRuns, IdleType
  <2>9. \A g \in Handler : Harmless(run[g].extra, p)'
    <3>1. ASSUME NEW g \in Handler PROVE Harmless(run[g].extra, p)'
      <4>1. PICK S : S = run'[g].extra
        OBVIOUS
      <4>2. S = {} \/ Harmless(S, p)
        BY <2>1, <2>8, <4>1 DEF Quiet
      <4>3. Harmless(S, p)'
        BY <2>2, <4>2, NothingIsHarmless
      <4>4. QED
        BY <4>1, <4>3
    <3>2. QED
      BY <3>1
  <2>10. QED
    BY <2>7, <2>9 DEF Quiet
<1>11. QED
  BY <1>5, <1>6, <1>7, <1>8, <1>9, <1>10, DamageType, KeepsBound

LEMMA EffectLoss ==
  ASSUME TypeInv, Inv, LossInv, NEW h \in Handler, Effect(h)
  PROVE  LossInv'
<1>1. run[h].at # "idle" /\ Given /\ run[h].x \in Item
  BY DEF Effect, TypeInv, RunInv
<1>2. CASE Finish(h)
  <2>1. Free(h) /\ Return /\ \E X \in SUBSET Item : Commit(Done(h), X)
    BY <1>1, <1>2 DEF Finish
  <2>2. QED
    BY <1>1, <2>1, ReturnDamage, CommitLoss
<1>3. CASE Nack(h)
  <2>1. Free(h) /\ Return /\ contact' = contact /\ template' = template
    BY <1>3 DEF Nack, rows
  <2>2. QED
    BY <1>1, <2>1, ReturnDamage, CommitLoss
<1>4. CASE Drops(h)
  <2>1. Free(h) /\ Return /\ \E X \in SUBSET Item : Commit(Done(h), X)
    BY <1>4, NoItems DEF Drops
  <2>2. QED
    BY <1>1, <2>1, ReturnDamage, CommitLoss
<1>5. CASE Leaves(h)
  <2>1. CASE Leave(h, [pool EXCEPT !.clean = @ + 1])
    <3>1. Free(h) /\ Return /\ contact' = contact /\ template' = template
      BY <2>1 DEF Leave, Return, rows
    <3>2. QED
      BY <1>1, <3>1, ReturnDamage, CommitLoss
  <2>2. QED
    BY <1>1, <1>5, <2>1, AbortLoss, OpenLoss DEF Leaves
<1>6. QED
  BY <1>1, <1>2, <1>3, <1>4, <1>5, GoesOnLoss DEF Effect

(* Nothing changes but who is served, and by whom no more than before.      *)
LEMMA SameLoss ==
  ASSUME TypeInv, LossInv, met' = met, contact' = contact, template' = template, faults' = faults,
         pool' = pool, run' = run, \A h \in Handler : run[h].at # "idle" => From(h)' = From(h)
  PROVE  LossInv'
<1>1. Damage' = Damage /\ New' = New
  BY DEF Damage, New, Serving
<1>2. \A p \in Phone : Racing(p)' = Racing(p)
  BY DEF Racing
<1>3. \A p \in Phone : Settled(p)' = Settled(p) /\ \A S : Harmless(S, p)' = Harmless(S, p)
  BY DEF Settled, Harmless
<1>4. \A p \in Phone : Quiet(p) => Quiet(p)'
  <2> SUFFICES ASSUME NEW p \in Phone, Quiet(p) PROVE Quiet(p)'
    OBVIOUS
  <2>1. \A S : Harmless(S, p) => Harmless(S, p)'
    BY <1>3
  <2>2. \A o \in pool.orphans : Harmless(o.did, p)'
    BY <2>1 DEF Quiet
  <2>3. ASSUME NEW h \in Handler PROVE Harmless(run[h].extra, p)'
    <3>1. PICK S : S = run[h].extra
      OBVIOUS
    <3>2. Harmless(S, p)'
      BY <2>1, <3>1 DEF Quiet
    <3>3. QED
      BY <3>1, <3>2
  <2>4. QED
    BY <2>2, <2>3 DEF Quiet
<1>5. \A p \in Phone : Bounded(p) => Bounded(p)'
  <2> SUFFICES ASSUME NEW p \in Phone, Bounded(p) PROVE Bounded(p)'
    OBVIOUS
  <2>1. Cardinality(Racing(p)') = Cardinality(Racing(p))
    BY <1>2
  <2>2. QED
    BY <1>1, <1>3, <1>4, <2>1 DEF Bounded
<1>6. TemplateInv'
  BY DEF LossInv, TemplateInv
<1>7. QED
  BY <1>1, <1>5, <1>6 DEF LossInv

LEMMA ArriveLoss ==
  ASSUME TypeInv, LossInv, NEW x \in Item, NEW k \in Kind, NEW p \in Phone, Arrive(x, k, p)
  PROVE  LossInv'
<1>1. \A y \in Item : rc[y].kind # "none" => rc'[y] = rc[y]
  BY DEF Arrive, TypeInv, RowsInv
<1>2. \A h \in Handler : run[h].at # "idle" => run[h].x \in Item /\ rc[run[h].x].kind # "none"
  BY DEF TypeInv, RunInv
<1>3. \A h \in Handler : run[h].at # "idle" => From(h)' = From(h)
  BY <1>1, <1>2 DEF From, Arrive
<1>4. QED
  BY <1>3, SameLoss DEF Arrive, rows

(* A handler begins with T, which somebody has left.                        *)
Begins(h, x, T) ==
    /\ run[h].at = "idle" /\ rc[x].kind \in {"message", "group", "call"}
    /\ Given /\ contact' = contact /\ template' = template
    /\ run' = [run EXCEPT ![h] = [at |-> First[rc[x].kind], x |-> x, did |-> {}, extra |-> T]]
    /\ T = {} \/ \E o \in pool.orphans : o.did = T
    /\ pool'.orphans \subseteq pool.orphans /\ Damage' = Damage

LEMMA BeginLoss ==
  ASSUME TypeInv, LossInv, NEW h \in Handler, NEW x \in Item, NEW T, Begins(h, x, T)
  PROVE  LossInv'
<1>0. PICK s : s = [at |-> First[rc[x].kind], x |-> x, did |-> {}, extra |-> T]
  OBVIOUS
<1>1. /\ \A g \in Handler : run'[g] = IF g = h THEN s ELSE run[g]
      /\ \A g \in Handler : g # h => From(g)' = From(g)
  BY <1>0 DEF TypeInv, RunInv, From, Given, Begins
<1>2. run'[h].at \notin {"insert", "newTemplate"} /\ run'[h].extra = T
  BY <1>0, <1>1 DEF First, Begins
<1>3. TemplateInv'
  BY <1>1, <1>2 DEF TemplateInv, LossInv, Given, Begins
<1>4. PICK P : P = New
  OBVIOUS
<1>5. ASSUME NEW p \in P PROVE Settled(p)' = Settled(p) /\ Racing(p)' \subseteq Racing(p)
  BY <1>1, <1>2 DEF Settled, Racing, Given, Begins
<1>6. ASSUME NEW p \in P, ~ Settled(p)', P = {p} PROVE Quiet(p)'
  <2>1. Quiet(p) /\ faults \in Nat
    BY <1>4, <1>5, <1>6 DEF LossInv, Bounded, New
  <2>2. \A S : Harmless(S, p) => Harmless(S, p)'
    BY <2>1, HarmlessStays DEF Begins
  <2>3. \A o \in pool.orphans : Harmless(o.did, p)'
    BY <2>1, <2>2 DEF Quiet
  <2>4. Harmless(T, p)'
    BY <2>3, NothingIsHarmless DEF Begins
  <2>5. ASSUME NEW g \in Handler PROVE Harmless(run[g].extra, p)'
    <3>1. PICK S : S = run'[g].extra
      OBVIOUS
    <3>2. S = T \/ Harmless(S, p)
      BY <1>1, <1>2, <2>1, <3>1 DEF Quiet
    <3>3. Harmless(S, p)'
      BY <2>2, <2>4, <3>2
    <3>4. QED
      BY <3>1, <3>3
  <2>6. QED
    BY <2>3, <2>5 DEF Quiet, Begins
<1>7. QED
  BY <1>3, <1>4, <1>5, <1>6, DamageType, KeepsBound DEF Begins

LEMMA ReceiveLoss ==
  ASSUME TypeInv, LossInv, NEW h \in Handler, NEW x \in Item, Receive(h, x)
  PROVE  LossInv'
<1>1. /\ Given /\ contact' = contact /\ template' = template /\ run[h].at = "idle"
      /\ rc[x].kind \in {"message", "group", "call"} /\ pool \in Connections
  BY DEF Receive, Keep, Given, rows, DeliveredMessages, DeliveredCalls, TypeInv, PoolInv
<1>2. PICK a : a = First[rc[x].kind] /\ a # "idle"
  BY <1>1 DEF First
<1>3. ASSUME pool.clean > 0, pool' = [pool EXCEPT !.clean = @ - 1],
             NEW s, s = [Idle EXCEPT !.at = First[rc[x].kind], !.x = x, !.extra = {}],
             run' = [run EXCEPT ![h] = s]
      PROVE  LossInv'
  <2> PICK T : T = {}
    OBVIOUS
  <2>1. s = [at |-> a, x |-> x, did |-> {}, extra |-> T]
    BY <1>2, <1>3, Beginning
  <2>2. Cardinality(Serving)' = Cardinality(Serving) + 1
    BY <1>1, <1>2, <1>3, <2>1, ServingMore
  <2>3. pool'.clean = pool.clean - 1 /\ pool'.orphans = pool.orphans
    BY <1>1, <1>3 DEF Connections
  <2>4. Damage' = Damage
    <3>1. Cardinality(pool'.orphans) = Cardinality(pool.orphans)
      BY <2>3
    <3>2. QED
      BY <2>2, <2>3, <3>1, DamageType DEF Damage
  <2>5. pool'.orphans \subseteq pool.orphans
    BY <2>3
  <2>6. QED
    <3>1. Begins(h, x, T)
      BY <1>1, <1>2, <1>3, <2>1, <2>4, <2>5 DEF Begins
    <3>2. QED
      BY <3>1, BeginLoss
<1>4. ASSUME NEW o \in pool.orphans, pool' = [pool EXCEPT !.orphans = @ \ {o}],
             NEW s, s = [Idle EXCEPT !.at = First[rc[x].kind], !.x = x, !.extra = o.did],
             run' = [run EXCEPT ![h] = s]
      PROVE  LossInv'
  <2>1. PICK T : T = o.did
    OBVIOUS
  <2>2. s = [at |-> a, x |-> x, did |-> {}, extra |-> T]
    BY <1>2, <1>4, <2>1, Beginning
  <2>3. Cardinality(Serving)' = Cardinality(Serving) + 1
    BY <1>1, <1>2, <1>4, <2>2, ServingMore
  <2>4. pool'.clean = pool.clean /\ pool'.orphans = pool.orphans \ {o}
    BY <1>1, <1>4 DEF Connections
  <2>5. Damage' = Damage
    <3>1. Cardinality(pool'.orphans) = Cardinality(pool.orphans) - 1
      BY <2>4, FS_RemoveElement DEF TypeInv, PoolInv
    <3>2. QED
      BY <2>3, <2>4, <3>1, DamageType DEF Damage
  <2>6. pool'.orphans \subseteq pool.orphans
    BY <2>4
  <2>7. QED
    <3>1. \E q \in pool.orphans : q.did = T
      BY <2>1
    <3>2. QED
      BY <1>1, <1>2, <1>4, <2>2, <2>5, <2>6, <3>1, BeginLoss DEF Begins
<1>5. CASE pool.aborted > 0 /\ pool' = [pool EXCEPT !.aborted = @ - 1] /\ run' = run
  <2>1. pool'.clean = pool.clean /\ pool'.orphans = pool.orphans
    BY <1>1, <1>5 DEF Connections
  <2>2. Damage' = Damage
    BY <1>5, <2>1 DEF Damage, Serving
  <2>3. \A g \in Handler : From(g)' = From(g)
    BY <1>1, <1>5 DEF From, Given
  <2>4. PICK P : P = New
    OBVIOUS
  <2>5. ASSUME NEW p \in P PROVE Settled(p)' = Settled(p) /\ Racing(p)' = Racing(p)
    BY <1>1, <1>5, <2>3 DEF Settled, Racing, Given
  <2>6. TemplateInv'
    BY <1>1, <1>5, <2>3 DEF TemplateInv, LossInv, Given
  <2>7. ASSUME NEW p \in P, ~ Settled(p)', P = {p} PROVE Quiet(p)'
    <3>1. Damage = 0
      BY <2>4, <2>5, <2>7 DEF LossInv, Bounded, New
    <3>2. QED
      BY <1>5, <3>1, DamageType
  <2>8. QED
    BY <1>1, <2>2, <2>4, <2>5, <2>6, <2>7, DamageType, KeepsBound
<1>6. QED
  BY <1>3, <1>4, <1>5 DEF Receive

(* Whoever commits what was left settles a customer only after a failure.   *)
LEMMA OthersCommitLoss ==
  ASSUME TypeInv, Inv, LossInv, OthersUsePool, NEW o \in pool.orphans, Commit(o.did, {}),
         pool' = [pool EXCEPT !.orphans = @ \ {o}, !.clean = @ + 1]
  PROVE  LossInv'
<1>1. /\ Given /\ faults' = faults /\ faults \in Nat /\ run' = run /\ \A g \in Handler : From(g)' = From(g)
      /\ Serving' = Serving /\ pool \in Connections /\ IsFiniteSet(pool.orphans)
  BY DEF OthersUsePool, Keep, Given, Serving, From, TypeInv, PoolInv, LossInv
<1>2. pool'.orphans = pool.orphans \ {o} /\ pool'.clean = pool.clean + 1
  <2>1. PICK S : S = [pool EXCEPT !.orphans = @ \ {o}, !.clean = @ + 1]
    OBVIOUS
  <2>2. S.orphans = pool.orphans \ {o} /\ S.clean = pool.clean + 1
    BY <1>1, <2>1, Freed, Zenon
  <2>3. QED
    BY <2>1, <2>2
<1>3. Damage' = Damage
  <2>1. Cardinality(pool.orphans \ {o}) = Cardinality(pool.orphans) - 1
    BY <1>1, FS_RemoveElement
  <2>2. QED
    BY <1>1, <1>2, <2>1, DamageType DEF Damage
<1>4. PICK T \in SUBSET Touch : T = o.did
  BY <1>1 DEF Connections, Orphan
<1>5. Commit(T, {}) /\ {} \in SUBSET Item
  BY <1>4
<1>6. \A p \in Phone : /\ p \in template' <=> p \in template \/ p \in Announcing(T)
                       /\ Settled(p)' <=> \/ Settled(p)
                                          \/ IF met[p] = "stranger" THEN Holds(T, p) ELSE p \in Announcing(T)
  BY <1>1, <1>5, CommitSettles
<1>7. TemplateInv'
  <2>1. PICK G \in SUBSET Handler : G = {g \in Handler : run[g].at # "idle"}
    OBVIOUS
  <2>2. \A g \in Handler : \A p \in Phone : met[p] = "inactive" => ~ (Holds(Done(g), p) /\ Holds(T, p))
    BY <1>4 DEF Inv, TouchInv, Apart
  <2>3. \A g \in Handler \ G : run'[g].at # "newTemplate"
    BY <1>1, <2>1
  <2>4. \A p : p \in template' => p \in template \/ Holds(T, p)
    BY <1>5, AnnouncesHolds DEF Commit, Announcing
  <2>5. QED
    BY <1>1, <2>1, <2>2, <2>3, <2>4, TemplateStays DEF LossInv
<1>8. PICK P : P = New
  OBVIOUS
<1>9. ASSUME NEW p \in P, Settled(p) PROVE Settled(p)' /\ Racing(p)' \subseteq Racing(p)
  BY <1>1, <1>6, <1>8, <1>9 DEF Given, Racing, New
<1>10. ASSUME NEW p \in P, ~ Settled(p), P = {p}
       PROVE  IF Settled(p)' THEN faults' > 0 ELSE Quiet(p)'
  <2>1. Quiet(p)
    BY <1>8, <1>10 DEF LossInv, Bounded, New
  <2>2. CASE Settled(p)'
    <3>1. Harmless(T, p)
      BY <1>4, <2>1 DEF Quiet
    <3>2. IF met[p] = "stranger" THEN Holds(T, p) ELSE p \in Announcing(T)
      BY <1>6, <1>8, <1>10, <2>2 DEF New
    <3>3. QED
      BY <1>1, <2>2, <3>1, <3>2 DEF Harmless
  <2>3. CASE ~ Settled(p)'
    <3>1. \A S : Harmless(S, p) => Harmless(S, p)'
      BY <1>1, HarmlessStays
    <3>2. \A q \in pool.orphans : Harmless(q.did, p)'
      BY <2>1, <3>1 DEF Quiet
    <3>3. ASSUME NEW g \in Handler PROVE Harmless(run[g].extra, p)'
      <4>1. PICK S : S = run[g].extra
        OBVIOUS
      <4>2. Harmless(S, p)'
        BY <2>1, <3>1, <4>1 DEF Quiet
      <4>3. QED
        BY <1>1, <4>1, <4>2
    <3>4. QED
      BY <1>2, <2>3, <3>2, <3>3 DEF Quiet
  <2>4. QED
    BY <2>2, <2>3
<1>11. QED
  BY <1>1, <1>3, <1>7, <1>8, <1>9, <1>10, DamageType, KeepsBound

LEMMA OthersLoss ==
  ASSUME TypeInv, Inv, LossInv, OthersUsePool
  PROVE  LossInv'
<1>1. /\ Given /\ faults \in Nat /\ run' = run /\ \A g \in Handler : From(g)' = From(g)
      /\ Serving' = Serving /\ pool \in Connections
  BY DEF OthersUsePool, Keep, Given, Serving, From, TypeInv, PoolInv, LossInv
<1>2. CASE /\ pool.aborted > 0 /\ UNCHANGED rows
           /\ pool' = [pool EXCEPT !.aborted = @ - 1, !.clean = @ + 1]
  <2>1. pool'.clean = pool.clean + 1 /\ pool'.orphans = pool.orphans
    <3>1. PICK S : S = [pool EXCEPT !.aborted = @ - 1, !.clean = @ + 1]
      OBVIOUS
    <3>2. S.clean = pool.clean + 1 /\ S.orphans = pool.orphans
      BY <1>1, <1>2, <3>1, Ended, Zenon
    <3>3. QED
      BY <1>2, <3>1, <3>2
  <2>2. Damage' = Damage - 1 /\ Damage > 0
    <3>1. Cardinality(pool'.orphans) = Cardinality(pool.orphans)
      BY <2>1
    <3>2. QED
      BY <1>1, <1>2, <2>1, <3>1, DamageType DEF Damage
  <2>3. PICK P : P = New
    OBVIOUS
  <2>4. contact' = contact /\ template' = template
    BY <1>2 DEF rows
  <2>5. ASSUME NEW p \in P PROVE Settled(p)' = Settled(p) /\ Racing(p)' = Racing(p)
    BY <1>1, <2>4 DEF Settled, Racing, Given
  <2>6. TemplateInv'
    BY <1>1, <2>4 DEF TemplateInv, LossInv, Given
  <2>7. ASSUME NEW p \in P, ~ Settled(p)', P = {p} PROVE Quiet(p)'
    <3>1. Damage = 0
      BY <2>3, <2>5, <2>7 DEF LossInv, Bounded, New
    <3>2. QED
      BY <2>2, <3>1
  <2>8. Damage' \in Nat /\ Damage' <= Damage
    BY <2>2, DamageType
  <2>9. QED
    BY <1>1, <2>3, <2>5, <2>6, <2>7, <2>8, KeepsBound
<1>3. QED
  BY <1>2, OthersCommitLoss DEF OthersUsePool

LEMMA InitLoss == Init => LossInv
<1> SUFFICES ASSUME Init PROVE LossInv
  OBVIOUS
<1>1. \A h \in Handler : run[h] = Idle
  BY DEF Init
<1>2. Serving = {} /\ \A p : Racing(p) = {}
  BY <1>1, IdleType DEF Serving, Racing
<1>3. Cardinality({}) = 0 /\ Pool \in Nat
  BY FS_EmptySet, ConstantsAssumption
<1>4. Damage = 0
  BY <1>2, <1>3 DEF Init, Damage
<1>5. \A p : Quiet(p)
  BY <1>1, IdleType, NothingIsHarmless DEF Quiet, Init
<1>6. \A p : Cardinality(Racing(p)) = 0
  BY <1>2, <1>3
<1>7. \A p \in Phone : Bounded(p)
  BY <1>4, <1>5, <1>6, HandlersType DEF Bounded, Init
<1>8. TemplateInv
  BY <1>1, IdleType DEF TemplateInv
<1>9. QED
  BY <1>4, <1>7, <1>8 DEF LossInv, Init

LEMMA StepLoss == TypeInv /\ Inv /\ LossInv /\ [Next]_vars => LossInv'
<1> SUFFICES ASSUME TypeInv, Inv, LossInv, [Next]_vars PROVE LossInv'
  OBVIOUS
<1>1. ASSUME NEW h \in Handler, Serve(h) \/ CreationFails(h) \/ WriteFails(h)
      PROVE  LossInv'
  BY <1>1, HandlerEffect, EffectLoss
<1>2. CASE UNCHANGED vars
  BY <1>2, SameLoss DEF vars, rows, From
<1>3. QED
  BY <1>1, <1>2, ArriveLoss, ReceiveLoss, OthersLoss DEF Next

LEMMA LossIsBounded == TypeInv /\ LossInv => LostIsBounded
<1> SUFFICES ASSUME TypeInv, LossInv, Cardinality(New) <= 1
             PROVE  Lost + pool.aborted <= faults + Cardinality(New) * (Cardinality(Handler) - 1)
  BY DEF LostIsBounded, New
<1>1. IsFiniteSet(New) /\ Cardinality(New) \in Nat
  BY ConstantsAssumption, FS_Subset, FS_CardinalityType DEF New
<1>2. faults \in Nat /\ Damage = Lost + pool.aborted /\ Damage \in Nat
  BY DamageType DEF LossInv
<1>3. CASE Cardinality(New) = 0
  <2>1. Damage = 0
    BY <1>1, <1>3, FS_EmptySet DEF LossInv
  <2>2. 0 * (Cardinality(Handler) - 1) = 0
    BY HandlersType
  <2>3. QED
    BY <1>2, <1>3, <2>1, <2>2
<1>4. CASE Cardinality(New) = 1
  <2>1. PICK p : New = {p}
    BY <1>1, <1>4, FS_Singleton
  <2>2. Bounded(p) /\ p \in Phone
    BY <2>1 DEF LossInv, New
  <2>3. Damage <= Cardinality(Handler) - 1 + faults
    BY <1>2, <2>2, HandlersType, RacingType DEF Bounded
  <2>4. QED
    BY <1>2, <1>4, <2>3, HandlersType
<1>5. QED
  BY <1>1, <1>3, <1>4

(* With one new customer, no more connections are lost or aborted than      *)
(* writes failed and handlers raced with the first of his contacts.         *)
THEOREM FewAreLost == Spec => []LostIsBounded
BY InitInv, StepInv, InitLoss, StepLoss, LossIsBounded, PTL DEF Spec
=============================================================================
