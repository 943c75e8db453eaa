-------------------------- MODULE CompaniesProofs --------------------------
(***************************************************************************)
(* Type correctness of Companies, that a phone belongs to one company, and *)
(* that the worker has the connections that the companies name and no      *)
(* other, for any number of companies, applications and requests.          *)
(***************************************************************************)
EXTENDS Companies, TLAPS

Requested == [at : Place, c : Company \cup {None}, old : Row \cup {NoCompany},
             new : Row \cup {NoCompany}, row : Row \cup {NoCompany}, acted : BOOLEAN]

RunType == run \in [Handler -> Requested]

(* A request keeps the phone of its company, which exists and keeps it too, *)
(* or is one that creates it.                                               *)
Steady(h) ==
    LET now == run[h]
    IN  /\ now.c \in Company /\ now.new \in Row /\ now.row \in Row
        /\ now.row.phone = now.new.phone
        /\ IF now.old = NoCompany
           THEN company[now.c] = NoCompany
           ELSE /\ now.old \in Row /\ now.old.phone = now.new.phone
                /\ company[now.c] \in Row /\ company[now.c].phone = now.new.phone

AllSteady == \A h \in Busy : Steady(h)

(* Nobody else works on a company that is being created.                    *)
CreatesAlone ==
    \A g, h \in Busy : run[g].c = run[h].c /\ run[g].old = NoCompany => g = h

TypeInv == TypeOK /\ RunType /\ AllSteady /\ CreatesAlone

LEMMA IdleType == Idle \in Requested
  BY DEF Idle, Requested, Place

LEMMA NoCompanyIsNone == NoCompany \notin Row
  BY DEF NoCompany, Row, InUse

LEMMA InitType == Init => TypeInv
<1> SUFFICES ASSUME Init PROVE TypeInv
  OBVIOUS
<1>1. RunType
  BY IdleType DEF Init, RunType
<1>2. Busy = {}
  BY DEF Init, Busy, Idle
<1>3. TypeOK
  BY DEF Init, TypeOK, Idle, Place
<1>4. QED
  BY <1>1, <1>2, <1>3 DEF TypeInv, AllSteady, CreatesAlone

(* A request that begins.                                                   *)
LEMMA BeginType ==
  ASSUME TypeInv, NEW h \in Handler, NEW c \in Company, NEW at \in Place,
         NEW old \in Row \cup {NoCompany}, NEW new \in Row, Begin(h, c, at, old, new),
         company[c] = old,
         old # NoCompany => old.phone = new.phone,
         old = NoCompany => \A g \in Busy : run[g].c # c
  PROVE  TypeInv'
<1> DEFINE q == [at |-> at, c |-> c, old |-> old, new |-> new, row |-> new, acted |-> FALSE]
<1>1. q \in Requested
  BY DEF Requested
<1>2. run' = [run EXCEPT ![h] = q] /\ run[h].at = "idle" /\ company' = company /\ concretes' = concretes
  BY DEF Begin
<1>3. RunType'
  BY <1>1, <1>2 DEF TypeInv, RunType
<1>4. \A g \in Handler : run[g].old.app \in App \cup {None} /\ run[g].new.app \in App \cup {None}
  BY DEF TypeInv, RunType, Requested, Row, NoCompany
<1>5. \A g \in Handler : AppsOf(g) \subseteq App
  BY <1>4 DEF AppsOf
<1>6. {old.app, new.app} \ {None} \subseteq App
  BY DEF Row, NoCompany
<1>7. broken' \subseteq App
  <2>1. broken' \subseteq broken \cup UNION {({old.app, new.app} \ {None}) \cup AppsOf(g) : g \in Busy}
    BY DEF Begin
  <2>2. QED
    BY <2>1, <1>5, <1>6 DEF TypeInv, TypeOK, Busy
<1>8. contested' \subseteq Phone
  BY DEF Begin, TypeInv, TypeOK, Row
<1>9. TypeOK'
  BY <1>2, <1>3, <1>7, <1>8 DEF TypeInv, TypeOK, RunType, Requested
<1>10. AllSteady'
  <2> SUFFICES ASSUME NEW g \in Busy' PROVE Steady(g)'
    BY DEF AllSteady
  <2>1. CASE g = h
    BY <2>1, <1>2, <1>1, NoCompanyIsNone DEF Steady, TypeInv, RunType
  <2>2. CASE g # h
    <3>1. g \in Busy /\ run'[g] = run[g]
      BY <2>2, <1>2 DEF Busy, TypeInv, RunType
    <3>2. QED
      BY <3>1, <1>2 DEF Steady, TypeInv, AllSteady
  <2>3. QED
    BY <2>1, <2>2
<1>11. CreatesAlone'
  <2> SUFFICES ASSUME NEW f \in Busy', NEW g \in Busy', run'[f].c = run'[g].c,
                      run'[f].old = NoCompany, f # g
               PROVE  FALSE
    BY DEF CreatesAlone
  <2>1. \A k \in Busy' : k # h => k \in Busy /\ run'[k] = run[k]
    BY <1>2 DEF Busy, TypeInv, RunType
  <2>2. run'[h] = q
    BY <1>2 DEF TypeInv, RunType
  <2>3. CASE f = h
    BY <2>1, <2>2, <2>3
  <2>4. CASE g = h
    <3>1. f \in Busy /\ run[f].c = c /\ run[f].old = NoCompany
      BY <2>1, <2>2, <2>4
    <3>2. company[c] = NoCompany
      BY <3>1 DEF TypeInv, AllSteady, Steady
    <3>3. QED
      BY <3>1, <3>2
  <2>5. CASE f # h /\ g # h
    BY <2>1, <2>5 DEF TypeInv, CreatesAlone
  <2>6. QED
    BY <2>3, <2>4, <2>5
<1>12. QED
  BY <1>3, <1>9, <1>10, <1>11 DEF TypeInv

(* A request that goes on, with the company and the new row it has: rows,   *)
(* what is broken and connections may change.                               *)
LEMMA GoesOn ==
  ASSUME TypeInv, NEW h \in Busy, NEW q \in Requested,
         run' = [run EXCEPT ![h] = q],
         company' = company,
         q.c = run[h].c, q.old = run[h].old, q.new = run[h].new,
         q.row \in Row, q.row.phone = q.new.phone,
         concretes' \subseteq Concrete, broken' \subseteq App, contested' = contested
  PROVE  TypeInv'
<1>0. h \in Handler
  BY DEF Busy
<1>1. RunType'
  BY <1>0 DEF TypeInv, RunType
<1>2. TypeOK'
  BY <1>1 DEF TypeInv, TypeOK, RunType, Requested
<1>3. \A k \in Busy' : k \in Busy /\ run'[k].c = run[k].c /\ run'[k].old = run[k].old
                                  /\ run'[k].new = run[k].new
                                  /\ (k # h => run'[k] = run[k])
  BY <1>0 DEF Busy, TypeInv, RunType
<1>4. run'[h] = q
  BY <1>0 DEF TypeInv, RunType
<1>5. AllSteady'
  <2> SUFFICES ASSUME NEW g \in Busy' PROVE Steady(g)'
    BY DEF AllSteady
  <2>1. Steady(g)
    BY <1>3 DEF TypeInv, AllSteady
  <2>2. QED
    BY <2>1, <1>3, <1>4 DEF Steady
<1>6. CreatesAlone'
  BY <1>3 DEF TypeInv, CreatesAlone
<1>7. QED
  BY <1>1, <1>2, <1>5, <1>6 DEF TypeInv

(* A request that ends without a row.                                       *)
LEMMA Ends ==
  ASSUME TypeInv, NEW h \in Busy, run' = [run EXCEPT ![h] = Idle], company' = company,
         concretes' \subseteq Concrete, broken' \subseteq App, contested' = contested
  PROVE  TypeInv'
<1>0. h \in Handler
  BY DEF Busy
<1>1. RunType'
  BY <1>0, IdleType DEF TypeInv, RunType
<1>2. TypeOK'
  BY <1>1 DEF TypeInv, TypeOK, RunType, Requested
<1>3. \A k \in Busy' : k \in Busy /\ run'[k] = run[k]
  BY <1>0 DEF Busy, TypeInv, RunType, Idle
<1>4. AllSteady'
  BY <1>3 DEF TypeInv, AllSteady, Steady
<1>5. CreatesAlone'
  BY <1>3 DEF TypeInv, CreatesAlone
<1>6. QED
  BY <1>1, <1>2, <1>4, <1>5 DEF TypeInv

(* A request that ends with the row it saved, which has the phone of its    *)
(* company.                                                                 *)
LEMMA EndsWith ==
  ASSUME TypeInv, NEW h \in Busy, NEW row \in Row, row.phone = run[h].new.phone,
         company' = [company EXCEPT ![run[h].c] = row],
         run' = [run EXCEPT ![h] = Idle],
         concretes' = concretes, broken' = broken, contested' = contested
  PROVE  TypeInv'
<1>0. h \in Handler /\ Steady(h)
  BY DEF Busy, TypeInv, AllSteady
<1>1. RunType'
  BY <1>0, IdleType DEF TypeInv, RunType
<1>2. company' \in [Company -> Row \cup {NoCompany}]
  BY <1>0 DEF TypeInv, TypeOK, Steady
<1>3. TypeOK'
  BY <1>1, <1>2 DEF TypeInv, TypeOK, RunType, Requested
<1>4. \A k \in Busy' : k \in Busy /\ run'[k] = run[k] /\ k # h
  BY <1>0 DEF Busy, TypeInv, RunType, Idle
<1>5. AllSteady'
  <2> SUFFICES ASSUME NEW g \in Busy' PROVE Steady(g)'
    BY DEF AllSteady
  <2>1. Steady(g) /\ g \in Busy /\ g # h /\ run'[g] = run[g]
    BY <1>4 DEF TypeInv, AllSteady
  <2>2. CASE run[g].c # run[h].c
    BY <2>1, <2>2, <1>0 DEF Steady, TypeInv, TypeOK
  <2>3. CASE run[g].c = run[h].c
    <3>1. run[g].old # NoCompany /\ run[h].old # NoCompany
      BY <2>1, <2>3 DEF TypeInv, CreatesAlone
    <3>2. company'[run[g].c] = row
      BY <2>1, <2>3, <1>0 DEF Steady, TypeInv, TypeOK
    <3>3. row.phone = run[g].new.phone
      BY <3>1, <2>1, <2>3, <1>0 DEF Steady
    <3>4. QED
      BY <3>1, <3>2, <3>3, <2>1 DEF Steady
  <2>4. QED
    BY <2>2, <2>3
<1>6. CreatesAlone'
  BY <1>4 DEF TypeInv, CreatesAlone
<1>7. QED
  BY <1>1, <1>3, <1>5, <1>6 DEF TypeInv

(* What a save may write is a row with the phone of its company.            *)
LEMMA WrittenType ==
  ASSUME TypeInv, NEW h \in Busy, NEW row \in Written(h)
  PROVE  row \in Row /\ row.phone = run[h].new.phone
<1> DEFINE old == run[h].old
           new == run[h].new
           now == company[run[h].c]
           mix == [f \in DOMAIN new |-> IF new[f] = old[f] THEN now[f] ELSE new[f]]
<1>1. Steady(h)
  BY DEF TypeInv, AllSteady
<1>2. new \in Row
  BY <1>1 DEF Steady
<1>3. CASE row = new
  BY <1>2, <1>3
<1>4. CASE row = mix
  <2>1. CASE old = NoCompany
    <3>1. now = old
      BY <1>1, <2>1 DEF Steady
    <3>2. mix = new
      BY <3>1, <1>2 DEF Row
    <3>3. QED
      BY <3>2, <1>4, <1>2
  <2>2. CASE old # NoCompany
    <3>1. old \in Row /\ now \in Row /\ now.phone = new.phone /\ old.phone = new.phone
      BY <1>1, <2>2 DEF Steady
    <3>2. DOMAIN new = {"status", "phone", "app", "password", "server", "ok"}
      BY <1>2 DEF Row
    <3>3. mix = [status |-> mix["status"], phone |-> mix["phone"], app |-> mix["app"],
                 password |-> mix["password"], server |-> mix["server"], ok |-> mix["ok"]]
      BY <3>2
    <3>4. /\ mix["status"] \in InUse \cup {"DELETE"} /\ mix["phone"] = new.phone /\ mix["app"] \in App
          /\ mix["password"] \in Password /\ mix["server"] \in Server /\ mix["ok"] \in BOOLEAN
      BY <3>1, <3>2, <1>2 DEF Row
    <3>5. mix \in Row /\ mix.phone = new.phone
      BY <3>3, <3>4, <1>2 DEF Row
    <3>6. QED
      BY <3>5, <1>4
  <2>3. QED
    BY <2>1, <2>2
<1>5. QED
  BY <1>3, <1>4 DEF Written

LEMMA BusyType ==
  ASSUME TypeInv, NEW h \in Handler, run[h].at # "idle"
  PROVE  /\ h \in Busy /\ Steady(h) /\ run[h] \in Requested
         /\ AppsOf(h) \subseteq App
         /\ ConcreteOf(run[h].new) \in Concrete
<1>1. h \in Busy /\ Steady(h) /\ run[h] \in Requested
  BY DEF Busy, TypeInv, AllSteady, RunType
<1>2. run[h].new.app \in App /\ run[h].new.password \in Password /\ run[h].old.app \in App \cup {None}
  BY <1>1 DEF Steady, Row, NoCompany
<1>3. QED
  BY <1>1, <1>2 DEF AppsOf, ConcreteOf, Concrete

LEMMA SaveType ==
  ASSUME TypeInv, NEW h \in Handler, Save(h)
  PROVE  TypeInv'
<1>1. h \in Busy /\ Steady(h) /\ run[h] \in Requested
  BY BusyType DEF Save
<1>2. PICK row \in Written(h), at \in {"removing", "adding", "commit"} :
        run' = [run EXCEPT ![h].row = row, ![h].at = at]
  <2>1. PICK row \in Written(h) :
          run' = [run EXCEPT ![h].row = row,
                             ![h].at = CASE Removes(h) -> "removing"
                                         [] Changes(h) -> "adding"
                                         [] OTHER      -> "commit"]
    BY DEF Save
  <2>2. (CASE Removes(h) -> "removing" [] Changes(h) -> "adding" [] OTHER -> "commit")
          \in {"removing", "adding", "commit"}
    OBVIOUS
  <2>3. QED
    BY <2>1, <2>2
<1>3. row \in Row /\ row.phone = run[h].new.phone
  BY <1>1, WrittenType
<1> DEFINE q == [run[h] EXCEPT !.row = row, !.at = at]
<1>4. q \in Requested /\ q.c = run[h].c /\ q.old = run[h].old /\ q.new = run[h].new /\ q.row = row
  BY <1>1, <1>3 DEF Requested, Place
<1>5. run' = [run EXCEPT ![h] = q]
  BY <1>2
<1>6. company' = company /\ concretes' = concretes /\ broken' = broken /\ contested' = contested
  BY DEF Save
<1> HIDE DEF q
<1>7. QED
  BY <1>1, <1>3, <1>4, <1>5, <1>6, GoesOn DEF TypeInv, TypeOK

(* A request that only moves on.                                            *)
LEMMA MovesOn ==
  ASSUME TypeInv, NEW h \in Handler, run[h].at # "idle", NEW at \in Place, NEW acted \in BOOLEAN,
         run' = [run EXCEPT ![h].at = at, ![h].acted = acted] \/ run' = [run EXCEPT ![h].at = at],
         company' = company, concretes' \subseteq Concrete, broken' \subseteq App,
         contested' = contested
  PROVE  TypeInv'
<1>1. h \in Busy /\ Steady(h) /\ run[h] \in Requested
  BY BusyType
<1>2. PICK b \in BOOLEAN : run' = [run EXCEPT ![h].at = at, ![h].acted = b]
  <2>1. CASE run' = [run EXCEPT ![h].at = at]
    <3>1. run' = [run EXCEPT ![h].at = at, ![h].acted = run[h].acted]
      BY <2>1, <1>1 DEF TypeInv, RunType, Requested
    <3>2. run[h].acted \in BOOLEAN
      BY <1>1 DEF Requested
    <3>3. QED
      BY <3>1, <3>2
  <2>2. QED
    BY <2>1
<1> DEFINE q == [run[h] EXCEPT !.at = at, !.acted = b]
<1>3. /\ q \in Requested /\ q.c = run[h].c /\ q.old = run[h].old /\ q.new = run[h].new
      /\ q.row = run[h].row /\ run' = [run EXCEPT ![h] = q]
  BY <1>1, <1>2 DEF Requested
<1>4. q.row \in Row /\ q.row.phone = q.new.phone
  BY <1>1, <1>3 DEF Steady
<1> HIDE DEF q
<1>5. QED
  BY <1>1, <1>3, <1>4, GoesOn

LEMMA LookUpOldType ==
  ASSUME TypeInv, NEW h \in Handler, LookUpOld(h)
  PROVE  TypeInv'
<1>1. PICK at \in {"askRemove", "commit", "save"} : Goto(h, at)
  BY DEF LookUpOld
<1>2. run[h].at # "idle" /\ at \in Place
  BY DEF LookUpOld, Place
<1>3. QED
  BY <1>1, <1>2, MovesOn DEF Goto, TypeInv, TypeOK

LEMMA RollBackType ==
  ASSUME TypeInv, NEW h \in Handler, run[h].at # "idle", RollBack(h), company' = company,
         concretes' = concretes, contested' = contested
  PROVE  TypeInv'
<1>1. h \in Busy /\ AppsOf(h) \subseteq App
  BY BusyType
<1>2. QED
  BY <1>1, Ends DEF RollBack, TypeInv, TypeOK

LEMMA LookUpNewType ==
  ASSUME TypeInv, NEW h \in Handler, LookUpNew(h)
  PROVE  TypeInv'
<1>1. run[h].at # "idle" /\ company' = company /\ concretes' = concretes /\ contested' = contested
  BY DEF LookUpNew
<1>2. run[h].new.app \in App
  BY <1>1, BusyType DEF Steady, Row
<1>3. CASE RollBack(h)
  BY <1>1, <1>3, RollBackType
<1>4. CASE ~ RollBack(h)
  <2>1. PICK at \in {"askAdd", "commit"} : run' = [run EXCEPT ![h].at = at]
    BY <1>4 DEF LookUpNew
  <2>2. broken' \subseteq App
    BY <1>4, <1>2 DEF LookUpNew, TypeInv, TypeOK
  <2>3. at \in Place
    BY DEF Place
  <2>4. QED
    BY <1>1, <2>1, <2>2, <2>3, MovesOn DEF TypeInv, TypeOK
<1>5. QED
  BY <1>3, <1>4

LEMMA WorkerType ==
  ASSUME TypeInv, NEW h \in Handler, RemoveConcrete(h) \/ AddConcrete(h)
  PROVE  TypeInv'
<1>1. run[h].at # "idle"
  BY DEF RemoveConcrete, AddConcrete
<1>2. PICK at \in {"commit", "save"} : run' = [run EXCEPT ![h].at = at, ![h].acted = TRUE]
  BY DEF RemoveConcrete, AddConcrete
<1>3. concretes' \subseteq Concrete
  BY <1>1, BusyType DEF RemoveConcrete, AddConcrete, TypeInv, TypeOK
<1>4. company' = company /\ broken' = broken /\ contested' = contested
  BY DEF RemoveConcrete, AddConcrete
<1>5. at \in Place /\ TRUE \in BOOLEAN
  BY DEF Place
<1>6. QED
  BY <1>1, <1>2, <1>3, <1>4, <1>5, MovesOn DEF TypeInv, TypeOK

LEMMA AskFailsType ==
  ASSUME TypeInv, NEW h \in Handler, AskFails(h)
  PROVE  TypeInv'
<1>1. /\ h \in Busy /\ AppsOf(h) \subseteq App /\ ConcreteOf(run[h].new) \in Concrete
  BY BusyType DEF AskFails
<1>2. concretes' \subseteq Concrete /\ broken' \subseteq App
  BY <1>1 DEF AskFails, TypeInv, TypeOK
<1>3. QED
  BY <1>1, <1>2, Ends DEF AskFails

LEMMA CommitType ==
  ASSUME TypeInv, NEW h \in Handler, Commit(h)
  PROVE  TypeInv'
<1>1. h \in Busy /\ Steady(h)
  BY BusyType DEF Commit
<1>2. QED
  BY <1>1, EndsWith DEF Commit, Steady

LEMMA SaveStatusType ==
  ASSUME TypeInv, NEW h \in Handler, SaveStatus(h)
  PROVE  TypeInv'
<1>1. h \in Busy
  BY BusyType DEF SaveStatus
<1>2. PICK row \in Written(h) : company' = [company EXCEPT ![run[h].c] = row]
  BY DEF SaveStatus
<1>3. row \in Row /\ row.phone = run[h].new.phone
  BY <1>1, WrittenType
<1>4. QED
  BY <1>1, <1>2, <1>3, EndsWith DEF SaveStatus

LEMMA LiveRow ==
  ASSUME TypeInv, NEW c \in Live
  PROVE  c \in Company /\ company[c] \in Row
  BY DEF TypeInv, TypeOK, Live, InUse, NoCompany

(* What a request begins with.                                              *)
LEMMA RequestBegins ==
  ASSUME TypeInv, NEW h \in Handler, Request(h)
  PROVE  \E c \in Company, at \in Place \ {"idle"}, new \in Row :
           /\ Begin(h, c, at, company[c], new)
           /\ company[c] # NoCompany => c \in Live /\ company[c].phone = new.phone
           /\ company[c] = NoCompany =>
                ~ PhoneTaken(new.phone, c) /\ \A g \in Busy : run[g].c # c
<1>1. CASE \E c \in Company, p \in Phone, a \in App, w \in Password, s \in Server,
                t \in InUse : Create(h, c, p, a, w, s, t)
  <2>1. PICK c \in Company, p \in Phone, a \in App, w \in Password, s \in Server,
            t \in InUse : Create(h, c, p, a, w, s, t)
    BY <1>1
  <2> DEFINE new == [status |-> t, phone |-> p, app |-> a, password |-> w, server |-> s,
                     ok |-> TRUE]
  <2>2. new \in Row /\ new.phone = p
    BY DEF Row
  <2>3. "adding" \in Place \ {"idle"}
    BY DEF Place
  <2>4. /\ Begin(h, c, "adding", company[c], new) /\ company[c] = NoCompany
        /\ ~ PhoneTaken(p, c) /\ \A g \in Busy : run[g].c # c
    BY <2>1 DEF Create
  <2> HIDE DEF new
  <2>5. QED
    BY <2>2, <2>3, <2>4
<1>2. CASE \E c \in Company, a \in App, w \in Password, s \in Server, t \in InUse :
             Update(h, c, a, w, s, t)
  <2>1. PICK c \in Company, a \in App, w \in Password, s \in Server, t \in InUse :
             Update(h, c, a, w, s, t)
    BY <1>2
  <2> DEFINE new == [company[c] EXCEPT !.status = t, !.app = a, !.password = w, !.server = s, !.ok = TRUE]
  <2>2. c \in Live /\ company[c] \in Row
    BY <2>1, LiveRow DEF Update
  <2>3. new \in Row /\ new.phone = company[c].phone
    BY <2>2 DEF Row
  <2>4. PICK at \in {"save", "removing"} : Begin(h, c, at, company[c], new)
    BY <2>1 DEF Update
  <2>5. at \in Place \ {"idle"}
    BY DEF Place
  <2> HIDE DEF new
  <2>6. QED
    BY <2>2, <2>3, <2>4, <2>5, NoCompanyIsNone
<1>3. CASE \E c \in Company : Remove(h, c)
  <2>1. PICK c \in Company : Remove(h, c)
    BY <1>3
  <2>2. c \in Live /\ company[c] \in Row
    BY <2>1, LiveRow DEF Remove
  <2> DEFINE new == [company[c] EXCEPT !.status = "DELETE"]
  <2>3. new \in Row /\ new.phone = company[c].phone
    BY <2>2 DEF Row
  <2>4. Begin(h, c, "save", company[c], new) /\ "save" \in Place \ {"idle"}
    BY <2>1 DEF Remove, Place
  <2> HIDE DEF new
  <2>5. QED
    BY <2>2, <2>3, <2>4, NoCompanyIsNone
<1>4. CASE \E c \in Company, ok \in BOOLEAN : UpdateErrorStatus(h, c, ok)
  <2>1. PICK c \in Company, ok \in BOOLEAN : UpdateErrorStatus(h, c, ok)
    BY <1>4
  <2>2. c \in Live /\ company[c] \in Row
    BY <2>1, LiveRow DEF UpdateErrorStatus
  <2> DEFINE new == [company[c] EXCEPT !.ok = ok]
  <2>3. new \in Row /\ new.phone = company[c].phone
    BY <2>2 DEF Row
  <2>4. Begin(h, c, "status", company[c], new) /\ "status" \in Place \ {"idle"}
    BY <2>1 DEF UpdateErrorStatus, Place
  <2> HIDE DEF new
  <2>5. QED
    BY <2>2, <2>3, <2>4, NoCompanyIsNone
<1>5. QED
  BY <1>1, <1>2, <1>3, <1>4 DEF Request

LEMMA BeginsType ==
  ASSUME TypeInv, NEW h \in Handler, Request(h)
  PROVE  TypeInv'
<1>1. PICK c \in Company, at \in Place \ {"idle"}, new \in Row :
        /\ Begin(h, c, at, company[c], new)
        /\ company[c] # NoCompany => c \in Live /\ company[c].phone = new.phone
        /\ company[c] = NoCompany =>
             ~ PhoneTaken(new.phone, c) /\ \A g \in Busy : run[g].c # c
  BY RequestBegins
<1>2. company[c] \in Row \cup {NoCompany}
  BY DEF TypeInv, TypeOK
<1>3. QED
  BY <1>1, <1>2, BeginType

LEMMA WorkerRestartsType ==
  ASSUME TypeInv, WorkerRestarts
  PROVE  TypeInv'
<1>1. company' = company /\ run' = run /\ contested' = contested
  BY DEF WorkerRestarts
<1>2. \A c \in Active : ConcreteOf(company[c]) \in Concrete
  BY LiveRow DEF ConcreteOf, Concrete, Row, Active, Live, InUse
<1>3. concretes' \subseteq Concrete
  BY <1>2 DEF WorkerRestarts
<1>4. \A h \in Busy : AppsOf(h) \subseteq App
  BY BusyType DEF Busy
<1>5. broken' \subseteq App
  <2>1. Unfit \subseteq App
    BY DEF Unfit
  <2>2. broken' \subseteq Unfit \cup broken \cup UNION {AppsOf(h) : h \in Busy}
    BY DEF WorkerRestarts
  <2>3. QED
    BY <1>4, <2>1, <2>2 DEF TypeInv, TypeOK
<1>6. TypeOK' /\ RunType'
  BY <1>1, <1>3, <1>5 DEF TypeInv, TypeOK, RunType
<1>7. Busy' = Busy
  BY <1>1 DEF Busy
<1>8. AllSteady' /\ CreatesAlone'
  BY <1>1, <1>7 DEF TypeInv, AllSteady, CreatesAlone, Steady
<1>9. QED
  BY <1>6, <1>8 DEF TypeInv

LEMMA StutterType ==
  ASSUME TypeInv, UNCHANGED vars
  PROVE  TypeInv'
<1>1. Busy' = Busy
  BY DEF vars, Busy
<1>2. AllSteady' /\ CreatesAlone'
  BY <1>1 DEF vars, TypeInv, AllSteady, CreatesAlone, Steady
<1>3. TypeOK' /\ RunType'
  BY DEF vars, TypeInv, TypeOK, RunType
<1>4. QED
  BY <1>2, <1>3 DEF TypeInv

LEMMA TypeStep == TypeInv /\ [Next]_vars => TypeInv'
<1> SUFFICES ASSUME TypeInv, [Next]_vars PROVE TypeInv'
  OBVIOUS
<1>1. ASSUME NEW h \in Handler, Request(h) PROVE TypeInv'
  BY <1>1, BeginsType
<1>2. ASSUME NEW h \in Handler, Proceed(h) PROVE TypeInv'
  <2>1. ASSUME CommitFails(h) PROVE TypeInv'
    BY <2>1, RollBackType DEF CommitFails
  <2>2. QED
    BY <1>2, <2>1, SaveType, LookUpOldType, LookUpNewType, WorkerType, AskFailsType, CommitType,
       SaveStatusType DEF Proceed
<1>3. QED
  BY <1>1, <1>2, WorkerRestartsType, StutterType DEF Next

(* Rows, requests and connections keep their types, whatever requests       *)
(* overlap and fail.                                                        *)
THEOREM TypeCorrect == Spec => []TypeOK
<1>1. TypeInv => TypeOK
  BY DEF TypeInv
<1>2. QED
  BY <1>1, InitType, TypeStep, PTL DEF Spec

-----------------------------------------------------------------------------
(* The phones.  What a request looked up may be old when it commits, even   *)
(* by a removal and a creation in between; but whoever came in between was  *)
(* there at the same time.                                                  *)

(* The phone of a request is no other company's, or is contested.           *)
Known == \A h \in Busy : \A d \in Live \ {run[h].c} :
           company[d].phone = PhoneOf(h) => PhoneOf(h) \in contested

(* Requests for the same phone have met.                                    *)
Met == \A g, h \in Busy : g # h /\ PhoneOf(g) = PhoneOf(h) => PhoneOf(g) \in contested

PhoneInv == TypeInv /\ OneCompanyPerPhone /\ Known /\ Met

(* A step that changes no row and no phone of a request.                    *)
LEMMA SamePhones ==
  ASSUME PhoneInv, TypeInv', company' = company, contested' = contested,
         \A h \in Busy' : h \in Busy /\ run'[h].c = run[h].c /\ run'[h].new = run[h].new
  PROVE  PhoneInv'
<1>1. Live' = Live
  BY DEF Live
<1>2. \A h \in Busy' : h \in Busy /\ run'[h].c = run[h].c /\ PhoneOf(h)' = PhoneOf(h)
  BY DEF PhoneOf
<1>3. OneCompanyPerPhone'
  BY <1>1 DEF PhoneInv, OneCompanyPerPhone
<1>4. Known'
  BY <1>1, <1>2 DEF PhoneInv, Known
<1>5. Met'
  BY <1>2 DEF PhoneInv, Met
<1>6. QED
  BY <1>3, <1>4, <1>5 DEF PhoneInv

LEMMA BeginPhones ==
  ASSUME PhoneInv, NEW h \in Handler, Request(h)
  PROVE  PhoneInv'
<1>0. TypeInv /\ TypeInv'
  BY BeginsType DEF PhoneInv
<1>1. PICK c \in Company, at \in Place \ {"idle"}, new \in Row :
        /\ Begin(h, c, at, company[c], new)
        /\ company[c] # NoCompany => c \in Live /\ company[c].phone = new.phone
        /\ company[c] = NoCompany =>
             ~ PhoneTaken(new.phone, c) /\ \A g \in Busy : run[g].c # c
  BY <1>0, RequestBegins
<1>2. company' = company /\ Live' = Live /\ contested \subseteq contested'
  BY <1>1 DEF Begin, Live
<1>3. /\ run'[h].c = c /\ PhoneOf(h)' = new.phone
      /\ \A g \in Busy' : g # h => g \in Busy /\ run'[g] = run[g] /\ PhoneOf(g)' = PhoneOf(g)
  BY <1>0, <1>1 DEF Begin, Busy, PhoneOf, TypeInv, RunType
<1>4. \A g \in Busy : PhoneOf(g) = new.phone => new.phone \in contested'
  BY <1>1 DEF Begin
<1>5. OneCompanyPerPhone'
  BY <1>2 DEF PhoneInv, OneCompanyPerPhone
<1>6. Known'
  <2>1. \A d \in Live \ {c} : company[d].phone = new.phone => new.phone \in contested
    <3>1. CASE company[c] # NoCompany
      BY <1>1, <3>1 DEF PhoneInv, OneCompanyPerPhone
    <3>2. CASE company[c] = NoCompany
      BY <1>1, <3>2 DEF PhoneTaken
    <3>3. QED
      BY <3>1, <3>2
  <2>2. \A g \in Busy' : g # h => \A d \in Live \ {run'[g].c} :
           company[d].phone = PhoneOf(g)' => PhoneOf(g)' \in contested'
    BY <1>2, <1>3 DEF PhoneInv, Known
  <2>3. QED
    BY <1>2, <1>3, <2>1, <2>2 DEF Known
<1>7. Met'
  <2>1. \A f, g \in Busy' : f # h /\ g # h /\ f # g /\ PhoneOf(f)' = PhoneOf(g)'
                            => PhoneOf(f)' \in contested'
    BY <1>2, <1>3 DEF PhoneInv, Met
  <2>2. \A g \in Busy' : g # h /\ PhoneOf(g)' = PhoneOf(h)' => PhoneOf(h)' \in contested'
    BY <1>3, <1>4
  <2>3. QED
    BY <2>1, <2>2 DEF Met
<1>8. QED
  BY <1>0, <1>5, <1>6, <1>7 DEF PhoneInv

(* A request commits the row of its company.                                *)
LEMMA CommitPhones ==
  ASSUME PhoneInv, TypeInv', NEW h \in Busy, NEW row \in Row, row.phone = PhoneOf(h),
         company' = [company EXCEPT ![run[h].c] = row],
         run' = [run EXCEPT ![h] = Idle], contested' = contested
  PROVE  PhoneInv'
<1> DEFINE c == run[h].c
<1>1. /\ h \in Handler /\ c \in Company
      /\ run \in [Handler -> Requested] /\ company \in [Company -> Row \cup {NoCompany}]
  BY DEF PhoneInv, TypeInv, AllSteady, Steady, Busy, RunType, TypeOK
<1>2. \A d \in Live' : /\ d \in Company
                       /\ d # c => d \in Live /\ company'[d] = company[d]
                       /\ d = c => company'[d].phone = PhoneOf(h)
  BY <1>1 DEF Live
<1>3. \A g \in Busy' : /\ g \in Busy /\ g # h /\ run'[g] = run[g]
                       /\ PhoneOf(g)' = PhoneOf(g)
  BY <1>1 DEF Busy, Idle, PhoneOf
<1>4. \A d \in Live : d # c /\ company[d].phone = PhoneOf(h) => PhoneOf(h) \in contested
  BY DEF PhoneInv, Known
<1>5. OneCompanyPerPhone'
  <2> SUFFICES ASSUME NEW d \in Live', NEW e \in Live', company'[d].phone = company'[e].phone, d # e
               PROVE  company'[d].phone \in contested
    BY DEF OneCompanyPerPhone
  <2>1. CASE d # c /\ e # c
    BY <2>1, <1>2 DEF PhoneInv, OneCompanyPerPhone
  <2>2. CASE d = c \/ e = c
    BY <2>2, <1>2, <1>4
  <2>3. QED
    BY <2>1, <2>2
<1>6. Known'
  <2> SUFFICES ASSUME NEW g \in Busy', NEW d \in Live' \ {run'[g].c}, company'[d].phone = PhoneOf(g)'
               PROVE  PhoneOf(g) \in contested
    BY <1>3 DEF Known
  <2>1. CASE d # c
    BY <2>1, <1>2, <1>3 DEF PhoneInv, Known
  <2>2. CASE d = c
    BY <2>2, <1>2, <1>3 DEF PhoneInv, Met
  <2>3. QED
    BY <2>1, <2>2
<1>7. Met'
  BY <1>3 DEF PhoneInv, Met
<1>8. QED
  BY <1>5, <1>6, <1>7 DEF PhoneInv

LEMMA ProceedPhones ==
  ASSUME PhoneInv, NEW h \in Handler, Proceed(h)
  PROVE  PhoneInv'
<1>0. TypeInv /\ TypeInv'
  BY TypeStep DEF Next, PhoneInv
<1>1. CASE Commit(h)
  <2>1. h \in Busy /\ Steady(h)
    BY <1>0, <1>1, BusyType DEF Commit
  <2>2. QED
    BY <1>0, <1>1, <2>1, CommitPhones DEF Commit, Steady, PhoneOf
<1>2. CASE SaveStatus(h)
  <2>1. h \in Busy
    BY <1>0, <1>2, BusyType DEF SaveStatus
  <2>2. PICK row \in Written(h) : company' = [company EXCEPT ![run[h].c] = row]
    BY <1>2 DEF SaveStatus
  <2>3. row \in Row /\ row.phone = PhoneOf(h)
    BY <1>0, <2>1, WrittenType DEF PhoneOf
  <2>4. QED
    BY <1>0, <1>2, <2>1, <2>2, <2>3, CommitPhones DEF SaveStatus
<1>3. CASE ~ Commit(h) /\ ~ SaveStatus(h)
  <2>1. company' = company /\ contested' = contested
    BY <1>3 DEF Proceed, Save, LookUpOld, Goto, RemoveConcrete, LookUpNew, AddConcrete, AskFails,
                CommitFails
  <2>2. run[h].at # "idle"
    BY <1>3 DEF Proceed, Save, LookUpOld, RemoveConcrete, LookUpNew, AddConcrete, AskFails, CommitFails
  <2>3. \A g \in Busy' : g \in Busy /\ run'[g].c = run[g].c /\ run'[g].new = run[g].new
    <3>1. run \in [Handler -> Requested]
      BY <1>0 DEF TypeInv, RunType
    <3>2. CASE Save(h)
      BY <2>2, <3>1, <3>2 DEF Save, Busy, Requested
    <3>3. CASE LookUpOld(h)
      BY <2>2, <3>1, <3>3 DEF LookUpOld, Goto, Busy, Requested
    <3>4. CASE LookUpNew(h)
      BY <2>2, <3>1, <3>4 DEF LookUpNew, RollBack, Idle, Busy, Requested
    <3>5. CASE RemoveConcrete(h) \/ AddConcrete(h)
      BY <2>2, <3>1, <3>5 DEF RemoveConcrete, AddConcrete, Busy, Requested
    <3>6. CASE AskFails(h) \/ CommitFails(h)
      BY <2>2, <3>1, <3>6 DEF AskFails, CommitFails, RollBack, Idle, Busy, Requested
    <3>7. QED
      BY <1>3, <3>2, <3>3, <3>4, <3>5, <3>6 DEF Proceed
  <2>4. QED
    BY <1>0, <2>1, <2>3, SamePhones
<1>4. QED
  BY <1>1, <1>2, <1>3

LEMMA PhoneStep == PhoneInv /\ [Next]_vars => PhoneInv'
<1> SUFFICES ASSUME PhoneInv, [Next]_vars PROVE PhoneInv'
  OBVIOUS
<1>1. TypeInv'
  BY TypeStep DEF PhoneInv
<1>2. ASSUME company' = company, run' = run, contested' = contested PROVE PhoneInv'
  <2>1. Busy' = Busy
    BY <1>2 DEF Busy
  <2>2. QED
    BY <1>1, <1>2, <2>1, SamePhones
<1>3. CASE WorkerRestarts
  BY <1>2, <1>3 DEF WorkerRestarts
<1>4. CASE UNCHANGED vars
  BY <1>2, <1>4 DEF vars
<1>5. QED
  BY <1>3, <1>4, BeginPhones, ProceedPhones DEF Next

(* Two live companies have one phone only if requests for that phone were   *)
(* in progress at once: a company that was removed, and brought back by a   *)
(* late save of its row, is no exception.                                   *)
THEOREM PhonesAreUnique == Spec => []OneCompanyPerPhone
<1>1. Init => PhoneInv
  <2> SUFFICES ASSUME Init PROVE PhoneInv
    OBVIOUS
  <2>1. Busy = {} /\ Live = {}
    BY DEF Init, Busy, Live, InUse, Idle, NoCompany
  <2>2. QED
    BY <2>1, InitType DEF PhoneInv, OneCompanyPerPhone, Known, Met
<1>2. PhoneInv => OneCompanyPerPhone
  BY DEF PhoneInv
<1>3. QED
  BY <1>1, <1>2, PhoneStep, PTL DEF Spec

-----------------------------------------------------------------------------
(* The worker's connections.  While an application is not broken, one       *)
(* request at most works on it: what that request read of its company is    *)
(* still so, and the connections are those that the companies use, or are   *)
(* what the request has made of them so far.                                *)
Held(a)  == {k \in concretes : k.app = a}
Names(D) == {ConcreteOf(company[c]) : c \in D}

Leaves(q) == q.new.status = "DELETE"
Renews(q) == /\ ~ Leaves(q)
             /\ ConcreteOf(q.new) # ConcreteOf(q.old) \/ q.new.server # q.old.server

(* Requests that work on one company or on one application have met.        *)
Alone == \A g, h \in Busy :
    g # h /\ (run[g].c = run[h].c \/ AppsOf(g) \cap AppsOf(h) # {})
      => AppsOf(g) \cup AppsOf(h) \subseteq broken

(* What is there and what is saved names no application that a request does *)
(* not know of, unless it is broken.                                        *)
Near == \A h \in Busy :
    {company[run[h].c].app, run[h].row.app} \subseteq AppsOf(h) \cup broken \cup {None}

(* Only a row of a broken application has changed since it was read.        *)
Current == \A h \in Busy :
    \/ AppsOf(h) \subseteq broken
    \/ (company[run[h].c] = run[h].old /\ run[h].row = run[h].new)

SamePasswords ==
    \A a \in App \ broken : \A c, d \in Users(a) : company[c].password = company[d].password

(* What a request is, by the place it has reached.                          *)
Shaped(q) ==
    /\ IF q.old = NoCompany THEN q.at \in {"adding", "askAdd", "commit"} /\ ~ Leaves(q)
       ELSE q.old.status \in InUse
    /\ q.at \in {"adding", "askAdd", "status"} => ~ Leaves(q)
    /\ Leaves(q) \/ q.at = "status" =>
         ConcreteOf(q.new) = ConcreteOf(q.old) /\ q.new.server = q.old.server
    /\ q.at \in {"removing", "askRemove"} => Leaves(q) \/ Renews(q)
    /\ q.acted => \/ q.at \in {"adding", "askAdd", "commit"}
                  \/ (q.at = "save" /\ Renews(q))

(* The connections of one of its applications, by the place it has reached. *)
Fit(q, a) ==
    LET others == Users(a) \ {q.c}
    IN  /\ ~ q.acted => Held(a) = Names(Users(a))
        /\ q.at \in {"adding", "askAdd"} \/ (q.at = "save" /\ Renews(q)) => Held(a) = Names(others)
        /\ q.at = "askRemove" /\ a = q.old.app => others = {}
        /\ q.at = "commit" => Held(a) = Names(others) \cup
              (IF ~ Leaves(q) /\ a = q.new.app THEN {ConcreteOf(q.new)} ELSE {})
        /\ q.at \in {"askAdd", "commit"} /\ ~ Leaves(q) /\ a = q.new.app
             => \A d \in others : company[d].password = q.new.password

AllShaped == \A h \in Busy : Shaped(run[h])
AllFit    == \A h \in Busy : \A a \in AppsOf(h) \ broken : Fit(run[h], a)

(* An application that nobody works on.                                     *)
Settled == \A a \in App \ broken :
    (\A h \in Busy : a \notin AppsOf(h)) => Held(a) = Names(Users(a))

ServedInv == /\ TypeInv /\ Alone /\ Near /\ Current /\ SamePasswords
             /\ AllShaped /\ AllFit /\ Settled

LEMMA Covers ==
  ASSUME NEW D, NEW c \in D
  PROVE  Names(D) = Names(D \ {c}) \cup {ConcreteOf(company[c])}
  BY DEF Names

LEMMA UserRow ==
  ASSUME TypeInv, NEW a, NEW c \in Users(a)
  PROVE  c \in Company /\ company[c] \in Row /\ company[c].app = a
  BY LiveRow DEF Users

(* The other users of an application name its connection as this one does.  *)
LEMMA OthersName ==
  ASSUME TypeInv, SamePasswords, NEW a \in App \ broken, NEW c \in Users(a),
         Users(a) \ {c} # {}
  PROVE  Names(Users(a)) = Names(Users(a) \ {c})
<1>1. PICK d \in Users(a) \ {c} : TRUE
  OBVIOUS
<1>2. ConcreteOf(company[c]) = ConcreteOf(company[d])
  BY UserRow DEF SamePasswords, ConcreteOf
<1>3. ConcreteOf(company[d]) \in Names(Users(a) \ {c})
  BY DEF Names
<1> DEFINE D == Users(a)
<1>4. Names(D) = Names(D \ {c}) \cup {ConcreteOf(company[c])}
  BY Covers
<1>5. QED
  BY <1>2, <1>3, <1>4

(* What a request knows of an application stays so while nothing happens to *)
(* its users and its connections.                                           *)
LEMMA FitKept ==
  ASSUME NEW a, NEW q, Held(a)' = Held(a), Users(a)' = Users(a),
         \A d \in Users(a) : company'[d] = company[d]
  PROVE  /\ Names(Users(a))' = Names(Users(a))
         /\ Fit(q, a) => Fit(q, a)'
<1>1. \A D \in SUBSET Users(a) : Names(D)' = Names(D)
  BY DEF Names
<1>2. Names(Users(a))' = Names(Users(a)) /\ Names(Users(a) \ {q.c})' = Names(Users(a) \ {q.c})
  BY <1>1
<1>3. ASSUME Fit(q, a) PROVE Fit(q, a)'
  BY <1>2, <1>3 DEF Fit, Leaves, Renews, ConcreteOf
<1>4. QED
  BY <1>2, <1>3

LEMMA FitOf ==
  ASSUME NEW a, NEW g, NEW q, run'[g] = q, Fit(q, a)'
  PROVE  Fit(run[g], a)'
  BY DEF Fit, Leaves, Renews

LEMMA ShapedOf ==
  ASSUME NEW g, NEW q, run'[g] = q, Shaped(q)
  PROVE  Shaped(run[g])'
  BY DEF Shaped, Leaves, Renews, ConcreteOf, NoCompany

(* A step of one request leaves the others' applications alone.             *)
LEMMA OthersFit ==
  ASSUME ServedInv, NEW h \in Handler, broken \subseteq broken',
         NEW g \in Busy \ {h}, NEW a \in AppsOf(g) \ broken', run'[g] = run[g],
         Held(a)' = Held(a), Users(a)' = Users(a),
         \A d \in Users(a) : company'[d] = company[d]
  PROVE  Fit(run[g], a)'
<1>1. Fit(run[g], a)
  BY DEF ServedInv, AllFit
<1>2. PICK q : q = run[g]
  OBVIOUS
<1>3. Fit(q, a)'
  BY <1>1, <1>2, FitKept
<1>4. QED
  BY <1>2, <1>3, FitOf

LEMMA SameUsers ==
  ASSUME company' = company
  PROVE  /\ \A a : Users(a)' = Users(a)
         /\ \A D : Names(D)' = Names(D)
         /\ ServedInv /\ broken \subseteq broken' => SamePasswords'
<1>1. \A a : Users(a)' = Users(a)
  BY DEF Users, Live
<1>2. \A D : Names(D)' = Names(D)
  BY DEF Names
<1>3. QED
  BY <1>1, <1>2 DEF ServedInv, SamePasswords

(* A request that goes on with the rows and the company it has.             *)
LEMMA WorkStep ==
  ASSUME ServedInv, TypeInv', NEW h \in Handler, run[h].at # "idle", NEW q,
         run' = [run EXCEPT ![h] = q], company' = company, broken \subseteq broken',
         q.at # "idle", q.c = run[h].c, q.old = run[h].old, q.new = run[h].new, Shaped(q),
         q.row.app \in AppsOf(h) \cup broken \cup {None},
         AppsOf(h) \subseteq broken \/ q.row = run[h].new,
         \A a \in App \ AppsOf(h) : Held(a)' = Held(a),
         \A a \in AppsOf(h) \ broken' : Fit(q, a)'
  PROVE  ServedInv'
<1>1. TypeInv /\ h \in Busy /\ AppsOf(h) \subseteq App
  BY BusyType DEF ServedInv
<1>2. run'[h] = q /\ \A g \in Handler \ {h} : run'[g] = run[g]
  BY <1>1 DEF TypeInv, RunType
<1>3. /\ Busy' = Busy
      /\ \A g \in Busy : AppsOf(g)' = AppsOf(g) /\ run'[g].c = run[g].c
  BY <1>2 DEF Busy, AppsOf
<1>4. /\ \A a : Users(a)' = Users(a)
      /\ \A D : Names(D)' = Names(D)
      /\ SamePasswords'
  BY SameUsers
<1>5. Alone'
  BY <1>3 DEF ServedInv, Alone
<1>6. Near'
  BY <1>2, <1>3 DEF ServedInv, Near, Busy
<1>7. Current'
  BY <1>2, <1>3 DEF ServedInv, Current, Busy
<1>8. AllShaped'
  <2> SUFFICES ASSUME NEW g \in Busy PROVE Shaped(run[g])'
    BY <1>3 DEF AllShaped
  <2>1. CASE g = h
    BY <1>2, <2>1, ShapedOf
  <2>2. CASE g # h
    <3>1. PICK p : p = run[g]
      OBVIOUS
    <3>2. run'[g] = p /\ Shaped(p)
      BY <1>2, <2>2, <3>1 DEF ServedInv, AllShaped, Busy
    <3>3. QED
      BY <3>2, ShapedOf
  <2>3. QED
    BY <2>1, <2>2
<1>9. AllFit'
  <2> SUFFICES ASSUME NEW g \in Busy, NEW a \in AppsOf(g) \ broken' PROVE Fit(run[g], a)'
    BY <1>3 DEF AllFit
  <2>1. CASE g = h
    BY <1>2, <2>1, FitOf
  <2>2. CASE g # h
    <3>1. a \notin AppsOf(h) /\ a \in App /\ g \in Handler
      BY <1>1, <2>2, BusyType DEF ServedInv, Alone, Busy
    <3>2. QED
      BY <1>2, <1>4, <2>2, <3>1, OthersFit
  <2>3. QED
    BY <2>1, <2>2
<1>10. Settled'
  <2> SUFFICES ASSUME NEW a \in App \ broken', \A g \in Busy : a \notin AppsOf(g)
               PROVE  Held(a)' = Names(Users(a))
    BY <1>3, <1>4 DEF Settled
  <2>1. QED
    BY <1>1 DEF ServedInv, Settled
<1>11. QED
  BY <1>4, <1>5, <1>6, <1>7, <1>8, <1>9, <1>10 DEF ServedInv

(* A request that ends without a row: it has done nothing, or what it has   *)
(* done has broken its applications.                                        *)
LEMMA EndStep ==
  ASSUME ServedInv, TypeInv', NEW h \in Handler, run[h].at # "idle",
         run' = [run EXCEPT ![h] = Idle], company' = company, broken \subseteq broken',
         \A a \in App \ AppsOf(h) : Held(a)' = Held(a),
         \A a \in AppsOf(h) \ broken' : Held(a)' = Names(Users(a))
  PROVE  ServedInv'
<1>1. TypeInv /\ h \in Busy /\ AppsOf(h) \subseteq App
  BY BusyType DEF ServedInv
<1>2. /\ Busy' = Busy \ {h}
      /\ \A g \in Busy \ {h} : run'[g] = run[g] /\ AppsOf(g)' = AppsOf(g)
  BY <1>1 DEF TypeInv, RunType, Busy, Idle, AppsOf
<1>3. /\ \A a : Users(a)' = Users(a)
      /\ \A D : Names(D)' = Names(D)
      /\ SamePasswords'
  BY SameUsers
<1>4. Alone' /\ Near' /\ Current'
  BY <1>2 DEF ServedInv, Alone, Near, Current
<1>5. AllShaped'
  <2> SUFFICES ASSUME NEW g \in Busy \ {h} PROVE Shaped(run[g])'
    BY <1>2 DEF AllShaped
  <2>1. PICK p : p = run[g]
    OBVIOUS
  <2>2. run'[g] = p /\ Shaped(p)
    BY <1>2, <2>1 DEF ServedInv, AllShaped
  <2>3. QED
    BY <2>2, ShapedOf
<1>6. AllFit'
  <2> SUFFICES ASSUME NEW g \in Busy \ {h}, NEW a \in AppsOf(g) \ broken' PROVE Fit(run[g], a)'
    BY <1>2 DEF AllFit
  <2>1. a \notin AppsOf(h) /\ a \in App
    BY <1>1, BusyType DEF ServedInv, Alone, Busy
  <2>2. QED
    BY <1>2, <1>3, <2>1, OthersFit
<1>7. Settled'
  <2> SUFFICES ASSUME NEW a \in App \ broken', \A g \in Busy \ {h} : a \notin AppsOf(g)
               PROVE  Held(a)' = Names(Users(a))
    BY <1>2, <1>3 DEF Settled
  <2>1. CASE a \in AppsOf(h)
    BY <2>1
  <2>2. CASE a \notin AppsOf(h)
    BY <1>1, <2>2 DEF ServedInv, Settled
  <2>3. QED
    BY <2>1, <2>2
<1>8. QED
  BY <1>3, <1>4, <1>5, <1>6, <1>7 DEF ServedInv

(* A request that ends with its row.                                        *)
LEMMA CommitStep ==
  ASSUME ServedInv, TypeInv', NEW h \in Handler, run[h].at # "idle", NEW row,
         run' = [run EXCEPT ![h] = Idle], company' = [company EXCEPT ![run[h].c] = row],
         broken' = broken, concretes' = concretes,
         row.app \in AppsOf(h) \cup broken \cup {None},
         \A a \in AppsOf(h) \ broken :
           /\ Held(a) = Names(Users(a))'
           /\ \A c, d \in Users(a)' : company'[c].password = company'[d].password
  PROVE  ServedInv'
<1> DEFINE c == run[h].c
<1>1. TypeInv /\ h \in Busy /\ AppsOf(h) \subseteq App /\ c \in Company
  BY BusyType DEF ServedInv, Steady
<1>2. /\ Busy' = Busy \ {h}
      /\ \A g \in Busy \ {h} : run'[g] = run[g] /\ AppsOf(g)' = AppsOf(g)
  BY <1>1 DEF TypeInv, RunType, Busy, Idle, AppsOf
<1>3. \A d \in Company : company'[d] = IF d = c THEN row ELSE company[d]
  BY <1>1 DEF TypeInv, TypeOK
<1>4. \A a : Held(a)' = Held(a)
  BY DEF Held
<1>5. \A a \in App \ (broken \cup AppsOf(h)) :
        Users(a)' = Users(a) /\ \A d \in Users(a) : company'[d] = company[d]
  <2> SUFFICES ASSUME NEW a \in App \ (broken \cup AppsOf(h))
               PROVE  Users(a)' = Users(a) /\ \A d \in Users(a) : company'[d] = company[d]
    OBVIOUS
  <2>1. a # None
    BY ConstantsAssumption
  <2>2. company[c].app # a /\ row.app # a
    BY <1>1, <2>1 DEF ServedInv, Near
  <2>3. QED
    BY <1>1, <1>3, <2>2 DEF Users, Live
<1>6. Alone'
  BY <1>2 DEF ServedInv, Alone
<1>7. Near' /\ Current'
  <2> SUFFICES ASSUME NEW g \in Busy \ {h}
               PROVE  /\ {company'[run[g].c].app, run[g].row.app} \subseteq AppsOf(g) \cup broken \cup {None}
                      /\ \/ AppsOf(g) \subseteq broken
                         \/ (company'[run[g].c] = run[g].old /\ run[g].row = run[g].new)
    BY <1>2 DEF Near, Current
  <2>1. run[g].c \in Company
    BY <1>1, BusyType DEF Busy, Steady
  <2>2. CASE run[g].c # c
    <3>1. company'[run[g].c] = company[run[g].c]
      BY <1>3, <2>1, <2>2
    <3>2. QED
      BY <3>1 DEF ServedInv, Near, Current
  <2>3. CASE run[g].c = c
    <3>1. AppsOf(g) \cup AppsOf(h) \subseteq broken
      BY <1>1, <2>3 DEF ServedInv, Alone
    <3>2. company'[run[g].c] = row
      BY <1>3, <2>1, <2>3
    <3>3. QED
      BY <3>1, <3>2 DEF ServedInv, Near
  <2>4. QED
    BY <2>2, <2>3
<1>8. SamePasswords'
  <2> SUFFICES ASSUME NEW a \in App \ broken, NEW d \in Users(a)', NEW e \in Users(a)'
               PROVE  company'[d].password = company'[e].password
    BY DEF SamePasswords
  <2>1. CASE a \notin AppsOf(h)
    BY <1>5, <2>1 DEF ServedInv, SamePasswords
  <2>2. QED
    BY <2>1
<1>9. AllShaped'
  <2> SUFFICES ASSUME NEW g \in Busy \ {h} PROVE Shaped(run[g])'
    BY <1>2 DEF AllShaped
  <2>1. PICK p : p = run[g]
    OBVIOUS
  <2>2. run'[g] = p /\ Shaped(p)
    BY <1>2, <2>1 DEF ServedInv, AllShaped
  <2>3. QED
    BY <2>2, ShapedOf
<1>10. AllFit'
  <2> SUFFICES ASSUME NEW g \in Busy \ {h}, NEW a \in AppsOf(g) \ broken PROVE Fit(run[g], a)'
    BY <1>2 DEF AllFit
  <2>1. a \notin AppsOf(h) /\ a \in App
    BY <1>1, BusyType DEF ServedInv, Alone, Busy
  <2>2. QED
    BY <1>2, <1>4, <1>5, <2>1, OthersFit
<1>11. Settled'
  <2> SUFFICES ASSUME NEW a \in App \ broken, \A g \in Busy \ {h} : a \notin AppsOf(g)
               PROVE  Held(a) = Names(Users(a))'
    BY <1>2, <1>4 DEF Settled
  <2>1. CASE a \notin AppsOf(h)
    <3>1. PICK q : q = run[h]
      OBVIOUS
    <3>2. Names(Users(a))' = Names(Users(a))
      BY <1>4, <1>5, <2>1, FitKept
    <3>3. QED
      BY <1>1, <2>1, <3>2 DEF ServedInv, Settled
  <2>2. QED
    BY <2>1
<1>12. QED
  BY <1>6, <1>7, <1>8, <1>9, <1>10, <1>11 DEF ServedInv

(* What a request knows of an application of its own that is not broken.    *)
LEMMA Knows ==
  ASSUME ServedInv, NEW h \in Handler, run[h].at # "idle", NEW a \in AppsOf(h) \ broken
  PROVE  /\ a \in App /\ run[h].c \in Company /\ run[h].new \in Row
         /\ company[run[h].c] = run[h].old /\ run[h].row = run[h].new
         /\ Fit(run[h], a) /\ Shaped(run[h])
         /\ run[h].old # NoCompany /\ run[h].old.app = a => run[h].c \in Users(a)
         /\ run[h].old = NoCompany \/ run[h].old.app # a => Users(a) = Users(a) \ {run[h].c}
<1>1. TypeInv /\ h \in Busy /\ AppsOf(h) \subseteq App /\ Steady(h)
  BY BusyType DEF ServedInv
<1>2. company[run[h].c] = run[h].old /\ run[h].row = run[h].new
  BY <1>1 DEF ServedInv, Current
<1>3. Shaped(run[h]) /\ Fit(run[h], a)
  BY <1>1 DEF ServedInv, AllShaped, AllFit
<1>4. a \in App /\ run[h].c \in Company /\ run[h].new \in Row
  BY <1>1 DEF Steady
<1>5. run[h].old # NoCompany /\ run[h].old.app = a => run[h].c \in Users(a)
  BY <1>2, <1>3, <1>4 DEF Shaped, Users, Live
<1>6. run[h].old = NoCompany \/ run[h].old.app # a => run[h].c \notin Users(a)
  BY <1>2 DEF Users, Live, InUse, NoCompany
<1>7. QED
  BY <1>1, <1>2, <1>3, <1>4, <1>5, <1>6

LEMMA ShapedBusy ==
  ASSUME ServedInv, NEW h \in Handler, run[h].at # "idle"
  PROVE  Shaped(run[h])
  BY BusyType DEF ServedInv, AllShaped

LEMMA RequestShape ==
  ASSUME ServedInv, NEW h \in Handler, run[h].at # "idle"
  PROVE  /\ TypeInv /\ h \in Busy /\ run[h] \in Requested
         /\ AppsOf(h) \subseteq App /\ run[h].new.app \in AppsOf(h)
         /\ run[h].row.app \in AppsOf(h) \cup broken \cup {None}
         /\ AppsOf(h) \subseteq broken \/ run[h].row = run[h].new
<1>1. TypeInv /\ h \in Busy /\ run[h] \in Requested /\ AppsOf(h) \subseteq App /\ Steady(h)
  BY BusyType DEF ServedInv
<1>2. run[h].new.app \in App /\ None \notin App
  BY <1>1, ConstantsAssumption DEF Steady, Row
<1>3. QED
  BY <1>1, <1>2 DEF ServedInv, Near, Current, AppsOf

(* A request that only moves on, before which and after which the worker    *)
(* has the same connections.                                                *)
LEMMA MovesStep ==
  ASSUME ServedInv, TypeInv', NEW h \in Handler, run[h].at # "idle", NEW at, at # "idle",
         run' = [run EXCEPT ![h].at = at], company' = company, concretes' = concretes,
         broken \subseteq broken',
         Shaped([run[h] EXCEPT !.at = at]),
         \A a \in AppsOf(h) \ broken' : Fit([run[h] EXCEPT !.at = at], a)
  PROVE  ServedInv'
<1>1. PICK q : q = [run[h] EXCEPT !.at = at]
  OBVIOUS
<1>2. run[h] \in Requested
  BY RequestShape
<1>3. /\ q.at = at /\ q.c = run[h].c /\ q.old = run[h].old /\ q.new = run[h].new
      /\ q.row = run[h].row /\ run' = [run EXCEPT ![h] = q]
  BY <1>1, <1>2 DEF Requested
<1>4. \A a : Held(a)' = Held(a) /\ Users(a)' = Users(a)
  BY DEF Held, Users, Live
<1>5. \A a \in AppsOf(h) \ broken' : Fit(q, a)'
  BY <1>1, <1>4, FitKept
<1>6. Shaped(q)
  BY <1>1
<1>7. QED
  BY <1>3, <1>4, <1>5, <1>6, RequestShape, WorkStep

(* A request that rolls back.                                               *)
LEMMA RollBackStep ==
  ASSUME ServedInv, TypeInv', NEW h \in Handler, run[h].at # "idle", RollBack(h),
         company' = company, concretes' = concretes
  PROVE  ServedInv'
<1>1. \A a : Held(a)' = Held(a)
  BY DEF Held
<1>2. broken \subseteq broken' /\ (run[h].acted => AppsOf(h) \subseteq broken')
  BY DEF RollBack
<1>3. \A a \in AppsOf(h) \ broken' : Held(a)' = Names(Users(a))
  BY <1>1, <1>2, Knows DEF Fit
<1>4. QED
  BY <1>1, <1>2, <1>3, EndStep DEF RollBack

LEMMA LookUpOldStep ==
  ASSUME ServedInv, TypeInv', NEW h \in Handler, LookUpOld(h)
  PROVE  ServedInv'
<1> DEFINE now == run[h]
           others(a) == Users(a) \ {now.c}
           at == IF others(now.old.app) = {} THEN "askRemove"
                 ELSE IF Removes(h) THEN "commit" ELSE "save"
           q == [now EXCEPT !.at = at]
<1>1. /\ now.at = "removing" /\ run' = [run EXCEPT ![h].at = at]
      /\ company' = company /\ concretes' = concretes /\ broken' = broken
  BY DEF LookUpOld, Goto
<1>2. now \in Requested /\ Shaped(now) /\ (Removes(h) <=> Leaves(now))
  BY <1>1, RequestShape, ShapedBusy DEF Removes, Leaves
<1>3. now.old # NoCompany /\ ~ now.acted /\ (Leaves(now) \/ Renews(now))
  BY <1>1, <1>2 DEF Shaped
<1>4. /\ q.at = at /\ q.c = now.c /\ q.old = now.old /\ q.new = now.new /\ q.acted = now.acted
      /\ at \in {"askRemove", "commit", "save"}
  BY <1>2 DEF Requested
<1>5. (Leaves(q) <=> Leaves(now)) /\ (Renews(q) <=> Renews(now))
  BY <1>4 DEF Leaves, Renews
<1>6. at = "commit" => Leaves(q)
  BY <1>2, <1>5
<1>7. at = "save" => Renews(q)
  BY <1>2, <1>3, <1>5
<1>8. (at = "askRemove") <=> others(now.old.app) = {}
  OBVIOUS
<1> HIDE DEF at
<1>9. Shaped(q)
  <2>1. Leaves(now) => ConcreteOf(now.new) = ConcreteOf(now.old) /\ now.new.server = now.old.server
    BY <1>2 DEF Shaped
  <2>2. now.old.status \in InUse
    BY <1>2, <1>3 DEF Shaped
  <2>3. QED
    BY <1>3, <1>4, <1>5, <2>1, <2>2 DEF Shaped
<1>10. ASSUME NEW a \in AppsOf(h) \ broken PROVE Fit(q, a)
  <2>1. Held(a) = Names(Users(a))
    BY <1>1, <1>3, Knows DEF Fit
  <2>2. at # "askRemove" => Names(Users(a)) = Names(others(a))
    <3>1. CASE now.old.app = a /\ at # "askRemove"
      BY <1>1, <1>3, <1>8, <3>1, Knows, OthersName DEF ServedInv
    <3>2. CASE now.old.app # a
      BY <1>1, <3>2, Knows
    <3>3. QED
      BY <3>1, <3>2
  <2>3. QED
    BY <1>3, <1>4, <1>6, <1>7, <1>8, <2>1, <2>2 DEF Fit
<1> HIDE DEF q
<1>11. at # "idle"
  BY <1>4
<1>12. QED
  BY <1>1, <1>9, <1>10, <1>11, MovesStep DEF q

LEMMA WrittenRow ==
  ASSUME TypeInv, NEW h \in Busy, NEW row \in Written(h)
  PROVE  /\ row.app \in {run[h].new.app, company[run[h].c].app}
         /\ company[run[h].c] = run[h].old => row = run[h].new
<1> DEFINE old == run[h].old
           new == run[h].new
           now == company[run[h].c]
           mix == [f \in DOMAIN new |-> IF new[f] = old[f] THEN now[f] ELSE new[f]]
<1>1. new \in Row
  BY DEF TypeInv, AllSteady, Steady
<1>2. /\ DOMAIN new = {"status", "phone", "app", "password", "server", "ok"}
      /\ new = [f \in DOMAIN new |-> new[f]]
  BY <1>1 DEF Row
<1>3. CASE row = new
  BY <1>3
<1>4. CASE row = mix
  <2>1. mix["app"] \in {new["app"], now["app"]}
    BY <1>2
  <2>2. now = old => \A f \in DOMAIN new : (IF new[f] = old[f] THEN now[f] ELSE new[f]) = new[f]
    OBVIOUS
  <2>3. now = old => mix = new
    BY <1>2, <2>2
  <2>4. QED
    BY <1>4, <2>1, <2>3
<1>5. QED
  BY <1>3, <1>4 DEF Written

LEMMA WrittenNear ==
  ASSUME ServedInv, NEW h \in Handler, run[h].at # "idle", NEW row \in Written(h)
  PROVE  /\ row.app \in AppsOf(h) \cup broken \cup {None}
         /\ AppsOf(h) \subseteq broken \/ row = run[h].new
<1>1. TypeInv /\ h \in Busy /\ run[h].new.app \in AppsOf(h)
  BY RequestShape
<1>2. company[run[h].c].app \in AppsOf(h) \cup broken \cup {None}
  BY <1>1 DEF ServedInv, Near
<1>3. AppsOf(h) \subseteq broken \/ company[run[h].c] = run[h].old
  BY <1>1 DEF ServedInv, Current
<1>4. QED
  BY <1>1, <1>2, <1>3, WrittenRow

LEMMA SaveStep ==
  ASSUME ServedInv, TypeInv', NEW h \in Handler, Save(h)
  PROVE  ServedInv'
<1> DEFINE now == run[h]
           at == CASE Removes(h) -> "removing" [] Changes(h) -> "adding" [] OTHER -> "commit"
<1>1. /\ now.at = "save" /\ company' = company /\ concretes' = concretes /\ broken' = broken
  BY DEF Save
<1>2. PICK row \in Written(h) : run' = [run EXCEPT ![h].row = row, ![h].at = at]
  BY DEF Save
<1>3. now \in Requested /\ Shaped(now) /\ (Removes(h) <=> Leaves(now))
      /\ (Renews(now) <=> ~ Leaves(now) /\ Changes(h))
  BY <1>1, RequestShape, ShapedBusy DEF Removes, Leaves, Renews, Changes
<1>4. /\ now.old # NoCompany /\ now.old.status \in InUse
      /\ now.acted => Renews(now)
      /\ Leaves(now) => /\ ~ Changes(h)
                        /\ ConcreteOf(now.new) = ConcreteOf(now.old) /\ now.new.server = now.old.server
  BY <1>1, <1>3 DEF Shaped, Changes
<1>5. /\ Leaves(now) => at = "removing"
      /\ Renews(now) => at = "adding"
      /\ ~ Leaves(now) /\ ~ Renews(now) => at = "commit"
      /\ at \in {"removing", "adding", "commit"}
  BY <1>3, <1>4
<1> HIDE DEF at
<1>6. PICK q : q = [now EXCEPT !.row = row, !.at = at]
  OBVIOUS
<1>7. /\ q.at = at /\ q.c = now.c /\ q.old = now.old /\ q.new = now.new /\ q.acted = now.acted
      /\ q.row = row /\ run' = [run EXCEPT ![h] = q]
  BY <1>2, <1>3, <1>6 DEF Requested
<1>8. (Leaves(q) <=> Leaves(now)) /\ (Renews(q) <=> Renews(now))
  BY <1>7 DEF Leaves, Renews
<1>9. Leaves(now) => ~ Renews(now)
  BY DEF Renews
<1>10. ~ Leaves(now) /\ ~ Renews(now) => ConcreteOf(now.new) = ConcreteOf(now.old)
  BY DEF Renews
<1>11. Shaped(q)
  BY <1>4, <1>5, <1>7, <1>8, <1>9 DEF Shaped
<1>12. ASSUME NEW a \in AppsOf(h) \ broken PROVE Fit(q, a)
  <2> DEFINE others == Users(a) \ {now.c}
  <2>1. Fit(now, a) /\ a \in App
    BY <1>1, Knows
  <2>2. Renews(now) => Held(a) = Names(others)
    BY <1>1, <2>1 DEF Fit
  <2>3. ~ now.acted => Held(a) = Names(Users(a))
    BY <2>1 DEF Fit
  <2>4. CASE ~ Leaves(now) /\ ~ Renews(now)
    <3>1. ConcreteOf(now.new) = ConcreteOf(now.old) /\ ~ now.acted
      BY <1>4, <1>10, <2>4
    <3>2. now.new.app = now.old.app /\ now.new.password = now.old.password
      BY <3>1 DEF ConcreteOf
    <3>3. a = now.old.app
      BY <3>2 DEF AppsOf
    <3>4. now.c \in Users(a) /\ company[now.c] = now.old
      BY <1>1, <1>4, <3>3, Knows
    <3>5. Held(a) = Names(others) \cup {ConcreteOf(now.new)}
      <4>1. Names(Users(a)) = Names(Users(a) \ {now.c}) \cup {ConcreteOf(company[now.c])}
        BY <3>4, Covers
      <4>2. QED
        BY <2>3, <3>1, <3>4, <4>1
    <3>6. \A d \in others : company[d].password = now.new.password
      BY <2>1, <3>2, <3>4 DEF ServedInv, SamePasswords
    <3>7. q.at = "commit"
      BY <1>5, <1>7, <2>4
    <3>8. a = q.new.app /\ ~ Leaves(q) /\ ~ q.acted /\ Held(a) = Names(Users(a))
      BY <1>7, <1>8, <2>3, <2>4, <3>1, <3>2, <3>3
    <3>9. QED
      BY <1>7, <3>5, <3>6, <3>7, <3>8 DEF Fit
  <2>5. CASE Renews(now)
    <3>1. q.at = "adding"
      BY <1>5, <1>7, <2>5
    <3>2. QED
      BY <1>7, <2>2, <2>3, <2>5, <3>1 DEF Fit
  <2>6. CASE Leaves(now)
    <3>1. q.at = "removing"
      BY <1>5, <1>7, <2>6
    <3>2. QED
      BY <1>7, <2>3, <3>1 DEF Fit
  <2>7. QED
    BY <2>4, <2>5, <2>6
<1>13. \A a : Held(a)' = Held(a) /\ Users(a)' = Users(a)
  BY <1>1 DEF Held, Users, Live
<1>14. \A a \in AppsOf(h) \ broken' : Fit(q, a)'
  BY <1>1, <1>12, <1>13, FitKept
<1>15. q.at # "idle" /\ run[h].at # "idle"
  BY <1>1, <1>5, <1>7
<1>16. q.row.app \in AppsOf(h) \cup broken \cup {None} /\ (AppsOf(h) \subseteq broken \/ q.row = now.new)
  BY <1>7, <1>15, WrittenNear
<1>17. QED
  BY <1>1, <1>7, <1>11, <1>13, <1>14, <1>15, <1>16, WorkStep

LEMMA LookUpNewStep ==
  ASSUME ServedInv, TypeInv', NEW h \in Handler, LookUpNew(h)
  PROVE  ServedInv'
<1> DEFINE now == run[h]
           new == run[h].new
           others == Users(new.app) \ {run[h].c}
           Works == {c \in others : company[c].ok}
<1>1. now.at = "adding" /\ company' = company /\ concretes' = concretes
  BY DEF LookUpNew
<1>2. CASE RollBack(h)
  BY <1>1, <1>2, RollBackStep
<1>3. CASE ~ RollBack(h)
  <2>1. PICK at \in {"askAdd", "commit"} :
          /\ run' = [run EXCEPT ![h].at = at]
          /\ at = "commit" => Works # {}
    BY <1>3 DEF LookUpNew
  <2>2. /\ broken \subseteq broken'
        /\ new.app \notin broken' => \A c \in others : company[c].password = new.password
    BY <1>3 DEF LookUpNew
  <2>3. now \in Requested /\ Shaped(now) /\ ~ Leaves(now)
    <3>1. now \in Requested /\ Shaped(now)
      BY <1>1, RequestShape, ShapedBusy
    <3>2. QED
      BY <1>1, <3>1 DEF Shaped
  <2> DEFINE q == [now EXCEPT !.at = at]
  <2>4. /\ q.at = at /\ q.c = now.c /\ q.old = now.old /\ q.new = now.new /\ q.acted = now.acted
    BY <2>3 DEF Requested
  <2>5. ~ Leaves(q)
    BY <2>3, <2>4 DEF Leaves
  <2> HIDE DEF q
  <2>6. Shaped(q)
    BY <2>3, <2>4, <2>5 DEF Shaped
  <2>7. ASSUME NEW a \in AppsOf(h) \ broken' PROVE Fit(q, a)
    <3>1. Fit(now, a) /\ a \in App
      BY <1>1, <2>2, Knows
    <3>2. /\ Held(a) = Names(Users(a) \ {now.c})
          /\ ~ now.acted => Held(a) = Names(Users(a))
      BY <1>1, <3>1 DEF Fit
    <3>3. a = new.app /\ at = "commit" => ConcreteOf(new) \in Names(Users(a) \ {now.c})
      <4> SUFFICES ASSUME a = new.app, at = "commit"
                   PROVE  \E c \in others : ConcreteOf(new) = ConcreteOf(company[c])
        BY DEF Names
      <4>1. PICK c \in others : TRUE
        BY <2>1
      <4>2. company[c].password = new.password /\ company[c].app = new.app
        BY <2>2 DEF Users
      <4>3. QED
        BY <4>2 DEF ConcreteOf
    <3>4. a = new.app => \A d \in Users(a) \ {now.c} : company[d].password = new.password
      BY <2>2
    <3>5. QED
      BY <2>4, <3>2, <3>3, <3>4 DEF Fit
  <2>8. QED
    BY <1>1, <2>1, <2>2, <2>6, <2>7, MovesStep DEF q
<1>4. QED
  BY <1>2, <1>3

(* What the worker does to the connections of an application.               *)
LEMMA AddsHeld ==
  ASSUME NEW k, concretes' = concretes \cup {k}
  PROVE  \A a : Held(a)' = Held(a) \cup (IF a = k.app THEN {k} ELSE {})
  BY DEF Held

LEMMA RemoveConcreteStep ==
  ASSUME ServedInv, TypeInv', NEW h \in Handler, RemoveConcrete(h)
  PROVE  ServedInv'
<1> DEFINE now == run[h]
           at == IF Removes(h) THEN "commit" ELSE "save"
           k == ConcreteOf(now.old)
<1>1. /\ now.at = "askRemove" /\ run' = [run EXCEPT ![h].at = at, ![h].acted = TRUE]
      /\ concretes' = concretes \ {k} /\ company' = company /\ broken' = broken
  BY DEF RemoveConcrete
<1>2. now \in Requested /\ Shaped(now) /\ (Removes(h) <=> Leaves(now))
  BY <1>1, RequestShape, ShapedBusy DEF Removes, Leaves
<1>3. /\ now.old # NoCompany /\ ~ now.acted /\ now.old.status \in InUse
      /\ ~ Leaves(now) => Renews(now)
      /\ Leaves(now) => ConcreteOf(now.new) = k /\ now.new.server = now.old.server
  BY <1>1, <1>2 DEF Shaped
<1>4. PICK q : q = [now EXCEPT !.at = at, !.acted = TRUE]
  OBVIOUS
<1>5. /\ q.at = at /\ q.c = now.c /\ q.old = now.old /\ q.new = now.new /\ q.acted = TRUE
      /\ q.row = now.row /\ run' = [run EXCEPT ![h] = q]
  BY <1>1, <1>2, <1>4 DEF Requested
<1>6. (Leaves(q) <=> Leaves(now)) /\ (Renews(q) <=> Renews(now))
  BY <1>5 DEF Leaves, Renews
<1>7. /\ Leaves(q) => q.at = "commit"
      /\ ~ Leaves(q) => q.at = "save" /\ Renews(q)
  BY <1>2, <1>3, <1>5, <1>6
<1>8. Shaped(q)
  BY <1>3, <1>5, <1>6, <1>7 DEF Shaped
<1>9. k.app = now.old.app /\ k = [app |-> now.old.app, password |-> now.old.password]
  BY DEF ConcreteOf
<1>10. /\ \A a : Held(a)' = Held(a) \ {k}
       /\ \A a : a # now.old.app => Held(a)' = Held(a)
  BY <1>1, <1>9 DEF Held
<1>11. /\ \A a : Users(a)' = Users(a)
       /\ \A D : Names(D)' = Names(D)
  BY <1>1, SameUsers
<1> HIDE DEF at, k
<1>12. ASSUME NEW a \in AppsOf(h) \ broken PROVE Held(a)' = Names(Users(a) \ {now.c})
  <2>1. Held(a) = Names(Users(a))
    BY <1>1, <1>3, Knows DEF Fit
  <2>2. CASE a = now.old.app
    <3>1. now.c \in Users(a) /\ Users(a) \ {now.c} = {} /\ company[now.c] = now.old
      BY <1>1, <1>3, <2>2, Knows DEF Fit
    <3>2. Held(a) = Names(Users(a) \ {now.c}) \cup {k}
      <4>1. Names(Users(a)) = Names(Users(a) \ {now.c}) \cup {ConcreteOf(company[now.c])}
        BY <3>1, Covers
      <4>2. QED
        BY <2>1, <3>1, <4>1 DEF k
    <3>3. Names(Users(a) \ {now.c}) = {}
      BY <3>1 DEF Names
    <3>4. QED
      BY <1>10, <3>2, <3>3
  <2>3. CASE a # now.old.app
    <3>1. Users(a) = Users(a) \ {now.c}
      BY <1>1, <2>3, Knows
    <3>2. QED
      BY <1>10, <2>1, <2>3, <3>1
  <2>4. QED
    BY <2>2, <2>3
<1>13. ASSUME NEW a \in AppsOf(h) \ broken PROVE Fit(q, a)'
  <2>1. Held(a)' = Names(Users(a) \ {q.c})'
    BY <1>5, <1>11, <1>12
  <2>2. (Leaves(q) <=> Leaves(q)') /\ (Renews(q) <=> Renews(q)')
    BY DEF Leaves, Renews, ConcreteOf
  <2>3. q.at \in {"commit", "save"} /\ (q.at = "save" => Renews(q)) /\ (q.at = "commit" => Leaves(q))
    BY <1>7 DEF Renews
  <2>4. QED
    BY <1>5, <2>1, <2>2, <2>3 DEF Fit
<1>14. \A a \in App \ AppsOf(h) : Held(a)' = Held(a)
  BY <1>10, ConstantsAssumption DEF AppsOf
<1>15. q.at # "idle" /\ now.at # "idle"
  BY <1>1, <1>7
<1>16. QED
  BY <1>1, <1>5, <1>8, <1>13, <1>14, <1>15, RequestShape, WorkStep

LEMMA AddConcreteStep ==
  ASSUME ServedInv, TypeInv', NEW h \in Handler, AddConcrete(h)
  PROVE  ServedInv'
<1> DEFINE now == run[h]
           k == ConcreteOf(now.new)
<1>1. /\ now.at = "askAdd" /\ run' = [run EXCEPT ![h].at = "commit", ![h].acted = TRUE]
      /\ concretes' = concretes \cup {k} /\ company' = company /\ broken' = broken
  BY DEF AddConcrete
<1>2. now \in Requested /\ Shaped(now)
  BY <1>1, RequestShape, ShapedBusy
<1>3. ~ Leaves(now)
  BY <1>1, <1>2 DEF Shaped
<1>4. PICK q : q = [now EXCEPT !.at = "commit", !.acted = TRUE]
  OBVIOUS
<1>5. /\ q.at = "commit" /\ q.c = now.c /\ q.old = now.old /\ q.new = now.new /\ q.acted = TRUE
      /\ q.row = now.row /\ run' = [run EXCEPT ![h] = q]
  BY <1>1, <1>2, <1>4 DEF Requested
<1>6. ~ Leaves(q)
  BY <1>3, <1>5 DEF Leaves
<1>7. Shaped(q)
  BY <1>2, <1>5, <1>6 DEF Shaped
<1>8. k.app = now.new.app
  BY DEF ConcreteOf
<1>9. \A a : Held(a)' = Held(a) \cup (IF a = now.new.app THEN {k} ELSE {})
  <2> HIDE DEF k
  <2>1. QED
    BY <1>1, <1>8, AddsHeld
<1>10. /\ \A a : Users(a)' = Users(a)
       /\ \A D : Names(D)' = Names(D)
  BY <1>1, SameUsers
<1>11. ASSUME NEW a \in AppsOf(h) \ broken PROVE Fit(q, a)'
  <2>1. Fit(now, a)
    BY <1>1, Knows
  <2>2. /\ Held(a) = Names(Users(a) \ {now.c})
        /\ a = now.new.app => \A d \in Users(a) \ {now.c} : company[d].password = now.new.password
    BY <1>1, <1>3, <2>1 DEF Fit
  <2>3. Held(a)' = Names(Users(a) \ {now.c}) \cup (IF a = now.new.app THEN {k} ELSE {})
    BY <1>9, <2>2
  <2>4. (Leaves(q) <=> Leaves(q)') /\ k = ConcreteOf(q.new) /\ ConcreteOf(q.new)' = ConcreteOf(q.new)
    BY <1>5 DEF Leaves, ConcreteOf
  <2>5. Names(Users(a) \ {q.c})' = Names(Users(a) \ {now.c}) /\ Users(a)' = Users(a)
    BY <1>5, <1>10
  <2> HIDE DEF k
  <2>6. QED
    BY <1>1, <1>5, <1>6, <2>2, <2>3, <2>4, <2>5 DEF Fit
<1>12. \A a \in App \ AppsOf(h) : Held(a)' = Held(a)
  BY <1>1, <1>9, RequestShape
<1>13. QED
  BY <1>1, <1>5, <1>7, <1>11, <1>12, RequestShape, WorkStep

LEMMA AskFailsStep ==
  ASSUME ServedInv, TypeInv', NEW h \in Handler, AskFails(h)
  PROVE  ServedInv'
<1>1. /\ run[h].at \in {"askRemove", "askAdd"} /\ run[h].at # "idle"
      /\ run' = [run EXCEPT ![h] = Idle] /\ company' = company /\ broken \subseteq broken'
  BY DEF AskFails
<1>2. \A a \in App \ AppsOf(h) : Held(a)' = Held(a)
  <2>1. CASE concretes' = concretes
    BY <2>1 DEF Held
  <2>2. CASE concretes' = concretes \cup {ConcreteOf(run[h].new)}
    <3>1. PICK k : k = ConcreteOf(run[h].new)
      OBVIOUS
    <3>2. k.app \in AppsOf(h)
      BY <1>1, <3>1, RequestShape DEF ConcreteOf
    <3>3. \A a : Held(a)' = Held(a) \cup (IF a = k.app THEN {k} ELSE {})
      BY <2>2, <3>1, AddsHeld
    <3>4. QED
      BY <3>2, <3>3
  <2>3. CASE concretes' = concretes \ {ConcreteOf(run[h].old)}
    <3>1. \A a \in App \ AppsOf(h) : a # run[h].old.app
      BY ConstantsAssumption DEF AppsOf
    <3>2. ConcreteOf(run[h].old).app = run[h].old.app
      BY DEF ConcreteOf
    <3>3. \A a : a # ConcreteOf(run[h].old).app => Held(a)' = Held(a)
      BY <2>3 DEF Held
    <3>4. QED
      BY <3>1, <3>2, <3>3
  <2>4. QED
    BY <2>1, <2>2, <2>3 DEF AskFails
<1>3. AppsOf(h) \subseteq broken' \/ (concretes' = concretes /\ ~ run[h].acted)
  BY DEF AskFails
<1>4. \A a \in AppsOf(h) \ broken' : Held(a)' = Names(Users(a))
  BY <1>1, <1>3, Knows DEF Fit, Held
<1>5. QED
  BY <1>1, <1>2, <1>4, EndStep

(* The users of an application once a row is there.                         *)
LEMMA UsersThen ==
  ASSUME TypeInv, NEW c \in Company, NEW row, company' = [company EXCEPT ![c] = row], NEW a
  PROVE  /\ Users(a)' = (Users(a) \ {c}) \cup (IF row.status \in InUse /\ row.app = a THEN {c} ELSE {})
         /\ company'[c] = row /\ \A d \in Users(a) \ {c} : company'[d] = company[d]
<1>1. \A d \in Company : company'[d] = IF d = c THEN row ELSE company[d]
  BY DEF TypeInv, TypeOK
<1>2. Users(a)' = (Users(a) \ {c}) \cup (IF row.status \in InUse /\ row.app = a THEN {c} ELSE {})
  BY <1>1 DEF Users, Live
<1>3. \A d \in Users(a) \ {c} : company'[d] = company[d]
  BY <1>1 DEF Users, Live
<1>4. QED
  BY <1>1, <1>2, <1>3

LEMMA CommitServed ==
  ASSUME ServedInv, TypeInv', NEW h \in Handler, Commit(h)
  PROVE  ServedInv'
<1> DEFINE now == run[h]
<1>1. /\ now.at = "commit" /\ company' = [company EXCEPT ![now.c] = now.row]
      /\ run' = [run EXCEPT ![h] = Idle] /\ broken' = broken /\ concretes' = concretes
  BY DEF Commit
<1>2. ASSUME NEW a \in AppsOf(h) \ broken
      PROVE  /\ Held(a) = Names(Users(a))'
             /\ \A c, d \in Users(a)' : company'[c].password = company'[d].password
  <2> DEFINE others == Users(a) \ {now.c}
             joins == ~ Leaves(now) /\ a = now.new.app
  <2>1. /\ a \in App /\ now.c \in Company /\ now.new \in Row /\ now.row = now.new
        /\ Fit(now, a) /\ TypeInv
    BY <1>1, Knows DEF ServedInv
  <2>2. /\ Held(a) = Names(others) \cup (IF joins THEN {ConcreteOf(now.new)} ELSE {})
        /\ joins => \A d \in others : company[d].password = now.new.password
    BY <1>1, <2>1 DEF Fit
  <2>3. joins <=> now.row.status \in InUse /\ now.row.app = a
    BY <2>1 DEF Leaves, Row, InUse
  <2>4. PICK row, c : row = now.row /\ c = now.c
    OBVIOUS
  <2>5. /\ Users(a)' = (Users(a) \ {c}) \cup (IF row.status \in InUse /\ row.app = a THEN {c} ELSE {})
        /\ company'[c] = row /\ \A d \in Users(a) \ {c} : company'[d] = company[d]
    <3>1. company' = [company EXCEPT ![c] = row] /\ c \in Company
      BY <1>1, <2>1, <2>4
    <3>2. QED
      BY <2>1, <3>1, UsersThen
  <2>6. Users(a)' = others \cup (IF joins THEN {c} ELSE {})
    BY <2>3, <2>4, <2>5
  <2>7. \A d, e \in others : company[d].password = company[e].password
    BY <2>1 DEF ServedInv, SamePasswords
  <2>8. \A d, e \in Users(a)' : company'[d].password = company'[e].password
    BY <2>1, <2>2, <2>4, <2>5, <2>6, <2>7
  <2>9. Held(a) = Names(Users(a))'
    <3>1. Held(a) = {ConcreteOf(company'[d]) : d \in others}
                      \cup (IF joins THEN {ConcreteOf(company'[c])} ELSE {})
      BY <2>1, <2>2, <2>4, <2>5 DEF Names
    <3>2. Names(Users(a))' = {ConcreteOf(company'[d]) : d \in Users(a)'}
      BY DEF Names, ConcreteOf
    <3> HIDE DEF joins, others
    <3>3. QED
      BY <2>6, <3>1, <3>2
  <2>10. QED
    BY <2>8, <2>9
<1>3. now.row.app \in AppsOf(h) \cup broken \cup {None} /\ now.at # "idle"
  BY <1>1, RequestShape
<1>4. QED
  BY <1>1, <1>2, <1>3, CommitStep

LEMMA SaveStatusServed ==
  ASSUME ServedInv, TypeInv', NEW h \in Handler, SaveStatus(h)
  PROVE  ServedInv'
<1> DEFINE now == run[h]
<1>1. PICK row \in Written(h) : company' = [company EXCEPT ![now.c] = row]
  BY DEF SaveStatus
<1>2. /\ now.at = "status" /\ run' = [run EXCEPT ![h] = Idle] /\ broken' = broken
      /\ concretes' = concretes
  BY DEF SaveStatus
<1>3. /\ row.app \in AppsOf(h) \cup broken \cup {None}
      /\ AppsOf(h) \subseteq broken \/ row = now.new
  BY <1>2, WrittenNear
<1>4. /\ ~ Leaves(now) /\ now.old # NoCompany /\ ~ now.acted
      /\ ConcreteOf(now.new) = ConcreteOf(now.old)
  BY <1>2, ShapedBusy DEF Shaped
<1>5. now.new.app = now.old.app /\ now.new.password = now.old.password
  BY <1>4 DEF ConcreteOf
<1>6. ASSUME NEW a \in AppsOf(h) \ broken
      PROVE  /\ Held(a) = Names(Users(a))'
             /\ \A c, d \in Users(a)' : company'[c].password = company'[d].password
  <2>1. a = now.old.app
    BY <1>5 DEF AppsOf
  <2>2. /\ a \in App /\ now.c \in Company /\ now.new \in Row /\ now.c \in Users(a)
        /\ company[now.c] = now.old /\ Held(a) = Names(Users(a)) /\ TypeInv
    BY <1>2, <1>4, <2>1, Knows DEF Fit, ServedInv
  <2>3. row = now.new /\ row.status \in InUse /\ row.app = a
    BY <1>3, <1>4, <1>5, <2>1, <2>2 DEF Leaves, Row
  <2>4. PICK c : c = now.c
    OBVIOUS
  <2>5. /\ Users(a)' = (Users(a) \ {c}) \cup {c}
        /\ company'[c] = row /\ \A d \in Users(a) \ {c} : company'[d] = company[d]
    <3>1. company' = [company EXCEPT ![c] = row] /\ c \in Company
      BY <1>1, <2>2, <2>4
    <3>2. /\ Users(a)' = (Users(a) \ {c}) \cup (IF row.status \in InUse /\ row.app = a THEN {c} ELSE {})
          /\ company'[c] = row /\ \A d \in Users(a) \ {c} : company'[d] = company[d]
      BY <2>2, <3>1, UsersThen
    <3>3. QED
      BY <2>3, <3>2
  <2>6. Users(a)' = Users(a)
    BY <2>2, <2>4, <2>5
  <2>7. ConcreteOf(company'[c]) = ConcreteOf(company[c])
    BY <1>4, <2>2, <2>3, <2>4, <2>5
  <2>8. \A d \in Users(a) : /\ ConcreteOf(company'[d]) = ConcreteOf(company[d])
                            /\ company'[d].password = company[d].password
    BY <2>5, <2>7 DEF ConcreteOf
  <2>9. Names(Users(a))' = Names(Users(a))
    <3>1. Names(Users(a))' = {ConcreteOf(company'[d]) : d \in Users(a)}
      BY <2>6 DEF Names, ConcreteOf
    <3>2. QED
      BY <2>8, <3>1 DEF Names
  <2>10. \A d, e \in Users(a) : company[d].password = company[e].password
    BY <2>2 DEF ServedInv, SamePasswords
  <2>11. QED
    BY <2>2, <2>6, <2>8, <2>9, <2>10
<1>7. QED
  BY <1>1, <1>2, <1>3, <1>6, CommitStep

(* What a request begins as.                                                *)
LEMMA RequestStarts ==
  ASSUME TypeInv, NEW h \in Handler, Request(h)
  PROVE  \E c \in Company, at \in {"adding", "save", "removing", "status"}, new \in Row :
           LET q == [at |-> at, c |-> c, old |-> company[c], new |-> new, row |-> new, acted |-> FALSE]
           IN  /\ Begin(h, c, at, company[c], new) /\ Shaped(q)
               /\ at = "adding" => company[c] = NoCompany
               /\ at = "save" => ~ Renews(q)
<1> DEFINE Q(c, at, new) == [at |-> at, c |-> c, old |-> company[c], new |-> new, row |-> new,
                             acted |-> FALSE]
           Starts(c, at, new) == /\ Begin(h, c, at, company[c], new) /\ Shaped(Q(c, at, new))
                                 /\ at = "adding" => company[c] = NoCompany
                                 /\ at = "save" => ~ Renews(Q(c, at, new))
<1> SUFFICES \E c \in Company, at \in {"adding", "save", "removing", "status"}, new \in Row :
               Starts(c, at, new)
  OBVIOUS
<1>1. CASE \E c \in Company, p \in Phone, a \in App, w \in Password, s \in Server,
                t \in InUse : Create(h, c, p, a, w, s, t)
  <2>1. PICK c \in Company, p \in Phone, a \in App, w \in Password, s \in Server,
            t \in InUse : Create(h, c, p, a, w, s, t)
    BY <1>1
  <2> DEFINE new == [status |-> t, phone |-> p, app |-> a, password |-> w, server |-> s,
                     ok |-> TRUE]
  <2>2. new \in Row /\ new.status \in InUse
    BY DEF Row
  <2>3. Begin(h, c, "adding", company[c], new) /\ company[c] = NoCompany
    BY <2>1 DEF Create
  <2> HIDE DEF new
  <2>4. Starts(c, "adding", new)
    BY <2>2, <2>3 DEF Shaped, Leaves, InUse
  <2>5. QED
    BY <2>2, <2>4
<1>2. CASE \E c \in Company, a \in App, w \in Password, s \in Server, t \in InUse :
             Update(h, c, a, w, s, t)
  <2>1. PICK c \in Company, a \in App, w \in Password, s \in Server, t \in InUse :
             Update(h, c, a, w, s, t)
    BY <1>2
  <2> DEFINE new == [company[c] EXCEPT !.status = t, !.app = a, !.password = w, !.server = s, !.ok = TRUE]
             at == IF ConcreteOf(new) = ConcreteOf(company[c]) /\ s = company[c].server
                   THEN "save" ELSE "removing"
  <2>2. c \in Live /\ company[c] \in Row /\ c \in Company /\ company[c].status \in InUse
    BY <2>1, LiveRow DEF Update, Live
  <2>3. new \in Row /\ new.status \in InUse /\ new.server = s
    BY <2>2 DEF Row
  <2>4. Begin(h, c, at, company[c], new)
    BY <2>1 DEF Update
  <2> HIDE DEF new
  <2>5. company[c] # NoCompany
    BY <2>2, NoCompanyIsNone
  <2>6. Starts(c, at, new) /\ at \in {"save", "removing"}
    BY <2>2, <2>3, <2>4, <2>5 DEF Shaped, Leaves, InUse, Renews
  <2> HIDE DEF at
  <2>7. QED
    BY <2>2, <2>3, <2>6
<1>3. CASE \E c \in Company : Remove(h, c)
  <2>1. PICK c \in Company : Remove(h, c)
    BY <1>3
  <2>2. c \in Live /\ company[c] \in Row /\ c \in Company /\ company[c].status \in InUse
    BY <2>1, LiveRow DEF Remove, Live
  <2> DEFINE new == [company[c] EXCEPT !.status = "DELETE"]
  <2>3. /\ new \in Row /\ new.status = "DELETE" /\ new.app = company[c].app
        /\ new.password = company[c].password /\ new.server = company[c].server
    BY <2>2 DEF Row
  <2>4. Begin(h, c, "save", company[c], new)
    BY <2>1 DEF Remove
  <2> HIDE DEF new
  <2>5. company[c] # NoCompany
    BY <2>2, NoCompanyIsNone
  <2>6. Starts(c, "save", new)
    BY <2>2, <2>3, <2>4, <2>5 DEF Shaped, Leaves, Renews, ConcreteOf
  <2>7. QED
    BY <2>2, <2>3, <2>6
<1>4. CASE \E c \in Company, ok \in BOOLEAN : UpdateErrorStatus(h, c, ok)
  <2>1. PICK c \in Company, ok \in BOOLEAN : UpdateErrorStatus(h, c, ok)
    BY <1>4
  <2>2. c \in Live /\ company[c] \in Row /\ c \in Company /\ company[c].status \in InUse
    BY <2>1, LiveRow DEF UpdateErrorStatus, Live
  <2> DEFINE new == [company[c] EXCEPT !.ok = ok]
  <2>3. /\ new \in Row /\ new.status \in InUse /\ new.app = company[c].app
        /\ new.password = company[c].password /\ new.server = company[c].server
    BY <2>2 DEF Row
  <2>4. Begin(h, c, "status", company[c], new)
    BY <2>1 DEF UpdateErrorStatus
  <2> HIDE DEF new
  <2>5. company[c] # NoCompany
    BY <2>2, NoCompanyIsNone
  <2>6. Starts(c, "status", new)
    BY <2>2, <2>3, <2>4, <2>5 DEF Shaped, Leaves, InUse, Renews, ConcreteOf
  <2>7. QED
    BY <2>2, <2>3, <2>6
<1>5. QED
  BY <1>1, <1>2, <1>3, <1>4 DEF Request

(* A request that begins: it meets nobody, or what they touch is broken.    *)
LEMMA BeginServed ==
  ASSUME ServedInv, TypeInv', NEW h \in Handler, Request(h)
  PROVE  ServedInv'
<1>1. PICK c \in Company, at \in {"adding", "save", "removing", "status"}, new \in Row :
        LET p == [at |-> at, c |-> c, old |-> company[c], new |-> new, row |-> new, acted |-> FALSE]
        IN  /\ Begin(h, c, at, company[c], new) /\ Shaped(p)
            /\ at = "adding" => company[c] = NoCompany
            /\ at = "save" => ~ Renews(p)
  BY RequestStarts DEF ServedInv
<1>2. PICK q : q = [at |-> at, c |-> c, old |-> company[c], new |-> new, row |-> new, acted |-> FALSE]
  OBVIOUS
<1>3. /\ q.at = at /\ q.c = c /\ q.old = company[c] /\ q.new = new /\ q.row = new /\ q.acted = FALSE
      /\ at # "idle"
  BY <1>2
<1>4. /\ Shaped(q)
      /\ at = "adding" => company[c] = NoCompany
      /\ at = "save" => ~ Renews(q)
  BY <1>1, <1>2
<1> DEFINE apps == {company[c].app, new.app} \ {None}
<1>5. /\ run[h].at = "idle" /\ run' = [run EXCEPT ![h] = q]
      /\ company' = company /\ concretes' = concretes /\ broken \subseteq broken'
  BY <1>1, <1>2 DEF Begin
<1>6. \A g \in Busy : run[g].c = c \/ AppsOf(g) \cap apps # {} => apps \cup AppsOf(g) \subseteq broken'
  BY <1>1 DEF Begin
<1>7. TypeInv /\ apps \subseteq App
  <2>1. company[c] \in Row \cup {NoCompany}
    BY DEF ServedInv, TypeInv, TypeOK
  <2>2. company[c].app \in App \cup {None}
    BY <2>1 DEF Row, NoCompany
  <2>3. QED
    BY <2>2 DEF ServedInv, Row
<1>8. run'[h] = q /\ \A g \in Handler \ {h} : run'[g] = run[g]
  BY <1>5, <1>7 DEF TypeInv, RunType
<1>9. /\ h \notin Busy /\ Busy' = Busy \cup {h}
      /\ \A g \in Busy : g # h /\ run'[g] = run[g] /\ AppsOf(g)' = AppsOf(g)
      /\ AppsOf(h)' = apps
  BY <1>3, <1>5, <1>8 DEF Busy, AppsOf
<1> HIDE DEF apps
<1>10. /\ \A a : Users(a)' = Users(a)
       /\ \A a : Held(a)' = Held(a)
       /\ SamePasswords'
  BY <1>5, SameUsers DEF Held
<1>11. Alone'
  <2> SUFFICES ASSUME NEW f \in Busy', NEW g \in Busy', f # g,
                      run'[f].c = run'[g].c \/ AppsOf(f)' \cap AppsOf(g)' # {}
               PROVE  AppsOf(f)' \cup AppsOf(g)' \subseteq broken'
    BY DEF Alone
  <2>1. CASE f = h
    BY <1>3, <1>6, <1>8, <1>9, <2>1
  <2>2. CASE g = h
    BY <1>3, <1>6, <1>8, <1>9, <2>2
  <2>3. CASE f # h /\ g # h
    BY <1>5, <1>9, <2>3 DEF ServedInv, Alone
  <2>4. QED
    BY <2>1, <2>2, <2>3
<1>12. Near' /\ Current'
  <2> SUFFICES ASSUME NEW g \in Busy'
               PROVE  /\ {company[run'[g].c].app, run'[g].row.app}
                           \subseteq AppsOf(g)' \cup broken' \cup {None}
                      /\ \/ AppsOf(g)' \subseteq broken'
                         \/ (company[run'[g].c] = run'[g].old /\ run'[g].row = run'[g].new)
    BY <1>5 DEF Near, Current
  <2>1. CASE g = h
    <3>1. {company[c].app, new.app} \subseteq apps \cup {None}
      BY DEF apps
    <3>2. QED
      BY <1>3, <1>8, <1>9, <2>1, <3>1
  <2>2. CASE g # h
    BY <1>5, <1>9, <2>2 DEF ServedInv, Near, Current
  <2>3. QED
    BY <2>1, <2>2
<1>13. AllShaped'
  <2> SUFFICES ASSUME NEW g \in Busy' PROVE Shaped(run[g])'
    BY DEF AllShaped
  <2>1. CASE g = h
    BY <1>4, <1>8, <2>1, ShapedOf
  <2>2. CASE g # h
    <3>1. PICK p : p = run[g]
      OBVIOUS
    <3>2. run'[g] = p /\ Shaped(p)
      BY <1>9, <2>2, <3>1 DEF ServedInv, AllShaped
    <3>3. QED
      BY <3>2, ShapedOf
  <2>3. QED
    BY <2>1, <2>2
<1>14. AllFit'
  <2> SUFFICES ASSUME NEW g \in Busy', NEW a \in AppsOf(g)' \ broken' PROVE Fit(run[g], a)'
    BY DEF AllFit
  <2>1. CASE g = h
    <3>1. a \in App \ broken /\ \A k \in Busy : a \notin AppsOf(k)
      BY <1>5, <1>6, <1>7, <1>9, <2>1
    <3>2. Held(a) = Names(Users(a))
      BY <3>1 DEF ServedInv, Settled
    <3>3. at = "adding" => c \notin Users(a)
      BY <1>4 DEF Users, Live, InUse, NoCompany
    <3>4. at = "adding" => Users(a) \ {q.c} = Users(a)
      BY <1>3, <3>3
    <3>5. Fit(q, a)
      BY <1>3, <1>4, <3>2, <3>4 DEF Fit
    <3>6. Fit(q, a)'
      BY <1>5, <1>10, <3>5, FitKept
    <3>7. QED
      BY <1>8, <2>1, <3>6, FitOf
  <2>2. CASE g # h
    BY <1>5, <1>9, <1>10, <2>2, OthersFit
  <2>3. QED
    BY <2>1, <2>2
<1>15. Settled'
  <2> SUFFICES ASSUME NEW a \in App \ broken', \A g \in Busy' : a \notin AppsOf(g)'
               PROVE  Held(a)' = Names(Users(a))'
    BY DEF Settled
  <2>1. Held(a) = Names(Users(a))
    BY <1>5, <1>9 DEF ServedInv, Settled
  <2>2. Names(Users(a))' = Names(Users(a))
    BY <1>5, <1>10, FitKept
  <2>3. QED
    BY <1>10, <2>1, <2>2
<1>16. QED
  BY <1>10, <1>11, <1>12, <1>13, <1>14, <1>15 DEF ServedInv

(* The worker starts again: it has what the companies name, of an           *)
(* application that some active company uses and that all use with one      *)
(* password.  What was broken stays so only while requests are in progress. *)
LEMMA RestartServed ==
  ASSUME ServedInv, TypeInv', WorkerRestarts
  PROVE  ServedInv'
<1>1. /\ run' = run /\ company' = company /\ Unfit \subseteq broken'
      /\ concretes' = {ConcreteOf(company[c]) : c \in Active}
  BY DEF WorkerRestarts
<1>2. Busy # {} => broken \subseteq broken' /\ \A g \in Busy : AppsOf(g) \subseteq broken'
  BY DEF WorkerRestarts
<1>3. /\ Busy' = Busy /\ \A g \in Busy : AppsOf(g)' = AppsOf(g)
  BY <1>1 DEF Busy, AppsOf
<1>4. \A a : Users(a)' = Users(a)
  BY <1>1, SameUsers
<1>5. \A D : Names(D)' = Names(D)
  BY <1>1, SameUsers
<1>6. ASSUME NEW a \in App \ broken'
      PROVE  /\ Users(a) \cap Active # {} \/ Users(a) = {}
             /\ \A c, d \in Users(a) : company[c].password = company[d].password
  BY <1>1, <1>6 DEF Unfit
<1>7. SamePasswords'
  BY <1>1, <1>4, <1>6 DEF SamePasswords
<1>8. ASSUME NEW a \in App \ broken' PROVE Held(a)' = Names(Users(a))
  <2>1. Held(a)' = {ConcreteOf(company[c]) : c \in Users(a) \cap Active}
    <3>1. \A c \in Active : c \in Users(a) <=> company[c].app = a
      BY DEF Users, Live, Active, InUse
    <3>2. QED
      BY <1>1, <3>1 DEF Held, ConcreteOf
  <2>2. \A c \in Users(a) : company[c].app = a
    BY DEF Users
  <2>3. \A c, d \in Users(a) : ConcreteOf(company[c]) = ConcreteOf(company[d])
    BY <1>6, <2>2 DEF ConcreteOf
  <2>4. QED
    BY <1>6, <2>1, <2>3 DEF Names
<1>9. Alone' /\ Near' /\ Current'
  BY <1>1, <1>2, <1>3 DEF ServedInv, Alone, Near, Current
<1>10. AllShaped'
  <2> SUFFICES ASSUME NEW g \in Busy PROVE Shaped(run[g])'
    BY <1>3 DEF AllShaped
  <2>1. PICK p : p = run[g]
    OBVIOUS
  <2>2. run'[g] = p /\ Shaped(p)
    BY <1>1, <2>1 DEF ServedInv, AllShaped
  <2>3. QED
    BY <2>2, ShapedOf
<1>11. AllFit'
  BY <1>2, <1>3 DEF AllFit
<1>12. Settled'
  BY <1>4, <1>5, <1>8 DEF Settled
<1>13. QED
  BY <1>7, <1>9, <1>10, <1>11, <1>12 DEF ServedInv

LEMMA ServedStep == ServedInv /\ [Next]_vars => ServedInv'
<1> SUFFICES ASSUME ServedInv, [Next]_vars PROVE ServedInv'
  OBVIOUS
<1>1. TypeInv'
  BY TypeStep DEF ServedInv
<1>2. ASSUME NEW h \in Handler, Request(h) PROVE ServedInv'
  BY <1>1, <1>2, BeginServed
<1>3. ASSUME NEW h \in Handler, Proceed(h) PROVE ServedInv'
  <2>1. CASE Save(h)
    BY <1>1, <2>1, SaveStep
  <2>2. CASE LookUpOld(h)
    BY <1>1, <2>2, LookUpOldStep
  <2>3. CASE RemoveConcrete(h)
    BY <1>1, <2>3, RemoveConcreteStep
  <2>4. CASE LookUpNew(h)
    BY <1>1, <2>4, LookUpNewStep
  <2>5. CASE AddConcrete(h)
    BY <1>1, <2>5, AddConcreteStep
  <2>6. CASE AskFails(h)
    BY <1>1, <2>6, AskFailsStep
  <2>7. CASE Commit(h)
    BY <1>1, <2>7, CommitServed
  <2>8. CASE CommitFails(h)
    BY <1>1, <2>8, RollBackStep DEF CommitFails
  <2>9. CASE SaveStatus(h)
    BY <1>1, <2>9, SaveStatusServed
  <2>10. QED
    BY <1>3, <2>1, <2>2, <2>3, <2>4, <2>5, <2>6, <2>7, <2>8, <2>9 DEF Proceed
<1>4. CASE WorkerRestarts
  BY <1>1, <1>4, RestartServed
<1>5. CASE UNCHANGED vars
  <2>1. /\ company' = company /\ concretes' = concretes /\ run' = run /\ broken' = broken
    BY <1>5 DEF vars
  <2>2. /\ Busy' = Busy /\ Live' = Live
        /\ \A a : Users(a)' = Users(a) /\ Held(a)' = Held(a)
        /\ \A D : Names(D)' = Names(D)
        /\ \A g : AppsOf(g)' = AppsOf(g)
    BY <2>1 DEF Busy, Live, Users, Held, Names, AppsOf
  <2>3. Alone' /\ Near' /\ Current' /\ SamePasswords' /\ Settled'
    BY <2>1, <2>2 DEF ServedInv, Alone, Near, Current, SamePasswords, Settled
  <2>4. ASSUME NEW g \in Busy PROVE Shaped(run[g])' /\ \A a \in AppsOf(g) \ broken : Fit(run[g], a)'
    <3>1. PICK p : p = run[g]
      OBVIOUS
    <3>2. run'[g] = p /\ Shaped(p) /\ \A a \in AppsOf(g) \ broken : Fit(p, a)
      BY <2>1, <3>1 DEF ServedInv, AllShaped, AllFit
    <3>3. \A a \in AppsOf(g) \ broken : Fit(p, a)'
      BY <2>1, <2>2, <3>2, FitKept
    <3>4. QED
      BY <3>2, <3>3, ShapedOf, FitOf
  <2>5. AllShaped' /\ AllFit'
    BY <2>1, <2>2, <2>4 DEF AllShaped, AllFit
  <2>6. QED
    BY <1>1, <2>3, <2>5 DEF ServedInv
<1>6. QED
  BY <1>2, <1>3, <1>4, <1>5 DEF Next

LEMMA InitServed == Init => ServedInv
<1> SUFFICES ASSUME Init PROVE ServedInv
  OBVIOUS
<1>1. Busy = {} /\ Live = {} /\ concretes = {}
  BY DEF Init, Busy, Live, InUse, Idle, NoCompany
<1>2. \A a : Users(a) = {} /\ Held(a) = {} /\ Names(Users(a)) = {}
  BY <1>1 DEF Users, Held, Names
<1>3. QED
  BY <1>1, <1>2, InitType DEF ServedInv, Alone, Near, Current, SamePasswords, AllShaped, AllFit,
                              Settled

(* An application that is neither broken nor touched by a request has the   *)
(* connections that its companies name, and no other.                       *)
LEMMA ServedServes == ServedInv => EveryCompanyIsServed /\ NoConcreteIsLeft
<1> SUFFICES ASSUME ServedInv PROVE EveryCompanyIsServed /\ NoConcreteIsLeft
  OBVIOUS
<1>1. ASSUME NEW a \in App, a \notin broken \cup UNION {AppsOf(h) : h \in Busy}
      PROVE  Held(a) = Names(Users(a))
  BY <1>1 DEF ServedInv, Settled
<1>2. EveryCompanyIsServed
  <2> SUFFICES ASSUME NEW c \in Live,
                      company[c].app \notin broken \cup UNION {AppsOf(h) : h \in Busy}
               PROVE  ConcreteOf(company[c]) \in concretes
    BY DEF EveryCompanyIsServed
  <2>1. company[c].app \in App /\ c \in Users(company[c].app)
    BY LiveRow DEF ServedInv, Users, Row
  <2>2. ConcreteOf(company[c]) \in Held(company[c].app)
    BY <1>1, <2>1 DEF Names
  <2>3. QED
    BY <2>2 DEF Held
<1>3. NoConcreteIsLeft
  <2> SUFFICES ASSUME NEW k \in concretes,
                      k.app \notin broken \cup UNION {AppsOf(h) : h \in Busy}
               PROVE  \E c \in Users(k.app) : company[c].password = k.password
    BY DEF NoConcreteIsLeft
  <2>1. k.app \in App
    BY DEF ServedInv, TypeInv, TypeOK, Concrete
  <2>2. k \in Names(Users(k.app))
    BY <1>1, <2>1 DEF Held
  <2>3. QED
    BY <2>2 DEF Names, ConcreteOf
<1>4. QED
  BY <1>2, <1>3

(* Every company has its connection, under the name that its messages give, *)
(* whoever else has shared its application, left it or failed to join it,   *)
(* unless, since the worker last started with no request in progress,       *)
(* requests met at the application, one rolled back after the worker had    *)
(* acted, or companies shared it with different passwords, or, when it      *)
(* started, only inactive companies used it.                                *)
THEOREM CompaniesAreServed == Spec => []EveryCompanyIsServed
<1>1. QED
  BY InitServed, ServedStep, ServedServes, PTL DEF Spec

(* No connection outlives the last company that uses it (same exception).   *)
THEOREM NothingIsLeftOver == Spec => []NoConcreteIsLeft
<1>1. QED
  BY InitServed, ServedStep, ServedServes, PTL DEF Spec
=============================================================================
