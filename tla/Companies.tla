----------------------------- MODULE Companies -----------------------------
(***************************************************************************)
(* The companies and their applications at RingCentral.  The worker keeps  *)
(* a "concrete", a connection to RingCentral, for each application that a  *)
(* company uses; companies may share one.  Creating, changing and removing *)
(* a company looks up who else uses the application, asks the worker to    *)
(* add or to remove a concrete, and commits last: the look-ups see what    *)
(* other requests have committed, the worker does what it is asked at      *)
(* once, and a rollback undoes nothing of it.  A saved row stays locked    *)
(* until its request commits or rolls back.  A company that is inactive    *)
(* counts as a user of its application, but a worker that starts again is  *)
(* told of the active ones only.                                           *)
(***************************************************************************)
EXTENDS Integers, FiniteSets

CONSTANTS
    Company,      \* identifiers of rows of companies
    Phone,        \* phone numbers of companies
    App,          \* applications: client id and secret, user name, extension
    Password,     \* the applications' passwords
    Server,       \* what else a concrete needs: server, addresses of reports
    Handler,      \* the requests and calls served at once
    MaxRequests,  \* bound on requests
    MaxFaults,    \* bound on calls to the worker that fail
    None          \* no company, application or phone

ASSUME ConstantsAssumption ==
    /\ None \notin Company \cup Phone \cup App \cup Password \cup Server
    /\ MaxRequests \in Nat /\ MaxFaults \in Nat

VARIABLES
    company,   \* company[c]: the committed row of c
    concretes, \* the worker's connections to RingCentral
    run,       \* run[h]: the request in slot h
    requests,  \* requests so far
    faults,    \* failed calls so far
    broken,    \* history: applications that since the worker last started
               \* were touched by requests at the same time or by one that
               \* rolled back after the worker had acted, that companies share
               \* with different passwords, or that only inactive companies
               \* used when it started
    contested  \* history: phones of companies that requests handled at once

vars == <<company, concretes, run, requests, faults, broken, contested>>

-----------------------------------------------------------------------------
(* Values *)

(* What a company's messages name, and the worker's connections are kept    *)
(* under, includes the password (createConcretesKey).  It leaves out the    *)
(* extension: two applications are taken to differ in more than that.       *)
Concrete == [app : App, password : Password]

NoCompany == [status |-> "none", phone |-> None, app |-> None, password |-> None,
              server |-> None, ok |-> FALSE]

InUse == {"ACTIVE", "INACTIVE"}

Row == [status : InUse \cup {"DELETE"}, phone : Phone, app : App, password : Password,
        server : Server, ok : BOOLEAN]

ConcreteOf(row) == [app |-> row.app, password |-> row.password]

Idle == [at |-> "idle", c |-> None, old |-> NoCompany, new |-> NoCompany,
         row |-> NoCompany, acted |-> FALSE]

Place == {"idle", "save", "removing", "askRemove", "adding", "askAdd", "commit", "status"}

(* The companies that are not deleted.                                      *)
Live     == {c \in Company : company[c].status \in InUse}
Users(a) == {c \in Live : company[c].app = a}
Active   == {c \in Company : company[c].status = "ACTIVE"}
Busy     == {h \in Handler : run[h].at # "idle"}
AppsOf(h) == {run[h].old.app, run[h].new.app} \ {None}
PhoneOf(h) == run[h].new.phone
Removes(h) == run[h].new.status = "DELETE"

(* The request has saved the row of its company, and not yet committed.     *)
Saved(h) == \/ run[h].at \in {"adding", "askAdd", "commit"}
            \/ run[h].at \in {"removing", "askRemove"} /\ Removes(h)

Locked(c) == \E h \in Busy : run[h].c = c /\ Saved(h)

Init ==
    /\ company = [c \in Company |-> NoCompany]
    /\ concretes = {}
    /\ run = [h \in Handler |-> Idle]
    /\ requests = 0 /\ faults = 0
    /\ broken = {} /\ contested = {}

-----------------------------------------------------------------------------
(* Requests *)

(* The request in slot h begins for the company c.                          *)
Begin(h, c, at, old, new) ==
    LET apps == {old.app, new.app} \ {None}
        Meets(g) == run[g].c = c \/ AppsOf(g) \cap apps # {}
    IN  /\ run[h].at = "idle"
        /\ requests < MaxRequests
        /\ requests' = requests + 1
        /\ run' = [run EXCEPT ![h] = [at |-> at, c |-> c, old |-> old, new |-> new,
                                      row |-> new, acted |-> FALSE]]
        /\ broken' = broken \cup UNION {apps \cup AppsOf(g) : g \in {k \in Busy : Meets(k)}}
        /\ contested' = contested \cup ({new.phone} \cap {PhoneOf(g) : g \in Busy})
        /\ UNCHANGED <<company, concretes, faults>>

(* Mutant of PhoneTaken: companies that were removed keep their phones, and *)
(* only they.                                                               *)
PhoneTakenByRemoved(p, c) ==
    \E d \in Company \ {c} : company[d].status = "DELETE" /\ company[d].phone = p

PhoneTaken(p, c) == \E d \in Live \ {c} : company[d].phone = p

Create(h, c, p, a, w, s, status) ==
    /\ company[c] = NoCompany
    /\ \A g \in Busy : run[g].c # c
    /\ ~ PhoneTaken(p, c)
    /\ Begin(h, c, "adding", NoCompany,
             [status |-> status, phone |-> p, app |-> a, password |-> w, server |-> s,
              ok |-> TRUE])

(* The phone of a company never changes.  A change of its status alone is   *)
(* nothing to the worker.                                                   *)
Update(h, c, a, w, s, status) ==
    LET old == company[c]
        new == [old EXCEPT !.status = status, !.app = a, !.password = w, !.server = s, !.ok = TRUE]
    IN  /\ c \in Live
        /\ Begin(h, c, IF ConcreteOf(new) = ConcreteOf(old) /\ s = old.server
                       THEN "save" ELSE "removing", old, new)

Remove(h, c) ==
    /\ c \in Live
    /\ Begin(h, c, "save", company[c], [company[c] EXCEPT !.status = "DELETE"])

Goto(h, at) ==
    /\ run' = [run EXCEPT ![h].at = at]
    /\ UNCHANGED <<company, concretes, requests, faults, broken, contested>>

Changes(h) == ConcreteOf(run[h].new) # ConcreteOf(run[h].old)
              \/ run[h].new.server # run[h].old.server

(* What save() may write over the row that is there: everything as it was   *)
(* read and changed, or, when the row was compared before another request   *)
(* committed, only what this request changes.                               *)
Written(h) ==
    LET old == run[h].old
        new == run[h].new
        now == company[run[h].c]
    IN  {new, [f \in DOMAIN new |-> IF new[f] = old[f] THEN now[f] ELSE new[f]]}

Save(h) ==
    /\ run[h].at = "save"
    /\ ~ Locked(run[h].c)
    /\ \E row \in Written(h) :
         run' = [run EXCEPT ![h].row = row,
                            ![h].at = CASE Removes(h) -> "removing"
                                        [] Changes(h) -> "adding"
                                        [] OTHER      -> "commit"]
    /\ UNCHANGED <<company, concretes, requests, faults, broken, contested>>

(* Mutant of LookUpOld: the other users of the application are not asked.   *)
RemoveAnyway(h) ==
    /\ run[h].at = "removing"
    /\ Goto(h, "askRemove")

(* Whether another company uses the concrete that this one used.            *)
LookUpOld(h) ==
    /\ run[h].at = "removing"
    /\ IF Users(run[h].old.app) \ {run[h].c} = {} THEN Goto(h, "askRemove")
       ELSE Goto(h, IF Removes(h) THEN "commit" ELSE "save")

(* The request fails.  What the worker has done for it stays done.          *)
RollBack(h) ==
    /\ run' = [run EXCEPT ![h] = Idle]
    /\ broken' = IF run[h].acted THEN broken \cup AppsOf(h) ELSE broken

(* Whether another company uses the concrete that this one will use: one    *)
(* whose application is known to work.  Its server must be the same; its    *)
(* password is not compared.                                                *)
LookUpNew(h) ==
    LET new    == run[h].new
        others == Users(new.app) \ {run[h].c}
        Works  == {c \in others : company[c].ok}
        Mixed  == \E c \in others : company[c].password # new.password
    IN  /\ run[h].at = "adding"
        /\ \/ /\ \/ Works = {} /\ run' = [run EXCEPT ![h].at = "askAdd"]
                 \/ \E c \in Works : /\ company[c].server = new.server
                                     /\ run' = [run EXCEPT ![h].at = "commit"]
              /\ broken' = IF Mixed THEN broken \cup {new.app} ELSE broken
           \/ /\ \E c \in Works : company[c].server # new.server
              /\ RollBack(h)
        /\ UNCHANGED <<company, concretes, requests, faults, contested>>

-----------------------------------------------------------------------------
(* The worker *)

(* Mutant of RemoveConcrete: the worker is told of the application to be.   *)
RemoveNewConcrete(h) ==
    /\ run[h].at = "askRemove"
    /\ concretes' = concretes \ {ConcreteOf(run[h].new)}
    /\ run' = [run EXCEPT ![h].at = IF Removes(h) THEN "commit" ELSE "save",
                          ![h].acted = TRUE]
    /\ UNCHANGED <<company, requests, faults, broken, contested>>

RemoveConcrete(h) ==
    /\ run[h].at = "askRemove"
    /\ concretes' = concretes \ {ConcreteOf(run[h].old)}
    /\ run' = [run EXCEPT ![h].at = IF Removes(h) THEN "commit" ELSE "save",
                          ![h].acted = TRUE]
    /\ UNCHANGED <<company, requests, faults, broken, contested>>

AddConcrete(h) ==
    /\ run[h].at = "askAdd"
    /\ concretes' = concretes \cup {ConcreteOf(run[h].new)}
    /\ run' = [run EXCEPT ![h].at = "commit", ![h].acted = TRUE]
    /\ UNCHANGED <<company, requests, faults, broken, contested>>

(* The worker refuses, or its answer comes too late: it may have acted.     *)
AskFails(h) ==
    /\ run[h].at \in {"askRemove", "askAdd"}
    /\ faults < MaxFaults
    /\ faults' = faults + 1
    /\ run' = [run EXCEPT ![h] = Idle]
    /\ \/ /\ concretes' = IF run[h].at = "askAdd" THEN concretes \cup {ConcreteOf(run[h].new)}
                          ELSE concretes \ {ConcreteOf(run[h].old)}
          /\ broken' = broken \cup AppsOf(h)
       \/ /\ UNCHANGED concretes
          /\ broken' = IF run[h].acted THEN broken \cup AppsOf(h) ELSE broken
    /\ UNCHANGED <<company, requests, contested>>

Commit(h) ==
    /\ run[h].at = "commit"
    /\ company' = [company EXCEPT ![run[h].c] = run[h].row]
    /\ run' = [run EXCEPT ![h] = Idle]
    /\ UNCHANGED <<concretes, requests, faults, broken, contested>>

CommitFails(h) ==
    /\ run[h].at = "commit"
    /\ faults < MaxFaults
    /\ faults' = faults + 1
    /\ RollBack(h)
    /\ UNCHANGED <<company, concretes, requests, contested>>

(* The worker reports that an application works, or does not.  It names the *)
(* user; every company found is read and later saved.                       *)
UpdateErrorStatus(h, c, ok) ==
    /\ c \in Live
    /\ Begin(h, c, "status", company[c], [company[c] EXCEPT !.ok = ok])

(* Mutant of SaveStatus: what is saved holds only the columns that changed. *)
SaveStatusOnly(h) ==
    /\ run[h].at = "status"
    /\ ~ Locked(run[h].c)
    /\ company' = [company EXCEPT ![run[h].c] = [NoCompany EXCEPT !.status = run[h].new.status,
                                                                !.ok = run[h].new.ok]]
    /\ run' = [run EXCEPT ![h] = Idle]
    /\ UNCHANGED <<concretes, requests, faults, broken, contested>>

SaveStatus(h) ==
    /\ run[h].at = "status"
    /\ ~ Locked(run[h].c)
    /\ \E row \in Written(h) : company' = [company EXCEPT ![run[h].c] = row]
    /\ run' = [run EXCEPT ![h] = Idle]
    /\ UNCHANGED <<concretes, requests, faults, broken, contested>>

(* Applications that a worker which starts again has not got right: only    *)
(* inactive companies use them, or they are shared with several passwords.  *)
Unfit ==
    {a \in App : \/ Users(a) # {} /\ Users(a) \cap Active = {}
                 \/ \E c, d \in Users(a) : company[c].password # company[d].password}

(* The worker starts again and asks for the active companies (getCompanies).*)
(* When no request is in progress, that mends what was broken.              *)
WorkerRestarts ==
    /\ requests < MaxRequests
    /\ requests' = requests + 1
    /\ concretes' = {ConcreteOf(company[c]) : c \in Active}
    /\ broken' = Unfit \cup (IF Busy = {} THEN {} ELSE broken \cup UNION {AppsOf(h) : h \in Busy})
    /\ UNCHANGED <<company, run, faults, contested>>

Request(h) ==
    \/ \E c \in Company, p \in Phone, a \in App, w \in Password, s \in Server, t \in InUse :
         Create(h, c, p, a, w, s, t)
    \/ \E c \in Company, a \in App, w \in Password, s \in Server, t \in InUse :
         Update(h, c, a, w, s, t)
    \/ \E c \in Company : Remove(h, c)
    \/ \E c \in Company, ok \in BOOLEAN : UpdateErrorStatus(h, c, ok)

Proceed(h) ==
    \/ Save(h)
    \/ LookUpOld(h) \/ RemoveConcrete(h)
    \/ LookUpNew(h) \/ AddConcrete(h)
    \/ AskFails(h)
    \/ Commit(h) \/ CommitFails(h)
    \/ SaveStatus(h)

Next ==
    \/ \E h \in Handler : Request(h) \/ Proceed(h)
    \/ WorkerRestarts

Spec == Init /\ [][Next]_vars

-----------------------------------------------------------------------------
(* Properties *)

(* Rows, requests and connections are well typed.                           *)
TypeOK ==
    /\ company \in [Company -> Row \cup {NoCompany}]
    /\ concretes \subseteq Concrete
    /\ \A h \in Handler : /\ run[h].at \in Place
                          /\ {run[h].old, run[h].new} \subseteq Row \cup {NoCompany}
    /\ broken \subseteq App /\ contested \subseteq Phone

(* The worker has a connection for every company, active or not, under the  *)
(* name that the company's messages give, unless its application is being   *)
(* changed or is among the broken ones.  So whatever overlapping or failed  *)
(* requests broke is right again once the worker has started with none in   *)
(* progress, but where companies share an application with different        *)
(* passwords, and for the companies that were all inactive then: they are   *)
(* not connected when they become active.                                   *)
EveryCompanyIsServed ==
    \A c \in Live :
        ConcreteOf(company[c]) \in concretes
        \/ company[c].app \in broken \cup UNION {AppsOf(h) : h \in Busy}

(* The worker keeps no connection that no company names (same exception);   *)
(* a company that has become inactive still names its own.                  *)
NoConcreteIsLeft ==
    \A k \in concretes :
        \/ \E c \in Users(k.app) : company[c].password = k.password
        \/ k.app \in broken \cup UNION {AppsOf(h) : h \in Busy}

(* A phone belongs to one company: what a customer writes or says to it is  *)
(* one company's.  (Requests that handle it at once may make it two.)       *)
OneCompanyPerPhone ==
    \A c, d \in Live : company[c].phone = company[d].phone
                       => c = d \/ company[c].phone \in contested
=============================================================================
