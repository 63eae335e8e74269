---------------------------- MODULE AuditLogProofs ----------------------------
(***************************************************************************)
(* Proofs about AuditLog, for any number of instances, connections, users  *)
(* and requests.                                                           *)
(***************************************************************************)
EXTENDS AuditLog, TLAPS

Holding == {"context", "write", "commit"}

LEMMA ProgramOK ==
    ASSUME NEW o \in Operations
    PROVE  /\ Len(Program[o]) \in 1..3
           /\ \A n \in 1..Len(Program[o]) :
                LET s == Program[o][n] IN
                /\ s.how \in {"update", "save", "event", "remove"}
                /\ s.how # "event" => s.table \in Tables
                /\ s.how \in {"update", "save"} => s.cols \subseteq Columns
                /\ s.how = "event" => n = Len(Program[o])
<1> USE DEF Update, Save, Event, Remove, Tables, Columns, Redacted
<1>1. CASE o = "resetPassword"
  BY <1>1 DEF Program
<1>2. CASE o = "verifyEmail"
  BY <1>2 DEF Program
<1>3. CASE o = "regenerateRecoveryCodes"
  BY <1>3 DEF Program
<1>4. CASE o = "updateProfile"
  BY <1>4 DEF Program
<1>5. CASE o = "changePassword"
  BY <1>5 DEF Program
<1>6. CASE o = "deleteUser"
  BY <1>6 DEF Program
<1> QED
  BY <1>1, <1>2, <1>3, <1>4, <1>5, <1>6 DEF Operations, Program

LEMMA NotComeIsIdle == NotCome.pc = "idle" /\ \A h \in Handler : h # NotCome /\ h.pc # "idle"
BY DEF NotCome, Handler, Active

LEMMA FreeIsFree ==
    /\ Free.by = None /\ Free.ctx = NoContext /\ Free.session = NoContext
    /\ Free \in [by : Requests \cup {None}, tx : BOOLEAN, ctx : Context, session : Context]
    /\ NoContext \in Context /\ NoContext.user = None
BY DEF Free, NoContext, Context

(* A handler that is at work.                                              *)
LEMMA AtWork ==
    ASSUME Inv, NEW r \in Requests, InFlight(r)
    PROVE  /\ req[r] # NotCome /\ req[r] \in Handler
           /\ req[r].op \in Operations /\ req[r].inst \in Instances
           /\ req[r].step \in 1..Len(Program[req[r].op]) /\ req[r].step \in 1..3
           /\ req[r].pc \in Holding => Place(r) \in Places
           /\ UserOf(r) \in Users \cup {None}
<1>1. req[r] \in Handler /\ req[r] # NotCome
  BY NotComeIsIdle DEF Inv, TypeOK, InFlight, Active
<1>2. req[r].op \in Operations /\ req[r].inst \in Instances /\ req[r].step \in 1..4
      /\ req[r].account \in Users /\ req[r].conn \in Connections \cup {None}
  BY <1>1 DEF Handler
<1>3. req[r].step <= Len(Program[req[r].op])
  BY <1>1 DEF Inv, WorkFits
<1>4. req[r].pc \in Holding => req[r].conn \in Connections
  BY <1>2 DEF Inv, ConnectionsFit, Holding
<1> QED
  BY <1>1, <1>2, <1>3, <1>4, ProgramOK DEF Place, Places, UserOf

LEMMA InitInv == Init => Inv
<1> SUFFICES ASSUME Init PROVE Inv
  OBVIOUS
<1>1. \A r \in Requests : req[r] = NotCome /\ req[r].pc = "idle"
  BY NotComeIsIdle DEF Init
<1>2. \A p \in Places : pool[p] = Free
  BY DEF Init
<1>3. TypeOK
  BY FreeIsFree DEF Init, TypeOK, Tables
<1>4. InstancesFit /\ ConnectionsFit
  BY <1>1, <1>2, FreeIsFree DEF Init, InstancesFit, ConnectionsFit, InFlight, Active
<1>5. WorkFits /\ LogAgreesWithTables /\ \A a \in audit : RowFits(a)
  BY <1>1 DEF Init, WorkFits, LogAgreesWithTables, Agree
<1>6. AbsentWereDeleted
  BY DEF Init, AbsentWereDeleted
<1> QED
  BY <1>3, <1>4, <1>5, <1>6 DEF Inv

-----------------------------------------------------------------------------
(* Rows stay right while handlers stay what they are and changes are only  *)
(* added.                                                                  *)
Same(r) == req'[r] # NotCome /\ req'[r].op = req[r].op /\ req'[r].account = req[r].account

LEMMA RowsStayFit ==
    ASSUME TypeOK, NEW a \in AuditRow, RowFits(a), changes \subseteq changes',
           \A r \in Requests : req[r] # NotCome => Same(r)
    PROVE  RowFits(a)'
<1>1. a.writer \in Requests
  BY DEF AuditRow
<1> QED
  BY <1>1 DEF RowFits, Same, UserOf, Done, Carried, Deleted

LEMMA AgreeUnion ==
    ASSUME NEW A, NEW B, NEW C, NEW D, Agree(A, C), Agree(B, D)
    PROVE  Agree(A \cup B, C \cup D)
BY DEF Agree

(* A row that is gone was deleted, if only those go that changes delete.   *)
LEMMA AbsentStayDeleted ==
    ASSUME AbsentWereDeleted, changes \subseteq changes',
           \A t \in Tables, u \in Users :
             <<t, u>> \notin present' => <<t, u>> \notin present \/ Deleted(t, u)'
    PROVE  AbsentWereDeleted'
BY DEF AbsentWereDeleted, Deleted

(* A request other than the ones that move.                                *)
LEMMA WorkStaysFit ==
    ASSUME Inv, NEW r \in Requests, req'[r] = req[r], req[r] # NotCome,
           changes \subseteq changes',
           \A q \in Requests : req[q] # NotCome => Same(q)
    PROVE  /\ InFlight(r)' => req'[r].step <= Len(Program[req'[r].op])
           /\ \A n \in 1..(req'[r].step - 1) :
                Program[req'[r].op][n].how # "event" => Done(r, n)'
           /\ req'[r].pc = "commit" => CarriesOut(r, req[r].changed)'
           /\ Agree(req'[r].rows, req'[r].changed)
           /\ \A a \in req'[r].rows : RowFits(a)'
<1>1. req[r] \in Handler
  BY DEF Inv, TypeOK
<1>2. \A a \in req[r].rows : a \in AuditRow
  BY <1>1 DEF Handler
<1>3. CarriesOut(r, req[r].changed) => CarriesOut(r, req[r].changed)'
  BY DEF CarriesOut, Stmt, Deleted
<1> QED
  BY <1>2, <1>3, RowsStayFit DEF Inv, WorkFits, InFlight, Done, Carried, Deleted

-----------------------------------------------------------------------------
(* The instances.                                                          *)
LEMMA StartInv ==
    ASSUME Inv, NEW i \in Instances,
           StartInstance(i) \/ Serve(i) \/ \E t \in Tables : AttachAuditLog(i, t)
    PROVE  Inv'
<1>1. UNCHANGED <<present, pool, req, audit, changes>> /\ attached \subseteq attached'
  BY DEF StartInstance, Serve, AttachAuditLog
<1> DEFINE Process == [at : {"down", "attaching", "serving"}, todo : SUBSET Tables]
<1>2. instance[i] \in Process /\ attached \subseteq Tables
  BY DEF Inv, TypeOK
<1> DEFINE Becomes(new) ==
         /\ instance' = [instance EXCEPT ![i] = new] /\ attached' \subseteq Tables
         /\ new.at = "serving" => Tables \subseteq attached'
         /\ new.at = "attaching" => Tables \subseteq attached' \cup new.todo
         /\ instance[i].at = "serving" => new.at = "serving"
<1>3. \E new \in Process : Becomes(new)
  <2>1. CASE StartInstance(i)
    <3> DEFINE new == [at |-> "attaching", todo |-> Tables]
    <3>1. new \in Process /\ new.at = "attaching" /\ new.todo = Tables
      OBVIOUS
    <3>2. instance' = [instance EXCEPT ![i] = new] /\ instance[i].at = "down" /\ attached' = attached
      BY <2>1 DEF StartInstance
    <3> HIDE DEF new
    <3> QED
      BY <1>2, <3>1, <3>2
  <2>2. CASE Serve(i)
    <3> DEFINE new == [instance[i] EXCEPT !.at = "serving"]
    <3>1. new \in Process /\ new.at = "serving"
      BY <1>2
    <3>2. instance' = [instance EXCEPT ![i] = new] /\ attached' = attached
      BY <2>2 DEF Serve
    <3>3. Tables \subseteq attached
      BY <2>2 DEF Serve, Inv, InstancesFit
    <3> HIDE DEF new
    <3> QED
      BY <1>2, <3>1, <3>2, <3>3
  <2>3. ASSUME NEW t \in Tables, AttachAuditLog(i, t)
        PROVE  \E new \in Process : Becomes(new)
    <3> DEFINE new == [instance[i] EXCEPT !.todo = @ \ {t}]
    <3>1. new \in Process /\ new.at = instance[i].at /\ new.todo = instance[i].todo \ {t}
      BY <1>2
    <3>2. /\ instance' = [instance EXCEPT ![i] = new] /\ attached' = attached \cup {t}
          /\ instance[i].at = "attaching"
      BY <2>3 DEF AttachAuditLog
    <3>3. Tables \subseteq attached \cup instance[i].todo
      BY <3>2 DEF Inv, InstancesFit
    <3> HIDE DEF new, Process
    <3> QED
      BY <1>2, <3>1, <3>2, <3>3
  <2> QED
    BY <2>1, <2>2, <2>3
<1>4. PICK new \in Process : Becomes(new)
  BY <1>3
<1> HIDE DEF Process
<1>5. ASSUME NEW j \in Instances
      PROVE  /\ instance'[j].at = "serving" => Tables \subseteq attached'
             /\ instance'[j].at = "attaching" => Tables \subseteq attached' \cup instance'[j].todo
             /\ instance[j].at = "serving" => instance'[j].at = "serving"
  <2>1. CASE j = i
    BY <1>4, <2>1 DEF Inv, TypeOK
  <2>2. CASE j # i
    <3>1. instance'[j] = instance[j]
      BY <1>4, <2>2 DEF Inv, TypeOK
    <3>2. /\ instance[j].at = "serving" => Tables \subseteq attached
          /\ instance[j].at = "attaching" => Tables \subseteq attached \cup instance[j].todo
      BY DEF Inv, InstancesFit
    <3> QED
      BY <1>1, <3>1, <3>2
  <2> QED
    BY <2>1, <2>2
<1>6. InstancesFit'
  <2>1. \A r \in Requests : InFlight(r)' => InFlight(r) /\ req[r].inst \in Instances
    BY <1>1, AtWork DEF InFlight
  <2> QED
    BY <1>1, <1>5, <2>1 DEF InstancesFit, Inv
<1>7. TypeOK'
  BY <1>1, <1>4 DEF Inv, TypeOK, Process
<1>8. ConnectionsFit'
  BY <1>1 DEF Inv, ConnectionsFit, Place, Stmt, UserOf
<1>9. ASSUME NEW a PROVE RowFits(a)' = RowFits(a)
  BY <1>1 DEF RowFits, Done, Carried, Deleted, UserOf
<1>10. WorkFits'
  <2>1. \A r \in Requests : CarriesOut(r, req[r].changed)' = CarriesOut(r, req[r].changed)
    BY <1>1 DEF CarriesOut, Stmt, Deleted
  <2> QED
    BY <1>1, <1>9, <2>1 DEF Inv, WorkFits, InFlight, Done, Carried, Deleted
<1>11. LogAgreesWithTables'
  BY <1>1 DEF Inv, LogAgreesWithTables
<1>12. AbsentWereDeleted'
  BY <1>1, AbsentStayDeleted DEF Inv
<1> QED
  BY <1>1, <1>6, <1>7, <1>8, <1>9, <1>10, <1>11, <1>12 DEF Inv

LEMMA CrashInv ==
    ASSUME Inv, NEW i \in Instances, CrashInstance(i)
    PROVE  Inv'
<1> DEFINE cut(r) == InFlight(r) /\ req[r].inst = i
<1>1. UNCHANGED <<present, attached, audit, changes>>
  BY DEF CrashInstance
<1>2. \A r \in Requests :
        req'[r] = IF cut(r) THEN [req[r] EXCEPT !.pc = "failed", !.conn = None, !.found = "no",
                                                !.rows = {}, !.changed = {}]
                            ELSE req[r]
  BY DEF CrashInstance
<1>3. ASSUME NEW r \in Requests, cut(r)
      PROVE  /\ req'[r] \in Handler /\ req'[r].pc = "failed"
             /\ req'[r].op = req[r].op /\ req'[r].account = req[r].account
             /\ req'[r].step = req[r].step /\ req'[r].rows = {} /\ req'[r].changed = {}
  <2>1. req[r] \in Handler
    BY <1>3, AtWork
  <2>2. req'[r] = [req[r] EXCEPT !.pc = "failed", !.conn = None, !.found = "no",
                                 !.rows = {}, !.changed = {}]
    BY <1>2, <1>3
  <2> QED
    BY <2>1, <2>2 DEF Handler
<1> HIDE DEF cut
<1>4. TypeOK'
  <2>1. req' \in [Requests -> {NotCome} \cup Handler]
    BY <1>2, <1>3 DEF CrashInstance, Inv, TypeOK
  <2>2. pool' \in [Places -> [by : Requests \cup {None}, tx : BOOLEAN, ctx : Context,
                              session : Context]]
    BY FreeIsFree DEF CrashInstance, Inv, TypeOK
  <2> QED
    BY <1>1, <2>1, <2>2 DEF CrashInstance, Inv, TypeOK
<1>5. \A r \in Requests : req[r] # NotCome => Same(r)
  BY <1>2, <1>3, NotComeIsIdle DEF Same
<1>6. InstancesFit'
  <2>1. \A r \in Requests : InFlight(r)' => InFlight(r) /\ req'[r] = req[r] /\ req[r].inst # i
    BY <1>2, <1>3 DEF InFlight, Active, cut
  <2>2. \A r \in Requests : InFlight(r) => req[r].inst \in Instances
    BY AtWork
  <2> QED
    BY <1>1, <2>1, <2>2 DEF CrashInstance, Inv, TypeOK, InstancesFit
<1>7. ConnectionsFit'
  <2>1. \A p \in Places : /\ p[1] = i => pool'[p] = Free
                          /\ p[1] # i => pool'[p] = pool[p]
    BY DEF CrashInstance
  <2>2. ASSUME NEW r \in Requests, req'[r].pc \in Holding
        PROVE  req'[r] = req[r] /\ Place(r) \in Places /\ pool'[Place(r)] = pool[Place(r)]
    <3>1. req'[r] = req[r] /\ ~cut(r)
      BY <1>2, <1>3, <2>2 DEF Holding
    <3>2. Place(r) \in Places /\ Place(r)[1] # i
      BY <2>2, <3>1, AtWork DEF cut, InFlight, Holding, Active, Place
    <3> QED
      BY <2>1, <3>1, <3>2
  <2> QED
    <3>1. \A p \in Places : /\ pool'[p].session = NoContext
                            /\ pool'[p].by = None => pool'[p].ctx = NoContext
      BY <2>1, FreeIsFree DEF Inv, ConnectionsFit
    <3>2. ASSUME NEW r \in Requests, req'[r].pc \in Holding
          PROVE  /\ Place(r)' = Place(r) /\ Stmt(r)' = Stmt(r) /\ UserOf(r)' = UserOf(r)
                 /\ req'[r] = req[r] /\ pool'[Place(r)] = pool[Place(r)]
      BY <2>2, <3>2 DEF Place, Stmt, UserOf
    <3> QED
      BY <3>1, <3>2 DEF Inv, ConnectionsFit, Holding
<1>8. WorkFits'
  <2> SUFFICES ASSUME NEW r \in Requests, req'[r] # NotCome
               PROVE  /\ InFlight(r)' => req'[r].step <= Len(Program[req'[r].op])
                      /\ \A n \in 1..(req'[r].step - 1) :
                           Program[req'[r].op][n].how # "event" => Done(r, n)'
                      /\ req'[r].pc = "commit" => CarriesOut(r, req[r].changed)'
                      /\ Agree(req'[r].rows, req'[r].changed)
                      /\ \A a \in req'[r].rows : RowFits(a)'
    BY DEF WorkFits
  <2>1. CASE cut(r)
    <3>1. \A n \in 1..(req[r].step - 1) :
             Program[req[r].op][n].how # "event" => Done(r, n)'
      BY <1>1, <1>3, <2>1, AtWork DEF cut, Inv, WorkFits, Done, Carried, Deleted
    <3> QED
      BY <1>3, <2>1, <3>1 DEF InFlight, Active, Agree
  <2>2. CASE ~cut(r)
    BY <1>1, <1>2, <1>5, <2>2, WorkStaysFit
  <2> QED
    BY <2>1, <2>2
<1>9. LogAgreesWithTables' /\ \A a \in audit' : RowFits(a)'
  BY <1>1, <1>5, RowsStayFit DEF Inv, TypeOK, LogAgreesWithTables
<1>10. AbsentWereDeleted'
  BY <1>1, AbsentStayDeleted DEF Inv
<1> QED
  BY <1>4, <1>6, <1>7, <1>8, <1>9, <1>10 DEF Inv

-----------------------------------------------------------------------------
(* Handler r becomes h, ...                                                *)
Becomes(r, h) ==
    /\ req' = [req EXCEPT ![r] = h]
    /\ req[r] # NotCome => h.op = req[r].op /\ h.account = req[r].account
    /\ h.pc \in Active => /\ instance[h.inst].at = "serving"
                          /\ h.step <= Len(Program[h.op])

(* ... uses its own connection or a free one, ...                          *)
Connection == [by : Requests \cup {None}, tx : BOOLEAN, ctx : Context, session : Context]

Uses(r, h) ==
    /\ pool' \in [Places -> Connection]
    /\ \A p \in Places : /\ pool'[p] = pool[p] \/ pool[p].by \in {None, r}
                         /\ pool'[p].session = NoContext
                         /\ pool'[p].by = None => pool'[p].ctx = NoContext
    /\ h.pc \in Holding =>
         LET held == pool'[<<h.inst, h.conn>>] IN
         /\ h.conn \in Connections
         /\ held.by = r /\ held.tx = (Program[h.op][h.step].how # "update")
         /\ held.ctx = IF h.pc = "context" \/ ~held.tx THEN NoContext
                       ELSE [user |-> UserOf(r), request |-> r]'

(* ... and works as it should.                                             *)
Works(r, h) ==
    /\ present' \subseteq Tables \X Users
    /\ \A t \in Tables, u \in Users :
         <<t, u>> \notin present' => <<t, u>> \notin present \/ Deleted(t, u)'
    /\ changes \subseteq changes' /\ changes' \subseteq Change /\ audit' \subseteq AuditRow
    /\ \A n \in 1..(h.step - 1) : Program[h.op][n].how # "event" => Done(r, n)'
    /\ h.pc = "commit" => CarriesOut(r, req[r].changed)'
    /\ Agree(h.rows, h.changed) /\ Agree(audit', changes')
    /\ \A a \in h.rows \cup (audit' \ audit) :
         (req[r] # NotCome /\ a \in req[r].rows) \/ RowFits(a)'

LEMMA HandlerMoves ==
    ASSUME Inv, NEW r \in Requests, NEW h \in Handler, UNCHANGED <<attached, instance>>,
           Becomes(r, h), Uses(r, h), Works(r, h)
    PROVE  Inv'
<1> USE DEF Becomes, Uses, Works, Connection
<1>1. req'[r] = h /\ \A q \in Requests \ {r} : req'[q] = req[q]
  BY DEF Inv, TypeOK
<1>2. h # NotCome /\ h.pc # "idle"
  BY NotComeIsIdle
<1>3. TypeOK'
  BY DEF Inv, TypeOK
<1>4. \A q \in Requests : req[q] # NotCome => Same(q)
  BY <1>1, <1>2 DEF Same
<1>9. \A a \in h.rows \cup (audit' \ audit) : RowFits(a)'
  <2>1. req[r] # NotCome => \A a \in req[r].rows : a \in AuditRow /\ RowFits(a)
    BY DEF Inv, TypeOK, WorkFits, Handler
  <2> QED
    BY <1>4, <2>1, RowsStayFit DEF Inv
<1>5. InstancesFit'
  BY <1>1 DEF Inv, InstancesFit, InFlight
<1>6. ConnectionsFit'
  <2> SUFFICES ASSUME NEW q \in Requests, req'[q].pc \in Holding
               PROVE  LET held == pool'[Place(q)'] IN
                      /\ req'[q].conn \in Connections
                      /\ held.by = q /\ held.tx = (Stmt(q)'.how # "update")
                      /\ held.ctx = IF req'[q].pc = "context" \/ ~held.tx THEN NoContext
                                    ELSE [user |-> UserOf(q)', request |-> q]
    BY DEF ConnectionsFit, Holding
  <2>1. CASE q = r
    BY <1>1, <2>1 DEF Place, Stmt
  <2>2. CASE q # r
    <3>1. req'[q] = req[q] /\ Place(q)' = Place(q) /\ Stmt(q)' = Stmt(q) /\ UserOf(q)' = UserOf(q)
      BY <1>1, <2>2 DEF Place, Stmt, UserOf
    <3>2. Place(q) \in Places
      BY <3>1, AtWork DEF InFlight, Holding, Active
    <3>3. pool[Place(q)].by = q /\ q # None
      BY <3>1, NoneIsNoRequest DEF Inv, ConnectionsFit, Holding
    <3>4. pool'[Place(q)] = pool[Place(q)]
      BY <2>2, <3>2, <3>3
    <3> QED
      BY <3>1, <3>4 DEF Inv, ConnectionsFit, Holding
  <2> QED
    BY <2>1, <2>2
<1>7. WorkFits'
  <2> SUFFICES ASSUME NEW q \in Requests, req'[q] # NotCome
               PROVE  /\ InFlight(q)' => req'[q].step <= Len(Program[req'[q].op])
                      /\ \A n \in 1..(req'[q].step - 1) :
                           Program[req'[q].op][n].how # "event" => Done(q, n)'
                      /\ req'[q].pc = "commit" => CarriesOut(q, req[q].changed)'
                      /\ Agree(req'[q].rows, req'[q].changed)
                      /\ \A a \in req'[q].rows : RowFits(a)'
    BY DEF WorkFits
  <2>1. CASE q = r
    BY <1>1, <1>9, <2>1 DEF InFlight
  <2>2. CASE q # r
    BY <1>1, <1>4, <2>2, WorkStaysFit
  <2> QED
    BY <2>1, <2>2
<1>8. \A a \in audit' : RowFits(a)'
  BY <1>4, <1>9, RowsStayFit DEF Inv, TypeOK
<1>10. AbsentWereDeleted'
  BY AbsentStayDeleted DEF Inv
<1> QED
  BY <1>3, <1>5, <1>6, <1>7, <1>8, <1>10 DEF Inv, LogAgreesWithTables

LEMMA ArriveInv ==
    ASSUME Inv, NEW r \in Requests, NEW o \in Operations, NEW u \in Users, NEW i \in Instances,
           Arrive(r, o, u, i)
    PROVE  Inv'
<1> DEFINE h == [pc |-> "acquire", op |-> o, account |-> u, inst |-> i,
                 conn |-> None, step |-> 1, found |-> "no", rows |-> {}, changed |-> {}]
<1>1. h \in Handler
  BY DEF Handler, Active
<1>2. /\ h.pc = "acquire" /\ h.op = o /\ h.inst = i /\ h.step = 1
      /\ h.rows = {} /\ h.changed = {}
  OBVIOUS
<1>3. /\ req[r] = NotCome /\ instance[i].at = "serving" /\ req' = [req EXCEPT ![r] = h]
      /\ UNCHANGED <<present, attached, instance, pool, audit, changes>>
  BY DEF Arrive
<1>4. 1 <= Len(Program[o])
  BY ProgramOK
<1>5. Agree({}, {})
  BY DEF Agree
<1> HIDE DEF h
<1>6. Becomes(r, h)
  BY <1>2, <1>3, <1>4 DEF Becomes
<1>7. Uses(r, h)
  BY <1>2, <1>3 DEF Uses, Inv, TypeOK, ConnectionsFit, Connection, Holding
<1>8. Works(r, h)
  BY <1>2, <1>3, <1>5 DEF Works, Inv, TypeOK, LogAgreesWithTables
<1> QED
  BY <1>1, <1>3, <1>6, <1>7, <1>8, HandlerMoves

(* What a step of a handler at work leaves of what it has done.            *)
LEMMA DoneSoFar ==
    ASSUME Inv, NEW r \in Requests, InFlight(r), UNCHANGED <<present, audit, changes>>,
           NEW h \in Handler, Becomes(r, h), h.step = req[r].step, h.pc # "commit",
           h.rows = req[r].rows, h.changed = req[r].changed
    PROVE  Works(r, h)
<1>1. /\ req[r] # NotCome
      /\ req'[r].op = req[r].op /\ req'[r].account = req[r].account /\ h.op = req[r].op
  BY AtWork DEF Becomes, Inv, TypeOK
<1>2. \A n \in 1..(h.step - 1) : Program[h.op][n].how # "event" => Done(r, n)'
  BY <1>1 DEF Inv, WorkFits, Done, Carried, Deleted
<1>3. Agree(h.rows, h.changed) /\ Agree(audit', changes')
  BY <1>1 DEF Inv, WorkFits, LogAgreesWithTables
<1> QED
  BY <1>1, <1>2, <1>3 DEF Works, Inv, TypeOK

LEMMA AcquireInv ==
    ASSUME Inv, NEW r \in Requests, NEW c \in Connections, Acquire(r, c)
    PROVE  Inv'
<1> DEFINE seen == IF Stmt(r).how = "save" /\ RowOf(r) \in present THEN "yes" ELSE "no"
           h == [req[r] EXCEPT !.pc = "context", !.conn = c, !.found = seen]
           p == <<req[r].inst, c>>
           b == (Stmt(r).how # "update")
           held == [pool[p] EXCEPT !.by = r, !.tx = b]
<1>1. InFlight(r) /\ UNCHANGED <<present, attached, instance, audit, changes>> /\ pool[p].by = None
  BY DEF Acquire, InFlight, Active
<1>2. req[r] \in Handler /\ req[r] # NotCome /\ p \in Places
      /\ req[r].step <= Len(Program[req[r].op])
  BY <1>1, AtWork DEF Places
<1>11. seen \in {"no", "yes"}
  OBVIOUS
<1>12. req' = [req EXCEPT ![r] = h]
  BY <1>2 DEF Acquire, Inv, TypeOK
<1> HIDE DEF seen
<1>3. /\ h \in Handler /\ h.pc = "context" /\ h.op = req[r].op /\ h.account = req[r].account
      /\ h.inst = req[r].inst /\ h.conn = c /\ h.step = req[r].step
      /\ h.rows = req[r].rows /\ h.changed = req[r].changed
  BY <1>2, <1>11 DEF Handler, Active
<1>9. b \in BOOLEAN
  OBVIOUS
<1>10. b = (Stmt(r).how # "update")
  OBVIOUS
<1> HIDE DEF b
<1>4. /\ held \in Connection
      /\ held.by = r /\ held.tx = b /\ held.ctx = NoContext
      /\ held.session = NoContext
  <2>1. pool[p] \in Connection
    BY <1>2 DEF Inv, TypeOK, Connection
  <2>2. pool[p].ctx = NoContext /\ pool[p].session = NoContext
    BY <1>1, <1>2 DEF Inv, ConnectionsFit
  <2> QED
    BY <1>9, <2>1, <2>2 DEF Connection
<1>5. req' = [req EXCEPT ![r] = h] /\ pool' = [pool EXCEPT ![p] = held]
  BY <1>2, <1>12 DEF Acquire, Inv, TypeOK, b
<1> HIDE DEF h, held
<1>6. Becomes(r, h)
  BY <1>1, <1>2, <1>3, <1>5 DEF Becomes, Inv, InstancesFit
<1>7. Uses(r, h)
  <2>1. \A q \in Places : /\ pool'[q] = pool[q] \/ pool[q].by = None
                          /\ pool'[q].session = NoContext
                          /\ pool'[q].by = None => pool'[q].ctx = NoContext
    BY <1>1, <1>2, <1>4, <1>5, NoneIsNoRequest DEF Inv, TypeOK, ConnectionsFit
  <2>2. pool'[p] = held
    BY <1>2, <1>5 DEF Inv, TypeOK
  <2>3. pool' \in [Places -> Connection]
    BY <1>4, <1>5 DEF Inv, TypeOK, Connection
  <2> QED
    BY <1>3, <1>4, <1>10, <2>1, <2>2, <2>3 DEF Uses, Stmt
<1>8. Works(r, h)
  BY <1>1, <1>3, <1>6, DoneSoFar
<1> QED
  BY <1>1, <1>3, <1>6, <1>7, <1>8, HandlerMoves

LEMMA ApplyInv ==
    ASSUME Inv, NEW r \in Requests, ApplyContext(r)
    PROVE  Inv'
<1> DEFINE h == [req[r] EXCEPT !.pc = "write"]
           p == Place(r)
           held == [pool[p] EXCEPT !.ctx = Told(r)]
<1>1. InFlight(r) /\ UNCHANGED <<present, attached, instance, audit, changes>> /\ req[r].pc = "context"
  BY DEF ApplyContext, InFlight, Active
<1>2. /\ req[r] \in Handler /\ req[r] # NotCome /\ p \in Places
      /\ req[r].step <= Len(Program[req[r].op]) /\ UserOf(r) \in Users \cup {None}
  BY <1>1, AtWork DEF Holding
<1>3. /\ h \in Handler /\ h.pc = "write" /\ h.op = req[r].op /\ h.account = req[r].account
      /\ h.inst = req[r].inst /\ h.conn = req[r].conn /\ h.step = req[r].step
      /\ h.rows = req[r].rows /\ h.changed = req[r].changed
  BY <1>2 DEF Handler, Active
<1>4. req' = [req EXCEPT ![r] = h]
  BY <1>2 DEF ApplyContext, Inv, TypeOK
<1>5. /\ pool[p] \in Connection /\ pool[p].by = r /\ pool[p].session = NoContext
      /\ pool[p].tx = (Stmt(r).how # "update") /\ pool[p].ctx = NoContext
      /\ req[r].conn \in Connections
  BY <1>1, <1>2 DEF Inv, TypeOK, ConnectionsFit, Connection
<1>6. Told(r) = [user |-> UserOf(r), request |-> r] /\ Told(r) \in Context
  BY <1>2, <1>5, FreeIsFree DEF Told, Context
<1>7. /\ held \in Connection /\ held.by = r /\ held.session = NoContext
      /\ held.tx = pool[p].tx /\ held.ctx = Told(r)
  BY <1>5, <1>6 DEF Connection
<1>8. pool' = IF pool[p].tx THEN [pool EXCEPT ![p] = held] ELSE pool
  BY <1>2 DEF ApplyContext, Inv, TypeOK
<1>9. UserOf(r)' = UserOf(r)
  BY <1>2, <1>3, <1>4 DEF UserOf, Inv, TypeOK
<1> HIDE DEF h, held
<1>10. Becomes(r, h)
  BY <1>1, <1>2, <1>3, <1>4 DEF Becomes, Inv, InstancesFit
<1>11. Uses(r, h)
  <2>1. \A q \in Places : /\ pool'[q] = pool[q] \/ pool[q].by = r
                          /\ pool'[q].session = NoContext
                          /\ pool'[q].by = None => pool'[q].ctx = NoContext
    BY <1>2, <1>5, <1>7, <1>8, NoneIsNoRequest DEF Inv, TypeOK, ConnectionsFit
  <2>2. pool'[p] = IF pool[p].tx THEN held ELSE pool[p]
    BY <1>2, <1>8 DEF Inv, TypeOK
  <2>3. pool' \in [Places -> Connection]
    BY <1>7, <1>8 DEF Inv, TypeOK, Connection
  <2> QED
    BY <1>3, <1>5, <1>6, <1>7, <1>9, <2>1, <2>2, <2>3 DEF Uses, Stmt, Place
<1>12. Works(r, h)
  BY <1>1, <1>3, <1>10, DoneSoFar
<1> QED
  BY <1>1, <1>3, <1>10, <1>11, <1>12, HandlerMoves

-----------------------------------------------------------------------------
(* What a statement changes and what is recorded of it.                    *)
LEMMA ChangesOK ==
    ASSUME Inv, NEW r \in Requests, InFlight(r), NEW cols \in Altered(Stmt(r))
    PROVE  /\ ChangesOf(r, cols) \subseteq Change
           /\ \A ch \in ChangesOf(r, cols) : ch.writer = r /\ ch.step = req[r].step
           /\ CarriesOut(r, ChangesOf(r, cols))
<1> DEFINE t == Stmt(r).table
           u == req[r].account
           Of(tt, o, cs) == [table |-> tt, account |-> u, op |-> o, cols |-> cs,
                             writer |-> r, step |-> req[r].step]
           Right(chs) == /\ chs \subseteq Change
                         /\ \A ch \in chs : ch.writer = r /\ ch.step = req[r].step
<1>1. req[r].step \in 1..3 /\ u \in Users
  BY AtWork DEF Handler
<1>2. /\ Stmt(r).how \in {"update", "save", "event", "remove"}
      /\ Stmt(r).how # "event" => t \in Tables
      /\ Stmt(r).how \in {"update", "save"} => Stmt(r).cols \subseteq Columns
  BY AtWork, ProgramOK DEF Stmt
<1>3. CASE Stmt(r).how = "event"
  <2>1. ChangesOf(r, cols) = {}
    BY <1>3 DEF ChangesOf, Inserts
  <2> QED
    BY <1>3, <2>1 DEF CarriesOut
<1>4. ASSUME NEW tt \in Tables, NEW o \in {"INSERT", "UPDATE", "DELETE"}, NEW cs \in SUBSET Columns
      PROVE  Right({Of(tt, o, cs)})
  BY <1>1 DEF Change
<1>5. CASE Stmt(r).how = "remove"
  <2>1. ChangesOf(r, cols) = {Of(tt, "DELETE", {}) :
                                tt \in {tt \in Tables : <<tt, u>> \in present}}
    BY <1>5 DEF ChangesOf, Inserts
  <2>2. Right(ChangesOf(r, cols))
    <3>1. ASSUME NEW ch \in ChangesOf(r, cols)
          PROVE  ch \in Change /\ ch.writer = r /\ ch.step = req[r].step
      <4>1. PICK tt \in Tables : ch = Of(tt, "DELETE", {})
        BY <2>1
      <4> QED
        BY <1>4, <4>1
    <3> QED
      BY <3>1
  <2>3. CASE <<t, u>> \in present
    <3>1. Of(t, "DELETE", {}) \in ChangesOf(r, cols)
      BY <1>2, <1>5, <2>1, <2>3
    <3> QED
      BY <2>2, <3>1 DEF CarriesOut
  <2>4. CASE <<t, u>> \notin present
    BY <1>1, <1>2, <1>5, <2>2, <2>4 DEF Inv, AbsentWereDeleted, CarriesOut
  <2> QED
    BY <2>3, <2>4
<1>6. CASE Stmt(r).how \in {"update", "save"}
  <2>1. cols \in SUBSET Columns
    BY <1>2, <1>6 DEF Altered
  <2>2. CASE Inserts(r)
    <3>1. ChangesOf(r, cols) = {Of(t, "INSERT", {})}
      BY <1>6, <2>2 DEF ChangesOf
    <3>2. Right({Of(t, "INSERT", {})})
      BY <1>2, <1>4, <1>6
    <3> QED
      BY <3>1, <3>2 DEF CarriesOut
  <2>3. CASE ~Inserts(r) /\ <<t, u>> \in present
    <3>1. ChangesOf(r, cols) = {Of(t, "UPDATE", cols)}
      BY <1>6, <2>3 DEF ChangesOf, RowOf
    <3>2. Right({Of(t, "UPDATE", cols)})
      BY <1>2, <1>4, <1>6, <2>1
    <3> QED
      BY <3>1, <3>2 DEF CarriesOut
  <2>4. CASE ~Inserts(r) /\ <<t, u>> \notin present
    <3>1. ChangesOf(r, cols) = {}
      BY <1>6, <2>4 DEF ChangesOf, RowOf
    <3>2. Deleted(t, u)
      BY <1>1, <1>2, <1>6, <2>4 DEF Inv, AbsentWereDeleted
    <3> QED
      BY <3>1, <3>2 DEF CarriesOut
  <2> QED
    BY <2>2, <2>3, <2>4
<1> QED
  BY <1>2, <1>3, <1>5, <1>6

LEMMA ContextOK ==
    ASSUME Inv, NEW r \in Requests, req[r].pc = "write"
    PROVE  LET held == pool[Place(r)] IN
           /\ held.tx = (Stmt(r).how # "update")
           /\ ~held.tx => held.ctx = NoContext
           /\ held.tx => held.ctx.user = UserOf(r) /\ held.ctx.request = r
           /\ held.ctx.user \in {UserOf(r), None} /\ held.ctx.request \in {r, None}
           /\ held.ctx \in Context
<1>1. InFlight(r) /\ Place(r) \in Places
  BY AtWork DEF InFlight, Active, Holding
<1> DEFINE held == pool[Place(r)]
           own  == [user |-> UserOf(r), request |-> r]
<1>2. held.ctx \in Context
  BY <1>1 DEF Inv, TypeOK
<1>3. held.tx = (Stmt(r).how # "update") /\ held.ctx = IF ~held.tx THEN NoContext ELSE own
  BY DEF Inv, ConnectionsFit
<1>4. /\ NoContext.user = None /\ NoContext.request = None
      /\ own.user = UserOf(r) /\ own.request = r
  BY DEF NoContext
<1> HIDE DEF held, own
<1>5. /\ ~held.tx => held.ctx = NoContext
      /\ held.tx => held.ctx.user = UserOf(r) /\ held.ctx.request = r
      /\ held.ctx.user \in {UserOf(r), None} /\ held.ctx.request \in {r, None}
  BY <1>3, <1>4
<1> QED
  BY <1>2, <1>3, <1>5 DEF held

LEMMA RowsOK ==
    ASSUME Inv, NEW r \in Requests, req[r].pc = "write", NEW chs \in SUBSET Change,
           \A ch \in chs : ch.writer = r /\ ch.step = req[r].step
    PROVE  /\ RowsOf(r, chs) \subseteq AuditRow
           /\ \A a \in RowsOf(r, chs) : RowFits(a)
           /\ Agree(RowsOf(r, chs), chs)
<1> DEFINE ctx == pool[Place(r)].ctx
           told == {ch \in chs : Recorded(ch)}
<1>1. InFlight(r)
  BY DEF InFlight, Active
<1>2. /\ req[r] # NotCome /\ req[r].step \in 1..3 /\ req[r].op \in Operations
      /\ req[r].step \in 1..Len(Program[req[r].op]) /\ UserOf(r) \in Users \cup {None}
  BY <1>1, AtWork
<1>3. /\ ctx \in Context /\ ctx.user \in {UserOf(r), None} /\ ctx.request \in {r, None}
      /\ Stmt(r).how # "update" => ctx.user = UserOf(r) /\ ctx.request = r
  BY ContextOK
<1>4. chs \subseteq Change /\ \A ch \in chs : ch.writer = r /\ ch.step = req[r].step
  OBVIOUS
<1>5. ASSUME NEW ch \in told
      PROVE  LET a == RecordRowChange(ch, ctx) IN
             /\ a \in AuditRow /\ RowFits(a) /\ Tells(a, ch) /\ a.op # "EVENT"
  <2>1. ch \in Change /\ ch.writer = r /\ ch.step = req[r].step
    BY <1>4
  <2> DEFINE a == RecordRowChange(ch, ctx)
  <2>2. /\ a.table = ch.table /\ a.op = ch.op /\ a.writer = r /\ a.step = req[r].step
        /\ a.changed_by = ctx.user /\ a.request_id = ctx.request
    BY <2>1 DEF RecordRowChange
  <2>3. a \in AuditRow
    BY <1>3, <2>1 DEF RecordRowChange, AuditRow, Change, Context
  <2>4. a.op # "EVENT"
    BY <2>1, <2>2 DEF Change
  <2> HIDE DEF a, ctx
  <2>5. RowFits(a)
    BY <1>2, <1>3, <2>2, <2>4 DEF RowFits, Stmt
  <2> QED
    BY <2>1, <2>2, <2>3, <2>4, <2>5 DEF Tells, a, ctx
<1>6. Stmt(r).how = "event" => RecordEvent(r) \in AuditRow /\ RowFits(RecordEvent(r))
  <2> SUFFICES ASSUME Stmt(r).how = "event"
               PROVE  RecordEvent(r) \in AuditRow /\ RowFits(RecordEvent(r))
    OBVIOUS
  <2> DEFINE a == RecordEvent(r)
  <2>1. /\ a.op = "EVENT" /\ a.writer = r /\ a.step = req[r].step
        /\ a.changed_by = UserOf(r) /\ a.request_id = r
    BY DEF RecordEvent
  <2>2. a \in AuditRow
    BY <1>2 DEF RecordEvent, AuditRow
  <2>3. \A n \in 1..(req[r].step - 1) : Done(r, n)
    <3> SUFFICES ASSUME NEW n \in 1..(req[r].step - 1) PROVE Done(r, n)
      OBVIOUS
    <3>1. Len(Program[req[r].op]) \in Nat
      BY <1>2, ProgramOK
    <3>2. n \in 1..Len(Program[req[r].op]) /\ n # Len(Program[req[r].op])
      BY <1>2, <3>1
    <3>3. Program[req[r].op][n].how # "event"
      BY <1>2, <3>2, ProgramOK
    <3> QED
      BY <1>2, <3>3 DEF Inv, WorkFits
  <2> HIDE DEF a
  <2>4. RowFits(a)
    BY <1>2, <2>1, <2>3 DEF RowFits
  <2> QED
    BY <2>2, <2>4 DEF a
<1>7. RowsOf(r, chs) = {RecordRowChange(ch, ctx) : ch \in told}
                  \cup (IF Stmt(r).how = "event" THEN {RecordEvent(r)} ELSE {})
  BY DEF RowsOf
<1>8. Agree(RowsOf(r, chs), chs)
  <2>1. ASSUME NEW a \in RowsOf(r, chs), a.op # "EVENT"
        PROVE  \E ch \in chs : Tells(a, ch)
    <3>1. RecordEvent(r).op = "EVENT"
      BY DEF RecordEvent
    <3>2. PICK ch \in told : a = RecordRowChange(ch, ctx)
      BY <1>7, <2>1, <3>1
    <3> QED
      BY <1>5, <3>2
  <2>2. ASSUME NEW ch \in chs, ch.op # "UPDATE" \/ ~(ch.cols \subseteq Redacted)
        PROVE  \E a \in RowsOf(r, chs) : Tells(a, ch)
    <3>1. ch.table \in attached
      BY <1>1, <1>4, AtWork DEF Inv, InstancesFit, Change
    <3>2. ch \in told
      BY <2>2, <3>1 DEF Recorded
    <3> QED
      BY <1>5, <1>7, <3>2
  <2> QED
    BY <2>1, <2>2 DEF Agree
<1> QED
  BY <1>5, <1>6, <1>7, <1>8

-----------------------------------------------------------------------------
(* The connection goes back to the pool.                                   *)
LEMMA Releases ==
    ASSUME Inv, NEW r \in Requests, req[r].pc \in Holding, NEW h, h.pc \notin Holding,
           pool' = Released(Place(r))
    PROVE  Uses(r, h)
<1> DEFINE p == Place(r)
           held == [pool[p] EXCEPT !.by = None, !.tx = FALSE, !.ctx = pool[p].session]
<1>1. p \in Places /\ pool[p] \in Connection /\ pool[p].by = r
  BY AtWork DEF Inv, TypeOK, ConnectionsFit, Connection, Holding, InFlight, Active
<1>2. pool[p].session = NoContext
  BY <1>1 DEF Inv, ConnectionsFit
<1>3. held \in Connection /\ held.session = NoContext /\ held.ctx = NoContext
  BY <1>1, <1>2 DEF Connection
<1>4. pool' = [pool EXCEPT ![p] = held]
  BY DEF Released
<1> HIDE DEF held
<1>5. \A q \in Places : /\ pool'[q] = pool[q] \/ pool[q].by = r
                        /\ pool'[q].session = NoContext
                        /\ pool'[q].by = None => pool'[q].ctx = NoContext
  BY <1>1, <1>3, <1>4 DEF Inv, TypeOK, ConnectionsFit
<1>6. pool' \in [Places -> Connection]
  BY <1>3, <1>4 DEF Inv, TypeOK, Connection
<1> QED
  BY <1>5, <1>6 DEF Uses

(* A handler whose statement has ended goes on to the next or gives up.    *)
Left(r, h) ==
    /\ h \in Handler /\ h.pc \in {"acquire", "done", "failed"}
    /\ h.op = req[r].op /\ h.rows = {} /\ h.changed = {}

LEMMA GoesOn ==
    ASSUME Inv, NEW r \in Requests, InFlight(r), req' = GoOn(r)
    PROVE  \E h : Left(r, h) /\ Becomes(r, h) /\ h.step = req[r].step + 1
<1> DEFINE last == req[r].step = Len(Program[req[r].op])
           next == IF last THEN "done" ELSE "acquire"
           h == [req[r] EXCEPT !.conn = None, !.found = "no", !.rows = {}, !.changed = {},
                               !.step = req[r].step + 1, !.pc = next]
<1>1. /\ req[r] \in Handler /\ req[r].op \in Operations /\ req[r].step \in 1..3
      /\ req[r].step \in 1..Len(Program[req[r].op])
      /\ Len(Program[req[r].op]) \in Nat
  BY AtWork, ProgramOK
<1>2. next \in {"done", "acquire"} /\ (next = "acquire" => ~last)
  OBVIOUS
<1>3. req' = [req EXCEPT ![r] = h]
  BY <1>1 DEF GoOn, Inv, TypeOK
<1>6. req[r].step + 1 \in 1..4
  BY <1>1
<1> HIDE DEF next
<1>4. /\ h \in Handler /\ h.pc = next /\ h.op = req[r].op /\ h.account = req[r].account
      /\ h.inst = req[r].inst /\ h.rows = {} /\ h.changed = {} /\ h.step = req[r].step + 1
  BY <1>1, <1>2, <1>6 DEF Handler, Active
<1> HIDE DEF h
<1>5. Becomes(r, h)
  <2>1. instance[h.inst].at = "serving"
    BY <1>4 DEF Inv, InstancesFit
  <2>2. h.pc \in Active => h.step <= Len(Program[h.op])
    BY <1>1, <1>2, <1>4 DEF Active
  <2> QED
    BY <1>3, <1>4, <2>1, <2>2 DEF Becomes
<1> QED
  BY <1>2, <1>4, <1>5 DEF Left

LEMMA GivesUp ==
    ASSUME Inv, NEW r \in Requests, InFlight(r), req' = GiveUp(r)
    PROVE  \E h : Left(r, h) /\ Becomes(r, h) /\ h.step = req[r].step
<1> DEFINE h == [req[r] EXCEPT !.conn = None, !.found = "no", !.rows = {}, !.changed = {},
                               !.pc = "failed"]
<1>1. req[r] \in Handler
  BY AtWork
<1>2. req' = [req EXCEPT ![r] = h]
  BY DEF GiveUp
<1>3. /\ h \in Handler /\ h.pc = "failed" /\ h.op = req[r].op /\ h.account = req[r].account
      /\ h.rows = {} /\ h.changed = {} /\ h.step = req[r].step
  BY <1>1 DEF Handler, Active
<1> HIDE DEF h
<1> QED
  BY <1>2, <1>3 DEF Left, Becomes, Active

(* What is committed agrees and fits.                                      *)
LEMMA Ends ==
    ASSUME Inv, NEW r \in Requests, req[r].pc \in Holding, NEW h, Left(r, h), Becomes(r, h),
           pool' = Released(Place(r)), UNCHANGED <<attached, instance>>,
           NEW rows \in SUBSET AuditRow, NEW chs \in SUBSET Change,
           audit' = audit \cup rows, changes' = changes \cup chs, Agree(rows, chs),
           \A a \in rows : RowFits(a),
           h.step = req[r].step \/ (h.step = req[r].step + 1 /\ CarriesOut(r, chs)),
           present' \subseteq Tables \X Users,
           \A t \in Tables, u \in Users :
             <<t, u>> \notin present' => <<t, u>> \notin present \/ Deleted(t, u)'
    PROVE  Inv'
<1>1. InFlight(r) /\ h.pc \notin Holding /\ h \in Handler
  BY DEF InFlight, Holding, Active, Left
<1>2. req[r] # NotCome /\ req[r].step \in 1..3
  BY <1>1, AtWork
<1>3. Uses(r, h)
  BY <1>1, Releases
<1>6. \A q \in Requests : req[q] # NotCome => Same(q)
  BY <1>1, <1>2, NotComeIsIdle DEF Becomes, Same, Inv, TypeOK
<1>4. \A n \in 1..(h.step - 1) : Program[h.op][n].how # "event" => Done(r, n)'
  <2> SUFFICES ASSUME NEW n \in 1..(h.step - 1), Program[h.op][n].how # "event"
               PROVE  Done(r, n)'
    OBVIOUS
  <2>1. CASE n \in 1..(req[r].step - 1)
    <3>1. Done(r, n)
      BY <1>2, <2>1 DEF Inv, WorkFits, Left
    <3> QED
      BY <1>2, <1>6, <3>1 DEF Done, Carried, Deleted, Same
  <2>2. CASE n \notin 1..(req[r].step - 1)
    <3>1. n = req[r].step /\ h.step = req[r].step + 1
      BY <1>2, <2>2
    <3> QED
      BY <1>2, <1>6, <3>1 DEF Stmt, CarriesOut, Done, Carried, Deleted, Left, Same
  <2> QED
    BY <2>1, <2>2
<1>5. Agree(audit', changes')
  <2>1. Agree(audit, changes)
    BY DEF Inv, LogAgreesWithTables
  <2> QED
    BY <2>1, AgreeUnion
<1>7. \A a \in rows : RowFits(a)'
  BY <1>6, RowsStayFit DEF Inv
<1>8. Works(r, h)
  <2>1. h.rows = {} /\ Agree(h.rows, h.changed) /\ h.pc # "commit"
    BY DEF Left, Agree
  <2>2. changes' \subseteq Change /\ audit' \subseteq AuditRow
    BY DEF Inv, TypeOK
  <2> QED
    BY <1>4, <1>5, <1>7, <2>1, <2>2 DEF Works
<1> QED
  BY <1>1, <1>3, <1>8, HandlerMoves

(* What a handler is about to commit.                                      *)
LEMMA Pending ==
    ASSUME Inv, NEW r \in Requests, req[r].pc = "commit"
    PROVE  /\ req[r].rows \in SUBSET AuditRow /\ req[r].changed \in SUBSET Change
           /\ Agree(req[r].rows, req[r].changed) /\ \A a \in req[r].rows : RowFits(a)
           /\ CarriesOut(r, req[r].changed)
<1>1. req[r] \in Handler /\ req[r] # NotCome
  BY AtWork DEF InFlight, Active
<1> QED
  BY <1>1 DEF Inv, WorkFits, Handler

(* Where the rows go that a commit removes.                                *)
LEMMA RowsGo ==
    ASSUME Inv, NEW chs \in SUBSET Change, changes' = changes \cup chs, present' = RowsAfter(chs)
    PROVE  /\ present' \subseteq Tables \X Users
           /\ \A t \in Tables, u \in Users :
                <<t, u>> \notin present' => <<t, u>> \notin present \/ Deleted(t, u)'
<1> DEFINE By(o) == {<<ch.table, ch.account>> : ch \in {ch \in chs : ch.op = o}}
<1>1. present' = (present \ By("DELETE")) \cup By("INSERT")
  BY DEF RowsAfter
<1>2. \A ch \in chs : ch.table \in Tables /\ ch.account \in Users
  BY DEF Change
<1>3. By("INSERT") \subseteq Tables \X Users
  BY <1>2
<1>4. ASSUME NEW t \in Tables, NEW u \in Users, <<t, u>> \in By("DELETE")
      PROVE  Deleted(t, u)'
  <2>1. PICK ch \in chs : ch.op = "DELETE" /\ <<t, u>> = <<ch.table, ch.account>>
    BY <1>4
  <2> QED
    BY <2>1 DEF Deleted
<1>5. present \subseteq Tables \X Users
  BY DEF Inv, TypeOK
<1> HIDE DEF By
<1> QED
  BY <1>1, <1>3, <1>4, <1>5

LEMMA CommitInv ==
    ASSUME Inv, NEW r \in Requests, Commit(r)
    PROVE  Inv'
<1>1. req[r].pc \in Holding /\ InFlight(r)
  BY DEF Commit, Holding, InFlight, Active
<1>2. PICK h : Left(r, h) /\ Becomes(r, h) /\ h.step = req[r].step + 1
  BY <1>1, GoesOn DEF Commit
<1> QED
  BY <1>1, <1>2, Pending, RowsGo, Ends DEF Commit, Committed

LEMMA FailInv ==
    ASSUME Inv, NEW r \in Requests, Fail(r)
    PROVE  Inv'
<1>1. req[r].pc \in Holding /\ InFlight(r)
  BY DEF Fail, Holding, InFlight, Active
<1>2. PICK h : /\ Left(r, h) /\ Becomes(r, h)
               /\ \/ h.step = req[r].step
                  \/ h.step = req[r].step + 1 /\ Stmt(r).how = "event"
  <2>1. CASE Stmt(r).how = "event"
    BY <1>1, <2>1, GoesOn DEF Fail
  <2>2. CASE Stmt(r).how # "event"
    BY <1>1, <2>2, GivesUp DEF Fail
  <2> QED
    BY <2>1, <2>2
<1>3. CASE UNCHANGED <<present, audit, changes>>
  <2>1. /\ audit' = audit \cup {} /\ changes' = changes \cup {} /\ Agree({}, {})
        /\ present' = present /\ present \subseteq Tables \X Users
    BY <1>3 DEF Agree, Inv, TypeOK
  <2>2. h.step = req[r].step \/ (h.step = req[r].step + 1 /\ CarriesOut(r, {}))
    <3>1. Stmt(r).how = "event" => CarriesOut(r, {})
      BY DEF CarriesOut
    <3> QED
      BY <1>2, <3>1
  <2>3. /\ \A t \in Tables, u \in Users :
             <<t, u>> \notin present' => <<t, u>> \notin present \/ Deleted(t, u)'
        /\ present' \subseteq Tables \X Users
    BY <2>1
  <2>4. pool' = Released(Place(r)) /\ UNCHANGED <<attached, instance>>
    BY DEF Fail
  <2>5. {} \in SUBSET AuditRow /\ {} \in SUBSET Change /\ \A a \in {} : RowFits(a)
    OBVIOUS
  <2> QED
    BY <1>1, <1>2, <2>1, <2>2, <2>3, <2>4, <2>5, Ends
<1>4. CASE req[r].pc = "commit" /\ Committed(r)
  <2>1. \A chs : Stmt(r).how = "event" => CarriesOut(r, chs)
    BY DEF CarriesOut
  <2> QED
    BY <1>1, <1>2, <1>4, <2>1, Pending, RowsGo, Ends DEF Fail, Committed
<1> QED
  BY <1>3, <1>4 DEF Fail

LEMMA WriteInv ==
    ASSUME Inv, NEW r \in Requests, Write(r)
    PROVE  Inv'
<1>1. req[r].pc = "write" /\ InFlight(r) /\ req[r].pc \in Holding
      /\ UNCHANGED <<attached, instance>>
  BY DEF Write, InFlight, Active, Holding
<1>6. PICK cols \in Altered(Stmt(r)) :
         \/ /\ pool[Place(r)].tx
            /\ req' = [req EXCEPT ![r] = [@ EXCEPT !.pc = "commit",
                                            !.rows = RowsOf(r, ChangesOf(r, cols)),
                                            !.changed = ChangesOf(r, cols)]]
            /\ UNCHANGED <<pool, audit, changes>>
         \/ /\ ~pool[Place(r)].tx
            /\ audit' = audit \cup RowsOf(r, ChangesOf(r, cols))
            /\ changes' = changes \cup ChangesOf(r, cols)
            /\ pool' = Released(Place(r)) /\ req' = GoOn(r)
  BY DEF Write
<1> DEFINE chs == ChangesOf(r, cols)
           new == RowsOf(r, chs)
<1>3. chs \in SUBSET Change /\ CarriesOut(r, chs)
      /\ \A ch \in chs : ch.writer = r /\ ch.step = req[r].step
  BY <1>1, ChangesOK
<1> HIDE DEF chs
<1>2. new \in SUBSET AuditRow /\ (\A a \in new : RowFits(a)) /\ Agree(new, chs)
  BY <1>1, <1>3, RowsOK
<1>7. present' = present /\ present \subseteq Tables \X Users
  BY DEF Write, Inv, TypeOK
<1> HIDE DEF new
<1>4. CASE ~pool[Place(r)].tx
  <2>1. /\ audit' = audit \cup new /\ changes' = changes \cup chs
        /\ pool' = Released(Place(r)) /\ req' = GoOn(r)
    BY <1>4, <1>6 DEF chs, new
  <2>2. PICK h : Left(r, h) /\ Becomes(r, h) /\ h.step = req[r].step + 1
    BY <1>1, <2>1, GoesOn
  <2> QED
    BY <1>1, <1>2, <1>3, <1>7, <2>1, <2>2, Ends
<1>5. CASE pool[Place(r)].tx
  <2> DEFINE h == [req[r] EXCEPT !.pc = "commit", !.rows = new, !.changed = chs]
  <2>1. req' = [req EXCEPT ![r] = h] /\ UNCHANGED <<present, pool, audit, changes>>
    BY <1>5, <1>6, <1>7 DEF Inv, TypeOK, chs, new
  <2>2. req[r] \in Handler /\ req[r] # NotCome /\ Place(r) \in Places
        /\ req[r].step <= Len(Program[req[r].op]) /\ req[r].step \in 1..3
    BY <1>1, AtWork
  <2>3. /\ h \in Handler /\ h.pc = "commit" /\ h.op = req[r].op /\ h.account = req[r].account
        /\ h.inst = req[r].inst /\ h.conn = req[r].conn /\ h.step = req[r].step
        /\ h.rows = new /\ h.changed = chs
    BY <1>2, <1>3, <2>2 DEF Handler, Active
  <2> HIDE DEF h
  <2>4. req'[r] = h
    BY <2>1 DEF Inv, TypeOK
  <2>5. UserOf(r)' = UserOf(r) /\ CarriesOut(r, req[r].changed)'
    BY <1>3, <2>1, <2>3, <2>4 DEF UserOf, CarriesOut, Stmt, Deleted
  <2>6. Becomes(r, h)
    BY <1>1, <2>1, <2>2, <2>3 DEF Becomes, Inv, InstancesFit
  <2>7. Uses(r, h)
    <3> DEFINE held == pool[Place(r)]
    <3>1. /\ held.by = r /\ held.tx = (Stmt(r).how # "update") /\ req[r].conn \in Connections
          /\ held.ctx = [user |-> UserOf(r), request |-> r]
      BY <1>1, <1>5 DEF Inv, ConnectionsFit
    <3>2. /\ pool' \in [Places -> Connection]
          /\ \A p \in Places : /\ pool'[p].session = NoContext
                               /\ pool'[p].by = None => pool'[p].ctx = NoContext
      BY <2>1 DEF Inv, TypeOK, ConnectionsFit, Connection
    <3>3. <<h.inst, h.conn>> = Place(r) /\ Program[h.op][h.step] = Stmt(r)
      BY <2>3 DEF Place, Stmt
    <3> QED
      BY <1>5, <2>1, <2>3, <2>5, <3>1, <3>2, <3>3 DEF Uses
  <2>8. Works(r, h)
    <3>1. \A n \in 1..(h.step - 1) : Program[h.op][n].how # "event" => Done(r, n)'
      BY <2>1, <2>2, <2>3, <2>4 DEF Inv, WorkFits, Done, Carried, Deleted
    <3>2. \A q \in Requests : req[q] # NotCome => Same(q)
      BY <2>1, <2>3, <2>4, NotComeIsIdle DEF Same, Inv, TypeOK
    <3>3. \A a \in new : RowFits(a)'
      BY <1>2, <2>1, <3>2, RowsStayFit DEF Inv
    <3> QED
      BY <1>2, <1>7, <2>1, <2>3, <2>5, <3>1, <3>3 DEF Works, Inv, TypeOK, LogAgreesWithTables
  <2> QED
    BY <1>1, <2>3, <2>6, <2>7, <2>8, HandlerMoves
<1> QED
  BY <1>4, <1>5

-----------------------------------------------------------------------------
(* The inductive invariant: instances, connections, handlers and the log   *)
(* fit together in every state of every execution.                         *)
THEOREM Invariance == Spec => []Inv
<1>1. Inv /\ [Next]_vars => Inv'
  <2> SUFFICES ASSUME Inv, [Next]_vars PROVE Inv'
    OBVIOUS
  <2>1. CASE UNCHANGED vars
    <3>1. UNCHANGED <<present, attached, instance, pool, req, audit, changes>>
      BY <2>1 DEF vars
    <3>2. TypeOK' /\ InstancesFit' /\ ConnectionsFit' /\ LogAgreesWithTables'
      BY <3>1 DEF Inv, TypeOK, InstancesFit, ConnectionsFit, LogAgreesWithTables, InFlight,
                  Place, Stmt, UserOf
    <3>3. ASSUME NEW a PROVE RowFits(a)' = RowFits(a)
      BY <3>1 DEF RowFits, Done, Carried, Deleted, UserOf
    <3>4. \A r \in Requests : CarriesOut(r, req[r].changed)' = CarriesOut(r, req[r].changed)
      BY <3>1 DEF CarriesOut, Stmt, Deleted
    <3>5. WorkFits' /\ \A a \in audit' : RowFits(a)'
      BY <3>1, <3>3, <3>4 DEF Inv, WorkFits, InFlight, Done, Carried, Deleted
    <3>6. AbsentWereDeleted'
      BY <3>1, AbsentStayDeleted DEF Inv
    <3> QED
      BY <3>2, <3>5, <3>6 DEF Inv
  <2> QED
    BY <2>1, StartInv, CrashInv, ArriveInv, AcquireInv, ApplyInv, WriteInv, CommitInv, FailInv
       DEF Next
<1> QED
  BY <1>1, InitInv, PTL DEF Spec

(* No audit row names the user or the request of somebody else, however    *)
(* many handlers share the connections.                                    *)
THEOREM ContextNeverLeaks == Spec => []ContextIsOwn
<1>1. Inv => ContextIsOwn
  BY DEF Inv, ContextIsOwn, RowFits
<1> QED
  BY <1>1, Invariance, PTL

(* What save() and remove() change is attributed to who has done it.       *)
THEOREM Attribution == Spec => []TransactionsAreAttributed
<1>1. Inv => TransactionsAreAttributed
  BY DEF Inv, TransactionsAreAttributed, RowFits
<1> QED
  BY <1>1, Invariance, PTL

(* The log tells of nothing rolled back and misses no change that it does  *)
(* not redact, whichever instances start and die.                          *)
THEOREM LogIsTrue == Spec => []LogAgreesWithTables
BY Invariance, PTL DEF Inv

(* An event is recorded after what it tells of, but for rows that had been *)
(* deleted.                                                                *)
THEOREM EventsAreLast == Spec => []EventsComeLast
<1>1. Inv => EventsComeLast
  BY DEF Inv, EventsComeLast, RowFits, Done, Carried, Deleted
<1> QED
  BY <1>1, Invariance, PTL
=============================================================================
