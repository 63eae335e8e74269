------------------------------ MODULE AuditLog ------------------------------
(***************************************************************************)
(* The audit log: row triggers on users and user_settings, which take the  *)
(* acting user and the request from two settings of the connection, and    *)
(* events that the services record themselves.                             *)
(*                                                                         *)
(* A handler runs its statements one after the other, each on a connection *)
(* taken from the pool of its instance.  save() and remove() open a        *)
(* transaction for their statement, update() does not; the subscriber      *)
(* issues set_config(..., true), which lasts until the end of the          *)
(* transaction, before either.  At start an instance installs the triggers *)
(* before it serves, while others may be serving already.                  *)
(* An account may be deleted while another handler works on it: what a     *)
(* statement changes depends on the rows it still meets, and no caller     *)
(* looks at their number.                                                  *)
(* A change is described by the columns whose values it changes.           *)
(***************************************************************************)
EXTENDS Naturals, Sequences

CONSTANTS
    Users,        \* accounts
    Requests,     \* HTTP requests, each with a request id of its own
    Connections,  \* places in the pool of one instance
    Instances,    \* processes that run the program
    None

ASSUME NoneIsNoRequest == None \notin Requests

Tables == {"users", "user_settings"}

(* AUDITED_TABLES: redactColumns of users; user_settings has none.         *)
Redacted == {"password", "passwordResetToken", "emailVerificationToken", "twoFactorSecret",
             "recoveryCodes"}
Columns  == Redacted \cup {"passwordResetExpires", "emailVerificationExpires", "bio",
                           "isEmailVerified", "language"}

Update(t, cols) == [how |-> "update", table |-> t, cols |-> cols]
Save(t, cols)   == [how |-> "save", table |-> t, cols |-> cols]
Event           == [how |-> "event", table |-> "auth", cols |-> {}]
Remove          == [how |-> "remove", table |-> "users", cols |-> {}]

(* Columns that update() sets to TRUE or NULL: they may hold that already. *)
Fixed == {"isEmailVerified", "passwordResetToken", "passwordResetExpires",
          "emailVerificationToken", "emailVerificationExpires"}

(* Statements of some operations, one for each way to write.  Deletions of *)
(* refresh tokens are left out: that table is not audited.  So is          *)
(* createUser, which nothing calls: registration is closed.                *)
Program ==
  [resetPassword |-> <<Update("users", {"password"}),
                       Update("users", {"passwordResetToken", "passwordResetExpires"}), Event>>,
   verifyEmail   |-> <<Update("user_settings", {"isEmailVerified"}),
                       Update("users", {"emailVerificationToken", "emailVerificationExpires"}),
                       Event>>,
   regenerateRecoveryCodes |-> <<Update("users", {"recoveryCodes"}), Event>>,
   updateProfile  |-> <<Save("users", {"bio"}), Save("user_settings", {"language"})>>,
   changePassword |-> <<Save("users", {"password"})>>,
   deleteUser     |-> <<Remove>>]

Operations == DOMAIN Program

(* The operations behind @Protected: AuthUserInterceptor sets their user.  *)
(* deleteUser has no route; it is taken as one of them.                    *)
Protected == {"regenerateRecoveryCodes", "updateProfile", "changePassword", "deleteUser"}

VARIABLES
    present,   \* rows of the audited tables
    attached,  \* tables that have the trigger
    instance,  \* state of each process
    pool,      \* connections: who holds them, their settings, and the
               \* settings that outlive the transaction
    req,       \* local state of each request's handler
    audit,     \* audit_log, committed
    changes    \* history: committed changes of the audited tables

vars == <<present, attached, instance, pool, req, audit, changes>>

NoContext == [user |-> None, request |-> None]
Context   == [user : Users \cup {None}, request : Requests \cup {None}]
Free      == [by |-> None, tx |-> FALSE, ctx |-> NoContext, session |-> NoContext]
Places    == Instances \X Connections

(* writer and step are not columns: they say which statement of which      *)
(* request caused the row or the change.                                   *)
AuditRow == [table : Tables \cup {"auth"}, op : {"INSERT", "UPDATE", "DELETE", "EVENT"},
             changed_by : Users \cup {None}, request_id : Requests \cup {None},
             writer : Requests, step : 1..3]
Change   == [table : Tables, account : Users, op : {"INSERT", "UPDATE", "DELETE"},
             cols : SUBSET Columns, writer : Requests, step : 1..3]

NotCome == [pc |-> "idle"]
Active  == {"acquire", "context", "write", "commit"}
Handler == [pc      : Active \cup {"done", "failed"},
            op      : Operations,
            account : Users,
            inst    : Instances,
            conn    : Connections \cup {None},
            step    : 1..4,
            found   : {"no", "yes"},       \* what the SELECT of save() has met
            rows    : SUBSET AuditRow,     \* written and not committed
            changed : SUBSET Change]

InFlight(r) == req[r].pc \in Active
Place(r)    == <<req[r].inst, req[r].conn>>
Stmt(r)     == Program[req[r].op][req[r].step]
UserOf(r)   == IF req[r].op \in Protected THEN req[r].account ELSE None

Init ==
    /\ present = Tables \X Users
    /\ attached = {}
    /\ instance = [i \in Instances |-> [at |-> "down", todo |-> {}]]
    /\ pool = [p \in Places |-> Free]
    /\ req = [r \in Requests |-> NotCome]
    /\ audit = {} /\ changes = {}

-----------------------------------------------------------------------------
(* onApplicationBootstrap: the two functions are replaced, ...             *)
StartInstance(i) ==
    /\ instance[i].at = "down"
    /\ instance' = [instance EXCEPT ![i] = [at |-> "attaching", todo |-> Tables]]
    /\ UNCHANGED <<present, attached, pool, req, audit, changes>>

\* faulty: drops and creates the trigger in two transactions
AttachInTwoSteps(i, t) ==
    /\ instance[i].at = "attaching" /\ t \in instance[i].todo
    /\ \/ t \in attached /\ attached' = attached \ {t} /\ UNCHANGED instance
       \/ /\ t \notin attached /\ attached' = attached \cup {t}
          /\ instance' = [instance EXCEPT ![i].todo = @ \ {t}]
    /\ UNCHANGED <<present, pool, req, audit, changes>>

(* ... then DROP TRIGGER and CREATE TRIGGER, table by table: one SELECT,   *)
(* hence one transaction.                                                  *)
AttachAuditLog(i, t) ==
    /\ instance[i].at = "attaching" /\ t \in instance[i].todo
    /\ attached' = attached \cup {t}
    /\ instance' = [instance EXCEPT ![i].todo = @ \ {t}]
    /\ UNCHANGED <<present, pool, req, audit, changes>>

Serve(i) ==
    /\ instance[i].at = "attaching" /\ instance[i].todo = {}
    /\ instance' = [instance EXCEPT ![i].at = "serving"]
    /\ UNCHANGED <<present, attached, pool, req, audit, changes>>

(* A process dies: its transactions are rolled back, its handlers gone.    *)
CrashInstance(i) ==
    /\ instance[i].at # "down"
    /\ instance' = [instance EXCEPT ![i] = [at |-> "down", todo |-> {}]]
    /\ pool' = [p \in Places |-> IF p[1] = i THEN Free ELSE pool[p]]
    /\ req' = [r \in Requests |-> IF InFlight(r) /\ req[r].inst = i
                THEN [req[r] EXCEPT !.pc = "failed", !.conn = None, !.found = "no",
                                    !.rows = {}, !.changed = {}]
                ELSE req[r]]
    /\ UNCHANGED <<present, attached, audit, changes>>

-----------------------------------------------------------------------------
(* A handler that goes as far as its first statement has found the         *)
(* account, and updateProfile its settings.                                *)
Arrive(r, o, u, i) ==
    /\ req[r] = NotCome
    /\ <<"users", u>> \in present
    /\ o = "updateProfile" => <<"user_settings", u>> \in present
    /\ instance[i].at = "serving"
    /\ req' = [req EXCEPT ![r] = [pc |-> "acquire", op |-> o, account |-> u, inst |-> i,
                                  conn |-> None, step |-> 1, found |-> "no", rows |-> {},
                                  changed |-> {}]]
    /\ UNCHANGED <<present, attached, instance, pool, audit, changes>>

(* The row that the statement of r is about.                               *)
RowOf(r) == <<Stmt(r).table, req[r].account>>

(* A connection from the pool; save() selects the row that it is to        *)
(* compare; then all but update() begin a transaction.                     *)
Acquire(r, c) ==
    /\ req[r].pc = "acquire"
    /\ pool[<<req[r].inst, c>>].by = None
    /\ pool' = [pool EXCEPT ![<<req[r].inst, c>>] =
                  [@ EXCEPT !.by = r, !.tx = (Stmt(r).how # "update")]]
    /\ req' = [req EXCEPT ![r] = [@ EXCEPT !.pc = "context", !.conn = c,
                  !.found = IF Stmt(r).how = "save" /\ RowOf(r) \in present
                              THEN "yes" ELSE "no"]]
    /\ UNCHANGED <<present, attached, instance, audit, changes>>

(* What set_config is told: the request, and the user if there is one.     *)
Told(r) == [user |-> IF UserOf(r) # None THEN UserOf(r) ELSE pool[Place(r)].ctx.user,
            request |-> r]

\* faulty: set_config(..., false), for the session
ApplyForSession(r) ==
    /\ req[r].pc = "context"
    /\ pool' = [pool EXCEPT ![Place(r)].ctx = Told(r), ![Place(r)].session = Told(r)]
    /\ req' = [req EXCEPT ![r].pc = "write"]
    /\ UNCHANGED <<present, attached, instance, audit, changes>>

\* faulty: no beforeRemove
ApplyUnlessRemove(r) ==
    /\ req[r].pc = "context"
    /\ pool' = IF pool[Place(r)].tx /\ Stmt(r).how # "remove"
                 THEN [pool EXCEPT ![Place(r)].ctx = Told(r)] ELSE pool
    /\ req' = [req EXCEPT ![r].pc = "write"]
    /\ UNCHANGED <<present, attached, instance, audit, changes>>

(* set_config(..., true): gone at once outside of a transaction.           *)
ApplyContext(r) ==
    /\ req[r].pc = "context"
    /\ IF pool[Place(r)].tx THEN pool' = [pool EXCEPT ![Place(r)].ctx = Told(r)]
                            ELSE UNCHANGED pool
    /\ req' = [req EXCEPT ![r].pc = "write"]
    /\ UNCHANGED <<present, attached, instance, audit, changes>>

(* save() inserts what it has not found.                                   *)
Inserts(r) == Stmt(r).how = "save" /\ req[r].found = "no"

(* An INSERT is refused if the row is there again, if the handler has not  *)
(* loaded the password, as only changePassword does, or if the account of  *)
(* the settings is gone.                                                   *)
Refused(r) ==
    /\ Inserts(r)
    /\ \/ RowOf(r) \in present
       \/ Stmt(r).table = "users" /\ req[r].op # "changePassword"
       \/ <<"users", req[r].account>> \notin present /\ Stmt(r).table # "users"

(* Tables in which a statement waits for the locks of other transactions.  *)
Locked(r) == IF Stmt(r).how = "event" THEN {}
             ELSE IF Stmt(r).how = "remove" \/ Inserts(r) THEN Tables
             ELSE {Stmt(r).table}

Waits(r) ==
    \E q \in Requests \ {r} :
      /\ req[q].pc = "commit"
      /\ \E ch \in req[q].changed : ch.account = req[r].account /\ ch.table \in Locked(r)

(* Columns whose values an UPDATE changes.                                 *)
Altered(s) == {s.cols} \cup IF s.cols \subseteq Fixed THEN {{}} ELSE {}

(* The changes a statement makes: UPDATE and DELETE change no row that is  *)
(* gone, and do not fail for it; user_settings cascades.                   *)
ChangesOf(r, cols) ==
    LET s == Stmt(r)
        Of(t, o, cs) == [table |-> t, account |-> req[r].account, op |-> o, cols |-> cs,
                         writer |-> r, step |-> req[r].step]
    IN CASE s.how = "event"  -> {}
         [] s.how = "remove" -> {Of(t, "DELETE", {}) :
                                   t \in {t \in Tables : <<t, req[r].account>> \in present}}
         [] Inserts(r)       -> {Of(s.table, "INSERT", {})}
         [] OTHER            -> IF RowOf(r) \in present THEN {Of(s.table, "UPDATE", cols)}
                                ELSE {}

(* record_row_change: OLD and NEW are redacted first and compared then, so *)
(* that a change of redacted columns alone is none.                        *)
Recorded(ch) == ch.table \in attached /\ ~(ch.op = "UPDATE" /\ ch.cols \subseteq Redacted)

RecordRowChange(ch, ctx) ==
    [table |-> ch.table, op |-> ch.op, changed_by |-> ctx.user, request_id |-> ctx.request,
     writer |-> ch.writer, step |-> ch.step]

(* AuditService.record takes user and request from the CLS context.        *)
RecordEvent(r) ==
    [table |-> "auth", op |-> "EVENT", changed_by |-> UserOf(r), request_id |-> r,
     writer |-> r, step |-> req[r].step]

RowsOf(r, chs) ==
    {RecordRowChange(ch, pool[Place(r)].ctx) : ch \in {ch \in chs : Recorded(ch)}}
    \cup IF Stmt(r).how = "event" THEN {RecordEvent(r)} ELSE {}

(* After the statement the connection goes back to the pool: settings of   *)
(* the transaction are undone with it, those of the session stay.          *)
Released(p) ==
    [pool EXCEPT ![p] = [pool[p] EXCEPT !.by = None, !.tx = FALSE, !.ctx = pool[p].session]]

GoOn(r) ==
    [req EXCEPT ![r] = [@ EXCEPT !.conn = None, !.found = "no", !.rows = {}, !.changed = {},
        !.step = req[r].step + 1,
        !.pc = IF req[r].step = Len(Program[req[r].op]) THEN "done" ELSE "acquire"]]

GiveUp(r) == [req EXCEPT ![r] = [@ EXCEPT !.conn = None, !.found = "no", !.rows = {},
                                          !.changed = {}, !.pc = "failed"]]

Write(r) ==
    /\ req[r].pc = "write" /\ ~Refused(r) /\ ~Waits(r)
    /\ \E cols \in Altered(Stmt(r)) :
         LET chs == ChangesOf(r, cols) IN
         \/ /\ pool[Place(r)].tx
            /\ req' = [req EXCEPT ![r] = [@ EXCEPT !.pc = "commit", !.rows = RowsOf(r, chs),
                                                   !.changed = chs]]
            /\ UNCHANGED <<pool, audit, changes>>
         \/ /\ ~pool[Place(r)].tx
            /\ audit' = audit \cup RowsOf(r, chs) /\ changes' = changes \cup chs
            /\ pool' = Released(Place(r)) /\ req' = GoOn(r)
    /\ UNCHANGED <<present, attached, instance>>

(* The rows that are there after some changes.                             *)
RowsAfter(chs) ==
    LET By(o) == {<<ch.table, ch.account>> : ch \in {ch \in chs : ch.op = o}}
    IN (present \ By("DELETE")) \cup By("INSERT")

Committed(r) ==
    /\ audit' = audit \cup req[r].rows /\ changes' = changes \cup req[r].changed
    /\ present' = RowsAfter(req[r].changed)

Commit(r) ==
    /\ req[r].pc = "commit"
    /\ Committed(r)
    /\ pool' = Released(Place(r)) /\ req' = GoOn(r)
    /\ UNCHANGED <<attached, instance>>

\* faulty: the handler goes on after any failure
SwallowFailure(r) ==
    /\ req[r].pc \in {"context", "write", "commit"}
    /\ UNCHANGED <<present, audit, changes>>
    /\ pool' = Released(Place(r)) /\ req' = GoOn(r)
    /\ UNCHANGED <<attached, instance>>

(* A statement fails or is refused, and an open transaction is rolled      *)
(* back; whether a COMMIT whose answer is lost was carried out is open.    *)
(* The handler fails, but for a failure to record an event, which is only  *)
(* logged.                                                                 *)
Fail(r) ==
    /\ req[r].pc \in {"context", "write", "commit"}
    /\ \/ UNCHANGED <<present, audit, changes>>
       \/ req[r].pc = "commit" /\ Committed(r)
    /\ pool' = Released(Place(r))
    /\ req' = IF Stmt(r).how = "event" THEN GoOn(r) ELSE GiveUp(r)
    /\ UNCHANGED <<attached, instance>>

Next ==
    \/ \E i \in Instances :
         \/ StartInstance(i) \/ Serve(i) \/ CrashInstance(i)
         \/ \E t \in Tables : AttachAuditLog(i, t)
         \/ \E r \in Requests, o \in Operations, u \in Users : Arrive(r, o, u, i)
    \/ \E r \in Requests :
         \/ \E c \in Connections : Acquire(r, c)
         \/ ApplyContext(r) \/ Write(r) \/ Commit(r) \/ Fail(r)

Spec == Init /\ [][Next]_vars
-----------------------------------------------------------------------------
(* Type invariant of the instances, the connections and the handlers.      *)
TypeOK ==
    /\ present \subseteq Tables \X Users
    /\ attached \subseteq Tables
    /\ instance \in [Instances -> [at : {"down", "attaching", "serving"}, todo : SUBSET Tables]]
    /\ pool \in [Places -> [by : Requests \cup {None}, tx : BOOLEAN,
                          ctx : Context, session : Context]]
    /\ req \in [Requests -> {NotCome} \cup Handler]
    /\ audit \subseteq AuditRow
    /\ changes \subseteq Change

(* Connections are shared by all requests, and their settings are not      *)
(* reset when they change hands: still no audit row names the user or the  *)
(* request of somebody else.                                               *)
ContextIsOwn ==
    \A a \in audit :
      /\ a.request_id \in {a.writer, None}
      /\ a.changed_by \in {UserOf(a.writer), None}

(* save() and remove() do say who it was, for the rows that save() inserts *)
(* again and those that the database deletes by cascade too.               *)
TransactionsAreAttributed ==
    \A a \in audit :
      Program[req[a.writer].op][a.step].how # "update" =>
        a.request_id = a.writer /\ a.changed_by = UserOf(a.writer)

(* Row a, or an event, and change ch come from the same statement.         *)
Tells(a, ch) == ch.writer = a.writer /\ ch.step = a.step /\ ch.table = a.table

Agree(rows, chs) ==
    /\ \A a \in rows : a.op # "EVENT" => \E ch \in chs : Tells(a, ch)
    /\ \A ch \in chs : ch.op # "UPDATE" \/ ~(ch.cols \subseteq Redacted) =>
                       \E a \in rows : Tells(a, ch)

(* The trigger works in the transaction of the change: the log tells of    *)
(* nothing that was rolled back, and misses no change of a column that it  *)
(* does not redact, whichever instances start or die meanwhile.            *)
LogAgreesWithTables == Agree(audit, changes)

(* Statement n of r has changed a row.                                     *)
Carried(r, n) == \E ch \in changes : ch.writer = r /\ ch.step = n

(* Somebody has deleted the row of account u in table t.                   *)
Deleted(t, u) == \E ch \in changes : ch.op = "DELETE" /\ ch.table = t /\ ch.account = u

(* Statement n of r has been carried out: it has changed its row, or there *)
(* was no row to change any more.                                          *)
Done(r, n) == Carried(r, n) \/ Deleted(Program[req[r].op][n].table, req[r].account)

(* An event is recorded when everything that it tells of has been done:    *)
(* each statement before it has changed its row, committed, unless the row *)
(* had been deleted meanwhile.  Then the handler goes on all the same, and *)
(* the event tells of what did not happen.                                 *)
EventsComeLast ==
    \A a \in audit : a.op = "EVENT" => \A n \in 1..(a.step - 1) : Done(a.writer, n)

(* An instance serves when its triggers are there, and only then do its    *)
(* handlers run.                                                           *)
InstancesFit ==
    /\ \A i \in Instances :
         /\ instance[i].at = "serving" => Tables \subseteq attached
         /\ instance[i].at = "attaching" => Tables \subseteq attached \cup instance[i].todo
    /\ \A r \in Requests : InFlight(r) => instance[req[r].inst].at = "serving"

(* A connection holds nothing but what its present transaction was told,   *)
(* and belongs to the handler that has told it.                            *)
ConnectionsFit ==
    /\ \A p \in Places : /\ pool[p].session = NoContext
                         /\ pool[p].by = None => pool[p].ctx = NoContext
    /\ \A r \in Requests : req[r].pc \in {"context", "write", "commit"} =>
         LET held == pool[Place(r)] IN
         /\ req[r].conn \in Connections
         /\ held.by = r /\ held.tx = (Stmt(r).how # "update")
         /\ held.ctx = IF req[r].pc = "context" \/ ~held.tx THEN NoContext
                       ELSE [user |-> UserOf(r), request |-> r]

(* A row that is not there has been deleted.                               *)
AbsentWereDeleted ==
    \A t \in Tables, u \in Users : <<t, u>> \notin present => Deleted(t, u)

(* What the properties ask of one row.                                     *)
RowFits(a) ==
    /\ req[a.writer] # NotCome
    /\ a.request_id \in {a.writer, None} /\ a.changed_by \in {UserOf(a.writer), None}
    /\ Program[req[a.writer].op][a.step].how # "update" =>
         a.request_id = a.writer /\ a.changed_by = UserOf(a.writer)
    /\ a.op = "EVENT" => \A n \in 1..(a.step - 1) : Done(a.writer, n)

(* What r is about to commit carries its statement out.                    *)
CarriesOut(r, chs) ==
    Stmt(r).how # "event" => \/ \E ch \in chs : ch.writer = r /\ ch.step = req[r].step
                             \/ Deleted(Stmt(r).table, req[r].account)

(* A handler has carried out the statements before its present one, and    *)
(* what it is about to commit agrees.                                      *)
WorkFits ==
    \A r \in Requests : req[r] # NotCome =>
      /\ InFlight(r) => req[r].step <= Len(Program[req[r].op])
      /\ \A n \in 1..(req[r].step - 1) : Program[req[r].op][n].how # "event" => Done(r, n)
      /\ req[r].pc = "commit" => CarriesOut(r, req[r].changed)
      /\ Agree(req[r].rows, req[r].changed)
      /\ \A a \in req[r].rows : RowFits(a)

Inv == /\ TypeOK /\ AbsentWereDeleted /\ InstancesFit /\ ConnectionsFit /\ WorkFits
       /\ LogAgreesWithTables /\ \A a \in audit : RowFits(a)

(* "Coverage: every INSERT / UPDATE / DELETE on attached tables"           *)
(* (docs/architecture.md:81).                                              *)
EveryChangeIsLogged ==
    \A ch \in changes : ch.op # "UPDATE" \/ ch.cols # {} => \E a \in audit : Tells(a, ch)
=============================================================================
