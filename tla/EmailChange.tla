----------------------------- MODULE EmailChange -----------------------------
(***************************************************************************)
(* E-mail addresses: verifying the one an account has, and changing it.    *)
(* Both use the columns emailVerificationToken and emailVerification-      *)
(* Expires; a change also sets pendingEmail, by which the two are told     *)
(* apart.  isEmailVerified is in user_settings.                            *)
(*                                                                         *)
(* Handlers read a row, await, and then UPDATE; no transaction spans the   *)
(* two.  save() of an entity loaded before selects the row again and       *)
(* writes the loaded columns that differ (emailVerificationToken is        *)
(* `select: false`, so that no entity has it loaded).                      *)
(* A code that is mailed carries the name of the request that drew it, and *)
(* so does the expiry set with it.                                         *)
(***************************************************************************)
EXTENDS Naturals, Sequences

CONSTANTS
    Users,
    Mailboxes,   \* what an address is up to upper and lower case
    Spellings,   \* ways to spell a mailbox
    Requests,
    None

ASSUME NoneIsNothing == None \notin Requests \cup (Mailboxes \X Spellings)

Address == Mailboxes \X Spellings
LOWER(a) == a[1]

Row == [email : Address, pending : Address \cup {None}, token : Requests \cup {None},
        expires : Requests \cup {None}, verified : BOOLEAN]

VARIABLES
    row,       \* the columns, by account
    lapsed,    \* expiries that have passed
    mailed,    \* <<code, address>>: mail handed to the mail server
    task,      \* local state of each request's handler
    confirmed, \* history: [user, code, address] of the changes made
    proven     \* history: the accounts that have been verified

vars == <<row, lapsed, mailed, task, confirmed, proven>>

Loadable == {"email", "pending", "expires", "verified"}

(* The sets of columns that one save() after the other may write: those    *)
(* changePassword loads, those of the avatar requests, of updateProfile    *)
(* (user, then settings), of updateSettings.                               *)
Saves == {<<{"email", "pending", "expires"}>>, <<{"email"}>>,
          <<{"email"}, {"verified"}>>, <<{"verified"}>>}

Task == [pc   : {"check", "setPending", "mail", "apply", "setVerified", "clearToken",
                 "setToken", "loaded", "write", "done", "refused"},
         kind : {"request", "confirm", "verify", "resend", "save"},
         user : Users,
         seen : Row,                     \* what it has read
         to   : Address \cup {None},     \* address asked for, or to mail to
         code : Requests \cup {None},    \* code presented
         todo : Seq(SUBSET Loadable),    \* saves still to come
         diff : SUBSET Loadable,         \* columns that the next UPDATE writes
         wrote : SUBSET Loadable]        \* columns that save() has written

NotCome == [pc |-> "idle"]

Read(k, u) == [pc |-> "done", kind |-> k, user |-> u, seen |-> row[u], to |-> None,
               code |-> None, todo |-> <<>>, diff |-> {}, wrote |-> {}]
Become(r, t) == task' = [task EXCEPT ![r] = t]
Goto(r, step) == task' = [task EXCEPT ![r].pc = step]

Owner(m) == {u \in Users : LOWER(row[u].email) = m}

Init ==
    /\ row \in [Users -> [email : Address, pending : {None}, token : {None},
                          expires : {None}, verified : BOOLEAN]]
    /\ \A u, v \in Users : u # v => LOWER(row[u].email) # LOWER(row[v].email)
    /\ lapsed = {} /\ mailed = {} /\ confirmed = {}
    /\ proven = {u \in Users : row[u].verified}
    /\ task = [r \in Requests |-> NotCome]

(* The unique index compares the addresses as they are spelt.              *)
Unique(u, a) == \A v \in Users \ {u} : row[v].email # a

-----------------------------------------------------------------------------
(* requestEmailChange: own address first, ...                              *)
RequestEmailChange(r, u, a) ==
    /\ task[r] = NotCome
    /\ Become(r, [Read("request", u) EXCEPT !.to = a,
                    !.pc = IF LOWER(row[u].email) = LOWER(a) THEN "done" ELSE "check"])
    /\ UNCHANGED <<row, lapsed, mailed, confirmed, proven>>

\* faulty: compares the addresses as they are spelt
FindBySpelling(r) ==
    /\ task[r].pc = "check"
    /\ Goto(r, IF \A v \in Users : row[v].email # task[r].to THEN "setPending" ELSE "refused")
    /\ UNCHANGED <<row, lapsed, mailed, confirmed, proven>>

(* ... then those of the others, ...                                       *)
FindByEmail(r) ==
    /\ task[r].pc = "check"
    /\ Goto(r, IF Owner(LOWER(task[r].to)) = {} THEN "setPending" ELSE "refused")
    /\ UNCHANGED <<row, lapsed, mailed, confirmed, proven>>

(* ... then the UPDATE, and the code goes to the new address.              *)
SetPendingEmailChange(r) ==
    /\ task[r].pc = "setPending"
    /\ row' = [row EXCEPT ![task[r].user] =
                 [@ EXCEPT !.pending = task[r].to, !.token = r, !.expires = r]]
    /\ Goto(r, "mail")
    /\ UNCHANGED <<lapsed, mailed, confirmed, proven>>

MailCode(r) ==
    /\ task[r].pc = "mail"
    /\ \/ mailed' = mailed \cup {<<r, task[r].to>>} /\ Goto(r, "done")
       \/ UNCHANGED mailed /\ Goto(r, "refused")
    /\ UNCHANGED <<row, lapsed, confirmed, proven>>

Expired(e) == e # None /\ e \in lapsed

(* confirmEmailChange: every check is made on one row read ...             *)
FindByIdWithPendingEmail(r, u, c) ==
    /\ task[r] = NotCome
    /\ Become(r, [Read("confirm", u) EXCEPT !.code = c, !.to = row[u].pending,
                    !.pc = IF row[u].pending = None \/ row[u].token # c
                              \/ Expired(row[u].expires)
                           THEN "refused" ELSE "apply"])
    /\ UNCHANGED <<row, lapsed, mailed, confirmed, proven>>

\* faulty: takes the pending address as it is by now
ConfirmPending(r) ==
    /\ task[r].pc = "apply"
    /\ LET u == task[r].user IN
         /\ row[u].pending # None /\ Unique(u, row[u].pending)
         /\ row' = [row EXCEPT ![u] = [@ EXCEPT !.email = row[u].pending, !.pending = None,
                                                !.token = None, !.expires = None]]
         /\ confirmed' = confirmed \cup
                           {[user |-> u, code |-> task[r].code, address |-> row[u].pending]}
    /\ Goto(r, "done")
    /\ UNCHANGED <<lapsed, mailed, proven>>

\* faulty: clears the pending address only
ConfirmKeepingToken(r) ==
    /\ task[r].pc = "apply"
    /\ row' = [row EXCEPT ![task[r].user] = [@ EXCEPT !.email = task[r].to, !.pending = None]]
    /\ confirmed' = confirmed \cup {[user |-> task[r].user, code |-> task[r].code,
                                     address |-> task[r].to]}
    /\ Goto(r, "done")
    /\ UNCHANGED <<lapsed, mailed, proven>>

\* faulty: clears the code only
ConfirmKeepingPending(r) ==
    /\ task[r].pc = "apply"
    /\ row' = [row EXCEPT ![task[r].user] = [@ EXCEPT !.email = task[r].to, !.token = None,
                                                      !.expires = None]]
    /\ confirmed' = confirmed \cup {[user |-> task[r].user, code |-> task[r].code,
                                     address |-> task[r].to]}
    /\ Goto(r, "done")
    /\ UNCHANGED <<lapsed, mailed, proven>>

(* ... and the address read there is written.                              *)
ConfirmEmailChange(r) ==
    /\ task[r].pc = "apply"
    /\ LET u == task[r].user IN
         \/ /\ Unique(u, task[r].to)
            /\ row' = [row EXCEPT ![u] = [@ EXCEPT !.email = task[r].to, !.pending = None,
                                                   !.token = None, !.expires = None]]
            /\ confirmed' = confirmed \cup
                              {[user |-> u, code |-> task[r].code, address |-> task[r].to]}
            /\ Goto(r, "done")
         \/ /\ ~Unique(u, task[r].to)
            /\ Goto(r, "refused")
            /\ UNCHANGED <<row, confirmed>>
    /\ UNCHANGED <<lapsed, mailed, proven>>

-----------------------------------------------------------------------------
\* faulty: takes the code of a change as well
FindByAnyToken(r, c) ==
    /\ task[r] = NotCome
    /\ \E u \in Users :
         /\ row[u].token = c /\ row[u].expires # None /\ ~Expired(row[u].expires)
         /\ Become(r, [Read("verify", u) EXCEPT !.code = c, !.pc = "setVerified"])
    /\ UNCHANGED <<row, lapsed, mailed, confirmed, proven>>

(* verifyEmail: the account with that code, unexpired and no change        *)
(* pending; two UPDATEs follow, and then the log-in.                       *)
FindByEmailVerificationToken(r, c) ==
    /\ task[r] = NotCome
    /\ \E u \in Users :
         /\ row[u].token = c /\ row[u].expires # None /\ ~Expired(row[u].expires)
         /\ row[u].pending = None
         /\ Become(r, [Read("verify", u) EXCEPT !.code = c, !.pc = "setVerified"])
    /\ UNCHANGED <<row, lapsed, mailed, confirmed, proven>>

SetEmailVerified(r) ==
    /\ task[r].pc = "setVerified"
    /\ row' = [row EXCEPT ![task[r].user].verified = TRUE]
    /\ proven' = proven \cup {task[r].user}
    /\ Goto(r, "clearToken")
    /\ UNCHANGED <<lapsed, mailed, confirmed>>

ClearEmailVerificationToken(r) ==
    /\ task[r].pc = "clearToken"
    /\ row' = [row EXCEPT ![task[r].user] = [@ EXCEPT !.token = None, !.expires = None]]
    /\ Goto(r, "done")
    /\ UNCHANGED <<lapsed, mailed, confirmed, proven>>

(* resendVerification: the account is found by its address; a verified one *)
(* is answered the same message.                                           *)
ResendVerification(r, u) ==
    /\ task[r] = NotCome
    /\ Become(r, [Read("resend", u) EXCEPT !.to = row[u].email,
                    !.pc = IF row[u].verified THEN "done" ELSE "setToken"])
    /\ UNCHANGED <<row, lapsed, mailed, confirmed, proven>>

SetEmailVerificationToken(r) ==
    /\ task[r].pc = "setToken"
    /\ row' = [row EXCEPT ![task[r].user] = [@ EXCEPT !.token = r, !.expires = r]]
    /\ Goto(r, "mail")
    /\ UNCHANGED <<lapsed, mailed, confirmed, proven>>

-----------------------------------------------------------------------------
(* Requests that load an entity, do something else, and save() it.         *)
LoadUser(r, u, saves) ==
    /\ task[r] = NotCome
    /\ Become(r, [Read("save", u) EXCEPT !.todo = saves, !.pc = "loaded"])
    /\ UNCHANGED <<row, lapsed, mailed, confirmed, proven>>

SelectForSave(r) ==
    /\ task[r].pc = "loaded"
    /\ Become(r, [task[r] EXCEPT !.pc = "write", !.diff =
                    {c \in Head(task[r].todo) : task[r].seen[c] # row[task[r].user][c]}])
    /\ UNCHANGED <<row, lapsed, mailed, confirmed, proven>>

\* faulty: writes the entity whole
WriteLoaded(r) ==
    /\ task[r].pc = "write"
    /\ row' = [row EXCEPT ![task[r].user] = task[r].seen]
    /\ Goto(r, "done")
    /\ UNCHANGED <<lapsed, mailed, confirmed, proven>>

UpdateDiff(r) ==
    /\ task[r].pc = "write"
    /\ LET t    == task[r]
           new  == [c \in DOMAIN t.seen |-> IF c \in t.diff THEN t.seen[c] ELSE row[t.user][c]]
           rest == Tail(t.todo)
       IN \/ /\ Unique(t.user, new.email)
             /\ row' = [row EXCEPT ![t.user] = new]
             /\ Become(r, [t EXCEPT !.todo = rest, !.wrote = @ \cup t.diff,
                                    !.pc = IF rest = <<>> THEN "done" ELSE "loaded"])
          \/ /\ ~Unique(t.user, new.email)
             /\ Goto(r, "refused")
             /\ UNCHANGED row
    /\ UNCHANGED <<lapsed, mailed, confirmed, proven>>

(* A handler is cut off by a crash or by a statement that fails.           *)
Abort(r) ==
    /\ task[r].pc \notin {"idle", "done", "refused"}
    /\ Goto(r, "refused")
    /\ UNCHANGED <<row, lapsed, mailed, confirmed, proven>>

Lapse(c) ==
    /\ \E a \in Address : <<c, a>> \in mailed
    /\ c \notin lapsed
    /\ lapsed' = lapsed \cup {c}
    /\ UNCHANGED <<row, mailed, task, confirmed, proven>>

(* The code of a request whose mail has gone out.                          *)
Received(c) == \E a \in Address : <<c, a>> \in mailed

Next ==
    \E r \in Requests :
      \/ \E u \in Users :
           \/ \E a \in Address : RequestEmailChange(r, u, a)
           \/ \E c \in Requests : Received(c) /\ FindByIdWithPendingEmail(r, u, c)
           \/ ResendVerification(r, u)
           \/ \E saves \in Saves : LoadUser(r, u, saves)
      \/ \E c \in Requests : Received(c) /\ FindByEmailVerificationToken(r, c)
      \/ FindByEmail(r) \/ SetPendingEmailChange(r) \/ MailCode(r)
      \/ ConfirmEmailChange(r)
      \/ SetEmailVerified(r) \/ ClearEmailVerificationToken(r)
      \/ SetEmailVerificationToken(r)
      \/ SelectForSave(r) \/ UpdateDiff(r)
      \/ Abort(r) \/ Lapse(r)

Spec == Init /\ [][Next]_vars

-----------------------------------------------------------------------------
(* Type invariant of the columns, the mail sent and the handlers.          *)
TypeOK ==
    /\ row \in [Users -> Row]
    /\ lapsed \subseteq Requests
    /\ mailed \subseteq Requests \X Address
    /\ task \in [Requests -> {NotCome} \cup Task]
    /\ confirmed \subseteq [user : Users, code : Requests, address : Address]
    /\ proven \subseteq Users

(* A save() has written column c of u back from an entity loaded earlier.  *)
WroteBack(u, c) ==
    \E q \in Requests : task[q] # NotCome /\ task[q].user = u /\ c \in task[q].wrote

(* The index on e-mail compares spellings, the code looks accounts up by   *)
(* LOWER(email).  Two accounts come to share a mailbox only when both have *)
(* changed to it, or a save() has brought an address back: the address of  *)
(* an account that never changes it is not taken by another.               *)
MailboxSharedByChangesOnly ==
    \A u, v \in Users :
      u # v /\ LOWER(row[u].email) = LOWER(row[v].email)
      => \/ WroteBack(u, "email") \/ WroteBack(v, "email")
         \/ \A w \in {u, v} : \E k \in confirmed :
               k.user = w /\ LOWER(k.address) = LOWER(row[w].email)

(* The address confirmed by a code is the one the code was mailed to.  The *)
(* exceptions: resendVerification has put its own code next to the pending *)
(* address, or a save() has put an earlier pending address next to it.     *)
CodeProvesAddress ==
    \A k \in confirmed :
      \/ <<k.code, k.address>> \in mailed
      \/ task[k.code].kind = "resend"
      \/ WroteBack(k.user, "pending")

(* The code of an e-mail change does not verify the present address,       *)
(* unless a save() has wiped out the pending one.                          *)
CodeServesItsPurpose ==
    \A r \in Requests :
      task[r] # NotCome /\ task[r].kind = "verify"
      => task[task[r].code].kind = "resend" \/ WroteBack(task[r].user, "pending")

(* The column no longer holds a code with which a handler has finished:    *)
(* whoever reads it from then on is refused.  Two requests that had both   *)
(* read it before still both go through.                                   *)
SpentCodeIsGone ==
    \A u \in Users :
      /\ \A k \in confirmed : row[u].token # k.code
      /\ \A r \in Requests : task[r].pc = "done" /\ task[r].kind = "verify"
                             => row[u].token # task[r].code

(* A pending address has a code that confirms it.  The exceptions: a       *)
(* verifyEmail that had read the account while nothing was pending has     *)
(* cleared the code, or a save() has brought an address back.              *)
PendingHasCode ==
    \A u \in Users :
      row[u].pending # None /\ row[u].token = None
      => \/ \E q \in Requests : /\ task[q].pc = "done" /\ task[q].kind = "verify"
                                /\ task[q].user = u /\ task[q].seen.pending = None
         \/ WroteBack(u, "pending")

(* An account once verified stays so, unless updateProfile or              *)
(* updateSettings saves settings that it had loaded before.                *)
VerifiedIsKept ==
    \A u \in proven : row[u].verified \/ WroteBack(u, "verified")

-----------------------------------------------------------------------------
(* Which steps belong to which handler, and what it has read there.  The   *)
(* code that a confirmation or a verification has found is of its account. *)
TaskFits(r) ==
    LET t == task[r] IN
    /\ t.pc \in {"check", "setPending"} => t.kind = "request"
    /\ t.pc = "setToken" => t.kind = "resend"
    /\ t.pc = "mail" => t.kind \in {"request", "resend"}
    /\ t.pc = "apply" => t.kind = "confirm"
    /\ t.pc \in {"setVerified", "clearToken"} => t.kind = "verify"
    /\ t.pc \in {"loaded", "write"} => t.kind = "save"
    /\ t.pc \in {"loaded", "write"} => t.todo # <<>>
    /\ t # NotCome /\ t.kind \in {"request", "resend"} => t.to # None
    /\ t.pc = "apply" \/ (t # NotCome /\ t.kind = "verify") =>
         t.code # None /\ Received(t.code) /\ task[t.code].user = t.user
    /\ t.pc = "apply" => /\ t.to = t.seen.pending /\ t.to # None
                         /\ \/ <<t.code, t.to>> \in mailed
                            \/ task[t.code].kind = "resend"
                            \/ WroteBack(t.user, "pending")
    /\ t # NotCome /\ t.kind = "verify" =>
         /\ t.seen.pending = None
         /\ task[t.code].kind = "resend" \/ WroteBack(t.user, "pending")

(* A mail is the last step of the request that drew its code.              *)
MailFits ==
    \A m \in mailed :
      /\ task[m[1]].pc = "done" /\ task[m[1]].kind \in {"request", "resend"}
      /\ m[2] = task[m[1]].to

(* The code in an account's column was stored there by its request, next   *)
(* to the address it is for.                                               *)
TokenFits(u) ==
    LET c == row[u].token IN
    c # None => /\ task[c].pc \in {"mail", "done", "refused"} /\ task[c].user = u
                /\ \/ task[c].kind = "resend"
                   \/ task[c].kind = "request" /\ row[u].pending = task[c].to
                   \/ task[c].kind = "request" /\ WroteBack(u, "pending")

ConfirmedFits ==
    \A k \in confirmed : Received(k.code) /\ task[k.code].user = k.user

(* Addresses that have been found free and may become somebody's.          *)
Asked(a) ==
    \/ \E u \in Users : row[u].pending = a
    \/ \E r \in Requests : /\ task[r] # NotCome
                           /\ \/ task[r].seen.pending = a
                              \/ task[r].pc = "setPending" /\ task[r].to = a

(* Account v has moved to the mailbox that it is in.                       *)
Moved(v) ==
    \/ WroteBack(v, "email")
    \/ \E k \in confirmed : k.user = v /\ LOWER(k.address) = LOWER(row[v].email)

(* Whoever is in the mailbox of such an address has come there since.      *)
FreeWhenAsked ==
    \A a \in Address, v \in Users :
      Asked(a) /\ LOWER(row[v].email) = LOWER(a) => Moved(v)

Inv ==
    /\ TypeOK
    /\ \A r \in Requests : TaskFits(r)
    /\ MailFits
    /\ \A u \in Users : TokenFits(u)
    /\ ConfirmedFits
    /\ FreeWhenAsked
    /\ MailboxSharedByChangesOnly
    /\ CodeProvesAddress
    /\ SpentCodeIsGone
    /\ PendingHasCode
    /\ VerifiedIsKept
=============================================================================
