---------------------------- MODULE PasswordReset ----------------------------
(***************************************************************************)
(* Passwords and their reset, composed with the refresh-token sessions of  *)
(* RefreshSessions: password log-in, forgot password, reset password and   *)
(* change password, on the columns password, passwordResetToken and        *)
(* passwordResetExpires of the users table.                                *)
(*                                                                         *)
(* resetPassword writes two tables in three statements and opens no        *)
(* transaction.  changePassword loads the whole entity, awaits bcrypt and  *)
(* calls save(), which selects the row again and writes every loaded       *)
(* column that differs.                                                    *)
(* A password and a reset token are named by the request that set them;    *)
(* None is the password an account starts with.                            *)
(***************************************************************************)
EXTENDS RefreshSessions, Sequences

VARIABLES
    account,    \* the three columns: password, and the token with its expiry
    lapsed,     \* reset tokens whose hour has passed
    mailed,     \* reset tokens that were handed to the mail server
    job,        \* local state of the handlers modelled here
    former,     \* history: passwords an account no longer has
    raced       \* history: requests at work while their user was revoked,
                \* and refreshes of the tokens these obtained

credentials == <<account, lapsed, mailed, former>>
allVars == <<vars, credentials, job, raced>>

Cred == Requests \cup {None}
Column == [password : Cred, resetToken : Cred]

NoJob == [pc |-> "idle"]
Job == [pc      : {"compare", "second", "store", "write", "mail", "reset", "session",
                   "done", "failed"},
        kind    : {"signIn", "refresh", "forgot", "reset", "change"},
        user    : Users,
        session : Sessions,
        given   : Cred,                  \* password presented
        loaded  : Column,                \* columns of the entity read
        back    : BOOLEAN,               \* save() writes the loaded token back
        todo    : Seq({"updatePassword", "clearToken", "revokeAll"}),
        token   : Cred,                  \* reset token presented
        proof   : Cred,                  \* password that authenticated the session
        retired : SUBSET Cred]           \* passwords that this reset put an end to

(* resetPassword's statements in the order of the code.                    *)
\* faulty: revokes first, so a log-in with the old password fits in between
RevokeFirst == <<"revokeAll", "updatePassword", "clearToken">>
\* faulty: the link is spent before it has set a password
ClearFirst == <<"clearToken", "updatePassword", "revokeAll">>
\* faulty: forgets the token
KeepToken == <<"updatePassword", "revokeAll">>

ResetStatements == <<"updatePassword", "clearToken", "revokeAll">>

AtWork(r) == job[r].pc \notin {"idle", "done", "failed"}

Advance(r, step) == job' = [job EXCEPT ![r].pc = step]

Open(r, k, u, s) ==
    [pc |-> "session", kind |-> k, user |-> u, session |-> s, given |-> None,
     loaded |-> account[u], back |-> FALSE, todo |-> <<>>, token |-> None, proof |-> None, retired |-> {}]

-----------------------------------------------------------------------------
PRInit ==
    /\ Init
    /\ account = [u \in Users |-> [password |-> None, resetToken |-> None]]
    /\ lapsed = {} /\ mailed = {} /\ raced = {}
    /\ former = [u \in Users |-> {}]
    /\ job = [r \in Requests |-> NoJob]

(* login / changePassword: the row is read with its password ...           *)
LoadUser(r, k, u, s, g) ==
    /\ job[r] = NoJob
    /\ job' = [job EXCEPT ![r] = [Open(r, k, u, s) EXCEPT !.pc = "compare", !.given = g]]
    /\ UNCHANGED <<vars, credentials, raced>>

(* ... and bcrypt compares off the event loop.  A log-in that succeeds     *)
(* goes on in RefreshSessions, or is given a temporary token when the      *)
(* account asks for a second factor (which it does is left open here).     *)
ValidateUser(r) ==
    /\ job[r].pc = "compare" /\ job[r].kind = "signIn"
    /\ \/ /\ job[r].given = job[r].loaded.password
          /\ StartLogin(r, job[r].user, job[r].session)
          /\ job' = [job EXCEPT ![r].pc = "session", ![r].proof = job[r].given]
       \/ /\ job[r].given = job[r].loaded.password
          /\ job' = [job EXCEPT ![r].pc = "second", ![r].proof = job[r].given]
          /\ UNCHANGED vars
       \/ /\ job[r].given # job[r].loaded.password
          /\ Advance(r, "failed")
          /\ UNCHANGED vars
    /\ UNCHANGED <<credentials, raced>>

(* verifyTwoFactor accepts the temporary token and the code: the password  *)
(* is not asked for again.                                                 *)
VerifyTwoFactor(r) ==
    /\ job[r].pc = "second"
    /\ StartLogin(r, job[r].user, job[r].session)
    /\ Advance(r, "session")
    /\ UNCHANGED <<credentials, raced>>

ComparePassword(r) ==
    /\ job[r].pc = "compare" /\ job[r].kind = "change"
    /\ Advance(r, IF job[r].given = job[r].loaded.password THEN "store" ELSE "failed")
    /\ UNCHANGED <<vars, credentials, raced>>

(* save(user) selects the row again and takes note of the loaded columns   *)
(* that differ from it; the new password always does ...                   *)
SelectForSave(r) ==
    /\ job[r].pc = "store" /\ job[r].kind = "change"
    /\ job' = [job EXCEPT ![r].pc = "write",
                          ![r].back = job[r].loaded.resetToken # account[job[r].user].resetToken]
    /\ UNCHANGED <<vars, credentials, raced>>

(* ... and an UPDATE writes those columns.                                 *)
SaveUser(r) ==
    /\ job[r].pc = "write"
    /\ LET u == job[r].user IN
         /\ account' = [account EXCEPT ![u].password = r,
              ![u].resetToken = IF job[r].back THEN job[r].loaded.resetToken ELSE @]
         /\ former' = [former EXCEPT ![u] = @ \cup {account[u].password}]
    /\ Advance(r, "done")
    /\ UNCHANGED <<vars, lapsed, mailed, raced>>

(* forgotPassword: store the token, then mail it.                          *)
StartForgot(r, u, s) ==
    /\ job[r] = NoJob
    /\ job' = [job EXCEPT ![r] = [Open(r, "forgot", u, s) EXCEPT !.pc = "store"]]
    /\ UNCHANGED <<vars, credentials, raced>>

UpdatePasswordResetToken(r) ==
    /\ job[r].pc = "store" /\ job[r].kind = "forgot"
    /\ account' = [account EXCEPT ![job[r].user].resetToken = r]
    /\ Advance(r, "mail")
    /\ UNCHANGED <<vars, lapsed, mailed, former, raced>>

MailResetToken(r) ==
    /\ job[r].pc = "mail"
    /\ \/ mailed' = mailed \cup {r} /\ Advance(r, "done")
       \/ UNCHANGED mailed /\ Advance(r, "failed")
    /\ UNCHANGED <<vars, account, lapsed, former, raced>>

-----------------------------------------------------------------------------
(* findByPasswordResetToken: the account that has the token, unexpired.    *)
FindByPasswordResetToken(r, t, s) ==
    /\ job[r] = NoJob
    /\ t \in mailed
    /\ \E u \in Users :
         /\ account[u].resetToken = t /\ t \notin lapsed
         /\ job' = [job EXCEPT ![r] = [Open(r, "reset", u, s) EXCEPT
                      !.pc = "reset", !.token = t, !.todo = ResetStatements]]
    /\ UNCHANGED <<vars, credentials, raced>>

NextStatement(r) == Head(job[r].todo)

StatementDone(r) == LET rest == Tail(job[r].todo) IN
    [job EXCEPT ![r].todo = rest, ![r].pc = IF rest = <<>> THEN "done" ELSE "reset"]

UpdatePassword(r) ==
    /\ job[r].pc = "reset" /\ NextStatement(r) = "updatePassword"
    /\ LET u == job[r].user IN
         /\ account' = [account EXCEPT ![u].password = r]
         /\ former' = [former EXCEPT ![u] = @ \cup {account[u].password}]
         /\ job' = [StatementDone(r) EXCEPT ![r].retired = former[u] \cup {account[u].password}]
    /\ UNCHANGED <<vars, lapsed, mailed, raced>>

ClearPasswordResetToken(r) ==
    /\ job[r].pc = "reset" /\ NextStatement(r) = "clearToken"
    /\ account' = [account EXCEPT ![job[r].user].resetToken = None]
    /\ job' = StatementDone(r)
    /\ UNCHANGED <<vars, lapsed, mailed, former, raced>>

(* revokeAllForUser is a request of RefreshSessions; its DELETE is theirs. *)
BeginRevocation(r) ==
    /\ job[r].pc = "reset" /\ NextStatement(r) = "revokeAll"
    /\ req[r] = Idle
    /\ Begin(r, "revokeAll", job[r].user, job[r].session, None, "revokeAll")
    /\ UNCHANGED <<credentials, job, raced>>

Revoke(r) ==
    /\ job[r].pc = "reset" /\ NextStatement(r) = "revokeAll"
    /\ RevokeAllForUser(r)
    /\ job' = StatementDone(r)
    /\ raced' = raced \cup {q \in Requests : AtWork(q) /\ job[q].user = job[r].user}
    /\ UNCHANGED credentials

-----------------------------------------------------------------------------
(* POST /auth/refresh carries the session and what authenticated it on.    *)
Refresh(r, x, s) ==
    /\ job[r] = NoJob
    /\ StartRefresh(r, x, s)
    /\ job' = [job EXCEPT ![r] = [Open(r, "refresh", req[x].user, s) EXCEPT
                                    !.proof = job[x].proof]]
    /\ raced' = IF x \in raced THEN raced \cup {r} ELSE raced
    /\ UNCHANGED credentials

(* Log-ins and refreshes run on in RefreshSessions.                        *)
SessionStep(r) ==
    /\ job[r].pc = "session"
    /\ Handle(r) \/ Crash(r)
    /\ IF req'[r].pc \in Finished THEN Advance(r, "done") ELSE UNCHANGED job
    /\ UNCHANGED <<credentials, raced>>

(* The process dies, or a statement fails, with the rest left undone; the  *)
(* temporary token lapses.                                                 *)
Abort(r) ==
    /\ job[r].pc \in {"compare", "second", "store", "write", "mail", "reset"}
    /\ Advance(r, "failed")
    /\ IF InFlight(r) THEN Crash(r) ELSE UNCHANGED vars
    /\ UNCHANGED <<credentials, raced>>

TokenLapses(t) ==
    /\ t \in mailed \ lapsed
    /\ lapsed' = lapsed \cup {t}
    /\ UNCHANGED <<vars, account, mailed, former, job, raced>>

(* Passwords worth presenting; any other fails, as Abort does at "compare". *)
Presented(u) == former[u] \cup {account[u].password}

PRNext ==
    \E r \in Requests :
      \/ \E u \in Users, s \in Sessions : \E g \in Presented(u) :
           LoadUser(r, "signIn", u, s, g) \/ LoadUser(r, "change", u, s, g)
      \/ \E u \in Users, s \in Sessions : StartForgot(r, u, s)
      \/ \E t \in Requests, s \in Sessions : FindByPasswordResetToken(r, t, s)
      \/ \E x \in Requests, s \in Sessions : Refresh(r, x, s)
      \/ ValidateUser(r) \/ VerifyTwoFactor(r) \/ ComparePassword(r)
      \/ SelectForSave(r) \/ SaveUser(r)
      \/ UpdatePasswordResetToken(r) \/ MailResetToken(r)
      \/ UpdatePassword(r) \/ ClearPasswordResetToken(r)
      \/ BeginRevocation(r) \/ Revoke(r)
      \/ SessionStep(r) \/ Abort(r) \/ TokenLapses(r)

PRSpec == PRInit /\ [][PRNext]_allVars

-----------------------------------------------------------------------------
(* Type invariant of the account columns and of the handlers.              *)
PRTypeOK ==
    /\ TypeOK
    /\ account \in [Users -> Column]
    /\ former \in [Users -> SUBSET Cred]
    /\ lapsed \subseteq mailed /\ mailed \subseteq Requests /\ raced \subseteq Requests
    /\ job \in [Requests -> {NoJob} \cup Job]

(* Once a reset has answered, a session that was authenticated with a      *)
(* password from before it is live only if its log-in or refresh was at    *)
(* work at the moment of revocation (for a log-in, from reading the row    *)
(* until its temporary token is used) and stored its token after it:       *)
(* nobody who starts later gets in with the old password.  (resetPassword  *)
(* updates the password before it revokes.)                                *)
OldPasswordOnlyByRace ==
    \A r \in Requests : job[r].pc = "done" /\ job[r].kind = "reset" =>
      \A t \in rows : t.user = job[r].user /\ job[t.secret].proof \in job[r].retired
                      => t.secret \in raced

(* The token that a finished reset was given is no longer in the column,   *)
(* unless a changePassword had loaded it before and its save() has put it  *)
(* back.  (Two resets that had both found the token before either cleared  *)
(* it both go through.)                                                    *)
UsedTokenStaysCleared ==
    \A r \in Requests : job[r].pc = "done" /\ job[r].kind = "reset" =>
      \/ account[job[r].user].resetToken # job[r].token
      \/ \E q \in Requests : /\ job[q].pc = "done" /\ job[q].kind = "change"
                             /\ job[q].back /\ job[q].loaded.resetToken = job[r].token

(* A reset that is cut off has wasted nobody's link: a stored reset token  *)
(* goes only when a newer one replaces it, when a stale save() writes over *)
(* it, or at the hand of a reset that has set its own password before.     *)
(* (resetPassword opens no transaction and clears the token second.)       *)
LinkGoneOnlyByUse ==
    [][\A u \in Users :
         account[u].resetToken # None /\ account'[u].resetToken # account[u].resetToken =>
           \E r \in Requests :
             /\ job[r] # NoJob /\ job[r].user = u /\ job'[r] # job[r]
             /\ \/ job[r].kind = "forgot" /\ account'[u].resetToken = r
                \/ job[r].kind = "change" /\ job[r].back
                \/ job[r].kind = "reset" /\ r \in former[u] \cup {account[u].password}]_allVars

(* What a handler has still to do, and the request of RefreshSessions that *)
(* carries its name, are those of its kind and of its user; a refresh has  *)
(* its proof from the request whose token it was shown.                    *)
JobFits(r) ==
    /\ job[r].pc = "reset" =>
         /\ job[r].kind = "reset"
         /\ job[r].todo \in {ResetStatements, Tail(ResetStatements),
                             Tail(Tail(ResetStatements))}
    /\ job[r].pc = "second" => job[r].kind = "signIn"
    /\ job[r].pc = "write" => job[r].kind = "change"
    /\ job[r].pc = "mail" => job[r].kind = "forgot"
    /\ job[r].pc = "session" => InFlight(r) /\ job[r].kind \in {"signIn", "refresh"}
    /\ req[r] # Idle =>
         /\ job[r] # NoJob /\ job[r].user = req[r].user
         /\ \/ job[r].kind = "reset" /\ req[r].op = "revokeAll"
            \/ /\ <<job[r].kind, req[r].op>> \in {<<"signIn", "login">>, <<"refresh", "refresh">>}
               /\ job[r].pc \in {"session", "done"}
    /\ job[r] # NoJob /\ job[r].kind = "refresh" =>
         LET x == req[r].shown IN
           /\ job[r].pc \in {"session", "done"}
           /\ x \in Requests /\ Delivered(x)
           /\ job[x].user = job[r].user /\ job[x].proof = job[r].proof
           /\ x \in raced => r \in raced

(* Request r has not yet written the password or the token it is to set.   *)
Unwritten(r) ==
    \/ job[r] = NoJob
    \/ job[r].pc \in {"compare", "store", "write"}
    \/ job[r].pc = "reset" /\ job[r].todo = ResetStatements

(* Passwords are set once, and tokens mailed after they have been stored.  *)
CredentialsAreFresh ==
    /\ \A u \in Users :
         /\ account[u].password \notin former[u]
         /\ \A r \in former[u] \cup {account[u].password} : r # None => ~Unwritten(r)
    /\ \A t \in mailed : job[t].pc = "done" /\ job[t].kind = "forgot"
    /\ \A r \in Requests : job[r] # NoJob =>
         /\ job[r].retired \subseteq former[job[r].user]
         /\ job[r].kind = "reset" => job[r].token \in mailed

(* Reset r has revoked the sessions of its user.                           *)
HasReset(r) == job[r].pc = "done" /\ job[r].kind = "reset"

(* Request q, if it was not at work when r revoked, cannot prove itself by *)
(* a password that r has retired; if it is a refresh of a session that     *)
(* once did so, it finds the session gone.                                 *)
ShutOut(r, q) ==
    job[q] # NoJob /\ job[q].user = job[r].user =>
      \/ q \in raced
      \/ job[q].pc = "compare" /\ job[q].loaded.password \notin job[r].retired
      \/ job[q].pc # "compare" /\ job[q].proof \notin job[r].retired
      \/ /\ job[q].pc \notin {"compare", "second"}
         /\ job[q].pc = "session" =>
              /\ job[q].kind = "refresh" /\ req[q].pc \in {"lookup", "validate"}
              /\ req[q].pc = "validate" => req[q].entry # req[q].shown
         /\ \A t \in rows : t.secret # q

RetiredIsShutOut == \A r, q \in Requests : HasReset(r) => ShutOut(r, q)

(* Reset r is past the clearing of the token ...                           *)
HasCleared(r) ==
    \/ HasReset(r)
    \/ job[r].pc = "reset" /\ job[r].todo = Tail(Tail(ResetStatements))

(* ... which is gone, or brought back by a save().                         *)
TokenGone(r) ==
    \/ account[job[r].user].resetToken # job[r].token
    \/ \E q \in Requests : /\ job[q].pc = "done" /\ job[q].kind = "change"
                           /\ job[q].back /\ job[q].loaded.resetToken = job[r].token

(* Reset r is past its first statement, and its password is or was that of *)
(* the account.                                                            *)
HasSet(r) == job[r].pc = "reset" /\ job[r].todo # ResetStatements

PasswordSet(r) == r \in former[job[r].user] \cup {account[job[r].user].password}

PRInv ==
    /\ Inv
    /\ PRTypeOK
    /\ \A r \in Requests : JobFits(r)
    /\ CredentialsAreFresh
    /\ RetiredIsShutOut
    /\ \A r \in Requests : HasCleared(r) => TokenGone(r)
    /\ \A r \in Requests : HasSet(r) => PasswordSet(r)
=============================================================================
