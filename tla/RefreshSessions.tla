--------------------------- MODULE RefreshSessions ---------------------------
(***************************************************************************)
(* The refresh_tokens table and the requests that work on it: log-in       *)
(* completion, token refresh, log-out and "revoke everything".  None of    *)
(* these handlers opens a transaction, so every awaited statement is an    *)
(* action of its own and the statements of concurrent requests interleave. *)
(*                                                                         *)
(* A request runs once.  Its identity doubles as the refresh secret that   *)
(* it generates (randomBytes, so no two requests share one) and as the id  *)
(* of the row it inserts.  The token a client holds is <user>.<secret>;    *)
(* the client sends its session id separately.                             *)
(***************************************************************************)
CONSTANTS
    Users,      \* accounts
    Sessions,   \* session ids; users may pick colliding ones
    Requests,   \* HTTP requests, each also naming the secret it generates
    None        \* no secret

ASSUME NoneIsNoRequest == None \notin Requests

VARIABLES
    users,      \* users table: the accounts that exist
    rows,       \* refresh_tokens table
    stored,     \* history: the secrets whose INSERT has committed
    expired,    \* secrets whose expiresAt has passed
    req         \* local state of each request's handler

vars == <<users, rows, stored, expired, req>>

Row == [user : Users, session : Sessions, secret : Requests]

Active   == {"lookup", "validate", "cleanup", "owner", "revoke", "revokeAll",
             "access", "clear", "save", "respond"}
Finished == {"answered", "rejected", "crashed"}
Idle     == [pc |-> "idle"]
Started  == [pc      : Active \cup Finished,
             op      : {"login", "refresh", "logout", "revokeAll"},
             user    : Users,
             session : Sessions,
             shown   : Requests \cup {None},  \* secret in the presented token
             entry   : Requests \cup {None},  \* secret of the row it has read
             rotated : {"no", "yes"},   \* history: it has revoked the row it was shown,
             late    : {"no", "yes"}]   \* history: another one had before it read

InFlight(r) == req[r].pc \in Active
Goto(r, step) == req' = [req EXCEPT ![r].pc = step]

(* The token of request r has reached the client: it may be presented.     *)
Delivered(r) == req[r].pc = "answered" /\ req[r].op \in {"login", "refresh"}

-----------------------------------------------------------------------------
(* Statements of RefreshTokenRepository.                                   *)
RowsOf(u, s)  == {t \in rows : t.user = u /\ t.session = s}
WithoutId(x)  == {t \in rows : t.secret # x}
\* faulty: the session id alone selects the rows
WithoutSessionOfAnyone(u, s) == {t \in rows : t.session # s}

WithoutSession(u, s) == rows \ RowsOf(u, s)
WithoutUser(u) == {t \in rows : t.user # u}

Init ==
    /\ users = Users
    /\ rows = {}
    /\ stored = {}
    /\ expired = {}
    /\ req = [r \in Requests |-> Idle]

Begin(r, o, u, s, x, step) ==
    /\ req[r] = Idle
    /\ req' = [req EXCEPT ![r] = [pc |-> step, op |-> o, user |-> u, session |-> s,
                                  shown |-> x, entry |-> None,
                                  rotated |-> "no", late |-> "no"]]
    /\ UNCHANGED <<users, rows, stored, expired>>

(* completeLogin and validateSocialLogin: the credentials were accepted,   *)
(* createTokenPair is next.  The account may be gone by now.               *)
StartLogin(r, u, s) == Begin(r, "login", u, s, None, "access")

(* POST /auth/refresh with the token of request x and any session id.      *)
StartRefresh(r, x, s) ==
    /\ Delivered(x)
    /\ Begin(r, "refresh", req[x].user, s, x, "lookup")

StartLogout(r, u, s) == Begin(r, "logout", u, s, None, "revoke")

(* resetPassword has stored the new password; revokeAllForUser is next.    *)
StartRevokeAll(r, u) == \E s \in Sessions : Begin(r, "revokeAll", u, s, None, "revokeAll")

-----------------------------------------------------------------------------
(* validateAndGetUser, one awaited call per action.                        *)
(* Request r is a refresh that has gone past revokeRefreshToken.           *)
HasRotated(r) == req[r] # Idle /\ req[r].rotated = "yes"

RotatedAlready(x) ==
    IF \E q \in Requests : HasRotated(q) /\ req[q].shown = x THEN "yes" ELSE "no"

HasRead(r, t) ==
    req' = [req EXCEPT ![r] = [@ EXCEPT !.pc = "validate", !.entry = t.secret,
                                        !.late = RotatedAlready(req[r].shown)]]

FindByUserAndSession(r) ==
    /\ req[r].pc = "lookup"
    /\ LET found == RowsOf(req[r].user, req[r].session) IN
         \/ /\ found = {}
            /\ Goto(r, "rejected")
         \/ \E t \in found : HasRead(r, t)
    /\ UNCHANGED <<users, rows, stored, expired>>

\* faulty: a wrong secret revokes the session ("reuse detection")
ValidateHashOrRevoke(r) ==
    /\ req[r].pc = "validate"
    /\ Goto(r, IF req[r].entry # req[r].shown THEN "rejected"
               ELSE IF req[r].entry \in expired THEN "cleanup" ELSE "owner")
    /\ rows' = IF req[r].entry # req[r].shown
               THEN WithoutSession(req[r].user, req[r].session) ELSE rows
    /\ UNCHANGED <<users, stored, expired>>

(* bcrypt runs off the event loop; the expiry of the row read before is    *)
(* compared with the clock when the hash has been checked.                 *)
ValidateHash(r) ==
    /\ req[r].pc = "validate"
    /\ Goto(r, IF req[r].entry # req[r].shown THEN "rejected"
               ELSE IF req[r].entry \in expired THEN "cleanup" ELSE "owner")
    /\ UNCHANGED <<users, rows, stored, expired>>

\* faulty: the expired row is removed by its key
DeleteByKey(r) ==
    /\ req[r].pc = "cleanup"
    /\ rows' = WithoutSession(req[r].user, req[r].session)
    /\ Goto(r, "rejected")
    /\ UNCHANGED <<users, stored, expired>>

(* The expired row is removed by its id.                                   *)
DeleteById(r) ==
    /\ req[r].pc = "cleanup"
    /\ rows' = WithoutId(req[r].entry)
    /\ Goto(r, "rejected")
    /\ UNCHANGED <<users, stored, expired>>

FindOwner(r) ==
    /\ req[r].pc = "owner"
    /\ Goto(r, IF req[r].user \in users THEN "revoke" ELSE "rejected")
    /\ UNCHANGED <<users, rows, stored, expired>>

Revoked(r) ==
    LET step == IF req[r].op = "logout" THEN "answered" ELSE "access"
        done == IF req[r].op = "refresh" THEN "yes" ELSE "no"
    IN req' = [req EXCEPT ![r] = [@ EXCEPT !.pc = step, !.rotated = done]]

\* faulty: a refresh leaves the row to the DELETE of generateRefreshToken
RevokeLater(r) ==
    /\ req[r].pc = "revoke"
    /\ rows' = IF req[r].op = "logout"
               THEN WithoutSession(req[r].user, req[r].session) ELSE rows
    /\ Revoked(r)
    /\ UNCHANGED <<users, stored, expired>>

(* revokeRefreshToken, from refreshTokens and from logout.  How many rows  *)
(* it has deleted, if any, is not looked at.                               *)
RevokeRefreshToken(r) ==
    /\ req[r].pc = "revoke"
    /\ rows' = WithoutSession(req[r].user, req[r].session)
    /\ Revoked(r)
    /\ UNCHANGED <<users, stored, expired>>

RevokeAllForUser(r) ==
    /\ req[r].pc = "revokeAll"
    /\ rows' = WithoutUser(req[r].user)
    /\ Goto(r, "answered")
    /\ UNCHANGED <<users, stored, expired>>

(* createAccessToken reads the account again.                              *)
CreateAccessToken(r) ==
    /\ req[r].pc = "access"
    /\ Goto(r, IF req[r].user \in users THEN "clear" ELSE "rejected")
    /\ UNCHANGED <<users, rows, stored, expired>>

(* generateRefreshToken: first the DELETE ...                              *)
DeleteByUserAndSession(r) ==
    /\ req[r].pc = "clear"
    /\ rows' = WithoutSession(req[r].user, req[r].session)
    /\ Goto(r, "save")
    /\ UNCHANGED <<users, stored, expired>>

\* faulty: no foreign key
MaySaveForNobody(r) == RowsOf(req[r].user, req[r].session) = {}

\* faulty: no unique constraint
MaySaveTwice(r) == req[r].user \in users

(* ... then the INSERT, which the unique constraint on (user, session) and *)
(* the foreign key to users may refuse.                                    *)
MaySave(r) == RowsOf(req[r].user, req[r].session) = {} /\ req[r].user \in users

\* faulty: waits for the conflicting row to go away
SaveWhenFree(r) ==
    /\ req[r].pc = "save" /\ MaySave(r)
    /\ rows' = rows \cup {[user |-> req[r].user, session |-> req[r].session,
                           secret |-> r]}
    /\ stored' = stored \cup {r}
    /\ Goto(r, "respond")
    /\ UNCHANGED <<users, expired>>

SaveRefreshToken(r) ==
    /\ req[r].pc = "save"
    /\ \/ /\ MaySave(r)
          /\ rows' = rows \cup {[user |-> req[r].user, session |-> req[r].session,
                                 secret |-> r]}
          /\ stored' = stored \cup {r}
          /\ Goto(r, "respond")
       \/ /\ ~MaySave(r)
          /\ Goto(r, "rejected")
          /\ UNCHANGED <<rows, stored>>
    /\ UNCHANGED <<users, expired>>

(* A log-in still loads the profile; if the account is gone it fails and   *)
(* the token it has stored is not sent.                                    *)
Respond(r) ==
    /\ req[r].pc = "respond"
    /\ Goto(r, IF req[r].op = "login" /\ req[r].user \notin users
               THEN "rejected" ELSE "answered")
    /\ UNCHANGED <<users, rows, stored, expired>>

-----------------------------------------------------------------------------
(* The process dies, or the database refuses the next statement: what the  *)
(* request has done so far stays done.                                     *)
Crash(r) ==
    /\ InFlight(r)
    /\ Goto(r, "crashed")
    /\ UNCHANGED <<users, rows, stored, expired>>

(* Thirty days pass over a stored token.                                   *)
Expire(x) ==
    /\ x \in stored \ expired
    /\ expired' = expired \cup {x}
    /\ UNCHANGED <<users, rows, stored, req>>

(* deleteUser; the foreign key cascades to refresh_tokens.                 *)
DeleteUser(u) ==
    /\ u \in users
    /\ users' = users \ {u}
    /\ rows' = WithoutUser(u)
    /\ UNCHANGED <<stored, expired, req>>

Handle(r) ==
    \/ FindByUserAndSession(r)
    \/ ValidateHash(r)
    \/ DeleteById(r)
    \/ FindOwner(r)
    \/ RevokeRefreshToken(r)
    \/ RevokeAllForUser(r)
    \/ CreateAccessToken(r)
    \/ DeleteByUserAndSession(r)
    \/ SaveRefreshToken(r)
    \/ Respond(r)

Arrive(r) ==
    \/ \E u \in Users, s \in Sessions : StartLogin(r, u, s) \/ StartLogout(r, u, s)
    \/ \E x \in Requests, s \in Sessions : StartRefresh(r, x, s)
    \/ \E u \in Users : StartRevokeAll(r, u)

Next ==
    \/ \E r \in Requests : Arrive(r) \/ Handle(r) \/ Crash(r) \/ Expire(r)
    \/ \E u \in Users : DeleteUser(u)

(* A handler that has started is driven on by the event loop; arrivals,    *)
(* crashes, time and deletions are not promised.                           *)
Fairness == \A r \in Requests : WF_vars(Handle(r))

Spec == Init /\ [][Next]_vars
FairSpec == Spec /\ Fairness

-----------------------------------------------------------------------------
(* Type invariant: the tables hold rows of the right shape, only stored    *)
(* secrets expire, and a request is either not started or in a step of its *)
(* handler.                                                                *)
TypeOK ==
    /\ users \subseteq Users
    /\ rows \subseteq Row
    /\ stored \subseteq Requests
    /\ expired \subseteq stored
    /\ req \in [Requests -> {Idle} \cup Started]

(* The rows are those their requests wrote: a row belongs to the user and  *)
(* session of the request whose INSERT stored its secret, the account      *)
(* still exists, and no two rows share (user, session).                    *)
(* (entities/refresh-token.entity.ts: @Unique, onDelete CASCADE)           *)
RowsAreGenuine ==
    /\ \A t \in rows :
          /\ t.secret \in stored
          /\ req[t.secret].user = t.user /\ req[t.secret].session = t.session
          /\ t.user \in users
    /\ \A t1, t2 \in rows :
          t1.user = t2.user /\ t1.session = t2.session => t1 = t2

(* A handler is only ever in the steps of its own operation.               *)
StepFitsOperation ==
    \A r \in Requests :
      /\ req[r].pc \in {"lookup", "validate", "cleanup", "owner"} => req[r].op = "refresh"
      /\ req[r].pc = "revoke" => req[r].op \in {"refresh", "logout"}
      /\ req[r].pc = "revokeAll" => req[r].op = "revokeAll"
      /\ req[r].pc \in {"access", "clear", "save", "respond"} => req[r].op \in {"login", "refresh"}

(* A committed INSERT stays with its request: the request is about to      *)
(* answer or finished, a client only holds tokens that were stored, and a  *)
(* log-in refused after its INSERT has lost its account.                   *)
StoredIsDone ==
    \A x \in Requests :
      /\ x \in stored =>
           /\ req[x].pc \in {"respond"} \cup Finished
           /\ req[x].op \in {"login", "refresh"}
           /\ req[x].pc = "rejected" => req[x].user \notin users
      /\ req[x].pc = "respond" \/ Delivered(x) => x \in stored

(* Request r is a refresh that has read a row and not yet revoked it.      *)
HoldsEntry(r) ==
    \/ req[r].pc \in {"validate", "cleanup", "owner"}
    \/ req[r].pc = "revoke" /\ req[r].op = "refresh"

(* What a refresh has read, stale as it may be, is a row of its own        *)
(* session; past the check it is the row of the token it was shown.        *)
EntryIsOwn ==
    \A r \in Requests : HoldsEntry(r) =>
      LET e == req[r].entry IN
        /\ e \in stored
        /\ req[e].user = req[r].user /\ req[e].session = req[r].session
        /\ req[r].pc \in {"owner", "revoke"} => e = req[r].shown
        /\ req[r].pc = "cleanup" => e \in expired

(* What was rotated is a token of the past, and its row is gone.           *)
ShownIsSpent ==
    \A r \in Requests : HasRotated(r) =>
      /\ req[r].op = "refresh"
      /\ req[r].pc \in {"access", "clear", "save", "respond"} \cup Finished
      /\ req[r].shown \in stored
      /\ \A t \in rows : t.secret # req[r].shown

(* A refresh that came late has read the row of somebody else, or none.    *)
LateIsStopped ==
    \A r \in Requests : req[r] # Idle /\ req[r].late = "yes" =>
      /\ req[r].pc \in {"validate", "rejected", "crashed"} /\ req[r].rotated = "no"
      /\ req[r].pc = "validate" => req[r].entry # req[r].shown

(* Request r works on session s of u.                                      *)
Concerns(r, u, s) ==
    /\ req[r].pc # "idle"
    /\ req[r].user = u
    /\ req[r].session = s \/ req[r].op = "revokeAll"

(* Log-ins and refreshes are all that has happened to session s of u, none *)
(* of them crashed, and none of their tokens has expired.                  *)
Undisturbed(u, s) ==
    \A r \in Requests : Concerns(r, u, s) =>
      /\ req[r].op \in {"login", "refresh"}
      /\ req[r].pc # "crashed"
      /\ r \notin expired

(* An undisturbed session that once was live is live, or is in the hands   *)
(* of a request that is going to make it live again.                       *)
SessionKept ==
    \A u \in users, s \in Sessions :
      Undisturbed(u, s) /\ (\E r \in stored : Concerns(r, u, s))
      => \/ RowsOf(u, s) # {}
         \/ \E q \in Requests : Concerns(q, u, s) /\ req[q].pc \in {"access", "clear", "save"}

(* The inductive invariant: rows, history and the handlers' local copies   *)
(* agree in every interleaving.                                            *)
Inv ==
    /\ TypeOK
    /\ RowsAreGenuine
    /\ StepFitsOperation
    /\ StoredIsDone
    /\ EntryIsOwn
    /\ ShownIsSpent
    /\ LateIsStopped
    /\ SessionKept

-----------------------------------------------------------------------------
(* Two refreshes with one token may both rotate it, since neither looks    *)
(* at what its revocation has deleted; but only if both had read the row   *)
(* before either revoked it.  Who reads later is refused, under whatever   *)
(* session id he presents the token and whatever became of the other one,  *)
(* which may have crashed or be about to store its successor.              *)
RotatedTwiceOnlyByRace ==
    \A r \in Requests : HasRotated(r) => req[r].late = "no"

(* Tabs share one session id and refresh at the same time.  However their  *)
(* statements interleave, and whichever of them are refused, the session   *)
(* is not lost: when nothing disturbed it and none of its requests is in   *)
(* flight, it is live and its live token has been delivered to a client.   *)
SessionSurvives ==
    \A u \in users, s \in Sessions :
      /\ Undisturbed(u, s)
      /\ \E r \in Requests : Concerns(r, u, s) /\ Delivered(r)
      /\ \A r \in Requests : Concerns(r, u, s) => ~InFlight(r)
      => \E t \in RowsOf(u, s) : Delivered(t.secret)

(* "Scoping by userId so another user can't wipe this session via a        *)
(* colliding sessionId" (refresh-token.service.ts:35): a row leaves the    *)
(* table with its account, or at the hand of a request of the row's own    *)
(* user that names its session or revokes them all.                        *)
SessionsEndForOwner ==
    [][\A t \in rows \ rows' :
         \/ t.user \notin users'
         \/ \E r \in Requests : /\ req'[r] # req[r]
                               /\ req'[r].user = t.user
                               /\ \/ req'[r].session = t.session
                                  \/ req'[r].op = "revokeAll"]_vars

(* The clean-up of an expired row, decided on a row read two awaits ago,   *)
(* never takes the token that has replaced that row since.                 *)
CleanupSparesSuccessor ==
    [][\A r \in Requests :
         req[r].pc = "cleanup" => \A t \in rows \ rows' :
            req'[r] # req[r] => t.secret \in expired]_vars

(* Every request that starts is answered, refused or cut off by a crash.   *)
RequestsFinish ==
    \A r \in Requests : req[r].pc # "idle" ~> req[r].pc \in Finished

(* The table with its interleaved statements implements the abstract one.  *)
SecretOf(found) == IF found = {} THEN None ELSE (CHOOSE t \in found : TRUE).secret

LiveTable == [u \in Users |-> [s \in Sessions |-> SecretOf(RowsOf(u, s))]]

Table == INSTANCE SessionTable WITH
            Secrets <- Requests, NoSecret <- None, live <- LiveTable, used <- stored

(* No statement order overwrites a live token, revives a dead one or ends  *)
(* sessions of two users at once (see SessionTable).                       *)
ImplementsSessionTable == Table!Spec
=============================================================================
