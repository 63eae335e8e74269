-------------------------- MODULE SessionProofs --------------------------
(***************************************************************************)
(* Proofs about refresh-token sessions and about the composition of the    *)
(* sessions with passwords and resets, for any number of users, sessions   *)
(* and requests.  The first part is about RefreshSessions; the second      *)
(* about PasswordReset: that the composition is an implementation of       *)
(* RefreshSessions, so that the first part holds of it too, and that what  *)
(* a reset has retired stays retired.                                      *)
(***************************************************************************)
EXTENDS PasswordReset, TLAPS

(* What moving a request on in its handler changes, and what it keeps.     *)
LEMMA GotoEffect ==
  ASSUME TypeOK, NEW r \in Requests, InFlight(r),
         NEW step \in Active \cup Finished, Goto(r, step)
  PROVE  /\ req[r] \in Started
         /\ req' \in [Requests -> {Idle} \cup Started]
         /\ req'[r] \in Started
         /\ req'[r].pc = step
         /\ req'[r].op = req[r].op
         /\ req'[r].user = req[r].user
         /\ req'[r].session = req[r].session
         /\ req'[r].shown = req[r].shown
         /\ req'[r].entry = req[r].entry
         /\ req'[r].rotated = req[r].rotated /\ req'[r].late = req[r].late
         /\ \A q \in Requests \ {r} : req'[q] = req[q]
<1>1. req[r] \in Started
  BY DEF TypeOK, InFlight, Idle, Active
<1>2. req' = [req EXCEPT ![r] = [req[r] EXCEPT !.pc = step]]
  BY DEF Goto
<1>3. [req[r] EXCEPT !.pc = step] \in Started
  BY <1>1 DEF Started
<1> QED
  BY <1>1, <1>2, <1>3 DEF TypeOK, Started

(* The same of the step that revokes.                                      *)
LEMMA RevokedEffect ==
  ASSUME TypeOK, NEW r \in Requests, InFlight(r), Revoked(r)
  PROVE  /\ req[r] \in Started
         /\ req' \in [Requests -> {Idle} \cup Started]
         /\ req'[r] \in Started
         /\ req'[r].pc = IF req[r].op = "logout" THEN "answered" ELSE "access"
         /\ req'[r].op = req[r].op
         /\ req'[r].user = req[r].user
         /\ req'[r].session = req[r].session
         /\ req'[r].shown = req[r].shown
         /\ req'[r].rotated = IF req[r].op = "refresh" THEN "yes" ELSE "no"
         /\ req'[r].late = req[r].late
         /\ \A q \in Requests \ {r} : req'[q] = req[q]
<1> DEFINE step == IF req[r].op = "logout" THEN "answered" ELSE "access"
           done == IF req[r].op = "refresh" THEN "yes" ELSE "no"
           h == [req[r] EXCEPT !.pc = step, !.rotated = done]
<1>1. req[r] \in Started
  BY DEF TypeOK, InFlight, Idle, Active
<1>2. step \in {"answered", "access"} /\ done \in {"yes", "no"}
  OBVIOUS
<1>3. req' = [req EXCEPT ![r] = h]
  BY DEF Revoked
<1> HIDE DEF step, done
<1>4. /\ h \in Started /\ h.pc = step /\ h.rotated = done /\ h.op = req[r].op
      /\ h.user = req[r].user /\ h.session = req[r].session /\ h.shown = req[r].shown
      /\ h.late = req[r].late
  BY <1>1, <1>2 DEF Started, Active, Finished
<1> HIDE DEF h
<1> QED
  BY <1>1, <1>3, <1>4 DEF TypeOK, step, done

(* The same of the step that reads.                                        *)
LEMMA ReadEffect ==
  ASSUME TypeOK, NEW r \in Requests, InFlight(r), NEW t \in rows, HasRead(r, t)
  PROVE  /\ req[r] \in Started
         /\ req' \in [Requests -> {Idle} \cup Started]
         /\ req'[r] \in Started
         /\ req'[r].pc = "validate"
         /\ req'[r].op = req[r].op
         /\ req'[r].user = req[r].user
         /\ req'[r].session = req[r].session
         /\ req'[r].shown = req[r].shown
         /\ req'[r].entry = t.secret
         /\ req'[r].rotated = req[r].rotated
         /\ req'[r].late = RotatedAlready(req[r].shown)
         /\ \A q \in Requests \ {r} : req'[q] = req[q]
<1> DEFINE h == [req[r] EXCEPT !.pc = "validate", !.entry = t.secret,
                               !.late = RotatedAlready(req[r].shown)]
<1>1. req[r] \in Started
  BY DEF TypeOK, InFlight, Idle, Active
<1>2. t.secret \in Requests /\ RotatedAlready(req[r].shown) \in {"no", "yes"}
  BY DEF TypeOK, Row, RotatedAlready
<1>3. req' = [req EXCEPT ![r] = h]
  BY DEF HasRead
<1>4. /\ h \in Started /\ h.pc = "validate" /\ h.entry = t.secret
      /\ h.op = req[r].op /\ h.user = req[r].user /\ h.session = req[r].session
      /\ h.shown = req[r].shown /\ h.rotated = req[r].rotated
      /\ h.late = RotatedAlready(req[r].shown)
  BY <1>1, <1>2 DEF Started, Active
<1> HIDE DEF h
<1> QED
  BY <1>1, <1>3, <1>4 DEF TypeOK

(* What the arrival of a request changes.                                  *)
LEMMA BeginEffect ==
  ASSUME TypeOK, NEW r \in Requests,
         NEW o \in {"login", "refresh", "logout", "revokeAll"},
         NEW u \in Users, NEW s \in Sessions, NEW x \in Requests \cup {None},
         NEW step \in Active, Begin(r, o, u, s, x, step)
  PROVE  /\ req[r] = Idle
         /\ req' \in [Requests -> {Idle} \cup Started]
         /\ req'[r] \in Started
         /\ req'[r].pc = step
         /\ req'[r].op = o
         /\ req'[r].user = u
         /\ req'[r].session = s
         /\ req'[r].shown = x
         /\ req'[r].rotated = "no" /\ req'[r].late = "no"
         /\ \A q \in Requests \ {r} : req'[q] = req[q]
         /\ UNCHANGED <<users, rows, stored, expired>>
<1> DEFINE new == [pc |-> step, op |-> o, user |-> u, session |-> s,
                   shown |-> x, entry |-> None, rotated |-> "no", late |-> "no"]
<1>1. new \in Started
  BY DEF Started
<1>2. req' = [req EXCEPT ![r] = new]
  BY DEF Begin
<1> QED
  BY <1>1, <1>2 DEF TypeOK, Begin

LEMMA InitType == Init => TypeOK
BY DEF Init, TypeOK

LEMMA NextType == TypeOK /\ [Next]_vars => TypeOK'
<1> SUFFICES ASSUME TypeOK, [Next]_vars
             PROVE  TypeOK'
  OBVIOUS
<1>1. CASE UNCHANGED vars
  BY <1>1 DEF TypeOK, vars
<1>2. ASSUME NEW r \in Requests, Arrive(r)
      PROVE  TypeOK'
  <2>1. ASSUME NEW u \in Users, NEW s \in Sessions, StartLogin(r, u, s)
        PROVE  TypeOK'
    BY <2>1, BeginEffect DEF StartLogin, TypeOK, Active
  <2>2. ASSUME NEW u \in Users, NEW s \in Sessions, StartLogout(r, u, s)
        PROVE  TypeOK'
    BY <2>2, BeginEffect DEF StartLogout, TypeOK, Active
  <2>3. ASSUME NEW x \in Requests, NEW s \in Sessions, StartRefresh(r, x, s)
        PROVE  TypeOK'
    <3>1. req[x].user \in Users
      BY <2>3 DEF StartRefresh, Delivered, TypeOK, Started, Idle
    <3>2. QED
      BY <2>3, <3>1, BeginEffect DEF StartRefresh, TypeOK, Active
  <2>4. ASSUME NEW u \in Users, StartRevokeAll(r, u)
        PROVE  TypeOK'
    BY <2>4, BeginEffect DEF StartRevokeAll, TypeOK, Active
  <2>5. QED
    BY <1>2, <2>1, <2>2, <2>3, <2>4 DEF Arrive
<1>3. ASSUME NEW r \in Requests, Handle(r)
      PROVE  TypeOK'
  <2> USE DEF Active, Finished
  <2>1. CASE FindByUserAndSession(r)
    <3>1. CASE Goto(r, "rejected")
      BY <2>1, <3>1, GotoEffect DEF FindByUserAndSession, InFlight, TypeOK
    <3>2. ASSUME NEW t \in RowsOf(req[r].user, req[r].session), HasRead(r, t)
          PROVE  TypeOK'
      BY <2>1, <3>2, ReadEffect DEF FindByUserAndSession, InFlight, TypeOK, RowsOf
    <3>3. QED
      BY <2>1, <3>1, <3>2 DEF FindByUserAndSession
  <2>2. CASE ValidateHash(r)
    BY <2>2, GotoEffect DEF ValidateHash, InFlight, TypeOK
  <2>3. CASE DeleteById(r)
    BY <2>3, GotoEffect DEF DeleteById, InFlight, TypeOK, WithoutId
  <2>4. CASE FindOwner(r)
    BY <2>4, GotoEffect DEF FindOwner, InFlight, TypeOK
  <2>5. CASE RevokeRefreshToken(r)
    BY <2>5, RevokedEffect DEF RevokeRefreshToken, InFlight, TypeOK, WithoutSession, RowsOf
  <2>6. CASE RevokeAllForUser(r)
    BY <2>6, GotoEffect DEF RevokeAllForUser, InFlight, TypeOK, WithoutUser
  <2>7. CASE CreateAccessToken(r)
    BY <2>7, GotoEffect DEF CreateAccessToken, InFlight, TypeOK
  <2>8. CASE DeleteByUserAndSession(r)
    BY <2>8, GotoEffect
    DEF DeleteByUserAndSession, InFlight, TypeOK, WithoutSession, RowsOf
  <2>9. CASE SaveRefreshToken(r)
    <3>1. req[r] \in Started /\ req' \in [Requests -> {Idle} \cup Started]
      BY <2>9, GotoEffect DEF SaveRefreshToken, InFlight
    <3>2. [user |-> req[r].user, session |-> req[r].session, secret |-> r] \in Row
      BY <3>1 DEF Started, Row
    <3>3. QED
      BY <2>9, <3>1, <3>2 DEF SaveRefreshToken, TypeOK
  <2>10. CASE Respond(r)
    BY <2>10, GotoEffect DEF Respond, InFlight, TypeOK
  <2>11. QED
    BY <1>3, <2>1, <2>2, <2>3, <2>4, <2>5, <2>6, <2>7, <2>8, <2>9, <2>10 DEF Handle
<1>4. ASSUME NEW r \in Requests, Crash(r)
      PROVE  TypeOK'
  BY <1>4, GotoEffect DEF Crash, TypeOK, Finished
<1>5. ASSUME NEW r \in Requests, Expire(r)
      PROVE  TypeOK'
  BY <1>5 DEF Expire, TypeOK
<1>6. ASSUME NEW u \in Users, DeleteUser(u)
      PROVE  TypeOK'
  BY <1>6 DEF DeleteUser, TypeOK, WithoutUser
<1>7. QED
  BY <1>1, <1>2, <1>3, <1>4, <1>5, <1>6 DEF Next

(* Type correctness.                                                       *)
THEOREM TypeCorrect == Spec => []TypeOK
BY InitType, NextType, PTL DEF Spec

-----------------------------------------------------------------------------
(* What every arrival and every handler step leaves alone.                 *)

LEMMA ArriveEffect ==
  ASSUME TypeOK, NEW r \in Requests, Arrive(r)
  PROVE  /\ req[r] = Idle
         /\ req'[r] \in Started
         /\ <<req'[r].pc, req'[r].op>> \in {<<"access", "login">>, <<"lookup", "refresh">>,
                                            <<"revoke", "logout">>, <<"revokeAll", "revokeAll">>}
         /\ req'[r].rotated = "no" /\ req'[r].late = "no"
         /\ \A q \in Requests \ {r} : req'[q] = req[q]
         /\ UNCHANGED <<users, rows, stored, expired>>
<1>1. ASSUME NEW x \in Requests, NEW s \in Sessions, StartRefresh(r, x, s)
      PROVE  req[x].user \in Users
  BY <1>1 DEF StartRefresh, Delivered, TypeOK, Started, Idle
<1>2. QED
  BY <1>1, BeginEffect
  DEF Arrive, StartLogin, StartLogout, StartRefresh, StartRevokeAll, Active

LEMMA HandleEffect ==
  ASSUME TypeOK, NEW r \in Requests, Handle(r)
  PROVE  /\ req[r] \in Started /\ InFlight(r)
         /\ req'[r] \in Started
         /\ req'[r].op = req[r].op /\ req'[r].shown = req[r].shown
         /\ req'[r].user = req[r].user /\ req'[r].session = req[r].session
         /\ \A q \in Requests \ {r} : req'[q] = req[q]
         /\ UNCHANGED <<users, expired>>
<1>1. InFlight(r)
  BY DEF Handle, FindByUserAndSession, ValidateHash, DeleteById, FindOwner,
         RevokeRefreshToken, RevokeAllForUser, CreateAccessToken,
         DeleteByUserAndSession, SaveRefreshToken, Respond, InFlight, Active
<1>2. \/ \E step \in Active \cup Finished : Goto(r, step)
      \/ \E t \in rows : HasRead(r, t)
      \/ Revoked(r)
  BY DEF Handle, FindByUserAndSession, ValidateHash, DeleteById, FindOwner,
         RevokeRefreshToken, RevokeAllForUser, CreateAccessToken, DeleteByUserAndSession,
         SaveRefreshToken, Respond, RowsOf, Active, Finished
<1>3. UNCHANGED <<users, expired>>
  BY DEF Handle, FindByUserAndSession, ValidateHash, DeleteById, FindOwner,
         RevokeRefreshToken, RevokeAllForUser, CreateAccessToken,
         DeleteByUserAndSession, SaveRefreshToken, Respond
<1>4. QED
  BY <1>1, <1>2, <1>3, GotoEffect, ReadEffect, RevokedEffect

(* Where each step of a handler leads.                                     *)
LEMMA HandleLeads ==
  ASSUME TypeOK, NEW r \in Requests, Handle(r)
  PROVE  /\ FindByUserAndSession(r) => req'[r].pc \in {"rejected", "validate"}
         /\ ValidateHash(r) => req'[r].pc \in {"rejected", "cleanup", "owner"}
         /\ DeleteById(r) => req'[r].pc = "rejected"
         /\ FindOwner(r) => req'[r].pc \in {"revoke", "rejected"}
         /\ RevokeRefreshToken(r) =>
              req'[r].pc = IF req[r].op = "logout" THEN "answered" ELSE "access"
         /\ RevokeAllForUser(r) => req'[r].pc = "answered"
         /\ CreateAccessToken(r) => req'[r].pc \in {"clear", "rejected"}
         /\ DeleteByUserAndSession(r) => req'[r].pc = "save"
         /\ SaveRefreshToken(r) => req'[r].pc \in {"respond", "rejected"}
         /\ Respond(r) => req'[r].pc \in {"rejected", "answered"}
<1>1. InFlight(r)
  BY HandleEffect
<1> USE DEF Active, Finished
<1>2. FindByUserAndSession(r) => req'[r].pc \in {"rejected", "validate"}
  BY <1>1, GotoEffect, ReadEffect DEF FindByUserAndSession, RowsOf
<1>3. RevokeRefreshToken(r) =>
        req'[r].pc = IF req[r].op = "logout" THEN "answered" ELSE "access"
  BY <1>1, RevokedEffect DEF RevokeRefreshToken
<1>4. QED
  BY <1>1, <1>2, <1>3, GotoEffect
  DEF ValidateHash, DeleteById, FindOwner, RevokeAllForUser, CreateAccessToken,
      DeleteByUserAndSession, SaveRefreshToken, Respond

(* Revoking is what rotates, and reading decides who is late.              *)
LEMMA HistoryEffect ==
  ASSUME TypeOK, NEW r \in Requests, Handle(r)
  PROVE  /\ ~RevokeRefreshToken(r) => req'[r].rotated = req[r].rotated
         /\ ~FindByUserAndSession(r) => req'[r].late = req[r].late
<1>1. req[r] \in Started /\ InFlight(r)
  BY HandleEffect
<1>2. CASE FindByUserAndSession(r)
  BY <1>1, <1>2, GotoEffect, ReadEffect
  DEF FindByUserAndSession, RevokeRefreshToken, RowsOf, Finished
<1>3. CASE RevokeRefreshToken(r)
  BY <1>1, <1>3, RevokedEffect DEF RevokeRefreshToken, FindByUserAndSession
<1>4. CASE ~(FindByUserAndSession(r) \/ RevokeRefreshToken(r))
  <2>1. \E step \in Active \cup Finished : Goto(r, step)
    BY <1>4 DEF Handle, ValidateHash, DeleteById, FindOwner, RevokeAllForUser,
         CreateAccessToken, DeleteByUserAndSession, SaveRefreshToken, Respond, Active, Finished
  <2>2. QED
    BY <1>1, <2>1, GotoEffect
<1>5. QED
  BY <1>2, <1>3, <1>4

-----------------------------------------------------------------------------
(* Each conjunct of the inductive invariant is kept by every step.         *)

LEMMA GenuineStep == Inv /\ [Next]_vars => RowsAreGenuine'
<1> SUFFICES ASSUME Inv, [Next]_vars
             PROVE  RowsAreGenuine'
  OBVIOUS
<1>1. CASE UNCHANGED vars
  BY <1>1 DEF vars, RowsAreGenuine, Inv
<1>2. ASSUME NEW r \in Requests, Arrive(r)
      PROVE  RowsAreGenuine'
  <2>1. r \notin stored
    BY <1>2, ArriveEffect DEF Inv, StoredIsDone, Idle, Finished
  <2>2. QED
    BY <1>2, <2>1, ArriveEffect DEF RowsAreGenuine, Inv, TypeOK
<1>3. ASSUME NEW r \in Requests, Handle(r)
      PROVE  RowsAreGenuine'
  <2>1. CASE SaveRefreshToken(r)
    BY <1>3, <2>1, HandleEffect
    DEF SaveRefreshToken, MaySave, RowsOf, Inv, TypeOK, RowsAreGenuine, Row
  <2>2. CASE ~SaveRefreshToken(r)
    <3>1. rows' \subseteq rows /\ stored' = stored
      BY <1>3, <2>2
      DEF Handle, FindByUserAndSession, ValidateHash, DeleteById, FindOwner,
          RevokeRefreshToken, RevokeAllForUser, CreateAccessToken,
          DeleteByUserAndSession, Respond, WithoutSession, WithoutUser, WithoutId
    <3>2. QED
      BY <1>3, <3>1, HandleEffect DEF Inv, TypeOK, RowsAreGenuine, Row
  <2>3. QED
    BY <2>1, <2>2
<1>4. ASSUME NEW r \in Requests, Crash(r)
      PROVE  RowsAreGenuine'
  BY <1>4, GotoEffect DEF Crash, Finished, Inv, RowsAreGenuine, TypeOK, Row
<1>5. ASSUME NEW r \in Requests, Expire(r)
      PROVE  RowsAreGenuine'
  BY <1>5 DEF Expire, RowsAreGenuine, Inv
<1>6. ASSUME NEW u \in Users, DeleteUser(u)
      PROVE  RowsAreGenuine'
  BY <1>6 DEF DeleteUser, RowsAreGenuine, Inv, WithoutUser
<1>7. QED
  BY <1>1, <1>2, <1>3, <1>4, <1>5, <1>6 DEF Next

LEMMA OperationStep == Inv /\ [Next]_vars => StepFitsOperation'
<1> SUFFICES ASSUME Inv, [Next]_vars
             PROVE  StepFitsOperation'
  OBVIOUS
<1>1. CASE UNCHANGED vars
  BY <1>1 DEF vars, StepFitsOperation, Inv
<1>2. ASSUME NEW r \in Requests, Arrive(r)
      PROVE  StepFitsOperation'
  BY <1>2, ArriveEffect DEF StepFitsOperation, Inv
<1>3. ASSUME NEW r \in Requests, Handle(r)
      PROVE  StepFitsOperation'
  <2>1. /\ req'[r].pc \in {"validate", "cleanup", "owner"}
             => req[r].pc \in {"lookup", "validate"}
        /\ req'[r].pc = "revoke" => req[r].pc = "owner"
        /\ req'[r].pc = "access" => req[r].pc = "revoke" /\ req[r].op # "logout"
        /\ req'[r].pc \in {"clear", "save", "respond"}
             => req[r].pc \in {"access", "clear", "save"}
        /\ req'[r].pc \notin {"lookup", "revokeAll"}
    BY <1>3, HandleLeads
    DEF Handle, FindByUserAndSession, ValidateHash, DeleteById, FindOwner,
        RevokeRefreshToken, RevokeAllForUser, CreateAccessToken,
        DeleteByUserAndSession, SaveRefreshToken, Respond, Inv
  <2>2. QED
    BY <1>3, <2>1, HandleEffect DEF StepFitsOperation, Inv
<1>4. ASSUME NEW r \in Requests, Crash(r)
      PROVE  StepFitsOperation'
  BY <1>4, GotoEffect DEF Crash, Finished, Inv, StepFitsOperation
<1>5. ASSUME NEW r \in Requests, Expire(r)
      PROVE  StepFitsOperation'
  BY <1>5 DEF Expire, StepFitsOperation, Inv
<1>6. ASSUME NEW u \in Users, DeleteUser(u)
      PROVE  StepFitsOperation'
  BY <1>6 DEF DeleteUser, StepFitsOperation, Inv
<1>7. QED
  BY <1>1, <1>2, <1>3, <1>4, <1>5, <1>6 DEF Next

LEMMA StoredStep == Inv /\ [Next]_vars => StoredIsDone'
<1> SUFFICES ASSUME Inv, [Next]_vars
             PROVE  StoredIsDone'
  OBVIOUS
<1>1. CASE UNCHANGED vars
  BY <1>1 DEF vars, StoredIsDone, Delivered, Inv
<1>2. ASSUME NEW r \in Requests, Arrive(r)
      PROVE  StoredIsDone'
  <2>1. r \notin stored
    BY <1>2, ArriveEffect DEF Inv, StoredIsDone, Idle, Finished
  <2>2. QED
    BY <1>2, <2>1, ArriveEffect DEF StoredIsDone, Delivered, Inv, TypeOK
<1>3. ASSUME NEW r \in Requests, Handle(r)
      PROVE  StoredIsDone'
  <2>1. CASE SaveRefreshToken(r)
    BY <1>3, <2>1, HandleEffect
    DEF SaveRefreshToken, Goto, Inv, TypeOK, StoredIsDone, StepFitsOperation, Delivered,
        Finished, Started
  <2>2. CASE Respond(r)
    BY <1>3, <2>2, HandleEffect
    DEF Respond, Goto, Inv, TypeOK, StoredIsDone, Delivered, Finished, Started
  <2>3. CASE ~SaveRefreshToken(r) /\ ~Respond(r)
    <3>1. /\ stored' = stored
          /\ req[r].pc # "respond" /\ req'[r].pc # "respond"
          /\ req'[r].pc = "answered" => req[r].op \in {"logout", "revokeAll"}
      BY <1>3, <2>3, HandleLeads
      DEF Handle, FindByUserAndSession, ValidateHash, DeleteById, FindOwner,
          RevokeRefreshToken, RevokeAllForUser, CreateAccessToken,
          DeleteByUserAndSession, Inv, StepFitsOperation
    <3>2. r \notin stored
      BY <1>3, <3>1, HandleEffect DEF Inv, StoredIsDone, InFlight, Active, Finished
    <3>3. QED
      BY <1>3, <3>1, <3>2, HandleEffect DEF Inv, StoredIsDone, Delivered, TypeOK
  <2>4. QED
    BY <2>1, <2>2, <2>3
<1>4. ASSUME NEW r \in Requests, Crash(r)
      PROVE  StoredIsDone'
  BY <1>4, GotoEffect DEF Crash, Finished, Inv, StoredIsDone, Delivered
<1>5. ASSUME NEW r \in Requests, Expire(r)
      PROVE  StoredIsDone'
  BY <1>5 DEF Expire, StoredIsDone, Delivered, Inv
<1>6. ASSUME NEW u \in Users, DeleteUser(u)
      PROVE  StoredIsDone'
  BY <1>6 DEF DeleteUser, StoredIsDone, Delivered, Inv
<1>7. QED
  BY <1>1, <1>2, <1>3, <1>4, <1>5, <1>6 DEF Next

LEMMA EntryStep == Inv /\ [Next]_vars => EntryIsOwn'
<1> SUFFICES ASSUME Inv, [Next]_vars
             PROVE  EntryIsOwn'
  OBVIOUS
<1>1. CASE UNCHANGED vars
  BY <1>1 DEF vars, EntryIsOwn, HoldsEntry, Inv
<1>2. ASSUME NEW r \in Requests, Arrive(r)
      PROVE  EntryIsOwn'
  <2>1. r \notin stored
    BY <1>2, ArriveEffect DEF Inv, StoredIsDone, Idle, Finished
  <2>2. QED
    BY <1>2, <2>1, ArriveEffect DEF EntryIsOwn, HoldsEntry, Inv, TypeOK
<1>3. ASSUME NEW r \in Requests, Handle(r)
      PROVE  EntryIsOwn'
  <2>1. stored \subseteq stored' /\ UNCHANGED expired
    BY <1>3, HandleEffect
    DEF Handle, FindByUserAndSession, ValidateHash, DeleteById, FindOwner,
        RevokeRefreshToken, RevokeAllForUser, CreateAccessToken,
        DeleteByUserAndSession, SaveRefreshToken, Respond
  <2>2. ASSUME NEW e \in Requests
        PROVE  req'[e].user = req[e].user /\ req'[e].session = req[e].session
    BY <1>3, HandleEffect DEF Inv
  <2>3. CASE FindByUserAndSession(r)
    <3>1. ASSUME NEW t \in RowsOf(req[r].user, req[r].session), HasRead(r, t)
          PROVE  EntryIsOwn'
      <4>1. t.secret \in stored /\ t.secret \in Requests
        BY DEF RowsOf, Inv, RowsAreGenuine, TypeOK
      <4>2. req[t.secret].user = req[r].user /\ req[t.secret].session = req[r].session
        BY DEF RowsOf, Inv, RowsAreGenuine
      <4>3. req'[r].entry = t.secret /\ req'[r].pc = "validate"
        BY <1>3, <3>1, HandleEffect, ReadEffect DEF Inv, RowsOf
      <4>4. QED
        BY <1>3, <2>1, <2>2, <4>1, <4>2, <4>3, HandleEffect
        DEF EntryIsOwn, HoldsEntry, Inv, TypeOK
    <3>2. CASE Goto(r, "rejected")
      BY <1>3, <2>1, <2>2, <2>3, <3>2, HandleEffect, GotoEffect
      DEF EntryIsOwn, HoldsEntry, Inv, TypeOK, Finished
    <3>3. QED
      BY <2>3, <3>1, <3>2 DEF FindByUserAndSession
  <2>4. CASE ValidateHash(r)
    BY <1>3, <2>1, <2>2, <2>4, HandleEffect, GotoEffect
    DEF ValidateHash, EntryIsOwn, HoldsEntry, Inv, TypeOK, Active, Finished
  <2>5. CASE FindOwner(r)
    BY <1>3, <2>1, <2>2, <2>5, HandleEffect, GotoEffect
    DEF FindOwner, EntryIsOwn, HoldsEntry, Inv, TypeOK, Active, Finished
  <2>6. CASE ~(FindByUserAndSession(r) \/ ValidateHash(r) \/ FindOwner(r))
    <3>1. ~HoldsEntry(r)'
      BY <1>3, <2>6, HandleLeads DEF Handle, HoldsEntry, Inv
    <3>2. QED
      BY <1>3, <2>1, <2>2, <3>1, HandleEffect DEF EntryIsOwn, HoldsEntry, Inv, TypeOK
  <2>7. QED
    BY <2>3, <2>4, <2>5, <2>6
<1>4. ASSUME NEW r \in Requests, Crash(r)
      PROVE  EntryIsOwn'
  BY <1>4, GotoEffect DEF Crash, Finished, Inv, EntryIsOwn, HoldsEntry, TypeOK
<1>5. ASSUME NEW r \in Requests, Expire(r)
      PROVE  EntryIsOwn'
  BY <1>5 DEF Expire, EntryIsOwn, HoldsEntry, Inv
<1>6. ASSUME NEW u \in Users, DeleteUser(u)
      PROVE  EntryIsOwn'
  BY <1>6 DEF DeleteUser, EntryIsOwn, HoldsEntry, Inv
<1>7. QED
  BY <1>1, <1>2, <1>3, <1>4, <1>5, <1>6 DEF Next

LEMMA SpentStep == Inv /\ [Next]_vars => ShownIsSpent'
<1> SUFFICES ASSUME Inv, [Next]_vars
             PROVE  ShownIsSpent'
  OBVIOUS
<1>1. CASE UNCHANGED vars
  BY <1>1 DEF vars, ShownIsSpent, HasRotated, Inv
<1>2. ASSUME NEW r \in Requests, Arrive(r)
      PROVE  ShownIsSpent'
  BY <1>2, ArriveEffect DEF ShownIsSpent, HasRotated, Inv, TypeOK
<1>3. ASSUME NEW r \in Requests, Handle(r)
      PROVE  ShownIsSpent'
  <2>1. CASE RevokeRefreshToken(r)
    <3>1. ASSUME HasRotated(r)'
          PROVE  /\ req[r].op = "refresh" /\ req[r].shown \in stored
                 /\ \A t \in rows' : t.secret # req[r].shown
      <4>1. HoldsEntry(r)
        BY <1>3, <2>1, <3>1, HandleEffect, RevokedEffect
        DEF RevokeRefreshToken, HoldsEntry, HasRotated, Inv
      <4>2. /\ req[r].shown \in stored
            /\ req[req[r].shown].user = req[r].user
            /\ req[req[r].shown].session = req[r].session
        BY <2>1, <4>1 DEF RevokeRefreshToken, Inv, EntryIsOwn
      <4>3. QED
        BY <2>1, <4>1, <4>2
        DEF RevokeRefreshToken, HoldsEntry, WithoutSession, RowsOf, Inv, RowsAreGenuine
    <3>2. rows' \subseteq rows /\ stored' = stored
      BY <2>1 DEF RevokeRefreshToken, WithoutSession
    <3>3. req'[r].pc \in {"access", "answered"}
      BY <1>3, <2>1, HandleLeads DEF Inv
    <3>4. QED
      BY <1>3, <3>1, <3>2, <3>3, HandleEffect
      DEF ShownIsSpent, HasRotated, Inv, TypeOK, Finished
  <2>2. CASE SaveRefreshToken(r)
    <3>1. r \notin stored
      BY <2>2 DEF SaveRefreshToken, Inv, StoredIsDone, Finished
    <3>2. \A t \in rows' : t \in rows \/ t.secret = r
      BY <2>2 DEF SaveRefreshToken
    <3>3. stored \subseteq stored'
      BY <2>2 DEF SaveRefreshToken
    <3>4. HasRotated(r)' => HasRotated(r)
      <4>1. ~RevokeRefreshToken(r)
        BY <2>2 DEF SaveRefreshToken, RevokeRefreshToken
      <4>2. QED
        BY <1>3, <4>1, HandleEffect, HistoryEffect DEF HasRotated, Inv, Idle, InFlight, Active
    <3>5. req'[r].pc \in {"respond", "rejected"}
      BY <1>3, <2>2, HandleLeads DEF Inv
    <3>6. QED
      BY <1>3, <3>1, <3>2, <3>3, <3>4, <3>5, HandleEffect
      DEF ShownIsSpent, HasRotated, Inv, TypeOK, Finished
  <2>3. CASE ~(RevokeRefreshToken(r) \/ SaveRefreshToken(r))
    <3>1. rows' \subseteq rows /\ stored' = stored
      BY <1>3, <2>3
      DEF Handle, FindByUserAndSession, ValidateHash, DeleteById, FindOwner,
          RevokeAllForUser, CreateAccessToken, DeleteByUserAndSession, Respond,
          WithoutSession, WithoutUser, WithoutId
    <3>2. HasRotated(r)' => HasRotated(r)
      BY <1>3, <2>3, HandleEffect, HistoryEffect DEF HasRotated, Inv, Idle, InFlight, Active
    <3>3. req[r].pc \in {"access", "clear", "save", "respond"} \cup Finished
            => req'[r].pc \in {"access", "clear", "save", "respond"} \cup Finished
      BY <1>3, <2>3, HandleLeads
      DEF Handle, FindByUserAndSession, ValidateHash, DeleteById, FindOwner,
          RevokeAllForUser, CreateAccessToken, DeleteByUserAndSession, Respond,
          Finished, Inv
    <3>4. QED
      BY <1>3, <3>1, <3>2, <3>3, HandleEffect DEF ShownIsSpent, HasRotated, Inv, TypeOK
  <2>4. QED
    BY <2>1, <2>2, <2>3
<1>4. ASSUME NEW r \in Requests, Crash(r)
      PROVE  ShownIsSpent'
  <2>1. req[r] # Idle
    BY <1>4 DEF Crash, InFlight, Active, Idle
  <2>2. QED
    BY <1>4, <2>1, GotoEffect DEF Crash, Finished, Inv, ShownIsSpent, HasRotated, TypeOK
<1>5. ASSUME NEW r \in Requests, Expire(r)
      PROVE  ShownIsSpent'
  BY <1>5 DEF Expire, ShownIsSpent, HasRotated, Inv
<1>6. ASSUME NEW u \in Users, DeleteUser(u)
      PROVE  ShownIsSpent'
  BY <1>6 DEF DeleteUser, WithoutUser, ShownIsSpent, HasRotated, Inv
<1>7. QED
  BY <1>1, <1>2, <1>3, <1>4, <1>5, <1>6 DEF Next

(* Who reads when the secret he shows has been rotated does not find it.   *)
LEMMA LateStep == Inv /\ [Next]_vars => LateIsStopped'
<1> SUFFICES ASSUME Inv, [Next]_vars
             PROVE  LateIsStopped'
  OBVIOUS
<1>1. CASE UNCHANGED vars
  BY <1>1 DEF vars, LateIsStopped, Inv
<1>2. ASSUME NEW r \in Requests, Arrive(r)
      PROVE  LateIsStopped'
  BY <1>2, ArriveEffect DEF LateIsStopped, Inv, TypeOK
<1>3. ASSUME NEW r \in Requests, Handle(r)
      PROVE  LateIsStopped'
  <2>1. req[r] # Idle /\ (req[r].late = "yes" => req[r].pc = "validate" /\ req[r].rotated = "no"
                                        /\ req[r].entry # req[r].shown)
    BY <1>3, HandleEffect DEF Inv, LateIsStopped, InFlight, Active, Idle
  <2>2. CASE FindByUserAndSession(r)
    <3>1. ASSUME NEW t \in RowsOf(req[r].user, req[r].session), HasRead(r, t)
          PROVE  LateIsStopped'
      <4>1. /\ req'[r].pc = "validate" /\ req'[r].entry = t.secret
            /\ req'[r].late = RotatedAlready(req[r].shown)
            /\ req'[r].shown = req[r].shown
        BY <1>3, <3>1, HandleEffect, ReadEffect DEF Inv, RowsOf
      <4>2. RotatedAlready(req[r].shown) = "yes" => t.secret # req[r].shown
        BY DEF RotatedAlready, RowsOf, Inv, ShownIsSpent, HasRotated
      <4>3. req'[r].rotated = "no"
        <5>1. req[r].rotated \in {"no", "yes"}
          BY <1>3, HandleEffect DEF Inv, Started
        <5>2. req[r].rotated # "yes"
          BY <2>1, <2>2 DEF FindByUserAndSession, Inv, ShownIsSpent, HasRotated, Finished
        <5>3. QED
          BY <1>3, <3>1, <5>1, <5>2, HandleEffect, ReadEffect DEF Inv, RowsOf
      <4>4. QED
        BY <1>3, <4>1, <4>2, <4>3, HandleEffect DEF LateIsStopped, Inv, TypeOK
    <3>2. CASE Goto(r, "rejected")
      BY <1>3, <2>1, <3>2, HandleEffect, GotoEffect DEF LateIsStopped, Inv, TypeOK, Finished
    <3>3. QED
      BY <2>2, <3>1, <3>2 DEF FindByUserAndSession
  <2>3. CASE ValidateHash(r)
    BY <1>3, <2>1, <2>3, HandleEffect, GotoEffect
    DEF ValidateHash, LateIsStopped, Inv, TypeOK, Active, Finished
  <2>4. CASE ~(FindByUserAndSession(r) \/ ValidateHash(r))
    <3>1. req[r].pc # "validate"
      BY <1>3, <2>4
      DEF Handle, DeleteById, FindOwner, RevokeRefreshToken, RevokeAllForUser,
          CreateAccessToken, DeleteByUserAndSession, SaveRefreshToken, Respond
    <3>2. req'[r].late # "yes"
      BY <1>3, <2>1, <2>4, <3>1, HistoryEffect DEF Inv
    <3>3. QED
      BY <1>3, <3>2, HandleEffect DEF LateIsStopped, Inv, TypeOK
  <2>5. QED
    BY <2>2, <2>3, <2>4
<1>4. ASSUME NEW r \in Requests, Crash(r)
      PROVE  LateIsStopped'
  <2>1. req[r] # Idle
    BY <1>4 DEF Crash, InFlight, Active, Idle
  <2>2. QED
    BY <1>4, <2>1, GotoEffect DEF Crash, Finished, Inv, LateIsStopped, TypeOK
<1>5. ASSUME NEW r \in Requests, Expire(r)
      PROVE  LateIsStopped'
  BY <1>5 DEF Expire, LateIsStopped, Inv
<1>6. ASSUME NEW u \in Users, DeleteUser(u)
      PROVE  LateIsStopped'
  BY <1>6 DEF DeleteUser, LateIsStopped, Inv
<1>7. QED
  BY <1>1, <1>2, <1>3, <1>4, <1>5, <1>6 DEF Next

LEMMA KeptStep == Inv /\ [Next]_vars => SessionKept'
<1> SUFFICES ASSUME Inv, [Next]_vars, NEW u \in users', NEW s \in Sessions,
                    Undisturbed(u, s)',
                    NEW x \in stored', Concerns(x, u, s)'
             PROVE  \/ RowsOf(u, s)' # {}
                    \/ \E q \in Requests : /\ Concerns(q, u, s)'
                                           /\ req'[q].pc \in {"access", "clear", "save"}
  BY DEF SessionKept, RowsOf, Concerns, Undisturbed
<1> DEFINE Goal == \/ RowsOf(u, s)' # {}
                   \/ \E q \in Requests : /\ Concerns(q, u, s)'
                                          /\ req'[q].pc \in {"access", "clear", "save"}
           InHand(q) == Concerns(q, u, s) /\ req[q].pc \in {"access", "clear", "save"}
           Now == RowsOf(u, s) # {} \/ \E q \in Requests : InHand(q)
<1> HIDE DEF Goal
<1>0. ASSUME Undisturbed(u, s), u \in users, NEW y \in stored, Concerns(y, u, s)
      PROVE  Now
  BY <1>0 DEF Inv, SessionKept
<1>1. ASSUME UNCHANGED vars
      PROVE  Goal
  BY <1>1 DEF vars, Inv, SessionKept, RowsOf, Concerns, Undisturbed, Goal
<1>2. ASSUME NEW r \in Requests, Arrive(r)
      PROVE  Goal
  <2>1. ~Concerns(r, u, s) /\ ~InHand(r)
    BY <1>2, ArriveEffect DEF Inv, Concerns, Idle
  <2>2. \A q \in Requests \ {r} : Concerns(q, u, s)' <=> Concerns(q, u, s)
    BY <1>2, ArriveEffect DEF Inv, Concerns
  <2>3. r \notin stored
    BY <1>2, ArriveEffect DEF Inv, StoredIsDone, Idle, Finished
  <2>4. Undisturbed(u, s) /\ u \in users /\ x \in stored /\ Concerns(x, u, s)
    BY <1>2, <2>1, <2>2, <2>3, ArriveEffect DEF Inv, TypeOK, Undisturbed
  <2>5. Now
    BY <1>0, <2>4
  <2>6. QED
    BY <1>2, <2>1, <2>2, <2>5, ArriveEffect DEF Inv, RowsOf, Goal
<1>3. ASSUME NEW r \in Requests, Handle(r)
      PROVE  Goal
  <2>1. \A q \in Requests : Concerns(q, u, s)' <=> Concerns(q, u, s)
    BY <1>3, HandleEffect DEF Inv, Concerns, InFlight, Active, Started, Finished
  <2>2. Undisturbed(u, s) /\ u \in users
    BY <1>3, <2>1, HandleEffect DEF Inv, Undisturbed, InFlight, Active
  <2>3. Concerns(r, u, s) => /\ req[r].op \in {"login", "refresh"}
                             /\ req[r].user = u /\ req[r].session = s
    BY <2>2 DEF Undisturbed, Concerns
  <2>4. x \in stored => Now
    BY <1>0, <2>1, <2>2 DEF Inv, TypeOK
  <2>5. CASE DeleteById(r)
    <3>1. req[r].entry \in stored /\ req[r].entry \in expired
      BY <2>5 DEF DeleteById, Inv, EntryIsOwn, HoldsEntry
    <3>2. ASSUME NEW t \in RowsOf(u, s)
          PROVE  t.secret # req[r].entry
      <4>1. t.secret \in stored /\ t.secret \in Requests /\ Concerns(t.secret, u, s)
        BY DEF RowsOf, Inv, RowsAreGenuine, StoredIsDone, TypeOK, Concerns, Finished
      <4>2. QED
        BY <2>2, <3>1, <4>1 DEF Undisturbed
    <3>3. RowsOf(u, s)' = RowsOf(u, s)
      BY <2>5, <3>2 DEF DeleteById, WithoutId, RowsOf
    <3>4. QED
      BY <1>3, <2>1, <2>4, <2>5, <3>3, HandleEffect DEF DeleteById, Inv, Goal
  <2>6. CASE RevokeRefreshToken(r)
    <3>1. CASE Concerns(r, u, s)
      <4>1. req'[r].pc = "access"
        BY <1>3, <2>3, <2>6, <3>1, HandleLeads DEF Inv
      <4>2. QED
        BY <2>1, <3>1, <4>1 DEF Goal
    <3>2. CASE ~Concerns(r, u, s)
      <4>1. req[r].user # u \/ req[r].session # s
        BY <2>6, <3>2 DEF RevokeRefreshToken, Concerns
      <4>2. RowsOf(u, s)' = RowsOf(u, s)
        BY <2>6, <4>1 DEF RevokeRefreshToken, WithoutSession, RowsOf
      <4>3. QED
        BY <1>3, <2>1, <2>4, <2>6, <3>2, <4>2, HandleEffect DEF RevokeRefreshToken, Inv, Goal
    <3>3. QED
      BY <3>1, <3>2
  <2>7. CASE RevokeAllForUser(r)
    <3>1. req[r].op = "revokeAll"
      BY <2>7 DEF RevokeAllForUser, Inv, StepFitsOperation
    <3>2. req[r].user # u
      BY <2>3, <2>7, <3>1 DEF RevokeAllForUser, Concerns
    <3>3. RowsOf(u, s)' = RowsOf(u, s)
      BY <2>7, <3>2 DEF RevokeAllForUser, WithoutUser, RowsOf
    <3>4. QED
      BY <1>3, <2>1, <2>4, <2>7, <3>3, HandleEffect DEF RevokeAllForUser, Inv, Goal
  <2>8. CASE CreateAccessToken(r)
    <3>1. Concerns(r, u, s) => req'[r].pc = "clear"
      BY <1>3, <2>2, <2>3, <2>8, HandleEffect, GotoEffect
      DEF CreateAccessToken, Inv, Active, Finished
    <3>2. RowsOf(u, s)' = RowsOf(u, s) /\ stored' = stored
      BY <2>8 DEF CreateAccessToken, RowsOf
    <3>3. QED
      BY <1>3, <2>1, <2>4, <3>1, <3>2, HandleEffect DEF Inv, Goal
  <2>9. CASE DeleteByUserAndSession(r)
    <3>1. CASE Concerns(r, u, s)
      <4>1. req'[r].pc = "save"
        BY <1>3, <2>9, HandleEffect, GotoEffect
        DEF DeleteByUserAndSession, Inv, Active, Finished
      <4>2. QED
        BY <2>1, <3>1, <4>1 DEF Goal
    <3>2. CASE ~Concerns(r, u, s)
      <4>1. req[r].user # u \/ req[r].session # s
        BY <2>9, <3>2 DEF DeleteByUserAndSession, Concerns
      <4>2. RowsOf(u, s)' = RowsOf(u, s)
        BY <2>9, <4>1 DEF DeleteByUserAndSession, WithoutSession, RowsOf
      <4>3. QED
        BY <1>3, <2>1, <2>4, <2>9, <3>2, <4>2, HandleEffect
        DEF DeleteByUserAndSession, Inv, Goal
    <3>3. QED
      BY <3>1, <3>2
  <2>10. CASE SaveRefreshToken(r)
    <3>1. CASE Concerns(r, u, s)
      <4>1. CASE MaySave(r)
        <5>1. [user |-> u, session |-> s, secret |-> r] \in rows'
          BY <2>3, <2>10, <3>1, <4>1 DEF SaveRefreshToken
        <5>2. [user |-> u, session |-> s, secret |-> r] \in RowsOf(u, s)'
          BY <5>1 DEF RowsOf
        <5>3. QED
          BY <5>2 DEF Goal
      <4>2. CASE ~MaySave(r)
        BY <2>2, <2>3, <2>10, <3>1, <4>2 DEF SaveRefreshToken, MaySave, RowsOf, Goal
      <4>3. QED
        BY <4>1, <4>2
    <3>2. CASE ~Concerns(r, u, s)
      <4>1. x \in stored
        BY <2>1, <2>10, <3>2 DEF SaveRefreshToken
      <4>2. RowsOf(u, s) \subseteq RowsOf(u, s)'
        BY <2>10 DEF SaveRefreshToken, RowsOf
      <4>3. QED
        BY <1>3, <2>1, <2>4, <3>2, <4>1, <4>2, HandleEffect DEF Inv, Goal
    <3>3. QED
      BY <3>1, <3>2
  <2>11. CASE \/ FindByUserAndSession(r) \/ ValidateHash(r) \/ FindOwner(r) \/ Respond(r)
    <3>1. RowsOf(u, s)' = RowsOf(u, s) /\ stored' = stored
      BY <2>11 DEF FindByUserAndSession, ValidateHash, FindOwner, Respond, RowsOf
    <3>2. ~InHand(r)
      BY <2>11 DEF FindByUserAndSession, ValidateHash, FindOwner, Respond
    <3>3. QED
      BY <1>3, <2>1, <2>4, <3>1, <3>2, HandleEffect DEF Inv, Goal
  <2>12. QED
    BY <1>3, <2>5, <2>6, <2>7, <2>8, <2>9, <2>10, <2>11 DEF Handle
<1>4. ASSUME NEW r \in Requests, Crash(r)
      PROVE  Goal
  <2>1. \A q \in Requests : Concerns(q, u, s)' <=> Concerns(q, u, s)
    BY <1>4, GotoEffect DEF Crash, Finished, Inv, Concerns, InFlight, Active
  <2>2. ~Concerns(r, u, s)
    BY <1>4, <2>1, GotoEffect DEF Crash, Finished, Inv, Undisturbed
  <2>3. Undisturbed(u, s) /\ u \in users /\ x \in stored /\ Concerns(x, u, s)
    BY <1>4, <2>1, <2>2, GotoEffect DEF Crash, Finished, Inv, TypeOK, Undisturbed
  <2>4. Now
    BY <1>0, <2>3
  <2>5. QED
    BY <1>4, <2>1, <2>2, <2>4, GotoEffect DEF Crash, Finished, Inv, RowsOf, Goal
<1>5. ASSUME NEW z \in Requests, Expire(z)
      PROVE  Goal
  <2>1. Undisturbed(u, s) /\ u \in users /\ x \in stored /\ Concerns(x, u, s)
    BY <1>5 DEF Expire, Undisturbed, Concerns
  <2>2. Now
    BY <1>0, <2>1
  <2>3. QED
    BY <1>5, <2>2 DEF Expire, Concerns, RowsOf, Goal
<1>6. ASSUME NEW v \in Users, DeleteUser(v)
      PROVE  Goal
  <2>1. Undisturbed(u, s) /\ u \in users /\ x \in stored /\ Concerns(x, u, s) /\ u # v
    BY <1>6 DEF DeleteUser, Undisturbed, Concerns
  <2>2. Now
    BY <1>0, <2>1
  <2>3. QED
    BY <1>6, <2>1, <2>2 DEF DeleteUser, WithoutUser, Concerns, RowsOf, Goal
<1>7. Goal
  BY <1>1, <1>2, <1>3, <1>4, <1>5, <1>6 DEF Next
<1>8. QED
  BY <1>7 DEF Goal

-----------------------------------------------------------------------------
LEMMA InvInit == Init => Inv
<1> SUFFICES ASSUME Init
             PROVE  Inv
  OBVIOUS
<1>1. TypeOK
  BY InitType
<1>2. RowsAreGenuine
  BY DEF Init, RowsAreGenuine
<1>3. StepFitsOperation /\ StoredIsDone /\ EntryIsOwn /\ ShownIsSpent /\ LateIsStopped
  BY DEF Init, Idle, StepFitsOperation, StoredIsDone, Delivered, EntryIsOwn, HoldsEntry,
         ShownIsSpent, HasRotated, LateIsStopped
<1>4. SessionKept
  BY DEF Init, SessionKept
<1>5. QED
  BY <1>1, <1>2, <1>3, <1>4 DEF Inv

LEMMA InvStep == Inv /\ [Next]_vars => Inv'
<1>1. Inv /\ [Next]_vars => TypeOK'
  BY NextType DEF Inv
<1>2. QED
  BY <1>1, GenuineStep, OperationStep, StoredStep, EntryStep, SpentStep, LateStep, KeptStep DEF Inv

(* Rows, history and the handlers' local copies agree in every state.      *)
THEOREM Invariance == Spec => []Inv
BY InvInit, InvStep, PTL DEF Spec

(* Of two refreshes that both rotate one secret, each had read its row     *)
(* before the other revoked it.                                            *)
THEOREM RotationIsOnceButForRaces == Spec => []RotatedTwiceOnlyByRace
<1>1. Inv => RotatedTwiceOnlyByRace
  BY DEF Inv, TypeOK, Started, LateIsStopped, HasRotated, RotatedTwiceOnlyByRace
<1>2. QED
  BY <1>1, Invariance, PTL

(* No interleaving of log-ins and refreshes loses a session.               *)
THEOREM RacesKeepSession == Spec => []SessionSurvives
<1>1. Inv => SessionSurvives
  <2> SUFFICES ASSUME Inv, NEW u \in users, NEW s \in Sessions, Undisturbed(u, s),
                      NEW r \in Requests, Concerns(r, u, s), Delivered(r),
                      \A q \in Requests : Concerns(q, u, s) => ~InFlight(q)
               PROVE  \E t \in RowsOf(u, s) : Delivered(t.secret)
    BY DEF SessionSurvives
  <2>1. r \in stored
    BY DEF Inv, StoredIsDone
  <2>2. RowsOf(u, s) # {}
    BY <2>1 DEF Inv, SessionKept, InFlight, Active
  <2>3. PICK t \in RowsOf(u, s) : TRUE
    BY <2>2
  <2>4. t \in rows /\ t.secret \in stored /\ t.secret \in Requests
    BY DEF RowsOf, Inv, RowsAreGenuine, TypeOK
  <2>5. /\ req[t.secret].user = u /\ req[t.secret].session = s
        /\ req[t.secret].pc \in {"respond"} \cup Finished
        /\ req[t.secret].op \in {"login", "refresh"}
        /\ req[t.secret].pc # "rejected"
    BY <2>4 DEF RowsOf, Inv, RowsAreGenuine, StoredIsDone
  <2>6. Concerns(t.secret, u, s)
    BY <2>5 DEF Concerns, Finished
  <2>7. req[t.secret].pc = "answered"
    BY <2>4, <2>5, <2>6 DEF Undisturbed, InFlight, Active, Finished
  <2>8. QED
    BY <2>3, <2>5, <2>7 DEF Delivered
<1>2. QED
  BY <1>1, Invariance, PTL

(* Colliding session ids do not let one user end another user's session.   *)
THEOREM OwnersEndSessions == Spec => SessionsEndForOwner
<1> DEFINE Ends == \A t \in rows \ rows' :
                     \/ t.user \notin users'
                     \/ \E r \in Requests : /\ req'[r] # req[r]
                                           /\ req'[r].user = t.user
                                           /\ \/ req'[r].session = t.session
                                              \/ req'[r].op = "revokeAll"
<1>1. Inv /\ [Next]_vars => [Ends]_vars
  <2> SUFFICES ASSUME Inv, Next
               PROVE  Ends
    OBVIOUS
  <2>1. ASSUME NEW r \in Requests, Arrive(r) \/ Crash(r) \/ Expire(r)
        PROVE  Ends
    BY <2>1, ArriveEffect DEF Inv, Crash, Expire
  <2>2. ASSUME NEW r \in Requests, Handle(r)
        PROVE  Ends
    <3>1. req'[r].user = req[r].user /\ req'[r].session = req[r].session /\ req'[r].op = req[r].op
      BY <2>2, HandleEffect DEF Inv
    <3>2. CASE DeleteById(r)
      <4>1. req'[r] # req[r]
        BY <2>2, <3>2, GotoEffect, HandleEffect DEF DeleteById, Inv, Finished
      <4>2. \A t \in rows \ rows' : t.user = req[r].user /\ t.session = req[r].session
        BY <3>2
        DEF DeleteById, WithoutId, Inv, EntryIsOwn, HoldsEntry, RowsAreGenuine
      <4>3. QED
        BY <3>1, <4>1, <4>2
    <3>3. CASE RevokeRefreshToken(r) \/ DeleteByUserAndSession(r)
      <4>1. req'[r] # req[r]
        BY <2>2, <3>3, GotoEffect, RevokedEffect, HandleEffect
        DEF RevokeRefreshToken, DeleteByUserAndSession, Inv, Active, Finished
      <4>2. \A t \in rows \ rows' : t.user = req[r].user /\ t.session = req[r].session
        BY <3>3 DEF RevokeRefreshToken, DeleteByUserAndSession, WithoutSession, RowsOf
      <4>3. QED
        BY <3>1, <4>1, <4>2
    <3>4. CASE RevokeAllForUser(r)
      <4>1. req'[r] # req[r]
        BY <2>2, <3>4, GotoEffect, HandleEffect DEF RevokeAllForUser, Inv, Finished
      <4>2. req[r].op = "revokeAll"
        BY <3>4 DEF RevokeAllForUser, Inv, StepFitsOperation
      <4>3. \A t \in rows \ rows' : t.user = req[r].user
        BY <3>4 DEF RevokeAllForUser, WithoutUser
      <4>4. QED
        BY <3>1, <4>1, <4>2, <4>3
    <3>5. CASE \/ FindByUserAndSession(r) \/ ValidateHash(r) \/ FindOwner(r)
               \/ CreateAccessToken(r) \/ SaveRefreshToken(r) \/ Respond(r)
      BY <3>5 DEF FindByUserAndSession, ValidateHash, FindOwner, CreateAccessToken,
                  SaveRefreshToken, Respond
    <3>6. QED
      BY <2>2, <3>2, <3>3, <3>4, <3>5 DEF Handle
  <2>3. ASSUME NEW u \in Users, DeleteUser(u)
        PROVE  Ends
    BY <2>3 DEF DeleteUser, WithoutUser
  <2>4. QED
    BY <2>1, <2>2, <2>3 DEF Next
<1>2. QED
  BY <1>1, Invariance, PTL DEF Spec, SessionsEndForOwner

(* Cleaning up an expired row by its id spares the row that replaced it.   *)
THEOREM CleanupIsById == Spec => CleanupSparesSuccessor
<1> DEFINE Spares == \A r \in Requests :
                       req[r].pc = "cleanup" => \A t \in rows \ rows' :
                          req'[r] # req[r] => t.secret \in expired
<1>1. Inv /\ [Next]_vars => [Spares]_vars
  <2> SUFFICES ASSUME Inv, Next, NEW r \in Requests, req[r].pc = "cleanup",
                      NEW t \in rows \ rows', req'[r] # req[r]
               PROVE  t.secret \in expired
    OBVIOUS
  <2>1. \/ Handle(r) \/ Crash(r)
    <3>1. ASSUME NEW q \in Requests, Arrive(q)
          PROVE  FALSE
      BY <3>1, ArriveEffect DEF Inv
    <3>2. ASSUME NEW q \in Requests, Handle(q), q # r
          PROVE  FALSE
      BY <3>2, HandleEffect DEF Inv
    <3>3. ASSUME NEW q \in Requests, Crash(q), q # r
          PROVE  FALSE
      BY <3>3 DEF Crash
    <3>4. ASSUME NEW q \in Requests, Expire(q)
          PROVE  FALSE
      BY <3>4 DEF Expire
    <3>5. ASSUME NEW u \in Users, DeleteUser(u)
          PROVE  FALSE
      BY <3>5 DEF DeleteUser
    <3>6. QED
      BY <3>1, <3>2, <3>3, <3>4, <3>5 DEF Next
  <2>2. DeleteById(r)
    BY <2>1
    DEF Crash, Handle, FindByUserAndSession, ValidateHash, FindOwner, RevokeRefreshToken,
        RevokeAllForUser, CreateAccessToken, DeleteByUserAndSession, SaveRefreshToken,
        Respond
  <2>3. t.secret = req[r].entry
    BY <2>2 DEF DeleteById, WithoutId
  <2>4. QED
    BY <2>2, <2>3 DEF DeleteById, Inv, EntryIsOwn, HoldsEntry
<1>2. QED
  BY <1>1, Invariance, PTL DEF Spec, CleanupSparesSuccessor

-----------------------------------------------------------------------------
(* Refinement: every statement is a step of SessionTable or a stutter.     *)

(* The entry that a set of rows stands for.                                *)
LEMMA SecretOfEmpty == SecretOf({}) = None
BY DEF SecretOf

LEMMA SecretOfOne ==
  ASSUME NEW found, NEW x, found # {}, \A t \in found : t.secret = x
  PROVE  SecretOf(found) = x
<1>1. (CHOOSE t \in found : TRUE) \in found
  OBVIOUS
<1>2. QED
  BY <1>1 DEF SecretOf

(* Two tables with the same entries are the same table.                    *)
LEMMA TableExtensional ==
  ASSUME NEW t1, NEW t2,
         t1 = [u \in Users |-> [s \in Sessions |-> t1[u][s]]],
         t2 = [u \in Users |-> [s \in Sessions |-> t2[u][s]]],
         \A u \in Users, s \in Sessions : t1[u][s] = t2[u][s]
  PROVE  t1 = t2
<1>1. ASSUME NEW u \in Users
      PROVE  t1[u] = t2[u]
  <2>1. t1[u] = [s \in Sessions |-> t1[u][s]] /\ t2[u] = [s \in Sessions |-> t2[u][s]]
    OBVIOUS
  <2>2. QED
    BY <2>1
<1>2. QED
  BY <1>1

LEMMA SameTable ==
  ASSUME UNCHANGED <<rows, stored>>
  PROVE  UNCHANGED Table!vars
BY DEF Table!vars, LiveTable, RowsOf

LEMMA LiveShape ==
  /\ LiveTable = [u \in Users |-> [s \in Sessions |-> LiveTable[u][s]]]
  /\ \A u \in Users, s \in Sessions : LiveTable[u][s] = SecretOf(RowsOf(u, s))
BY DEF LiveTable

LEMMA LiveShapeNext ==
  /\ LiveTable' = [u \in Users |-> [s \in Sessions |-> LiveTable'[u][s]]]
  /\ \A u \in Users, s \in Sessions : LiveTable'[u][s] = SecretOf(RowsOf(u, s)')
BY DEF LiveTable

(* Deleting the rows of some sessions of one user is a step of the table.  *)
LEMMA DeletionEnds ==
  ASSUME NEW u \in Users, NEW gone \in SUBSET Sessions, stored' = stored,
         rows' = {t \in rows : ~(t.user = u /\ t.session \in gone)}
  PROVE  Table!Next
<1> DEFINE new == [LiveTable EXCEPT ![u] =
                     [s \in Sessions |-> IF s \in gone THEN None ELSE LiveTable[u][s]]]
<1>1. ASSUME NEW v \in Users, NEW s \in Sessions
      PROVE  LiveTable'[v][s] = new[v][s]
  <2>1. CASE v = u /\ s \in gone
    <3>1. RowsOf(v, s)' = {}
      BY <2>1 DEF RowsOf
    <3>2. QED
      BY <2>1, <3>1, LiveShape, LiveShapeNext, SecretOfEmpty
  <2>2. CASE ~(v = u /\ s \in gone)
    <3>1. RowsOf(v, s)' = RowsOf(v, s)
      BY <2>2 DEF RowsOf
    <3>2. LiveTable'[v][s] = LiveTable[v][s]
      BY <3>1, LiveShape, LiveShapeNext
    <3>3. QED
      BY <2>2, <3>2, LiveShape
  <2>3. QED
    BY <2>1, <2>2
<1>2. new = [v \in Users |-> [s \in Sessions |-> new[v][s]]]
  <2>1. ASSUME NEW v \in Users
        PROVE  new[v] = [s \in Sessions |-> new[v][s]]
    BY LiveShape
  <2>2. QED
    BY <2>1, LiveShape
<1>3. LiveTable' = new
  <2> HIDE DEF new
  <2> QED
    BY <1>1, <1>2, LiveShapeNext, TableExtensional
<1>4. Table!End(u, gone)
  BY <1>3 DEF Table!End
<1>5. QED
  BY <1>4 DEF Table!Next

(* The INSERT of a fresh secret begins a session.                          *)
LEMMA InsertBegins ==
  ASSUME Inv, NEW r \in Requests, SaveRefreshToken(r), stored' # stored
  PROVE  Table!Next
<1>1. PICK u \in Users, s \in Sessions : u = req[r].user /\ s = req[r].session
  BY DEF SaveRefreshToken, Inv, TypeOK, Started, Idle
<1>2. /\ RowsOf(u, s) = {}
      /\ rows' = rows \cup {[user |-> u, session |-> s, secret |-> r]}
      /\ stored' = stored \cup {r}
  BY <1>1 DEF SaveRefreshToken, MaySave
<1>3. r \notin stored
  BY DEF SaveRefreshToken, Inv, StoredIsDone, Finished
<1> DEFINE new == [LiveTable EXCEPT ![u][s] = r]
<1>4. ASSUME NEW v \in Users, NEW z \in Sessions
      PROVE  LiveTable'[v][z] = new[v][z]
  <2>1. CASE v = u /\ z = s
    <3>1. RowsOf(v, z)' = {[user |-> u, session |-> s, secret |-> r]}
      BY <1>2, <2>1 DEF RowsOf
    <3>2. SecretOf(RowsOf(v, z)') = r
      <4>1. RowsOf(v, z)' # {} /\ \A t \in RowsOf(v, z)' : t.secret = r
        BY <3>1
      <4>2. QED
        BY <4>1, SecretOfOne
    <3>3. QED
      BY <2>1, <3>2, LiveShape, LiveShapeNext
  <2>2. CASE ~(v = u /\ z = s)
    <3>1. RowsOf(v, z)' = RowsOf(v, z)
      BY <1>2, <2>2 DEF RowsOf
    <3>2. LiveTable'[v][z] = LiveTable[v][z]
      BY <3>1, LiveShape, LiveShapeNext
    <3>3. QED
      BY <2>2, <3>2, LiveShape
  <2>3. QED
    BY <2>1, <2>2
<1>5. new = [v \in Users |-> [z \in Sessions |-> new[v][z]]]
  <2>1. ASSUME NEW v \in Users
        PROVE  new[v] = [z \in Sessions |-> new[v][z]]
    BY LiveShape
  <2>2. QED
    BY <2>1, LiveShape
<1>6. LiveTable' = new
  <2> HIDE DEF new
  <2> QED
    BY <1>4, <1>5, LiveShapeNext, TableExtensional
<1>7. LiveTable[u][s] = None
  BY <1>2, LiveShape, SecretOfEmpty
<1>8. Table!Begin(u, s, r)
  BY <1>2, <1>3, <1>6, <1>7 DEF Table!Begin
<1>9. QED
  BY <1>8 DEF Table!Next

LEMMA TableStep == Inv /\ [Next]_vars => [Table!Next]_(Table!vars)
<1> SUFFICES ASSUME Inv, [Next]_vars
             PROVE  Table!Next \/ UNCHANGED Table!vars
  OBVIOUS
<1>1. ASSUME UNCHANGED vars
      PROVE  UNCHANGED Table!vars
  BY <1>1, SameTable DEF vars
<1>2. ASSUME NEW r \in Requests, Arrive(r) \/ Crash(r) \/ Expire(r)
      PROVE  UNCHANGED Table!vars
  BY <1>2, ArriveEffect, SameTable DEF Inv, Crash, Expire
<1>3. ASSUME NEW r \in Requests, Handle(r)
      PROVE  Table!Next \/ UNCHANGED Table!vars
  <2>0. PICK u \in Users, s \in Sessions : u = req[r].user /\ s = req[r].session
    BY <1>3, HandleEffect DEF Inv, Started
  <2>1. CASE DeleteById(r)
    <3>1. CASE \E t \in rows : t.secret = req[r].entry
      <4>1. rows' = {t \in rows : ~(t.user = u /\ t.session \in {s})}
        BY <2>0, <2>1, <3>1
        DEF DeleteById, WithoutId, Inv, EntryIsOwn, HoldsEntry, RowsAreGenuine
      <4>2. QED
        BY <2>1, <4>1, DeletionEnds DEF DeleteById
    <3>2. CASE ~\E t \in rows : t.secret = req[r].entry
      <4>1. rows' = rows
        BY <2>1, <3>2 DEF DeleteById, WithoutId
      <4>2. QED
        BY <2>1, <4>1, SameTable DEF DeleteById
    <3>3. QED
      BY <3>1, <3>2
  <2>2. CASE RevokeRefreshToken(r) \/ DeleteByUserAndSession(r)
    <3>1. rows' = {t \in rows : ~(t.user = u /\ t.session \in {s})} /\ stored' = stored
      BY <2>0, <2>2
      DEF RevokeRefreshToken, DeleteByUserAndSession, WithoutSession, RowsOf
    <3>2. QED
      BY <3>1, DeletionEnds
  <2>3. CASE RevokeAllForUser(r)
    <3>1. rows' = {t \in rows : ~(t.user = u /\ t.session \in Sessions)} /\ stored' = stored
      BY <2>0, <2>3 DEF RevokeAllForUser, WithoutUser, Inv, TypeOK, Row
    <3>2. QED
      BY <3>1, DeletionEnds
  <2>4. CASE SaveRefreshToken(r)
    <3>1. CASE stored' # stored
      BY <2>4, <3>1, InsertBegins
    <3>2. CASE stored' = stored
      <4>1. rows' = rows
        BY <2>4, <3>2 DEF SaveRefreshToken, Inv, StoredIsDone, Finished
      <4>2. QED
        BY <3>2, <4>1, SameTable
    <3>3. QED
      BY <3>1, <3>2
  <2>5. CASE \/ FindByUserAndSession(r) \/ ValidateHash(r) \/ FindOwner(r)
             \/ CreateAccessToken(r) \/ Respond(r)
    BY <2>5, SameTable
    DEF FindByUserAndSession, ValidateHash, FindOwner, CreateAccessToken, Respond
  <2>6. QED
    BY <1>3, <2>1, <2>2, <2>3, <2>4, <2>5 DEF Handle
<1>4. ASSUME NEW u \in Users, DeleteUser(u)
      PROVE  Table!Next
  <2>1. rows' = {t \in rows : ~(t.user = u /\ t.session \in Sessions)} /\ stored' = stored
    BY <1>4 DEF DeleteUser, WithoutUser, Inv, TypeOK, Row
  <2>2. QED
    BY <2>1, DeletionEnds
<1>5. QED
  BY <1>1, <1>2, <1>3, <1>4 DEF Next

(* RefreshSessions implements SessionTable.                                *)
THEOREM TableImplemented == Spec => ImplementsSessionTable
<1>1. Init => Table!Init
  <2> SUFFICES ASSUME Init
               PROVE  Table!Init
    OBVIOUS
  <2>1. \A u \in Users, s \in Sessions : LiveTable[u][s] = None
    <3>1. \A u \in Users, s \in Sessions : RowsOf(u, s) = {}
      BY DEF Init, RowsOf
    <3>2. QED
      BY <3>1, LiveShape, SecretOfEmpty
  <2>2. LiveTable = [u \in Users |-> [s \in Sessions |-> None]]
    <3> DEFINE none == [u \in Users |-> [s \in Sessions |-> None]]
    <3>1. none = [u \in Users |-> [s \in Sessions |-> none[u][s]]]
      OBVIOUS
    <3>2. \A u \in Users, s \in Sessions : LiveTable[u][s] = none[u][s]
      BY <2>1
    <3> HIDE DEF none
    <3>3. LiveTable = none
      BY <3>1, <3>2, LiveShape, TableExtensional
    <3>4. QED
      BY <3>3 DEF none
  <2>3. QED
    BY <2>2 DEF Table!Init, Init
<1>2. QED
  BY <1>1, TableStep, Invariance, PTL DEF Spec, Table!Spec, ImplementsSessionTable

(***************************************************************************)
(* Passwords and their reset around the sessions.                          *)
(***************************************************************************)

Statement == {"updatePassword", "clearToken", "revokeAll"}

LEMMA Statements ==
    /\ ResetStatements \in Seq(Statement) /\ Tail(ResetStatements) \in Seq(Statement)
    /\ Tail(Tail(ResetStatements)) \in Seq(Statement)
    /\ Tail(Tail(Tail(ResetStatements))) = <<>>
    /\ Head(ResetStatements) = "updatePassword"
    /\ Head(Tail(ResetStatements)) = "clearToken"
    /\ Head(Tail(Tail(ResetStatements))) = "revokeAll"
    /\ ResetStatements # Tail(ResetStatements)
    /\ ResetStatements # Tail(Tail(ResetStatements))
    /\ Tail(ResetStatements) # <<>> /\ Tail(Tail(ResetStatements)) # <<>>
    /\ Tail(ResetStatements) # Tail(Tail(ResetStatements))
<1>1. /\ Tail(ResetStatements) = <<"clearToken", "revokeAll">>
      /\ Tail(<<"clearToken", "revokeAll">>) = <<"revokeAll">>
      /\ Tail(<<"revokeAll">>) = <<>>
  BY DEF ResetStatements
<1> QED
  BY <1>1 DEF ResetStatements, Statement

-----------------------------------------------------------------------------
(* A step of request r, whose handler then has the state j.                *)
Becomes(r, j) ==
    /\ job[r] = NoJob \/ AtWork(r)
    /\ job' = [job EXCEPT ![r] = j]
    /\ \A q \in Requests \ {r} : req'[q] = req[q]
    /\ JobFits(r)'
    /\ Unwritten(r)' => Unwritten(r)

(* What it does to the sessions and to those who race with a revocation.   *)
Races(r) ==
    /\ \A t \in rows' : t \in rows \/ t.secret = r
    /\ raced \subseteq raced' /\ raced' \subseteq Requests
    /\ \A q \in raced' \ raced : q = r \/ AtWork(q)
    /\ \A p \in Requests \ {r} : HasReset(p) => ShutOut(p, r)'
    /\ HasReset(r)' => \A q \in Requests : ShutOut(r, q)'

(* What it writes to the columns ...                                       *)
Writes(r, j) ==
    /\ account' \in [Users -> Column] /\ former' \in [Users -> SUBSET Cred]
    /\ \A u \in Users :
         /\ \/ /\ account'[u].password = account[u].password
               /\ former'[u] = former[u]
            \/ /\ Unwritten(r) /\ ~Unwritten(r)'
               /\ account'[u].password = r
               /\ former'[u] = former[u] \cup {account[u].password}
         /\ \/ account'[u].resetToken = account[u].resetToken
            \/ account'[u].resetToken \notin mailed
            \/ /\ j.pc = "done" /\ j.kind = "change" /\ j.back
               /\ j.loaded.resetToken = account'[u].resetToken
    /\ j.retired \subseteq former'[j.user]
    /\ HasCleared(r)' => TokenGone(r)'
    /\ HasSet(r)' => PasswordSet(r)'

(* ... and mails.                                                          *)
Mails(j, r) ==
    /\ lapsed' = lapsed /\ mailed \subseteq mailed'
    /\ \A t \in mailed' \ mailed : t = r /\ j.pc = "done" /\ j.kind = "forgot"
    /\ j.kind = "reset" => j.token \in mailed

LEMMA Delivery ==
    ASSUME PRInv, NEW x \in Requests, Delivered(x)
    PROVE  job[x] \in Job /\ job[x].pc = "done" /\ job[x].user = req[x].user
<1>1. JobFits(x) /\ TypeOK /\ job[x] \in {NoJob} \cup Job
  BY DEF PRInv, PRTypeOK
<1> QED
  BY <1>1 DEF JobFits, Delivered, InFlight, Active, Idle

LEMMA RequestMoves ==
    ASSUME PRInv, [Next]_vars, NEW r \in Requests, NEW j \in Job,
           Becomes(r, j), Races(r), Writes(r, j), Mails(j, r)
    PROVE  PRInv'
<1> USE DEF Becomes
<1>1. Inv'
  BY InvStep DEF PRInv
<1>t. /\ TypeOK /\ TypeOK' /\ job \in [Requests -> {NoJob} \cup Job]
      /\ mailed \subseteq Requests /\ lapsed \subseteq mailed
      /\ account \in [Users -> Column] /\ former \in [Users -> SUBSET Cred]
  BY <1>1 DEF PRInv, PRTypeOK, Inv
<1>j. /\ job' \in [Requests -> {NoJob} \cup Job] /\ job'[r] = j
      /\ \A q \in Requests \ {r} : job'[q] = job[q]
  BY <1>t
<1>k. job[r].pc # "done" /\ j # NoJob
  BY <1>t DEF AtWork, NoJob, Job
<1>2. PRTypeOK'
  BY <1>t, <1>j DEF PRTypeOK, Races, Writes, Mails
<1>3. ASSUME NEW q \in Requests PROVE JobFits(q)'
  <2>1. CASE q = r
    BY <2>1
  <2>2. CASE q # r
    <3>1. JobFits(q) /\ job'[q] = job[q] /\ req'[q] = req[q]
      BY <2>2, <1>j DEF PRInv
    <3>2. ASSUME NEW x \in Requests, Delivered(x)
          PROVE  /\ x # r /\ Delivered(x)' /\ job'[x] = job[x]
                 /\ x \in raced' => x \in raced
      <4>1. job[x].pc = "done"
        BY <3>2, Delivery
      <4> QED
        BY <4>1, <1>k, <1>j, <3>2 DEF Delivered, Races, AtWork
    <3> QED
      BY <3>1, <3>2 DEF JobFits, InFlight, Races
  <2> QED
    BY <2>1, <2>2
<1>4. CredentialsAreFresh'
  <2>f. CredentialsAreFresh
    BY DEF PRInv
  <2>w. \A q \in Requests : Unwritten(q)' => Unwritten(q)
    BY <1>j DEF Unwritten
  <2>r. r # None /\ r \in Cred
    BY NoneIsNoRequest DEF Cred
  <2>1. ASSUME NEW u \in Users
        PROVE  /\ account'[u].password \notin former'[u]
               /\ \A q \in former'[u] \cup {account'[u].password} : q # None => ~Unwritten(q)'
    <3>0. \A q \in former'[u] \cup {account'[u].password} : q # None => q \in Requests
      BY <1>2 DEF PRTypeOK, Column, Cred
    <3>1. CASE account'[u].password = account[u].password /\ former'[u] = former[u]
      BY <3>0, <3>1, <2>f, <2>w DEF CredentialsAreFresh
    <3>2. CASE /\ Unwritten(r) /\ ~Unwritten(r)'
               /\ account'[u].password = r
               /\ former'[u] = former[u] \cup {account[u].password}
      <4>1. r \notin former[u] \cup {account[u].password}
        BY <3>2, <2>f, <2>r DEF CredentialsAreFresh
      <4> QED
        BY <4>1, <3>0, <3>2, <2>f, <2>w DEF CredentialsAreFresh
    <3> QED
      BY <3>1, <3>2 DEF Writes
  <2>2. ASSUME NEW t \in mailed' PROVE job'[t].pc = "done" /\ job'[t].kind = "forgot"
    <3>1. CASE t \in mailed
      <4>1. t \in Requests /\ t # r
        BY <3>1, <1>t, <1>k, <2>f DEF CredentialsAreFresh
      <4> QED
        BY <4>1, <3>1, <1>j, <2>f DEF CredentialsAreFresh
    <3> QED
      BY <3>1, <2>2, <1>j DEF Mails
  <2>3. ASSUME NEW q \in Requests, job'[q] # NoJob
        PROVE  /\ job'[q].retired \subseteq former'[job'[q].user]
               /\ job'[q].kind = "reset" => job'[q].token \in mailed'
    <3>1. CASE q = r
      BY <3>1, <1>j DEF Writes, Mails
    <3>2. CASE q # r
      <4>1. job'[q] = job[q] /\ job[q].user \in Users
        BY <3>2, <2>3, <1>j, <1>t DEF Job
      <4>2. former[job[q].user] \subseteq former'[job[q].user]
        BY <4>1 DEF Writes
      <4> QED
        BY <4>1, <4>2, <2>3, <2>f DEF CredentialsAreFresh, Mails
    <3> QED
      BY <3>1, <3>2
  <2> QED
    BY <2>1, <2>2, <2>3 DEF CredentialsAreFresh
<1>5. RetiredIsShutOut'
  <2> SUFFICES ASSUME NEW p \in Requests, NEW q \in Requests, HasReset(p)'
               PROVE  ShutOut(p, q)'
    BY DEF RetiredIsShutOut
  <2>1. CASE p = r
    BY <2>1 DEF Races
  <2>2. CASE p # r
    <3>1. HasReset(p)
      BY <2>2, <1>j DEF HasReset
    <3>2. CASE q = r
      BY <3>1, <3>2, <2>2 DEF Races
    <3>3. CASE q # r
      <4>1. ShutOut(p, q)
        BY <3>1 DEF PRInv, RetiredIsShutOut
      <4> QED
        BY <4>1, <3>3, <2>2, <1>j DEF ShutOut, Races
    <3> QED
      BY <3>2, <3>3
  <2> QED
    BY <2>1, <2>2
<1>6. ASSUME NEW p \in Requests, HasCleared(p)' PROVE TokenGone(p)'
  <2>1. CASE p = r
    BY <2>1, <1>6 DEF Writes
  <2>2. CASE p # r
    <3>1. HasCleared(p) /\ job'[p] = job[p]
      BY <1>6, <2>2, <1>j DEF HasCleared, HasSet, HasReset
    <3>2. TokenGone(p) /\ JobFits(p)
      BY <3>1 DEF PRInv
    <3>3. job[p] \in Job /\ job[p].kind = "reset"
      BY <3>1, <3>2, <1>t DEF HasCleared, HasSet, HasReset, NoJob, JobFits
    <3>4. job[p].user \in Users /\ job[p].token \in mailed
      BY <3>3 DEF PRInv, CredentialsAreFresh, Job, NoJob
    <3>5. CASE \E q \in Requests : /\ job[q].pc = "done" /\ job[q].kind = "change"
                                   /\ job[q].back /\ job[q].loaded.resetToken = job[p].token
      <4>1. PICK q \in Requests : /\ job[q].pc = "done" /\ job[q].kind = "change"
                                  /\ job[q].back /\ job[q].loaded.resetToken = job[p].token
        BY <3>5
      <4>2. job'[q] = job[q]
        BY <4>1, <1>k, <1>j
      <4> QED
        BY <4>1, <4>2, <3>1 DEF TokenGone
    <3>6. CASE account[job[p].user].resetToken # job[p].token
      BY <3>6, <3>1, <3>4, <1>j DEF TokenGone, Writes
    <3> QED
      BY <3>5, <3>6, <3>2 DEF TokenGone
  <2> QED
    BY <2>1, <2>2
<1>7. ASSUME NEW p \in Requests, HasSet(p)' PROVE PasswordSet(p)'
  <2>1. CASE p = r
    BY <2>1, <1>7 DEF Writes
  <2>2. CASE p # r
    <3>1. HasSet(p) /\ job'[p] = job[p]
      BY <1>7, <2>2, <1>j DEF HasSet
    <3>2. PasswordSet(p) /\ job[p].user \in Users
      BY <3>1, <1>t DEF PRInv, HasSet, Job, NoJob
    <3> QED
      BY <3>1, <3>2 DEF PasswordSet, Writes
  <2> QED
    BY <2>1, <2>2
<1> QED
  BY <1>1, <1>2, <1>3, <1>4, <1>5, <1>6, <1>7 DEF PRInv

-----------------------------------------------------------------------------
(* Steps that leave the sessions alone.                                    *)
Quiet(r, j) ==
    /\ UNCHANGED <<vars, raced>>
    /\ job[r] = NoJob \/ AtWork(r)
    /\ job' = [job EXCEPT ![r] = j]
    /\ job[r] = NoJob \/ (j.kind = job[r].kind /\ j.user = job[r].user)
    /\ job[r] # NoJob => job[r].pc # "session"
    /\ j.pc # "session" /\ j.kind # "refresh"
    /\ j.pc = "reset" =>
         /\ j.kind = "reset"
         /\ j.todo \in {ResetStatements, Tail(ResetStatements), Tail(Tail(ResetStatements))}
    /\ j.pc = "second" => j.kind = "signIn"
    /\ j.pc = "write" => j.kind = "change"
    /\ j.pc = "mail" => j.kind = "forgot"
    /\ j.pc = "done" => j.kind # "reset"
    /\ Unwritten(r)' => Unwritten(r)
    /\ \A p \in Requests \ {r} : HasReset(p) /\ j.user = job[p].user =>
         \/ j.pc = "compare" /\ j.loaded.password \notin job[p].retired
         \/ j.pc = "second" /\ (j.proof \notin job[p].retired \/ r \in raced)
         \/ j.pc \notin {"compare", "second"}

LEMMA QuietMoves ==
    ASSUME PRInv, NEW r \in Requests, NEW j \in Job,
           Quiet(r, j), Writes(r, j), Mails(j, r)
    PROVE  PRInv'
<1> USE DEF Quiet
<1>1. [Next]_vars /\ UNCHANGED <<users, rows, stored, expired, req>>
  BY DEF vars
<1>t. /\ job \in [Requests -> {NoJob} \cup Job] /\ JobFits(r) /\ raced \subseteq Requests
      /\ Inv
  BY DEF PRInv, PRTypeOK
<1>j. /\ job'[r] = j /\ j # NoJob
      /\ \A q \in Requests \ {r} : job'[q] = job[q]
  BY <1>t DEF Job, NoJob
<1>q. job[r].pc # "done" /\ job[r].pc # "session"
  BY <1>t DEF AtWork, NoJob
<1>i. req[r] # Idle => job[r] # NoJob /\ job[r].kind = "reset" /\ req[r].op = "revokeAll"
  BY <1>t, <1>q DEF JobFits
<1>2. JobFits(r)'
  BY <1>1, <1>j, <1>t, <1>i DEF JobFits
<1>3. Becomes(r, j)
  BY <1>1, <1>2 DEF Becomes
<1>4. \A t \in rows : t.secret # r
  <2> SUFFICES ASSUME NEW t \in rows, t.secret = r PROVE FALSE
    OBVIOUS
  <2>1. r \in stored
    BY <1>t DEF Inv, RowsAreGenuine
  <2>2. req[r].op \in {"login", "refresh"} /\ req[r].pc \in {"respond"} \cup Finished
    BY <2>1, <1>t DEF Inv, StoredIsDone
  <2> QED
    BY <2>2, <1>i DEF Idle, Finished
<1>5. Races(r)
  BY <1>1, <1>j, <1>t, <1>4 DEF Races, ShutOut, HasReset
<1> QED
  BY <1>1, <1>3, <1>5, RequestMoves

(* The columns and the mails are left alone, too.                          *)
LEMMA NothingWritten ==
    ASSUME PRInv, NEW r \in Requests, NEW j \in Job, UNCHANGED credentials,
           j.retired \subseteq former[j.user],
           j.kind = "reset" => j.token \in mailed,
           HasCleared(r)' => TokenGone(r)',
           HasSet(r)' => PasswordSet(r)'
    PROVE  Writes(r, j) /\ Mails(j, r)
BY DEF Writes, Mails, credentials, PRInv, PRTypeOK

-----------------------------------------------------------------------------
(* The actions.                                                            *)
LEMMA OpenIsJob ==
    ASSUME PRInv, NEW r \in Requests, NEW u \in Users, NEW s \in Sessions,
           NEW k \in {"signIn", "refresh", "forgot", "reset", "change"}
    PROVE  LET o == Open(r, k, u, s) IN
             /\ o \in Job /\ o.kind = k /\ o.user = u
             /\ o.retired = {} /\ o.proof = None /\ o.loaded = account[u]
<1>1. account[u] \in Column
  BY DEF PRInv, PRTypeOK
<1>2. <<>> \in Seq({"updatePassword", "clearToken", "revokeAll"})
  OBVIOUS
<1> QED
  BY <1>1, <1>2 DEF Open, Job, Cred

LEMMA LoadMoves ==
    ASSUME PRInv, NEW r \in Requests, NEW k \in {"signIn", "change"}, NEW u \in Users,
           NEW s \in Sessions, NEW g \in Presented(u), LoadUser(r, k, u, s, g)
    PROVE  PRInv'
<1> DEFINE o == Open(r, k, u, s)
           j == [o EXCEPT !.pc = "compare", !.given = g]
<1>1. job[r] = NoJob /\ job' = [job EXCEPT ![r] = j] /\ UNCHANGED <<vars, credentials, raced>>
  BY DEF LoadUser
<1>t. /\ job \in [Requests -> {NoJob} \cup Job]
      /\ account \in [Users -> Column] /\ former \in [Users -> SUBSET Cred]
  BY DEF PRInv, PRTypeOK
<1>g. g \in Cred
  BY <1>t DEF Presented, Column
<1>2. /\ j \in Job /\ j.pc = "compare" /\ j.kind = k /\ j.user = u /\ j.retired = {}
      /\ j.loaded = account[u]
  <2>1. /\ o \in Job /\ o.kind = k /\ o.user = u /\ o.retired = {} /\ o.loaded = account[u]
    BY OpenIsJob
  <2> HIDE DEF o
  <2> QED
    BY <1>g, <2>1 DEF Job
<1>j. job'[r] = j
  BY <1>1, <1>t
<1> HIDE DEF j
<1>3. Writes(r, j) /\ Mails(j, r)
  BY <1>1, <1>2, <1>j, NothingWritten DEF HasCleared, HasSet, HasReset
<1>4. ASSUME NEW p \in Requests, HasReset(p), j.user = job[p].user
      PROVE  j.loaded.password \notin job[p].retired
  <2>1. job[p].retired \subseteq former[job[p].user]
    BY <1>4, <1>t DEF PRInv, CredentialsAreFresh, HasReset, NoJob
  <2> QED
    BY <1>2, <1>4, <2>1 DEF PRInv, CredentialsAreFresh
<1>5. Quiet(r, j)
  BY <1>1, <1>2, <1>4 DEF Quiet, Unwritten
<1> QED
  BY <1>2, <1>3, <1>5, QuietMoves

LEMMA ForgotMoves ==
    ASSUME PRInv, NEW r \in Requests, NEW u \in Users, NEW s \in Sessions, StartForgot(r, u, s)
    PROVE  PRInv'
<1> DEFINE o == Open(r, "forgot", u, s)
           j == [o EXCEPT !.pc = "store"]
<1>1. job[r] = NoJob /\ job' = [job EXCEPT ![r] = j] /\ UNCHANGED <<vars, credentials, raced>>
  BY DEF StartForgot
<1>t. job \in [Requests -> {NoJob} \cup Job]
  BY DEF PRInv, PRTypeOK
<1>2. j \in Job /\ j.pc = "store" /\ j.kind = "forgot" /\ j.user = u /\ j.retired = {}
  <2>1. o \in Job /\ o.kind = "forgot" /\ o.user = u /\ o.retired = {}
    BY OpenIsJob
  <2> HIDE DEF o
  <2> QED
    BY <2>1 DEF Job
<1>j. job'[r] = j
  BY <1>1, <1>t
<1> HIDE DEF j
<1>3. Writes(r, j) /\ Mails(j, r)
  BY <1>1, <1>2, <1>j, NothingWritten DEF HasCleared, HasSet, HasReset
<1>5. Quiet(r, j)
  BY <1>1, <1>2 DEF Quiet, Unwritten
<1> QED
  BY <1>2, <1>3, <1>5, QuietMoves

LEMMA FindMoves ==
    ASSUME PRInv, NEW r \in Requests, NEW t \in Requests, NEW s \in Sessions,
           FindByPasswordResetToken(r, t, s)
    PROVE  PRInv'
<1>u. PICK u \in Users : job' = [job EXCEPT ![r] = [Open(r, "reset", u, s) EXCEPT
                                  !.pc = "reset", !.token = t, !.todo = ResetStatements]]
  BY DEF FindByPasswordResetToken
<1> DEFINE o == Open(r, "reset", u, s)
           j == [o EXCEPT !.pc = "reset", !.token = t, !.todo = ResetStatements]
<1>1. /\ job[r] = NoJob /\ job' = [job EXCEPT ![r] = j] /\ UNCHANGED <<vars, credentials, raced>>
      /\ t \in mailed
  BY <1>u DEF FindByPasswordResetToken
<1>t. job \in [Requests -> {NoJob} \cup Job]
  BY DEF PRInv, PRTypeOK
<1>2. /\ j \in Job /\ j.pc = "reset" /\ j.kind = "reset" /\ j.user = u /\ j.retired = {}
      /\ j.token = t /\ j.todo = ResetStatements
  <2>1. o \in Job /\ o.kind = "reset" /\ o.user = u /\ o.retired = {}
    BY OpenIsJob
  <2> HIDE DEF o
  <2> QED
    BY <2>1, Statements DEF Job, Statement, Cred
<1>j. job'[r] = j
  BY <1>1, <1>t
<1> HIDE DEF j
<1>3. Writes(r, j) /\ Mails(j, r)
  BY <1>1, <1>2, <1>j, NothingWritten, Statements DEF HasCleared, HasSet, HasReset
<1>5. Quiet(r, j)
  BY <1>1, <1>2 DEF Quiet, Unwritten
<1> QED
  BY <1>2, <1>3, <1>5, QuietMoves

(* A step of a handler that changes its program counter only, or is about  *)
(* to save, and writes nothing.                                            *)
LEMMA AdvanceMoves ==
    ASSUME PRInv, NEW r \in Requests, NEW j \in Job, AtWork(r),
           UNCHANGED <<vars, credentials, raced>>,
           job' = [job EXCEPT ![r] = j],
           j.kind = job[r].kind, j.user = job[r].user, j.retired = job[r].retired,
           j.token = job[r].token,
           <<job[r].pc, j.pc>> \in {<<"compare", "second">>, <<"compare", "failed">>,
               <<"compare", "store">>, <<"store", "write">>, <<"mail", "failed">>,
               <<"second", "failed">>, <<"store", "failed">>, <<"write", "failed">>,
               <<"reset", "failed">>},
           j.pc = "second" => /\ j.kind = "signIn" /\ j.proof = job[r].loaded.password,
           j.pc = "write" => j.kind = "change"
    PROVE  PRInv'
<1>t. job \in [Requests -> {NoJob} \cup Job] /\ JobFits(r)
  BY DEF PRInv, PRTypeOK
<1>n. job[r] # NoJob /\ job[r] \in Job
  BY <1>t DEF AtWork, NoJob
<1>j. job'[r] = j
  BY <1>t
<1>1. j.retired \subseteq former[j.user] /\ (j.kind = "reset" => j.token \in mailed)
  BY <1>n DEF PRInv, CredentialsAreFresh
<1>2. Writes(r, j) /\ Mails(j, r)
  BY <1>1, <1>j, NothingWritten DEF HasCleared, HasSet, HasReset
<1>3. ASSUME NEW p \in Requests, HasReset(p), j.user = job[p].user, j.pc = "second"
      PROVE  j.proof \notin job[p].retired \/ r \in raced
  <2>1. ShutOut(p, r) /\ job[r].pc = "compare"
    BY <1>3 DEF PRInv, RetiredIsShutOut
  <2> QED
    BY <2>1, <1>3, <1>n DEF ShutOut
<1>4. /\ job[r].pc \in {"compare", "second", "store", "write", "mail", "reset"}
      /\ j.pc \in {"second", "store", "write", "failed"}
      /\ j.pc \in {"store", "write"} => job[r].pc \in {"compare", "store"}
  OBVIOUS
<1>5. Unwritten(r)' => Unwritten(r)
  BY <1>4, <1>n, <1>j DEF Unwritten, Job, NoJob
<1>6. \A p \in Requests \ {r} : HasReset(p) /\ j.user = job[p].user =>
         \/ j.pc = "compare" /\ j.loaded.password \notin job[p].retired
         \/ j.pc = "second" /\ (j.proof \notin job[p].retired \/ r \in raced)
         \/ j.pc \notin {"compare", "second"}
  BY <1>3, <1>4
<1>7. \/ job[r] = NoJob
      \/ j.kind = job[r].kind /\ j.user = job[r].user
  OBVIOUS
<1>8. Quiet(r, j)
  <2>1. UNCHANGED <<vars, raced>>
    OBVIOUS
  <2>2. job[r].pc # "session" /\ j.pc \notin {"session", "reset", "mail", "done"}
    BY <1>4
  <2>3. j.kind # "refresh"
    <3>1. job[r].kind # "refresh"
      BY <1>t, <1>n, <2>2, <1>4 DEF JobFits
    <3> QED
      BY <3>1
  <2> QED
    BY <2>1, <2>2, <2>3, <1>5, <1>6, <1>7 DEF Quiet
<1> QED
  BY <1>2, <1>8, QuietMoves

LEMMA JobAtWork ==
    ASSUME PRInv, NEW r \in Requests, job[r].pc \notin {"idle", "done", "failed"}
    PROVE  job[r] \in Job /\ job[r] # NoJob /\ AtWork(r) /\ JobFits(r)
BY DEF PRInv, PRTypeOK, AtWork, NoJob

LEMMA CompareMoves ==
    ASSUME PRInv, NEW r \in Requests, ComparePassword(r)
    PROVE  PRInv'
<1> DEFINE j == [job[r] EXCEPT !.pc = IF job[r].given = job[r].loaded.password THEN "store"
                                                                              ELSE "failed"]
<1>1. job[r] \in Job /\ AtWork(r)
  BY JobAtWork DEF ComparePassword
<1>2. job' = [job EXCEPT ![r] = j] /\ UNCHANGED <<vars, credentials, raced>>
  BY DEF ComparePassword, Advance
<1>3. /\ j \in Job /\ j.pc \in {"store", "failed"}
      /\ j.kind = job[r].kind /\ j.user = job[r].user /\ j.retired = job[r].retired
      /\ j.token = job[r].token
  BY <1>1 DEF Job
<1>4. job[r].pc = "compare"
  BY DEF ComparePassword
<1> HIDE DEF j
<1> QED
  BY <1>1, <1>2, <1>3, <1>4, AdvanceMoves

LEMMA SelectMoves ==
    ASSUME PRInv, NEW r \in Requests, SelectForSave(r)
    PROVE  PRInv'
<1> DEFINE b == job[r].loaded.resetToken # account[job[r].user].resetToken
           j == [job[r] EXCEPT !.pc = "write", !.back = b]
<1>1. job[r] \in Job /\ AtWork(r) /\ job[r].pc = "store" /\ job[r].kind = "change"
  BY JobAtWork DEF SelectForSave
<1>b. b \in BOOLEAN
  OBVIOUS
<1>2. job' = [job EXCEPT ![r] = j] /\ UNCHANGED <<vars, credentials, raced>>
  BY DEF SelectForSave
<1> HIDE DEF b
<1>3. /\ j \in Job /\ j.pc = "write"
      /\ j.kind = job[r].kind /\ j.user = job[r].user /\ j.retired = job[r].retired
      /\ j.token = job[r].token
  BY <1>1, <1>b DEF Job
<1> HIDE DEF j
<1> QED
  BY <1>1, <1>2, <1>3, AdvanceMoves

LEMMA SaveMoves ==
    ASSUME PRInv, NEW r \in Requests, SaveUser(r)
    PROVE  PRInv'
<1> DEFINE j == [job[r] EXCEPT !.pc = "done"]
           u == job[r].user
<1>1. job[r] \in Job /\ job[r] # NoJob /\ AtWork(r) /\ JobFits(r) /\ job[r].pc = "write"
  BY JobAtWork DEF SaveUser
<1>t. /\ job \in [Requests -> {NoJob} \cup Job]
      /\ account \in [Users -> Column] /\ former \in [Users -> SUBSET Cred]
      /\ mailed \subseteq Requests
  BY DEF PRInv, PRTypeOK
<1>2. /\ job' = [job EXCEPT ![r] = j] /\ UNCHANGED <<vars, lapsed, mailed, raced>>
      /\ account' = [account EXCEPT ![u].password = r,
                       ![u].resetToken = IF job[r].back THEN job[r].loaded.resetToken ELSE @]
      /\ former' = [former EXCEPT ![u] = @ \cup {account[u].password}]
  BY DEF SaveUser, Advance
<1>3. /\ j \in Job /\ j.pc = "done" /\ j.kind = "change" /\ j.user = u
      /\ j.retired = job[r].retired /\ j.token = job[r].token /\ j.back = job[r].back
      /\ j.loaded = job[r].loaded /\ j.loaded.resetToken \in Cred
      /\ u \in Users
  BY <1>1 DEF Job, JobFits, Column
<1>j. job'[r] = j
  BY <1>2, <1>t
<1>k. \A q \in Requests \ {r} : job'[q] = job[q]
  BY <1>2, <1>t
<1> HIDE DEF j, u
<1>a. /\ account'[u].password = r
      /\ account'[u].resetToken = IF j.back THEN j.loaded.resetToken ELSE account[u].resetToken
      /\ \A v \in Users \ {u} : account'[v] = account[v]
      /\ former'[u] = former[u] \cup {account[u].password}
      /\ \A v \in Users \ {u} : former'[v] = former[v]
  BY <1>2, <1>t, <1>3 DEF Column
<1>4. Unwritten(r) /\ ~Unwritten(r)'
  BY <1>1, <1>3, <1>j DEF Unwritten, NoJob
<1>5. /\ account' \in [Users -> Column] /\ former' \in [Users -> SUBSET Cred]
  <2> DEFINE back == IF job[r].back THEN job[r].loaded.resetToken ELSE account[u].resetToken
             row  == [account[u] EXCEPT !.password = r, !.resetToken = back]
  <2>1. back \in Cred /\ r \in Cred /\ account[u] \in Column
    BY <1>t, <1>3 DEF Column, Cred
  <2>2. account' = [account EXCEPT ![u] = row]
    BY <1>2, <1>t, <1>3
  <2> HIDE DEF back
  <2>3. row \in Column
    BY <2>1 DEF Column
  <2> HIDE DEF row
  <2>4. account' \in [Users -> Column]
    BY <2>2, <2>3, <1>t
  <2>5. account[u].password \in Cred
    BY <2>1 DEF Column
  <2> QED
    BY <2>4, <2>5, <1>2, <1>t
<1>6. j.retired \subseteq former'[u]
  <2>1. job[r].retired \subseteq former[u]
    BY <1>1 DEF PRInv, CredentialsAreFresh, u
  <2> QED
    BY <2>1, <1>3, <1>a
<1>7. Writes(r, j)
  BY <1>a, <1>3, <1>4, <1>5, <1>6, <1>j DEF Writes, HasCleared, HasSet, HasReset
<1>8. Mails(j, r)
  BY <1>2, <1>3 DEF Mails
<1>9. Quiet(r, j)
  BY <1>1, <1>2, <1>3, <1>4 DEF Quiet, u, JobFits
<1> QED
  BY <1>3, <1>7, <1>8, <1>9, QuietMoves

LEMMA StoreTokenMoves ==
    ASSUME PRInv, NEW r \in Requests, UpdatePasswordResetToken(r)
    PROVE  PRInv'
<1> DEFINE j == [job[r] EXCEPT !.pc = "mail"]
           u == job[r].user
<1>1. /\ job[r] \in Job /\ job[r] # NoJob /\ AtWork(r)
      /\ job[r].pc = "store" /\ job[r].kind = "forgot"
  BY JobAtWork DEF UpdatePasswordResetToken
<1>t. /\ job \in [Requests -> {NoJob} \cup Job]
      /\ account \in [Users -> Column] /\ former \in [Users -> SUBSET Cred]
  BY DEF PRInv, PRTypeOK
<1>2. /\ job' = [job EXCEPT ![r] = j] /\ UNCHANGED <<vars, lapsed, mailed, former, raced>>
      /\ account' = [account EXCEPT ![u].resetToken = r]
  BY DEF UpdatePasswordResetToken, Advance
<1>3. /\ j \in Job /\ j.pc = "mail" /\ j.kind = "forgot" /\ j.user = u
      /\ j.retired = job[r].retired /\ j.token = job[r].token /\ u \in Users
  BY <1>1 DEF Job
<1>j. job'[r] = j
  BY <1>2, <1>t
<1> HIDE DEF j, u
<1>a. /\ account'[u].password = account[u].password /\ account'[u].resetToken = r
      /\ \A v \in Users \ {u} : account'[v] = account[v]
  BY <1>2, <1>t, <1>3 DEF Column
<1>5. account' \in [Users -> Column]
  BY <1>2, <1>t, <1>3 DEF Column, Cred
<1>6. j.retired \subseteq former'[u]
  BY <1>1, <1>2, <1>3 DEF PRInv, CredentialsAreFresh, u
<1>m. r \notin mailed
  BY <1>1 DEF PRInv, CredentialsAreFresh
<1>7. Writes(r, j)
  BY <1>2, <1>t, <1>a, <1>3, <1>m, <1>5, <1>6, <1>j DEF Writes, HasCleared, HasSet, HasReset
<1>8. Mails(j, r)
  BY <1>2, <1>3 DEF Mails
<1>9. Quiet(r, j)
  BY <1>1, <1>2, <1>3, <1>j DEF Quiet, u, Unwritten
<1> QED
  BY <1>3, <1>7, <1>8, <1>9, QuietMoves

LEMMA MailMoves ==
    ASSUME PRInv, NEW r \in Requests, MailResetToken(r)
    PROVE  PRInv'
<1>1. /\ job[r] \in Job /\ job[r] # NoJob /\ AtWork(r)
      /\ job[r].pc = "mail" /\ job[r].kind = "forgot"
  BY JobAtWork DEF MailResetToken, JobFits
<1>t. /\ job \in [Requests -> {NoJob} \cup Job]
      /\ account \in [Users -> Column] /\ former \in [Users -> SUBSET Cred]
  BY DEF PRInv, PRTypeOK
<1>2. PICK step \in {"done", "failed"} :
           /\ job' = [job EXCEPT ![r].pc = step]
           /\ UNCHANGED <<vars, account, lapsed, former, raced>>
           /\ mailed' = IF step = "done" THEN mailed \cup {r} ELSE mailed
  BY DEF MailResetToken, Advance
<1> DEFINE j == [job[r] EXCEPT !.pc = step]
<1>3. /\ j \in Job /\ j.pc = step /\ j.kind = "forgot" /\ j.user = job[r].user
      /\ j.retired = job[r].retired /\ j.token = job[r].token /\ job[r].user \in Users
  BY <1>1 DEF Job
<1>j. job' = [job EXCEPT ![r] = j] /\ job'[r] = j
  BY <1>2, <1>t
<1> HIDE DEF j
<1>6. j.retired \subseteq former'[j.user]
  BY <1>1, <1>2, <1>3 DEF PRInv, CredentialsAreFresh
<1>7. Writes(r, j)
  BY <1>2, <1>t, <1>3, <1>6, <1>j DEF Writes, HasCleared, HasSet, HasReset
<1>8. Mails(j, r)
  BY <1>2, <1>3 DEF Mails
<1>9. Quiet(r, j)
  BY <1>1, <1>2, <1>3, <1>j DEF Quiet, Unwritten, NoJob, Job
<1> QED
  BY <1>3, <1>7, <1>8, <1>9, QuietMoves

(* The statements of a reset.                                              *)
LEMMA InReset ==
    ASSUME PRInv, NEW r \in Requests, job[r].pc = "reset"
    PROVE  /\ job[r] \in Job /\ job[r] # NoJob /\ AtWork(r) /\ JobFits(r)
           /\ job[r].kind = "reset" /\ job[r].user \in Users
           /\ job[r].retired \subseteq former[job[r].user] /\ job[r].token \in mailed
           /\ NextStatement(r) = "updatePassword" => job[r].todo = ResetStatements
           /\ NextStatement(r) = "clearToken" => job[r].todo = Tail(ResetStatements)
           /\ NextStatement(r) = "revokeAll" => job[r].todo = Tail(Tail(ResetStatements))
<1>1. job[r] \in Job /\ job[r] # NoJob /\ AtWork(r) /\ JobFits(r)
  BY JobAtWork
<1>2. job[r].kind = "reset" /\ job[r].user \in Users
  BY <1>1 DEF JobFits, Job
<1> QED
  BY <1>1, <1>2, Statements DEF JobFits, NextStatement, PRInv, CredentialsAreFresh

LEMMA UpdateMoves ==
    ASSUME PRInv, NEW r \in Requests, UpdatePassword(r)
    PROVE  PRInv'
<1> DEFINE u == job[r].user
           gone == former[u] \cup {account[u].password}
           j == [job[r] EXCEPT !.todo = Tail(ResetStatements), !.pc = "reset", !.retired = gone]
<1>1. /\ job[r] \in Job /\ job[r] # NoJob /\ AtWork(r) /\ job[r].kind = "reset"
      /\ job[r].todo = ResetStatements /\ job[r].pc = "reset" /\ u \in Users
      /\ job[r].token \in mailed
  BY InReset DEF UpdatePassword
<1>t. /\ job \in [Requests -> {NoJob} \cup Job]
      /\ account \in [Users -> Column] /\ former \in [Users -> SUBSET Cred]
  BY DEF PRInv, PRTypeOK
<1>g. gone \in SUBSET Cred
  BY <1>t, <1>1 DEF Column
<1>2. /\ UNCHANGED <<vars, lapsed, mailed, raced>>
      /\ account' = [account EXCEPT ![u].password = r]
      /\ former' = [former EXCEPT ![u] = @ \cup {account[u].password}]
      /\ job' = [StatementDone(r) EXCEPT ![r].retired = gone]
  BY DEF UpdatePassword
<1> HIDE DEF gone
<1>d. job' = [job EXCEPT ![r] = j]
  BY <1>1, <1>2, <1>t, Statements DEF StatementDone
<1>3. /\ j \in Job /\ j.pc = "reset" /\ j.kind = "reset" /\ j.user = u
      /\ j.retired = gone /\ j.token = job[r].token /\ j.todo = Tail(ResetStatements)
  BY <1>1, <1>g, Statements DEF Job, Statement
<1>j. job'[r] = j
  BY <1>d, <1>t
<1> HIDE DEF j, u
<1>a. /\ account'[u].password = r /\ account'[u].resetToken = account[u].resetToken
      /\ \A v \in Users \ {u} : account'[v] = account[v]
      /\ former'[u] = gone
      /\ \A v \in Users \ {u} : former'[v] = former[v]
  BY <1>1, <1>2, <1>t, <1>3 DEF Column, gone
<1>4. Unwritten(r) /\ ~Unwritten(r)'
  BY <1>1, <1>3, <1>j, Statements DEF Unwritten, NoJob, Job
<1>5. /\ account' \in [Users -> Column] /\ former' \in [Users -> SUBSET Cred]
  BY <1>1, <1>2, <1>t, <1>3, <1>g, <1>a DEF Column, Cred
<1>7. Writes(r, j)
  BY <1>a, <1>3, <1>4, <1>5, <1>j, Statements
  DEF Writes, HasCleared, HasSet, PasswordSet, HasReset, gone
<1>8. Mails(j, r)
  BY <1>1, <1>2, <1>3 DEF Mails
<1>9. Quiet(r, j)
  BY <1>1, <1>2, <1>d, <1>3, <1>4 DEF Quiet, u
<1> QED
  BY <1>3, <1>7, <1>8, <1>9, QuietMoves

LEMMA ClearMoves ==
    ASSUME PRInv, NEW r \in Requests, ClearPasswordResetToken(r)
    PROVE  PRInv'
<1> DEFINE u == job[r].user
           j == [job[r] EXCEPT !.todo = Tail(Tail(ResetStatements)), !.pc = "reset"]
<1>1. /\ job[r] \in Job /\ job[r] # NoJob /\ AtWork(r) /\ job[r].kind = "reset"
      /\ job[r].todo = Tail(ResetStatements) /\ job[r].pc = "reset" /\ u \in Users
      /\ job[r].token \in mailed /\ job[r].retired \subseteq former[u]
  BY InReset DEF ClearPasswordResetToken
<1>t. /\ job \in [Requests -> {NoJob} \cup Job]
      /\ account \in [Users -> Column] /\ former \in [Users -> SUBSET Cred]
      /\ mailed \subseteq Requests
  BY DEF PRInv, PRTypeOK
<1>2. /\ UNCHANGED <<vars, lapsed, mailed, former, raced>>
      /\ account' = [account EXCEPT ![u].resetToken = None]
      /\ job' = StatementDone(r)
  BY DEF ClearPasswordResetToken
<1>d. job' = [job EXCEPT ![r] = j]
  BY <1>1, <1>2, <1>t, Statements DEF StatementDone
<1>3. /\ j \in Job /\ j.pc = "reset" /\ j.kind = "reset" /\ j.user = u
      /\ j.retired = job[r].retired /\ j.token = job[r].token
      /\ j.todo = Tail(Tail(ResetStatements))
  BY <1>1, Statements DEF Job, Statement
<1>j. job'[r] = j
  BY <1>d, <1>t
<1> HIDE DEF j, u
<1>n. None \notin mailed
  BY <1>t, NoneIsNoRequest
<1>a. /\ account'[u].password = account[u].password /\ account'[u].resetToken = None
      /\ \A v \in Users \ {u} : account'[v] = account[v]
  BY <1>1, <1>2, <1>t DEF Column
<1>5. account' \in [Users -> Column]
  BY <1>1, <1>2, <1>t, <1>a DEF Column, Cred
<1>6. TokenGone(r)'
  BY <1>1, <1>3, <1>j, <1>a, <1>n DEF TokenGone
<1>s. PasswordSet(r)'
  <2>1. PasswordSet(r)
    BY <1>1, Statements DEF PRInv, HasSet
  <2> QED
    BY <2>1, <1>1, <1>2, <1>3, <1>j, <1>a DEF PasswordSet, u
<1>7. Writes(r, j)
  BY <1>1, <1>2, <1>a, <1>3, <1>t, <1>n, <1>5, <1>6, <1>s DEF Writes
<1>8. Mails(j, r)
  BY <1>1, <1>2, <1>3 DEF Mails
<1>9. Quiet(r, j)
  BY <1>1, <1>2, <1>d, <1>3, <1>j, Statements DEF Quiet, u, Unwritten, NoJob, Job
<1> QED
  BY <1>3, <1>7, <1>8, <1>9, QuietMoves

LEMMA BeginMoves ==
    ASSUME PRInv, NEW r \in Requests, BeginRevocation(r)
    PROVE  PRInv' /\ [Next]_vars
<1> DEFINE j == job[r]
<1>1. /\ job[r] \in Job /\ job[r] # NoJob /\ AtWork(r) /\ job[r].kind = "reset"
      /\ job[r].pc = "reset" /\ job[r].user \in Users /\ JobFits(r)
      /\ job[r].token \in mailed /\ job[r].retired \subseteq former[job[r].user]
  BY InReset DEF BeginRevocation
<1>t. /\ job \in [Requests -> {NoJob} \cup Job] /\ TypeOK /\ raced \subseteq Requests
  BY DEF PRInv, PRTypeOK
<1>2. /\ UNCHANGED <<credentials, job, raced>>
      /\ Begin(r, "revokeAll", job[r].user, job[r].session, None, "revokeAll")
      /\ job[r].session \in Sessions
  BY <1>1 DEF BeginRevocation, Job
<1>3. Arrive(r)
  BY <1>1, <1>2 DEF Arrive, StartRevokeAll
<1>4. [Next]_vars
  BY <1>3 DEF Next
<1>5. /\ req'[r].pc = "revokeAll" /\ req'[r].op = "revokeAll" /\ req'[r].user = job[r].user
      /\ \A q \in Requests \ {r} : req'[q] = req[q]
      /\ rows' = rows
  BY <1>2, <1>t DEF Begin, TypeOK
<1>6. JobFits(r)'
  BY <1>1, <1>2, <1>5 DEF JobFits
<1>7. Becomes(r, j)
  BY <1>1, <1>2, <1>5, <1>6, <1>t DEF Becomes, Unwritten
<1>8. ASSUME NEW p \in Requests, HasReset(p) PROVE ShutOut(p, r)'
  <2>1. ShutOut(p, r)
    BY <1>8 DEF PRInv, RetiredIsShutOut
  <2> QED
    BY <2>1, <1>1, <1>2, <1>5 DEF ShutOut
<1>9. Races(r)
  BY <1>1, <1>2, <1>5, <1>8, <1>t DEF Races, HasReset
<1>10. HasCleared(r)' => TokenGone(r)'
  BY <1>2 DEF HasCleared, HasReset, TokenGone, PRInv, credentials
<1>s. HasSet(r)' => PasswordSet(r)'
  BY <1>2 DEF HasSet, PasswordSet, PRInv, credentials
<1>11. Writes(r, j) /\ Mails(j, r)
  BY <1>1, <1>2, <1>10, <1>s, NothingWritten
<1> QED
  BY <1>1, <1>4, <1>7, <1>9, <1>11, RequestMoves

(* A row is that of a log-in or refresh of its user, at work or done.      *)
LEMMA RowsHaveJobs ==
    ASSUME PRInv, NEW t \in rows
    PROVE  /\ t.secret \in Requests /\ job[t.secret] # NoJob /\ job[t.secret].user = t.user
           /\ job[t.secret].kind \in {"signIn", "refresh"}
           /\ job[t.secret].pc \in {"session", "done"}
<1>1. /\ t.secret \in stored /\ t.secret \in Requests /\ req[t.secret].user = t.user
      /\ req[t.secret].pc \in {"respond"} \cup Finished
      /\ req[t.secret].op \in {"login", "refresh"}
  BY DEF PRInv, Inv, TypeOK, Row, RowsAreGenuine, StoredIsDone
<1>2. JobFits(t.secret) /\ req[t.secret] # Idle
  BY <1>1 DEF PRInv, Finished, Idle
<1> QED
  BY <1>1, <1>2 DEF JobFits

LEMMA RevokeMoves ==
    ASSUME PRInv, NEW r \in Requests, Revoke(r)
    PROVE  PRInv' /\ [Next]_vars
<1> DEFINE j == [job[r] EXCEPT !.todo = <<>>, !.pc = "done"]
           u == job[r].user
<1>1. /\ job[r] \in Job /\ job[r] # NoJob /\ AtWork(r) /\ job[r].kind = "reset"
      /\ job[r].todo = Tail(Tail(ResetStatements)) /\ job[r].pc = "reset" /\ u \in Users
      /\ job[r].token \in mailed /\ job[r].retired \subseteq former[u] /\ JobFits(r)
  BY InReset DEF Revoke
<1>t. /\ job \in [Requests -> {NoJob} \cup Job] /\ TypeOK /\ raced \subseteq Requests
  BY DEF PRInv, PRTypeOK
<1>2. /\ UNCHANGED credentials /\ RevokeAllForUser(r)
      /\ job' = StatementDone(r)
      /\ raced' = raced \cup {q \in Requests : AtWork(q) /\ job[q].user = u}
  BY DEF Revoke
<1>d. job' = [job EXCEPT ![r] = j]
  BY <1>1, <1>2, <1>t, Statements DEF StatementDone
<1>3. /\ j \in Job /\ j.pc = "done" /\ j.kind = "reset" /\ j.user = u
      /\ j.retired = job[r].retired /\ j.token = job[r].token
  <2>1. <<>> \in Seq({"updatePassword", "clearToken", "revokeAll"})
    OBVIOUS
  <2> QED
    BY <2>1, <1>1 DEF Job
<1>j. job'[r] = j /\ \A q \in Requests \ {r} : job'[q] = job[q]
  BY <1>d, <1>t
<1> HIDE DEF j, u
<1>4. Next
  BY <1>2 DEF Next, Handle
<1>5. /\ req[r].pc = "revokeAll" /\ req[r] # Idle /\ req[r].user = u
      /\ req[r].op = "revokeAll"
      /\ rows' = {t \in rows : t.user # u}
      /\ req'[r].pc = "answered" /\ req'[r].op = "revokeAll" /\ req'[r].user = u
      /\ \A q \in Requests \ {r} : req'[q] = req[q]
  BY <1>1, <1>2, <1>t DEF RevokeAllForUser, WithoutUser, Goto, TypeOK, Started, Idle, JobFits, u
<1>6. JobFits(r)'
  BY <1>3, <1>5, <1>j DEF JobFits, NoJob, Job
<1>7. Becomes(r, j)
  BY <1>1, <1>3, <1>5, <1>6, <1>d, <1>j DEF Becomes, Unwritten, NoJob, Job
<1>8. ASSUME NEW q \in Requests PROVE ShutOut(r, q)'
  <2> SUFFICES ASSUME job'[q] # NoJob, job'[q].user = u, q \notin raced'
               PROVE  /\ job'[q].pc \notin {"compare", "second", "session"}
                      /\ \A t \in rows' : t.secret # q
    BY <1>3, <1>j DEF ShutOut
  <2>1. job'[q].pc \notin {"compare", "second", "session"}
    <3>1. CASE q = r
      BY <3>1, <1>3, <1>j
    <3>2. CASE q # r
      BY <3>2, <1>2, <1>j DEF AtWork
    <3> QED
      BY <3>1, <3>2
  <2>2. ASSUME NEW t \in rows', t.secret = q PROVE FALSE
    <3>1. t \in rows /\ t.user # u
      BY <2>2, <1>5
    <3>2. job[q].user = t.user
      BY <3>1, <2>2, RowsHaveJobs
    <3>3. job'[q].user = job[q].user
      BY <1>3, <1>j DEF u
    <3> QED
      BY <3>1, <3>2, <3>3
  <2> QED
    BY <2>1, <2>2
<1>9. \A q \in raced' \ raced : AtWork(q)
  BY <1>2
<1>p. ASSUME NEW p \in Requests \ {r}, HasReset(p) PROVE ShutOut(p, r)'
  <2>1. ShutOut(p, r) /\ job'[p] = job[p]
    BY <1>p, <1>j DEF PRInv, RetiredIsShutOut
  <2>2. job'[r].proof = job[r].proof /\ job'[r].user = job[r].user
    BY <1>1, <1>j DEF j, Job
  <2> QED
    BY <2>1, <2>2, <1>1, <1>2, <1>3, <1>5, <1>j DEF ShutOut
<1>10. Races(r)
  BY <1>5, <1>8, <1>9, <1>p, <1>2, <1>t DEF Races
<1>11. TokenGone(r)'
  <2>1. TokenGone(r)
    BY <1>1 DEF PRInv, HasCleared
  <2>2. CASE account[u].resetToken # job[r].token
    BY <2>2, <1>2, <1>3, <1>j DEF TokenGone, credentials
  <2>3. CASE \E q \in Requests : /\ job[q].pc = "done" /\ job[q].kind = "change"
                                 /\ job[q].back /\ job[q].loaded.resetToken = job[r].token
    <3>1. PICK q \in Requests : /\ job[q].pc = "done" /\ job[q].kind = "change"
                                /\ job[q].back /\ job[q].loaded.resetToken = job[r].token
      BY <2>3
    <3>2. job'[q] = job[q]
      BY <3>1, <1>1, <1>j
    <3> QED
      BY <3>1, <3>2, <1>3, <1>j DEF TokenGone
  <2> QED
    BY <2>1, <2>2, <2>3 DEF TokenGone, u
<1>s. ~HasSet(r)'
  BY <1>3, <1>j DEF HasSet
<1>12. Writes(r, j) /\ Mails(j, r)
  BY <1>1, <1>2, <1>3, <1>11, <1>s, NothingWritten DEF u
<1> QED
  BY <1>3, <1>4, <1>7, <1>10, <1>12, RequestMoves

(* Log-ins: validateUser or verifyTwoFactor hands over to RefreshSessions. *)
LEMMA LoginMoves ==
    ASSUME PRInv, NEW r \in Requests, NEW j \in Job, AtWork(r), job[r].pc \in {"compare", "second"},
           job[r].kind = "signIn", StartLogin(r, job[r].user, job[r].session),
           job' = [job EXCEPT ![r] = j], UNCHANGED <<credentials, raced>>,
           j.pc = "session", j.kind = "signIn", j.user = job[r].user,
           j.retired = job[r].retired,
           j.proof = IF job[r].pc = "compare" THEN job[r].loaded.password ELSE job[r].proof
    PROVE  PRInv' /\ [Next]_vars
<1>1. job[r] \in Job /\ job[r] # NoJob /\ JobFits(r)
  BY JobAtWork DEF AtWork
<1>t. /\ job \in [Requests -> {NoJob} \cup Job] /\ TypeOK /\ raced \subseteq Requests
  BY DEF PRInv, PRTypeOK
<1>2. job[r].user \in Users /\ job[r].session \in Sessions
  BY <1>1 DEF Job
<1>3. Arrive(r)
  BY <1>2 DEF Arrive
<1>4. [Next]_vars
  BY <1>3 DEF Next
<1>5. /\ req'[r].pc = "access" /\ req'[r].op = "login" /\ req'[r].user = job[r].user
      /\ \A q \in Requests \ {r} : req'[q] = req[q]
      /\ rows' = rows
  BY <1>t DEF StartLogin, Begin, TypeOK
<1>j. job'[r] = j /\ \A q \in Requests \ {r} : job'[q] = job[q]
  BY <1>t
<1>6. JobFits(r)'
  BY <1>5, <1>j DEF JobFits, InFlight, Active, Job, NoJob
<1>7. Becomes(r, j)
  BY <1>5, <1>6, <1>j DEF Becomes, Unwritten, Job, NoJob
<1>8. ASSUME NEW p \in Requests \ {r}, HasReset(p) PROVE ShutOut(p, r)'
  <2>1. ShutOut(p, r)
    BY <1>8 DEF PRInv, RetiredIsShutOut
  <2>2. CASE r \in raced
    BY <2>2, <1>j DEF ShutOut
  <2>3. CASE job[r].user # job[p].user
    BY <2>3, <1>j, <1>8 DEF ShutOut
  <2>4. CASE job[r].user = job[p].user /\ r \notin raced
    <3>1. j.proof \notin job[p].retired
      BY <2>1, <2>4, <1>1 DEF ShutOut
    <3> QED
      BY <3>1, <1>j, <1>8 DEF ShutOut
  <2> QED
    BY <2>2, <2>3, <2>4
<1>9. Races(r)
  BY <1>5, <1>8, <1>j, <1>t DEF Races, HasReset
<1>10. Writes(r, j) /\ Mails(j, r)
  BY <1>1, <1>j, NothingWritten DEF HasCleared, HasSet, HasReset, PRInv, CredentialsAreFresh
<1> QED
  BY <1>4, <1>7, <1>9, <1>10, RequestMoves

LEMMA ValidateMoves ==
    ASSUME PRInv, NEW r \in Requests, ValidateUser(r)
    PROVE  PRInv' /\ [Next]_vars
<1>1. /\ job[r] \in Job /\ AtWork(r) /\ job[r].pc = "compare" /\ job[r].kind = "signIn"
      /\ UNCHANGED <<credentials, raced>>
  BY JobAtWork DEF ValidateUser
<1>t. job \in [Requests -> {NoJob} \cup Job]
  BY DEF PRInv, PRTypeOK
<1> DEFINE Proven(step) == [job[r] EXCEPT !.pc = step, !.proof = job[r].given]
           refused == [job[r] EXCEPT !.pc = "failed"]
<1>2. ASSUME NEW step \in {"session", "second"}
      PROVE  /\ Proven(step) \in Job /\ Proven(step).pc = step /\ Proven(step).kind = "signIn"
             /\ Proven(step).user = job[r].user /\ Proven(step).retired = job[r].retired
             /\ Proven(step).token = job[r].token /\ Proven(step).proof = job[r].given
  BY <1>1, <1>2 DEF Job
<1>3. /\ refused \in Job /\ refused.pc = "failed" /\ refused.kind = "signIn"
      /\ refused.user = job[r].user /\ refused.retired = job[r].retired
      /\ refused.token = job[r].token
  BY <1>1 DEF Job
<1>4. CASE /\ job[r].given = job[r].loaded.password
           /\ StartLogin(r, job[r].user, job[r].session)
           /\ job' = [job EXCEPT ![r].pc = "session", ![r].proof = job[r].given]
  <2>1. job' = [job EXCEPT ![r] = Proven("session")]
    BY <1>4, <1>t
  <2> HIDE DEF Proven
  <2> QED
    BY <1>1, <1>2, <1>4, <2>1, LoginMoves
<1>5. CASE /\ job[r].given = job[r].loaded.password
           /\ job' = [job EXCEPT ![r].pc = "second", ![r].proof = job[r].given]
           /\ UNCHANGED vars
  <2>1. job' = [job EXCEPT ![r] = Proven("second")]
    BY <1>5, <1>t
  <2> HIDE DEF Proven
  <2> QED
    BY <1>1, <1>2, <1>5, <2>1, AdvanceMoves
<1>6. CASE Advance(r, "failed") /\ UNCHANGED vars
  <2>1. job' = [job EXCEPT ![r] = refused]
    BY <1>6, <1>t DEF Advance
  <2> HIDE DEF refused
  <2> QED
    BY <1>1, <1>3, <1>6, <2>1, AdvanceMoves
<1> QED
  BY <1>4, <1>5, <1>6 DEF ValidateUser

LEMMA VerifyMoves ==
    ASSUME PRInv, NEW r \in Requests, VerifyTwoFactor(r)
    PROVE  PRInv' /\ [Next]_vars
<1> DEFINE j == [job[r] EXCEPT !.pc = "session"]
<1>1. /\ job[r] \in Job /\ AtWork(r) /\ job[r].pc = "second" /\ job[r].kind = "signIn"
      /\ StartLogin(r, job[r].user, job[r].session) /\ UNCHANGED <<credentials, raced>>
  BY JobAtWork DEF VerifyTwoFactor, JobFits
<1>2. /\ j \in Job /\ j.pc = "session" /\ j.kind = "signIn" /\ j.user = job[r].user
      /\ j.retired = job[r].retired /\ j.proof = job[r].proof
  BY <1>1 DEF Job
<1>3. job' = [job EXCEPT ![r] = j]
  BY DEF VerifyTwoFactor, Advance, PRInv, PRTypeOK
<1> HIDE DEF j
<1> QED
  BY <1>1, <1>2, <1>3, LoginMoves

LEMMA RefreshMoves ==
    ASSUME PRInv, NEW r \in Requests, NEW x \in Requests, NEW s \in Sessions, Refresh(r, x, s)
    PROVE  PRInv' /\ [Next]_vars
<1> DEFINE u == req[x].user
           o == Open(r, "refresh", u, s)
           j == [o EXCEPT !.proof = job[x].proof]
<1>t. /\ job \in [Requests -> {NoJob} \cup Job] /\ TypeOK /\ raced \subseteq Requests
  BY DEF PRInv, PRTypeOK
<1>1. /\ job[r] = NoJob /\ StartRefresh(r, x, s) /\ UNCHANGED credentials
      /\ job' = [job EXCEPT ![r] = j]
      /\ raced' = IF x \in raced THEN raced \cup {r} ELSE raced
      /\ Delivered(x)
  BY DEF Refresh, StartRefresh
<1>x. job[x] \in Job /\ job[x].pc = "done" /\ job[x].user = u /\ u \in Users
  BY <1>1, Delivery DEF Job
<1>2. /\ j \in Job /\ j.pc = "session" /\ j.kind = "refresh" /\ j.user = u
      /\ j.retired = {} /\ j.proof = job[x].proof
  <2>1. o \in Job /\ o.kind = "refresh" /\ o.user = u /\ o.retired = {} /\ o.pc = "session"
    BY <1>x, OpenIsJob DEF Open
  <2> HIDE DEF o
  <2> QED
    BY <2>1, <1>x DEF Job
<1> HIDE DEF j, o, u
<1>3. Next
  BY <1>1 DEF Next, Arrive
<1>n. x # r
  BY <1>x, <1>1 DEF NoJob
<1>5. /\ req'[r].pc = "lookup" /\ req'[r].op = "refresh" /\ req'[r].user = u
      /\ req'[r].shown = x
      /\ \A q \in Requests \ {r} : req'[q] = req[q]
      /\ rows' = rows
  BY <1>1, <1>t DEF StartRefresh, Begin, TypeOK, u
<1>j. job'[r] = j /\ \A q \in Requests \ {r} : job'[q] = job[q]
  BY <1>1, <1>t
<1>6. JobFits(r)'
  BY <1>1, <1>2, <1>5, <1>j, <1>x, <1>n DEF JobFits, InFlight, Active, Delivered, NoJob, Job
<1>7. Becomes(r, j)
  BY <1>1, <1>2, <1>5, <1>6, <1>j DEF Becomes, Unwritten
<1>8. ASSUME NEW p \in Requests \ {r}, HasReset(p) PROVE ShutOut(p, r)'
  <2>1. \A t \in rows : t.secret # r
    BY <1>1, RowsHaveJobs
  <2> QED
    BY <2>1, <1>2, <1>5, <1>j, <1>8 DEF ShutOut
<1>9. Races(r)
  BY <1>1, <1>2, <1>5, <1>8, <1>j, <1>t DEF Races, HasReset
<1>10. Writes(r, j) /\ Mails(j, r)
  BY <1>1, <1>2, <1>j, NothingWritten DEF HasCleared, HasSet, HasReset
<1> QED
  BY <1>2, <1>3, <1>7, <1>9, <1>10, RequestMoves

(* What a log-in or refresh may do next, as far as the retired passwords   *)
(* are concerned.                                                          *)
LEMMA SessionEffect ==
    ASSUME PRInv, NEW r \in Requests, Handle(r) \/ Crash(r)
    PROVE  /\ InFlight(r) /\ req[r] \in Started /\ req'[r] \in Started
           /\ req'[r].op = req[r].op /\ req'[r].user = req[r].user
           /\ req'[r].shown = req[r].shown
           /\ \A q \in Requests \ {r} : req'[q] = req[q]
           /\ \A t \in rows' : t \in rows \/ (t.secret = r /\ req[r].pc = "save")
<1>t. TypeOK /\ Inv
  BY DEF PRInv, PRTypeOK
<1>1. CASE Handle(r)
  BY <1>1, <1>t, HandleEffect
  DEF Handle, FindByUserAndSession, ValidateHash, DeleteById, FindOwner, RevokeRefreshToken,
      RevokeAllForUser, CreateAccessToken, DeleteByUserAndSession, SaveRefreshToken,
      Respond, WithoutId, WithoutUser, WithoutSession
<1>2. CASE Crash(r)
  <2>1. req[r] \in Started /\ rows' = rows
    BY <1>2, <1>t DEF Crash, InFlight, Active, Idle, TypeOK
  <2> QED
    BY <2>1, <1>2, <1>t DEF Crash, Goto, TypeOK, Started, Finished
<1> QED
  BY <1>1, <1>2

LEMMA SessionMoves ==
    ASSUME PRInv, NEW r \in Requests, SessionStep(r)
    PROVE  PRInv' /\ [Next]_vars
<1>1. /\ job[r] \in Job /\ AtWork(r) /\ job[r] # NoJob /\ job[r].pc = "session" /\ JobFits(r)
      /\ UNCHANGED <<credentials, raced>>
      /\ Handle(r) \/ Crash(r)
  BY JobAtWork DEF SessionStep
<1>t. /\ job \in [Requests -> {NoJob} \cup Job] /\ TypeOK /\ raced \subseteq Requests
  BY DEF PRInv, PRTypeOK
<1>2. Next
  BY <1>1 DEF Next
<1>3. /\ InFlight(r) /\ req[r] \in Started /\ req'[r] \in Started
      /\ req'[r].op = req[r].op /\ req'[r].user = req[r].user
      /\ req'[r].shown = req[r].shown
      /\ \A q \in Requests \ {r} : req'[q] = req[q]
      /\ \A t \in rows' : t \in rows \/ (t.secret = r /\ req[r].pc = "save")
  BY <1>1, SessionEffect
<1> DEFINE step == IF req'[r].pc \in Finished THEN "done" ELSE "session"
           j == [job[r] EXCEPT !.pc = step]
<1>4. /\ j \in Job /\ j.pc = step /\ j.kind = job[r].kind /\ j.user = job[r].user
      /\ j.retired = job[r].retired /\ j.token = job[r].token /\ j.proof = job[r].proof
  BY <1>1 DEF Job
<1>d. job' = [job EXCEPT ![r] = j]
  <2>1. CASE req'[r].pc \in Finished
    BY <2>1, <1>1, <1>t DEF SessionStep, Advance
  <2>2. CASE req'[r].pc \notin Finished
    <3>1. j = job[r] /\ job' = job
      BY <2>2, <1>1 DEF SessionStep, Job
    <3> HIDE DEF j
    <3> QED
      BY <3>1, <1>t
  <2> QED
    BY <2>1, <2>2
<1>s. step = "session" => InFlight(r)'
  BY <1>3 DEF Started, InFlight
<1>e. step \in {"session", "done"}
  OBVIOUS
<1> HIDE DEF j, step
<1>j. job'[r] = j /\ \A q \in Requests \ {r} : job'[q] = job[q]
  BY <1>d, <1>t
<1>5. /\ req[r] # Idle /\ req'[r] # Idle /\ job[r].user = req[r].user
      /\ <<job[r].kind, req[r].op>> \in {<<"signIn", "login">>, <<"refresh", "refresh">>}
  BY <1>1, <1>3 DEF JobFits, Started, Idle, Active, Finished
<1>6. ASSUME job[r].kind = "refresh"
      PROVE  \E x \in Requests :
               /\ x = req[r].shown /\ Delivered(x)' /\ job'[x] = job[x]
               /\ job[x].user = job[r].user /\ job[x].proof = job[r].proof
               /\ x \in raced => r \in raced
               /\ job[x].pc = "done" /\ job[x] # NoJob
  <2>1. PICK x \in Requests :
           /\ x = req[r].shown /\ Delivered(x)
           /\ job[x].user = job[r].user /\ job[x].proof = job[r].proof
           /\ x \in raced => r \in raced
    BY <1>1, <1>6 DEF JobFits
  <2>2. job[x].pc = "done" /\ job[x] # NoJob
    BY <2>1, Delivery DEF NoJob
  <2>3. x # r
    BY <2>2, <1>1
  <2>4. job'[x] = job[x] /\ req'[x] = req[x]
    BY <2>3, <1>3, <1>j
  <2> QED
    BY <2>1, <2>2, <2>4 DEF Delivered
<1>7. JobFits(r)'
  <2>1. j.pc = "session" => InFlight(r)'
    BY <1>4, <1>s
  <2>2. j.pc \in {"session", "done"} /\ j.kind \in {"signIn", "refresh"}
    BY <1>4, <1>e, <1>5
  <2>3. /\ j # NoJob /\ j.user = req'[r].user
        /\ <<j.kind, req'[r].op>> \in {<<"signIn", "login">>, <<"refresh", "refresh">>}
    BY <1>3, <1>4, <1>5 DEF NoJob, Job
  <2>4. ASSUME j.kind = "refresh"
        PROVE  \E x \in Requests :
                 /\ req'[r].shown = x /\ Delivered(x)'
                 /\ job'[x].user = j.user /\ job'[x].proof = j.proof
                 /\ x \in raced' => r \in raced'
    <3>1. PICK x \in Requests :
             /\ x = req[r].shown /\ Delivered(x)' /\ job'[x] = job[x]
             /\ job[x].user = job[r].user /\ job[x].proof = job[r].proof
             /\ x \in raced => r \in raced
      BY <2>4, <1>4, <1>6
    <3> QED
      BY <3>1, <1>1, <1>3, <1>4
  <2>5. job'[r].kind = "refresh" =>
          /\ req'[r].shown \in Requests /\ Delivered(req[r].shown)'
          /\ job'[req'[r].shown].user = job'[r].user
          /\ job'[req'[r].shown].proof = job'[r].proof
          /\ req'[r].shown \in raced' => r \in raced'
    BY <2>4, <1>3, <1>j DEF Delivered
  <2> QED
    BY <2>1, <2>2, <2>3, <2>5, <1>3, <1>j DEF JobFits, Delivered
<1>8. Becomes(r, j)
  BY <1>1, <1>3, <1>4, <1>7, <1>d, <1>e, <1>j DEF Becomes, Unwritten, NoJob, Job
<1>9. ASSUME NEW p \in Requests \ {r}, HasReset(p) PROVE ShutOut(p, r)'
  <2>p. job'[p] = job[p] /\ job[p].user = job'[p].user
    BY <1>j
  <2>1. ShutOut(p, r)
    BY <1>9 DEF PRInv, RetiredIsShutOut
  <2>2. CASE r \in raced
    BY <2>2, <1>1 DEF ShutOut
  <2>3. CASE job[r].user # job[p].user
    BY <2>3, <2>p, <1>4, <1>j DEF ShutOut
  <2>4. CASE job[r].proof \notin job[p].retired
    BY <2>4, <2>p, <1>4, <1>e, <1>j DEF ShutOut
  <2>5. CASE /\ job[r].user = job[p].user /\ r \notin raced /\ job[r].proof \in job[p].retired
    <3>1. /\ job[r].kind = "refresh" /\ req[r].pc \in {"lookup", "validate"}
          /\ req[r].pc = "validate" => req[r].entry # req[r].shown
          /\ \A t \in rows : t.secret # r
      BY <2>1, <2>5, <1>1 DEF ShutOut
    <3>2. \A t \in rows' : t.secret # r
      BY <3>1, <1>3
    <3>x. \A t \in rows : t.secret # req[r].shown
      <4>1. PICK x \in Requests :
            /\ x = req[r].shown /\ job[x].user = job[p].user /\ job[x].proof = job[r].proof
            /\ x \notin raced /\ job[x].pc = "done" /\ job[x] # NoJob
        BY <3>1, <2>5, <1>6
      <4>2. ShutOut(p, x)
        BY <4>1, <1>9 DEF PRInv, RetiredIsShutOut
      <4> QED
        BY <4>1, <4>2, <2>5 DEF ShutOut
    <3>3. \/ req'[r].pc \in Finished
          \/ req'[r].pc = "validate" /\ req'[r].entry # req'[r].shown
      <4>1. CASE Crash(r)
        BY <4>1, <1>t DEF Crash, Goto, TypeOK, Finished
      <4>2. CASE FindByUserAndSession(r)
        <5>1. CASE Goto(r, "rejected")
          BY <5>1, <1>t DEF Goto, TypeOK, Finished
        <5>2. ASSUME NEW t \in RowsOf(req[r].user, req[r].session), HasRead(r, t)
              PROVE  req'[r].pc = "validate" /\ req'[r].entry # req'[r].shown
          <6>1. t.secret # req[r].shown
            BY <3>x DEF RowsOf
          <6> QED
            BY <5>2, <6>1, <1>3, <1>t, ReadEffect DEF RowsOf
        <5> QED
          BY <4>2, <5>1, <5>2 DEF FindByUserAndSession
      <4>3. CASE ValidateHash(r)
        BY <4>3, <3>1, <1>t DEF ValidateHash, Goto, TypeOK, Finished
      <4> QED
        BY <4>1, <4>2, <4>3, <3>1, <1>1
        DEF Handle, DeleteById, FindOwner, RevokeRefreshToken, RevokeAllForUser,
            CreateAccessToken, DeleteByUserAndSession, SaveRefreshToken, Respond
    <3>4. job'[r].pc = "session" =>
            req'[r].pc = "validate" /\ req'[r].entry # req'[r].shown
      BY <3>3, <1>4, <1>j DEF step
    <3> QED
      BY <3>1, <3>2, <3>4, <1>4, <1>e, <1>j DEF ShutOut
  <2> QED
    BY <2>2, <2>3, <2>4, <2>5
<1>10. ~HasReset(r)' /\ ~HasCleared(r)' /\ ~HasSet(r)'
  BY <1>4, <1>5, <1>e, <1>j DEF HasReset, HasCleared, HasSet
<1>11. Races(r)
  BY <1>1, <1>3, <1>9, <1>10, <1>t DEF Races
<1>12. Writes(r, j) /\ Mails(j, r)
  BY <1>1, <1>4, <1>5, <1>10, NothingWritten DEF PRInv, CredentialsAreFresh
<1> QED
  BY <1>2, <1>4, <1>8, <1>11, <1>12, RequestMoves

LEMMA AbortMoves ==
    ASSUME PRInv, NEW r \in Requests, Abort(r)
    PROVE  PRInv' /\ [Next]_vars
<1> DEFINE j == [job[r] EXCEPT !.pc = "failed"]
<1>1. /\ job[r] \in Job /\ job[r] # NoJob /\ AtWork(r) /\ JobFits(r)
      /\ job[r].pc \in {"compare", "second", "store", "write", "mail", "reset"}
      /\ UNCHANGED <<credentials, raced>>
  BY JobAtWork DEF Abort
<1>t. /\ job \in [Requests -> {NoJob} \cup Job] /\ TypeOK /\ raced \subseteq Requests
  BY DEF PRInv, PRTypeOK
<1>2. /\ j \in Job /\ j.pc = "failed" /\ j.kind = job[r].kind /\ j.user = job[r].user
      /\ j.retired = job[r].retired /\ j.token = job[r].token
  BY <1>1 DEF Job
<1>3. job' = [job EXCEPT ![r] = j]
  BY <1>t DEF Abort, Advance
<1> HIDE DEF j
<1>4. CASE UNCHANGED vars
  BY <1>1, <1>2, <1>3, <1>4, AdvanceMoves
<1>5. CASE Crash(r)
  <2>1. Next
    BY <1>5 DEF Next
  <2>2. /\ req'[r].op = req[r].op /\ req'[r].user = req[r].user
        /\ req'[r].pc = "crashed" /\ req[r] # Idle
        /\ \A q \in Requests \ {r} : req'[q] = req[q]
        /\ rows' = rows
    BY <1>5, <1>t DEF Crash, Goto, InFlight, Active, TypeOK, Started, Idle
  <2>j. job'[r] = j /\ \A q \in Requests \ {r} : job'[q] = job[q]
    BY <1>3, <1>t
  <2>3. job[r].kind = "reset" /\ req[r].op = "revokeAll" /\ job[r].user = req[r].user
    BY <1>1, <2>2 DEF JobFits
  <2>4. JobFits(r)'
    BY <1>2, <2>2, <2>3, <2>j DEF JobFits, NoJob, Job
  <2>5. Becomes(r, j)
    BY <1>1, <1>2, <1>3, <2>2, <2>4, <2>j DEF Becomes, Unwritten, NoJob, Job
  <2>6. \A t \in rows : t.secret # r
    BY <1>1, RowsHaveJobs
  <2>7. \A p \in Requests \ {r} : ShutOut(p, r)'
    BY <1>2, <2>2, <2>6, <2>j DEF ShutOut
  <2>8. ~HasReset(r)' /\ ~HasCleared(r)' /\ ~HasSet(r)'
    BY <1>2, <2>j DEF HasReset, HasCleared, HasSet
  <2>9. Races(r)
    BY <1>1, <2>2, <2>7, <2>8, <1>t DEF Races
  <2>10. j.retired \subseteq former[j.user] /\ (j.kind = "reset" => j.token \in mailed)
    BY <1>1, <1>2 DEF PRInv, CredentialsAreFresh
  <2>11. Writes(r, j) /\ Mails(j, r)
    BY <1>1, <1>2, <2>8, <2>10, NothingWritten
  <2> QED
    BY <1>2, <2>1, <2>5, <2>9, <2>11, RequestMoves
<1> QED
  BY <1>4, <1>5 DEF Abort

LEMMA NothingMoves ==
    ASSUME PRInv, UNCHANGED <<vars, account, mailed, former, job, raced>>,
           lapsed' \subseteq mailed
    PROVE  PRInv' /\ [Next]_vars
<1>1. [Next]_vars /\ UNCHANGED <<rows, req>>
  BY DEF vars
<1>2. Inv'
  BY <1>1, InvStep DEF PRInv
<1>3. PRTypeOK'
  BY <1>2 DEF PRInv, PRTypeOK, Inv
<1>4. \A r \in Requests : JobFits(r)'
  BY <1>1 DEF PRInv, JobFits, InFlight, Delivered
<1>5. CredentialsAreFresh'
  BY DEF PRInv, CredentialsAreFresh, Unwritten
<1>6. RetiredIsShutOut'
  BY <1>1 DEF PRInv, RetiredIsShutOut, HasReset, ShutOut
<1>7. \A r \in Requests : HasCleared(r)' => TokenGone(r)'
  BY DEF PRInv, HasCleared, HasReset, TokenGone
<1>8. \A r \in Requests : HasSet(r)' => PasswordSet(r)'
  BY DEF PRInv, HasSet, PasswordSet
<1> QED
  BY <1>1, <1>2, <1>3, <1>4, <1>5, <1>6, <1>7, <1>8 DEF PRInv

-----------------------------------------------------------------------------
(* Every step keeps the invariant and is one of RefreshSessions, if any.   *)
LEMMA PRStep == PRInv /\ [PRNext]_allVars => PRInv' /\ [Next]_vars
<1> SUFFICES ASSUME PRInv, [PRNext]_allVars PROVE PRInv' /\ [Next]_vars
  OBVIOUS
<1>1. CASE UNCHANGED allVars
  BY <1>1, NothingMoves DEF allVars, credentials, PRInv, PRTypeOK
<1>2. ASSUME NEW r \in Requests, NEW u \in Users, NEW s \in Sessions, NEW g \in Presented(u),
             LoadUser(r, "signIn", u, s, g) \/ LoadUser(r, "change", u, s, g)
      PROVE  PRInv' /\ [Next]_vars
  BY <1>2, LoadMoves DEF LoadUser
<1>3. ASSUME NEW r \in Requests, NEW u \in Users, NEW s \in Sessions, StartForgot(r, u, s)
      PROVE  PRInv' /\ [Next]_vars
  BY <1>3, ForgotMoves DEF StartForgot
<1>4. ASSUME NEW r \in Requests, NEW t \in Requests, NEW s \in Sessions,
             FindByPasswordResetToken(r, t, s)
      PROVE  PRInv' /\ [Next]_vars
  BY <1>4, FindMoves DEF FindByPasswordResetToken
<1>5. ASSUME NEW r \in Requests, TokenLapses(r)
      PROVE  PRInv' /\ [Next]_vars
  BY <1>5, NothingMoves DEF TokenLapses, PRInv, PRTypeOK
<1>6. ASSUME NEW r \in Requests,
             \/ ComparePassword(r) \/ SelectForSave(r) \/ SaveUser(r)
             \/ UpdatePasswordResetToken(r) \/ MailResetToken(r)
             \/ UpdatePassword(r) \/ ClearPasswordResetToken(r)
      PROVE  PRInv' /\ [Next]_vars
  <2>1. [Next]_vars
    BY <1>6 DEF ComparePassword, SelectForSave, SaveUser, UpdatePasswordResetToken,
                MailResetToken, UpdatePassword, ClearPasswordResetToken
  <2> QED
    BY <1>6, <2>1, CompareMoves, SelectMoves, SaveMoves, StoreTokenMoves, MailMoves,
       UpdateMoves, ClearMoves
<1> QED
  BY <1>1, <1>2, <1>3, <1>4, <1>5, <1>6, RefreshMoves, ValidateMoves, VerifyMoves, BeginMoves,
     RevokeMoves, SessionMoves, AbortMoves DEF PRNext

LEMMA PRInitInv == PRInit => PRInv
<1> SUFFICES ASSUME PRInit PROVE PRInv
  OBVIOUS
<1>1. Init /\ Inv
  BY InvInit DEF PRInit
<1>2. PRTypeOK
  BY <1>1 DEF PRInit, PRTypeOK, Inv, Column, Cred
<1>3. \A r \in Requests : JobFits(r)
  BY <1>1 DEF PRInit, Init, JobFits, NoJob
<1>4. CredentialsAreFresh
  BY DEF PRInit, CredentialsAreFresh
<1>5. /\ RetiredIsShutOut
      /\ \A r \in Requests : HasCleared(r) => TokenGone(r)
      /\ \A r \in Requests : HasSet(r) => PasswordSet(r)
  BY DEF PRInit, RetiredIsShutOut, HasCleared, HasReset, HasSet, NoJob
<1> QED
  BY <1>1, <1>2, <1>3, <1>4, <1>5 DEF PRInv

(* Sessions, columns, handlers and history agree in every state.           *)
THEOREM PRInvariance == PRSpec => []PRInv
BY PRInitInv, PRStep, PTL DEF PRSpec

(* The composition only ever does what RefreshSessions allows, so all that *)
(* is proved of RefreshSessions holds of it.                               *)
LEMMA SessionsImplemented == PRSpec => Spec
<1>1. PRInit => Init
  BY DEF PRInit
<1> QED
  BY <1>1, PRStep, PRInvariance, PTL DEF PRSpec, Spec

(* In particular a refresh token is rotated twice only by refreshes that   *)
(* had both read its row, however logged in: passwords and resets change   *)
(* nothing about it.                                                       *)
THEOREM RotationIsOnceButForRacesHere == PRSpec => []RotatedTwiceOnlyByRace
BY SessionsImplemented, RotationIsOnceButForRaces, PTL

(* Nor does a reset in between cost racing tabs a session it has not       *)
(* revoked.                                                                *)
THEOREM RacesKeepSessionHere == PRSpec => []SessionSurvives
BY SessionsImplemented, RacesKeepSession, PTL

(* And implementing carries on: the composition implements SessionTable.   *)
THEOREM TableImplementedHere == PRSpec => ImplementsSessionTable
BY SessionsImplemented, TableImplemented, PTL

(* Once a reset has answered, the passwords it has put an end to open no   *)
(* session but to those who were at work when it revoked.                  *)
THEOREM OldPasswordIsOut == PRSpec => []OldPasswordOnlyByRace
<1>1. PRInv => OldPasswordOnlyByRace
  <2> SUFFICES ASSUME PRInv, NEW r \in Requests, HasReset(r), NEW t \in rows,
                      t.user = job[r].user, job[t.secret].proof \in job[r].retired
               PROVE  t.secret \in raced
    BY DEF OldPasswordOnlyByRace, HasReset
  <2>1. /\ t.secret \in Requests /\ job[t.secret] # NoJob /\ job[t.secret].user = t.user
        /\ job[t.secret].pc \in {"session", "done"}
    BY RowsHaveJobs
  <2>2. ShutOut(r, t.secret)
    BY <2>1 DEF PRInv, RetiredIsShutOut
  <2> QED
    BY <2>1, <2>2 DEF ShutOut
<1> QED
  BY <1>1, PRInvariance, PTL

(* The token of a finished reset is out of its column, or a changePassword *)
(* has saved it back.                                                      *)
THEOREM UsedTokenIsGone == PRSpec => []UsedTokenStaysCleared
<1>1. PRInv => UsedTokenStaysCleared
  BY DEF PRInv, UsedTokenStaysCleared, HasCleared, HasSet, HasReset, TokenGone
<1> QED
  BY <1>1, PRInvariance, PTL

(* A reset that is cut off before it has set its password leaves the link  *)
(* good for another try.                                                   *)
THEOREM FailedResetKeepsLink == PRSpec => LinkGoneOnlyByUse
<1> DEFINE Explained(u) ==
             \E r \in Requests :
               /\ job[r] # NoJob /\ job[r].user = u /\ job'[r] # job[r]
               /\ \/ job[r].kind = "forgot" /\ account'[u].resetToken = r
                  \/ job[r].kind = "change" /\ job[r].back
                  \/ job[r].kind = "reset" /\ r \in former[u] \cup {account[u].password}
           Kept == \A u \in Users :
             account[u].resetToken # None /\ account'[u].resetToken # account[u].resetToken =>
               Explained(u)
<1>1. ASSUME PRInv, [PRNext]_allVars, NEW u \in Users,
             account[u].resetToken # None, account'[u].resetToken # account[u].resetToken
      PROVE  Explained(u)
  <2>t. /\ job \in [Requests -> {NoJob} \cup Job] /\ account \in [Users -> Column]
    BY <1>1 DEF PRInv, PRTypeOK
  <2>1. PICK r \in Requests : SaveUser(r) \/ UpdatePasswordResetToken(r)
                              \/ UpdatePassword(r) \/ ClearPasswordResetToken(r)
    BY <1>1 DEF PRNext, allVars, credentials, LoadUser, StartForgot, FindByPasswordResetToken,
       Refresh, ValidateUser, VerifyTwoFactor, ComparePassword, SelectForSave, MailResetToken,
       BeginRevocation, Revoke, SessionStep, Abort, TokenLapses
  <2>2. CASE SaveUser(r)
    <3>1. job[r] \in Job /\ JobFits(r) /\ job[r].pc = "write"
      BY <1>1, <2>2, JobAtWork DEF SaveUser
    <3>2. job[r].kind = "change"
      BY <3>1 DEF JobFits
    <3>3. job'[r] # job[r]
      BY <2>2, <2>t, <3>1 DEF SaveUser, Advance, Job
    <3>4. job[r].user = u /\ job[r].back
      BY <1>1, <2>2, <2>t, <3>1 DEF SaveUser, Column, Job
    <3> QED
      BY <3>1, <3>2, <3>3, <3>4 DEF NoJob
  <2>3. CASE UpdatePasswordResetToken(r)
    <3>1. job[r] \in Job /\ job[r].pc = "store" /\ job[r].kind = "forgot"
      BY <1>1, <2>3, JobAtWork DEF UpdatePasswordResetToken
    <3>2. job'[r] # job[r]
      BY <2>3, <2>t, <3>1 DEF UpdatePasswordResetToken, Advance, Job
    <3>3. job[r].user = u /\ account'[u].resetToken = r
      BY <1>1, <2>3, <2>t, <3>1 DEF UpdatePasswordResetToken, Column, Job
    <3> QED
      BY <3>1, <3>2, <3>3 DEF NoJob
  <2>4. CASE UpdatePassword(r)
    BY <1>1, <2>4, <2>t DEF UpdatePassword, Column
  <2>5. CASE ClearPasswordResetToken(r)
    <3>1. /\ job[r] \in Job /\ job[r].kind = "reset" /\ job[r].pc = "reset"
          /\ job[r].todo = Tail(ResetStatements) /\ job[r].user \in Users
      BY <1>1, <2>5, InReset DEF ClearPasswordResetToken
    <3>2. job[r].user = u
      BY <1>1, <2>5, <2>t, <3>1 DEF ClearPasswordResetToken, Column
    <3>3. r \in former[u] \cup {account[u].password}
      BY <1>1, <3>1, <3>2, Statements DEF PRInv, HasSet, PasswordSet
    <3>4. job'[r].todo = Tail(job[r].todo) /\ Tail(job[r].todo) # job[r].todo
      BY <2>5, <2>t, <3>1, Statements DEF ClearPasswordResetToken, StatementDone, Job
    <3> QED
      BY <3>1, <3>2, <3>3, <3>4 DEF NoJob
  <2> QED
    BY <2>1, <2>2, <2>3, <2>4, <2>5
<1>2. PRInv /\ [PRNext]_allVars => [Kept]_allVars
  BY <1>1
<1> QED
  BY <1>2, PRInvariance, PTL DEF PRSpec, LinkGoneOnlyByUse

(* Every state of the composition is well typed.                           *)
THEOREM PRTypeCorrect == PRSpec => []PRTypeOK
<1>1. PRInv => PRTypeOK
  BY DEF PRInv
<1> QED
  BY <1>1, PRInvariance, PTL
=============================================================================
