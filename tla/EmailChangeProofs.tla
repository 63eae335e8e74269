-------------------------- MODULE EmailChangeProofs --------------------------
(***************************************************************************)
(* Proofs about EmailChange, for any number of accounts, addresses and     *)
(* requests, whatever they ask for and however they interleave.            *)
(***************************************************************************)
EXTENDS EmailChange, TLAPS

LEMMA NoneIsNoAddress == None \notin Requests /\ None \notin Address
BY NoneIsNothing DEF Address

(* A step of request r, whose handler then has the state h: it goes on     *)
(* with what it has read.                                                  *)
Becomes(r, h) ==
    /\ task' = [task EXCEPT ![r] = h]
    /\ \/ task[r] = NotCome /\ h.seen = row[h.user] /\ h.wrote = {}
       \/ /\ task[r] # NotCome /\ task[r].pc \notin {"done", "refused"}
          /\ h.kind = task[r].kind /\ h.user = task[r].user /\ h.seen = task[r].seen
          /\ h.to = task[r].to /\ h.code = task[r].code
          /\ task[r].wrote \subseteq h.wrote
          /\ task[r].pc = "mail" => h.pc \in {"done", "refused"}

(* What it does to the token columns and the pending address of its        *)
(* account, whose row was old and is new.                                  *)
Token(r, h, old, new) ==
    \/ /\ new.token = old.token
       /\ \/ new.pending = old.pending
          \/ "pending" \in h.wrote /\ new.pending = h.seen.pending
    \/ /\ new.token = r /\ new.pending = h.to
       /\ h.kind = "request" /\ task[r].pc = "setPending" /\ h.pc = "mail"
    \/ /\ new.token = r /\ new.pending = old.pending
       /\ h.kind = "resend" /\ task[r].pc = "setToken" /\ h.pc = "mail"
    \/ new.token = None /\ new.pending = None
    \/ /\ new.token = None /\ new.pending = old.pending
       /\ h.kind = "verify" /\ h.pc = "done"

Change(r, h) == [user |-> h.user, code |-> h.code, address |-> h.to]

Writes(r, h) ==
    /\ row' \in [Users -> Row]
    /\ \A v \in Users \ {h.user} : row'[v] = row[v]
    /\ LET old == row[h.user]
           new == row'[h.user]
       IN /\ Token(r, h, old, new)
          /\ \/ new.email = old.email
             \/ "email" \in h.wrote
             \/ task[r].pc = "apply" /\ new.email = h.to /\ Change(r, h) \in confirmed'
          /\ new.verified \/ new.verified = old.verified \/ "verified" \in h.wrote

(* What it does to the mail and the history.                               *)
Records(r, h) ==
    /\ mailed \subseteq mailed' /\ mailed' \subseteq Requests \X Address
    /\ \A m \in mailed' \ mailed : m = <<r, h.to>> /\ task[r].pc = "mail" /\ h.pc = "done"
    /\ confirmed \subseteq confirmed'
    /\ \A k \in confirmed' \ confirmed :
         /\ k = Change(r, h) /\ task[r].pc = "apply" /\ h.to \in Address
         /\ row'[h.user].token = None
    /\ h.kind = "verify" /\ h.pc = "done" => row'[h.user].token = None
    /\ h.pc = "setPending" => /\ task[r].pc = "check" /\ row' = row
                              /\ Owner(LOWER(h.to)) = {}
    /\ proven' \subseteq Users /\ lapsed' \subseteq Requests
    /\ \A u \in proven' \ proven : row'[u].verified

(* What a request has read and what has been recorded stays.               *)
LEMMA Stays ==
    ASSUME Inv, NEW r \in Requests, NEW h \in Task, Becomes(r, h), Records(r, h)
    PROVE  /\ task' \in [Requests -> {NotCome} \cup Task]
           /\ task'[r] = h /\ h # NotCome /\ \A q \in Requests \ {r} : task'[q] = task[q]
           /\ \A q \in Requests : task[q] # NotCome =>
                /\ task'[q] # NotCome
                /\ task'[q].kind = task[q].kind /\ task'[q].user = task[q].user
                /\ task'[q].seen = task[q].seen /\ task'[q].to = task[q].to
                /\ task'[q].code = task[q].code /\ task[q].wrote \subseteq task'[q].wrote
           /\ \A q \in Requests : task[q].pc = "done" => task'[q] = task[q] /\ task[q] # NotCome
           /\ \A u, c : WroteBack(u, c) => WroteBack(u, c)'
           /\ \A c \in h.wrote : WroteBack(h.user, c)'
           /\ \A c : Received(c) => /\ Received(c)' /\ c \in Requests
                                    /\ task[c] # NotCome /\ task'[c] = task[c]
<1>1. task \in [Requests -> {NotCome} \cup Task] /\ mailed \subseteq Requests \X Address
  BY DEF Inv, TypeOK
<1>2. /\ task' \in [Requests -> {NotCome} \cup Task]
      /\ task'[r] = h /\ \A q \in Requests \ {r} : task'[q] = task[q]
  BY <1>1 DEF Becomes
<1>3. h # NotCome /\ NotCome.pc = "idle"
  BY DEF NotCome, Task
<1>4. \A q \in Requests : task[q] # NotCome =>
         /\ task'[q] # NotCome
         /\ task'[q].kind = task[q].kind /\ task'[q].user = task[q].user
         /\ task'[q].seen = task[q].seen /\ task'[q].to = task[q].to
         /\ task'[q].code = task[q].code /\ task[q].wrote \subseteq task'[q].wrote
  BY <1>2, <1>3 DEF Becomes
<1>5. \A q \in Requests : task[q].pc = "done" => task'[q] = task[q] /\ task[q] # NotCome
  BY <1>2, <1>3 DEF Becomes
<1>6. \A u, c : WroteBack(u, c) => WroteBack(u, c)'
  BY <1>4 DEF WroteBack
<1>7. \A c \in h.wrote : WroteBack(h.user, c)'
  BY <1>2, <1>3 DEF WroteBack
<1>8. \A c : Received(c) => /\ Received(c)' /\ c \in Requests
                            /\ task[c] # NotCome /\ task'[c] = task[c]
  <2> SUFFICES ASSUME NEW c, Received(c)
               PROVE  Received(c)' /\ c \in Requests /\ task[c] # NotCome /\ task'[c] = task[c]
    OBVIOUS
  <2>1. PICK a \in Address : <<c, a>> \in mailed
    BY DEF Received
  <2>2. c \in Requests /\ task[c].pc = "done"
    BY <1>1, <2>1 DEF Inv, MailFits
  <2> QED
    BY <1>5, <2>1, <2>2 DEF Received, Records
<1> QED
  BY <1>2, <1>3, <1>4, <1>5, <1>6, <1>7, <1>8

-----------------------------------------------------------------------------
(* Such a step keeps each part of the invariant.                           *)
Step(r, h) == /\ Becomes(r, h) /\ Writes(r, h) /\ Records(r, h)
              /\ TaskFits(r)'

LEMMA TasksStayFit ==
    ASSUME Inv, NEW r \in Requests, NEW h \in Task, Step(r, h)
    PROVE  \A q \in Requests : TaskFits(q)'
<1> USE DEF Step
<1>1. ASSUME NEW q \in Requests \ {r}
      PROVE  TaskFits(q)'
  <2>1. TaskFits(q) /\ task'[q] = task[q] /\ mailed \subseteq mailed'
    BY Stays DEF Inv, Records
  <2>2. CASE task[q] = NotCome
    BY <2>1, <2>2 DEF TaskFits, NotCome
  <2>3. CASE task[q] # NotCome
    <3> DEFINE t == task[q]
    <3>1. Received(t.code) => Received(t.code)' /\ task'[t.code] = task[t.code]
      BY Stays
    <3>2. WroteBack(t.user, "pending") => WroteBack(t.user, "pending")'
      BY Stays
    <3> QED
      BY <2>1, <2>3, <3>1, <3>2 DEF TaskFits
  <2> QED
    BY <2>2, <2>3
<1> QED
  BY <1>1

LEMMA MailStaysFit ==
    ASSUME Inv, NEW r \in Requests, NEW h \in Task, Step(r, h)
    PROVE  MailFits'
<1>1. ASSUME NEW m \in mailed' \ mailed
      PROVE  /\ task'[m[1]].pc = "done" /\ task'[m[1]].kind \in {"request", "resend"}
             /\ m[2] = task'[m[1]].to
  <2>1. m = <<r, h.to>> /\ task[r].pc = "mail" /\ h.pc = "done"
    BY DEF Step, Records
  <2>2. task[r].kind \in {"request", "resend"} /\ task[r] # NotCome
    <3>1. TaskFits(r)
      BY DEF Inv
    <3> QED
      BY <3>1, <2>1 DEF TaskFits, NotCome
  <2>3. task'[r] = h /\ h.kind = task[r].kind
    BY <2>2, Stays DEF Step
  <2> QED
    BY <2>1, <2>2, <2>3
<1>2. ASSUME NEW m \in mailed
      PROVE  /\ task'[m[1]].pc = "done" /\ task'[m[1]].kind \in {"request", "resend"}
             /\ m[2] = task'[m[1]].to
  <2>1. m[1] \in Requests
    BY DEF Inv, TypeOK
  <2> QED
    BY <2>1, Stays DEF Inv, MailFits, Step
<1> QED
  BY <1>1, <1>2 DEF MailFits

LEMMA ConfirmedStaysFit ==
    ASSUME Inv, NEW r \in Requests, NEW h \in Task, Step(r, h)
    PROVE  ConfirmedFits' /\ CodeProvesAddress'
<1> USE DEF Step
<1>1. ASSUME NEW k \in confirmed
      PROVE  /\ Received(k.code)' /\ task'[k.code].user = k.user
             /\ \/ <<k.code, k.address>> \in mailed'
                \/ task'[k.code].kind = "resend"
                \/ WroteBack(k.user, "pending")'
  <2>1. Received(k.code) /\ task[k.code].user = k.user
    BY DEF Inv, ConfirmedFits
  <2>2. Received(k.code)' /\ task'[k.code] = task[k.code]
    BY <2>1, Stays
  <2>3. WroteBack(k.user, "pending") => WroteBack(k.user, "pending")'
    BY Stays
  <2> QED
    BY <2>1, <2>2, <2>3 DEF Inv, CodeProvesAddress, Records
<1>2. ASSUME NEW k \in confirmed' \ confirmed
      PROVE  /\ Received(k.code)' /\ task'[k.code].user = k.user
             /\ \/ <<k.code, k.address>> \in mailed'
                \/ task'[k.code].kind = "resend"
                \/ WroteBack(k.user, "pending")'
  <2>1. k = Change(r, h) /\ task[r].pc = "apply"
    BY DEF Records
  <2>2. task[r] # NotCome /\ TaskFits(r)
    BY <2>1 DEF NotCome, Inv
  <2>3. /\ k.user = task[r].user /\ k.code = task[r].code /\ k.address = task[r].to
    BY <2>1, <2>2, Stays DEF Change
  <2>4. /\ Received(k.code) /\ task[k.code].user = k.user
        /\ \/ <<k.code, k.address>> \in mailed
           \/ task[k.code].kind = "resend"
           \/ WroteBack(k.user, "pending")
    BY <2>1, <2>2, <2>3 DEF TaskFits
  <2>5. Received(k.code)' /\ task'[k.code] = task[k.code]
    BY <2>4, Stays
  <2>6. WroteBack(k.user, "pending") => WroteBack(k.user, "pending")'
    BY Stays
  <2> QED
    BY <2>4, <2>5, <2>6 DEF Records
<1> QED
  BY <1>1, <1>2 DEF ConfirmedFits, CodeProvesAddress

LEMMA TokensStayFit ==
    ASSUME Inv, NEW r \in Requests, NEW h \in Task, Step(r, h)
    PROVE  /\ \A u \in Users : TokenFits(u)'
           /\ PendingHasCode'
<1> USE NoneIsNoAddress DEF Step
<1>0. /\ row \in [Users -> Row] /\ row' \in [Users -> Row] /\ h.user \in Users
      /\ task \in [Requests -> {NotCome} \cup Task]
  BY DEF Inv, TypeOK, Writes, Task
<1>1. ASSUME NEW u \in Users, row'[u].token = row[u].token,
             \/ row'[u].pending = row[u].pending
             \/ WroteBack(u, "pending")'
      PROVE  /\ TokenFits(u)'
             /\ row'[u].pending # None /\ row'[u].token = None =>
                  \/ \E q \in Requests : /\ task'[q].pc = "done" /\ task'[q].kind = "verify"
                                        /\ task'[q].user = u /\ task'[q].seen.pending = None
                  \/ WroteBack(u, "pending")'
  <2>1. WroteBack(u, "pending") => WroteBack(u, "pending")'
    BY Stays
  <2>2. TokenFits(u)'
    <3> DEFINE c == row[u].token
    <3> SUFFICES ASSUME c # None
                 PROVE  /\ task'[c].pc \in {"mail", "done", "refused"} /\ task'[c].user = u
                        /\ \/ task'[c].kind = "resend"
                           \/ task'[c].kind = "request" /\ row'[u].pending = task'[c].to
                           \/ task'[c].kind = "request" /\ WroteBack(u, "pending")'
      BY <1>1 DEF TokenFits
    <3>1. c \in Requests /\ TokenFits(u)
      BY <1>0 DEF Row, Inv
    <3>2. task[c] # NotCome
      BY <3>1 DEF TokenFits, NotCome
    <3>3. task'[c].pc \in {"mail", "done", "refused"}
      <4>1. CASE c # r
        BY <4>1, <3>1, Stays DEF TokenFits
      <4>2. CASE c = r
        BY <4>2, <3>1, <3>2, Stays DEF TokenFits, Becomes
      <4> QED
        BY <4>1, <4>2
    <3> QED
      BY <1>1, <2>1, <3>1, <3>2, <3>3, Stays DEF TokenFits
  <2>3. ASSUME row'[u].pending # None, row'[u].token = None
        PROVE  \/ \E q \in Requests : /\ task'[q].pc = "done" /\ task'[q].kind = "verify"
                                      /\ task'[q].user = u /\ task'[q].seen.pending = None
               \/ WroteBack(u, "pending")'
    <3>1. CASE row'[u].pending = row[u].pending
      <4>1. CASE WroteBack(u, "pending")
        BY <4>1, <2>1
      <4>2. CASE ~WroteBack(u, "pending")
        <5>1. PICK q \in Requests : /\ task[q].pc = "done" /\ task[q].kind = "verify"
                                   /\ task[q].user = u /\ task[q].seen.pending = None
          BY <4>2, <1>1, <2>3, <3>1 DEF Inv, PendingHasCode
        <5>2. task'[q] = task[q]
          BY <5>1, Stays
        <5> QED
          BY <5>1, <5>2
      <4> QED
        BY <4>1, <4>2
    <3> QED
      BY <1>1, <3>1
  <2> QED
    BY <2>2, <2>3
<1>2. ASSUME row'[h.user].token = r, h.pc = "mail",
             \/ h.kind = "request" /\ row'[h.user].pending = h.to
             \/ h.kind = "resend"
      PROVE  TokenFits(h.user)'
  BY <1>2, Stays DEF TokenFits
<1>3. ASSUME NEW u \in Users, row'[u].token = None
      PROVE  TokenFits(u)'
  BY <1>3 DEF TokenFits
<1>4. ASSUME NEW u \in Users \ {h.user}
      PROVE  row'[u] = row[u]
  BY DEF Writes
<1>5. ASSUME h.kind = "verify", h.pc = "done"
      PROVE  \E q \in Requests : /\ task'[q].pc = "done" /\ task'[q].kind = "verify"
                                /\ task'[q].user = h.user /\ task'[q].seen.pending = None
  <2>1. task'[r] = h /\ h # NotCome /\ TaskFits(r)'
    BY Stays
  <2>2. h.seen.pending = None
    BY <1>5, <2>1 DEF TaskFits
  <2> QED
    BY <1>5, <2>1, <2>2
<1>6. "pending" \in h.wrote => WroteBack(h.user, "pending")'
  BY Stays
<1>7. Token(r, h, row[h.user], row'[h.user])
  BY DEF Writes
<1>8. TokenFits(h.user)'
  BY <1>0, <1>1, <1>2, <1>3, <1>6, <1>7 DEF Token
<1>9. row'[h.user].pending # None /\ row'[h.user].token = None =>
        \/ \E q \in Requests : /\ task'[q].pc = "done" /\ task'[q].kind = "verify"
                              /\ task'[q].user = h.user /\ task'[q].seen.pending = None
        \/ WroteBack(h.user, "pending")'
  <2>1. CASE row'[h.user].token = row[h.user].token
    BY <2>1, <1>0, <1>1, <1>5, <1>6, <1>7 DEF Token
  <2>2. CASE row'[h.user].token = r
    BY <2>2
  <2>3. CASE row'[h.user].token # row[h.user].token /\ row'[h.user].token # r
    BY <2>3, <1>5, <1>7 DEF Token
  <2> QED
    BY <2>1, <2>2, <2>3
<1>10. \A u \in Users : TokenFits(u)'
  BY <1>1, <1>4, <1>8
<1>11. PendingHasCode'
  BY <1>1, <1>4, <1>9 DEF PendingHasCode
<1> QED
  BY <1>10, <1>11

LEMMA SpentStaysGone ==
    ASSUME Inv, NEW r \in Requests, NEW h \in Task, Step(r, h)
    PROVE  SpentCodeIsGone'
<1> USE NoneIsNoAddress DEF Step
<1>0. /\ row \in [Users -> Row] /\ h.user \in Users
      /\ task \in [Requests -> {NotCome} \cup Task]
  BY DEF Inv, TypeOK, Task
\* a code that is spent is of a mail, and of one account
<1>1. ASSUME NEW u \in Users, NEW c, Received(c), row[u].token # c
      PROVE  row'[u].token # c
  <2>1. c \in Requests /\ task[c].pc = "done"
    <3>1. PICK a \in Address : <<c, a>> \in mailed
      BY <1>1 DEF Received
    <3> QED
      BY <3>1 DEF Inv, TypeOK, MailFits
  <2>2. row'[u] = row[u] \/ u = h.user
    BY DEF Writes
  <2>3. CASE u = h.user
    <3>1. Token(r, h, row[u], row'[u])
      BY <2>3 DEF Writes
    <3> QED
      BY <3>1, <2>1, <1>1 DEF Token
  <2> QED
    BY <2>2, <2>3, <1>1
<1>2. ASSUME NEW u \in Users, NEW c \in Requests, Received(c), task[c].user = h.user,
             row'[h.user].token = None
      PROVE  row'[u].token # c
  <2>1. CASE u = h.user
    BY <2>1, <1>2
  <2>2. CASE u # h.user
    <3>1. row[u].token # c
      BY <2>2, <1>2 DEF Inv, TokenFits
    <3> QED
      BY <3>1, <1>1, <1>2
  <2> QED
    BY <2>1, <2>2
<1>3. ASSUME NEW u \in Users, NEW k \in confirmed'
      PROVE  row'[u].token # k.code
  <2>1. CASE k \in confirmed
    BY <2>1, <1>1 DEF Inv, ConfirmedFits, SpentCodeIsGone
  <2>2. CASE k \notin confirmed
    <3>1. k = Change(r, h) /\ task[r].pc = "apply" /\ row'[h.user].token = None
      BY <2>2 DEF Records
    <3>2. task[r] # NotCome /\ TaskFits(r)
      BY <3>1 DEF NotCome, Inv
    <3>3. k.user = h.user /\ k.code = task[r].code /\ h.user = task[r].user
      BY <3>1, <3>2, Stays DEF Change
    <3>4. Received(k.code) /\ task[k.code].user = h.user
      BY <3>1, <3>2, <3>3 DEF TaskFits
    <3>5. k.code \in Requests
      BY <3>4, Stays
    <3> QED
      BY <3>1, <3>4, <3>5, <1>2
  <2> QED
    BY <2>1, <2>2
<1>4. ASSUME NEW u \in Users, NEW q \in Requests, task'[q].pc = "done",
             task'[q].kind = "verify"
      PROVE  row'[u].token # task'[q].code
  <2>1. CASE task[q].pc = "done"
    <3>1. task'[q] = task[q] /\ task[q] # NotCome /\ TaskFits(q)
      BY <2>1, Stays DEF Inv
    <3>2. Received(task[q].code) /\ row[u].token # task[q].code
      BY <1>4, <3>1 DEF Inv, SpentCodeIsGone, TaskFits
    <3> QED
      BY <3>1, <3>2, <1>1
  <2>2. CASE task[q].pc # "done"
    <3>1. q = r /\ task'[r] = h /\ h # NotCome /\ TaskFits(r)'
      BY <2>2, <1>4, Stays
    <3>2. Received(h.code)' /\ task'[h.code].user = h.user /\ row'[h.user].token = None
      BY <1>4, <3>1 DEF TaskFits, Records
    <3>3. task[r].pc # "mail"
      BY <3>1, <1>4 DEF Inv, TaskFits, Becomes, NotCome
    <3>4. Received(h.code)
      BY <3>2, <3>3 DEF Received, Records
    <3> QED
      BY <3>1, <3>2, <3>4, <1>2, Stays
  <2> QED
    BY <2>1, <2>2
<1> QED
  BY <1>3, <1>4 DEF SpentCodeIsGone

LEMMA MovesAreSeen ==
    ASSUME Inv, NEW r \in Requests, NEW h \in Task, Step(r, h), NEW v \in Users
    PROVE  /\ row'[v].email = row[v].email /\ Moved(v) => Moved(v)'
           /\ row'[v].email # row[v].email =>
                /\ v = h.user /\ Moved(v)'
                /\ \/ "email" \in h.wrote
                   \/ task[r].pc = "apply" /\ row'[v].email = h.to /\ Change(r, h) \in confirmed'
<1> USE DEF Step
<1>1. row'[v].email = row[v].email /\ Moved(v) => Moved(v)'
  BY Stays DEF Moved, Records
<1>2. ASSUME row'[v].email # row[v].email
      PROVE  /\ v = h.user
             /\ \/ "email" \in h.wrote
                \/ task[r].pc = "apply" /\ row'[v].email = h.to /\ Change(r, h) \in confirmed'
  BY <1>2 DEF Writes
<1>3. ASSUME row'[v].email # row[v].email
      PROVE  Moved(v)'
  <2>1. CASE "email" \in h.wrote
    BY <2>1, <1>2, <1>3, Stays DEF Moved
  <2>2. CASE row'[v].email = h.to /\ Change(r, h) \in confirmed'
    <3>1. Change(r, h).user = v /\ Change(r, h).address = h.to
      BY <1>2, <1>3 DEF Change
    <3> QED
      BY <2>2, <3>1 DEF Moved
  <2> QED
    BY <1>2, <1>3, <2>1, <2>2
<1> QED
  BY <1>1, <1>2, <1>3

LEMMA FreeStays ==
    ASSUME Inv, NEW r \in Requests, NEW h \in Task, Step(r, h)
    PROVE  FreeWhenAsked'
<1> USE NoneIsNoAddress DEF Step
<1>1. ASSUME NEW a \in Address, NEW v \in Users, Asked(a)', LOWER(row'[v].email) = LOWER(a)
      PROVE  Moved(v)'
  <2>1. Asked(a) \/ (row' = row /\ Owner(LOWER(a)) = {})
    <3>1. CASE \E u \in Users : row'[u].pending = a
      <4>1. PICK u \in Users : row'[u].pending = a
        BY <3>1
      <4>2. CASE row'[u].pending = row[u].pending
        BY <4>1, <4>2 DEF Asked
      <4>3. CASE row'[u].pending # row[u].pending
        <5>1. u = h.user /\ Token(r, h, row[u], row'[u])
          BY <4>3 DEF Writes
        <5>2. CASE "pending" \in h.wrote /\ a = h.seen.pending
          <6>1. task[r] # NotCome /\ task[r].seen = h.seen
            BY <5>2 DEF Becomes
          <6> QED
            BY <6>1, <5>2 DEF Asked
        <5>3. CASE a = h.to /\ task[r].pc = "setPending"
          <6>1. task[r] # NotCome /\ task[r].to = h.to
            BY <5>3 DEF Becomes, NotCome
          <6> QED
            BY <6>1, <5>3 DEF Asked
        <5> QED
          BY <4>1, <4>3, <5>1, <5>2, <5>3 DEF Token
      <4> QED
        BY <4>2, <4>3
    <3>2. ASSUME NEW q \in Requests, task'[q] # NotCome,
                 task'[q].seen.pending = a \/ (task'[q].pc = "setPending" /\ task'[q].to = a)
          PROVE  Asked(a) \/ (row' = row /\ Owner(LOWER(a)) = {})
      <4>1. CASE q # r
        BY <4>1, <3>2, Stays DEF Asked
      <4>2. CASE q = r /\ h.seen.pending = a
        <5>1. CASE task[r] = NotCome
          <6>1. h.seen = row[h.user] /\ h.user \in Users
            BY <5>1 DEF Becomes, Task
          <6> QED
            BY <6>1, <4>2 DEF Asked
        <5>2. CASE task[r] # NotCome
          BY <5>2, <4>2 DEF Asked, Becomes
        <5> QED
          BY <5>1, <5>2
      <4>3. CASE q = r /\ h.pc = "setPending" /\ h.to = a
        BY <4>3 DEF Records
      <4> QED
        BY <3>2, <4>1, <4>2, <4>3, Stays
    <3> QED
      BY <1>1, <3>1, <3>2 DEF Asked
  <2>2. CASE row'[v].email # row[v].email
    BY <2>2, MovesAreSeen
  <2>3. CASE row'[v].email = row[v].email /\ Asked(a)
    <3>1. Moved(v)
      BY <1>1, <2>3 DEF Inv, FreeWhenAsked
    <3> QED
      BY <2>3, <3>1, MovesAreSeen
  <2>4. CASE row' = row /\ Owner(LOWER(a)) = {}
    BY <2>4, <1>1 DEF Owner
  <2> QED
    BY <2>1, <2>2, <2>3, <2>4
<1> QED
  BY <1>1 DEF FreeWhenAsked

LEMMA SharedStays ==
    ASSUME Inv, NEW r \in Requests, NEW h \in Task, Step(r, h)
    PROVE  MailboxSharedByChangesOnly'
<1> USE NoneIsNoAddress DEF Step
<1> DEFINE HasChanged(w) == \E k \in confirmed : /\ k.user = w
                                                 /\ LOWER(k.address) = LOWER(row[w].email)
<1>1. \A u, v \in Users :
         u # v /\ LOWER(row[u].email) = LOWER(row[v].email)
         => WroteBack(u, "email") \/ WroteBack(v, "email") \/ (HasChanged(u) /\ HasChanged(v))
  BY DEF Inv, MailboxSharedByChangesOnly
<1>2. \A w \in Users : Moved(w)' <=> WroteBack(w, "email")' \/ HasChanged(w)'
  BY DEF Moved
<1>3. \A w \in Users : row'[w].email = row[w].email /\ HasChanged(w) => HasChanged(w)'
  BY DEF Records
<1>4. \A w \in Users : WroteBack(w, "email") => WroteBack(w, "email")'
  BY Stays
<1> HIDE DEF HasChanged
\* one account has moved, the other has not
<1>5. ASSUME NEW u \in Users, NEW v \in Users, u # v, row'[u].email # row[u].email,
             LOWER(row'[u].email) = LOWER(row'[v].email)
      PROVE  WroteBack(u, "email")' \/ WroteBack(v, "email")' \/ (HasChanged(u)' /\ HasChanged(v)')
  <2>1. u = h.user /\ row'[v].email = row[v].email /\ Moved(u)'
    BY <1>5, MovesAreSeen
  <2>2. CASE "email" \in h.wrote
    BY <2>1, <2>2, Stays
  <2>3. CASE task[r].pc = "apply" /\ row'[u].email = h.to /\ Change(r, h) \in confirmed'
    <3>1. task[r] # NotCome /\ TaskFits(r) /\ task[r] \in Task
      BY <2>3 DEF NotCome, Inv, TypeOK
    <3>2. h.to = task[r].seen.pending /\ h.to \in Address
      BY <2>3, <3>1, Stays DEF TaskFits, Task
    <3>3. Asked(h.to)
      BY <3>1, <3>2 DEF Asked
    <3>4. Moved(v)
      BY <3>2, <3>3, <2>1, <2>3, <1>5 DEF Inv, FreeWhenAsked
    <3>5. Moved(v)'
      BY <3>4, <2>1, MovesAreSeen
    <3> QED
      BY <3>5, <2>1, <1>2
  <2> QED
    BY <2>2, <2>3, <1>5, MovesAreSeen
<1>6. ASSUME NEW u \in Users, NEW v \in Users, u # v,
             LOWER(row'[u].email) = LOWER(row'[v].email)
      PROVE  WroteBack(u, "email")' \/ WroteBack(v, "email")' \/ (HasChanged(u)' /\ HasChanged(v)')
  <2>1. CASE row'[u].email # row[u].email
    BY <2>1, <1>5, <1>6
  <2>2. CASE row'[v].email # row[v].email
    BY <2>2, <1>5, <1>6
  <2>3. CASE row'[u].email = row[u].email /\ row'[v].email = row[v].email
    BY <2>3, <1>1, <1>3, <1>4, <1>6
  <2> QED
    BY <2>1, <2>2, <2>3
<1> QED
  BY <1>6 DEF MailboxSharedByChangesOnly, HasChanged

LEMMA StepKeepsInv ==
    ASSUME Inv, NEW r \in Requests, NEW h \in Task, Step(r, h)
    PROVE  Inv'
<1>1. TypeOK'
  <2>1. confirmed' \subseteq [user : Users, code : Requests, address : Address]
    <3> SUFFICES ASSUME NEW k \in confirmed' \ confirmed
                 PROVE  k \in [user : Users, code : Requests, address : Address]
      BY DEF Inv, TypeOK
    <3>1. k = Change(r, h) /\ h.to \in Address /\ h.user \in Users
      BY DEF Step, Records, Task
    <3>2. Received(k.code)'
      BY ConfirmedStaysFit DEF ConfirmedFits
    <3>3. k.code \in Requests
      BY <3>2 DEF Received, Step, Records
    <3> QED
      BY <3>1, <3>3 DEF Change
  <2> QED
    BY <2>1, Stays DEF TypeOK, Step, Writes, Records
<1>2. VerifiedIsKept'
  <2> SUFFICES ASSUME NEW u \in proven'
               PROVE  row'[u].verified \/ WroteBack(u, "verified")'
    BY DEF VerifiedIsKept
  <2>1. u \in Users
    BY DEF Step, Records
  <2>2. CASE u \notin proven
    BY <2>2 DEF Step, Records
  <2>3. CASE u \in proven /\ u # h.user
    <3>1. row'[u] = row[u] /\ (row[u].verified \/ WroteBack(u, "verified"))
      BY <2>1, <2>3 DEF Step, Writes, Inv, VerifiedIsKept
    <3> QED
      BY <3>1, Stays DEF Step
  <2>4. CASE u \in proven /\ u = h.user
    <3>1. \/ row'[u].verified \/ row'[u].verified = row[u].verified
          \/ "verified" \in h.wrote
      BY <2>4 DEF Step, Writes
    <3>2. row[u].verified \/ WroteBack(u, "verified")
      BY <2>4 DEF Inv, VerifiedIsKept
    <3> QED
      BY <3>1, <3>2, <2>4, Stays DEF Step
  <2> QED
    BY <2>2, <2>3, <2>4
<1> QED
  BY <1>1, <1>2, TasksStayFit, MailStaysFit, ConfirmedStaysFit, TokensStayFit, SpentStaysGone,
     FreeStays, SharedStays DEF Inv

-----------------------------------------------------------------------------
(* The steps of the handlers are such steps.                               *)
PcFits(h) ==
    /\ h.pc \in {"check", "setPending"} => h.kind = "request"
    /\ h.pc = "setToken" => h.kind = "resend"
    /\ h.pc = "mail" => h.kind \in {"request", "resend"}
    /\ h.pc = "apply" => h.kind = "confirm"
    /\ h.pc \in {"setVerified", "clearToken"} => h.kind = "verify"
    /\ h.pc \in {"loaded", "write"} => h.kind = "save"
    /\ h.pc \in {"loaded", "write"} => h.todo # <<>>

LEMMA FitsAsBefore ==
    ASSUME Inv, NEW r \in Requests, NEW h \in Task, Becomes(r, h), Records(r, h),
           PcFits(h), task[r] # NotCome, h.pc # "apply"
    PROVE  TaskFits(r)'
<1> DEFINE t == task[r]
<1>1. /\ task'[r] = h /\ h # NotCome /\ TaskFits(r)
      /\ h.kind = t.kind /\ h.user = t.user /\ h.seen = t.seen /\ h.to = t.to /\ h.code = t.code
  BY Stays DEF Inv, Becomes
<1>2. Received(t.code) => Received(t.code)' /\ task'[t.code] = task[t.code]
  BY Stays
<1>3. WroteBack(t.user, "pending") => WroteBack(t.user, "pending")'
  BY Stays
<1> QED
  BY <1>1, <1>2, <1>3 DEF TaskFits, PcFits

(* Arrivals and other steps of the program counter.                        *)
LEMMA QuietStep ==
    ASSUME Inv, NEW r \in Requests, NEW h \in Task, Becomes(r, h), PcFits(h),
           UNCHANGED <<row, lapsed, mailed, confirmed, proven>>,
           h.pc = "setPending" => task[r].pc = "check" /\ Owner(LOWER(h.to)) = {},
           ~(h.kind = "verify" /\ h.pc = "done"),
           task[r] # NotCome => h.pc # "apply",
           task[r] = NotCome => TaskFits(r)'
    PROVE  Inv'
<1>1. Records(r, h)
  BY DEF Records, Inv, TypeOK
<1>2. Writes(r, h)
  BY DEF Writes, Token, Inv, TypeOK
<1>3. TaskFits(r)'
  BY <1>1, FitsAsBefore
<1> QED
  BY <1>1, <1>2, <1>3, StepKeepsInv DEF Step

LEMMA EmptyIsSeq == <<>> \in Seq(SUBSET Loadable)
OBVIOUS

LEMMA OneSaveIsSeq == \A S \in SUBSET Loadable : <<S>> \in Seq(SUBSET Loadable) /\ <<S>> # <<>>
OBVIOUS

LEMMA SavesAreSeq == \A s \in Saves : s \in Seq(SUBSET Loadable) /\ s # <<>>
<1>1. /\ {"email", "pending", "expires"} \in SUBSET Loadable /\ {"email"} \in SUBSET Loadable
      /\ {"verified"} \in SUBSET Loadable
  BY DEF Loadable
<1>2. \A S, T \in SUBSET Loadable : <<S, T>> \in Seq(SUBSET Loadable) /\ <<S, T>> # <<>>
  OBVIOUS
<1>3. <<{"email"}, {"verified"}>> \in Seq(SUBSET Loadable) /\ <<{"email"}, {"verified"}>> # <<>>
  BY <1>1, <1>2
<1> QED
  BY <1>1, <1>3, OneSaveIsSeq DEF Saves

(* A request has come that reads the row of account u.                     *)
LEMMA Arrival ==
    ASSUME Inv, NEW r \in Requests, NEW h \in Task, task[r] = NotCome,
           UNCHANGED <<row, lapsed, mailed, confirmed, proven>>,
           task' = [task EXCEPT ![r] = h], h.seen = row[h.user], h.wrote = {},
           PcFits(h), h.pc # "setPending", ~(h.kind = "verify" /\ h.pc = "done"),
           h.kind \in {"request", "resend"} => h.to # None,
           h.pc = "apply" \/ h.kind = "verify" =>
             /\ h.code # None /\ Received(h.code) /\ row[h.user].token = h.code,
           h.pc = "apply" => h.to = h.seen.pending /\ h.to # None,
           h.kind = "verify" => h.seen.pending = None
    PROVE  Inv'
<1>1. Becomes(r, h)
  BY DEF Becomes
<1>2. Records(r, h)
  BY DEF Records, Inv, TypeOK
<1>3. task'[r] = h /\ h # NotCome /\ h.user \in Users
  BY <1>1, <1>2, Stays DEF Task
<1>4. ASSUME h.pc = "apply" \/ h.kind = "verify"
      PROVE  /\ h.code # None /\ Received(h.code)' /\ task'[h.code].user = h.user
             /\ \/ task'[h.code].kind = "resend"
                \/ task'[h.code].kind = "request" /\ h.seen.pending = task'[h.code].to
                   /\ <<h.code, task'[h.code].to>> \in mailed'
                \/ WroteBack(h.user, "pending")'
  <2>1. Received(h.code) /\ TokenFits(h.user) /\ row[h.user].token = h.code /\ h.code # None
    BY <1>3, <1>4 DEF Inv
  <2>2. Received(h.code)' /\ task'[h.code] = task[h.code]
    BY <2>1, <1>1, <1>2, Stays
  <2>3. <<h.code, task[h.code].to>> \in mailed
    <3>1. PICK a \in Address : <<h.code, a>> \in mailed
      BY <2>1 DEF Received
    <3> QED
      BY <3>1 DEF Inv, MailFits
  <2>4. WroteBack(h.user, "pending") => WroteBack(h.user, "pending")'
    BY <1>1, <1>2, Stays
  <2> QED
    BY <2>1, <2>2, <2>3, <2>4 DEF TokenFits
<1>5. ASSUME h.kind = "verify", task'[h.code].kind = "request"
      PROVE  task'[h.code].to # None
  <2>1. Received(h.code)
    BY <1>5
  <2>2. h.code \in Requests /\ task'[h.code] = task[h.code] /\ task[h.code] # NotCome
    BY <2>1, <1>1, <1>2, Stays
  <2>3. TaskFits(h.code)
    BY <2>2 DEF Inv
  <2> QED
    BY <1>5, <2>2, <2>3 DEF TaskFits
<1>6. TaskFits(r)'
  BY <1>3, <1>4, <1>5 DEF TaskFits, PcFits
<1> QED
  BY <1>1, <1>6, QuietStep

-----------------------------------------------------------------------------
(* Requests that come.                                                     *)
LEMMA ArriveMoves ==
    ASSUME Inv, NEW r \in Requests, NEW u \in Users,
           \/ \E a \in Address : RequestEmailChange(r, u, a)
           \/ \E c \in Requests : Received(c) /\ FindByIdWithPendingEmail(r, u, c)
           \/ ResendVerification(r, u)
           \/ \E saves \in Saves : LoadUser(r, u, saves)
    PROVE  Inv'
<1> USE NoneIsNoAddress, EmptyIsSeq
<1>0. TypeOK /\ row[u] \in Row
  BY DEF Inv, TypeOK
<1>1. ASSUME NEW a \in Address, RequestEmailChange(r, u, a)
      PROVE  Inv'
  <2> DEFINE step == IF LOWER(row[u].email) = LOWER(a) THEN "done" ELSE "check"
             h == [Read("request", u) EXCEPT !.to = a, !.pc = step]
  <2>1. h \in Task
    BY <1>0 DEF Read, Task
  <2>2. task' = [task EXCEPT ![r] = h]
    BY <1>1 DEF RequestEmailChange, Become
  <2>3. /\ h.kind = "request" /\ h.pc \in {"check", "done"} /\ h.seen = row[h.user]
        /\ h.wrote = {} /\ h.to = a
    BY DEF Read
  <2> HIDE DEF h
  <2> QED
    BY <1>1, <2>1, <2>2, <2>3, Arrival DEF RequestEmailChange, PcFits
<1>2. ASSUME NEW c \in Requests, Received(c), FindByIdWithPendingEmail(r, u, c)
      PROVE  Inv'
  <2> DEFINE step == IF row[u].pending = None \/ row[u].token # c \/ Expired(row[u].expires)
                     THEN "refused" ELSE "apply"
             h == [Read("confirm", u) EXCEPT !.code = c, !.to = row[u].pending, !.pc = step]
  <2>1. h \in Task
    BY <1>0 DEF Row, Read, Task
  <2>2. task' = [task EXCEPT ![r] = h]
    BY <1>2 DEF FindByIdWithPendingEmail, Become
  <2>3. /\ h.kind = "confirm" /\ h.pc \in {"refused", "apply"} /\ h.seen = row[h.user]
        /\ h.wrote = {} /\ h.to = h.seen.pending /\ h.code = c /\ h.user = u
        /\ h.pc = "apply" => h.to # None /\ row[u].token = c
    BY DEF Read
  <2> HIDE DEF h
  <2> QED
    BY <1>2, <2>1, <2>2, <2>3, Arrival DEF FindByIdWithPendingEmail, PcFits
<1>3. ASSUME ResendVerification(r, u)
      PROVE  Inv'
  <2> DEFINE step == IF row[u].verified THEN "done" ELSE "setToken"
             h == [Read("resend", u) EXCEPT !.to = row[u].email, !.pc = step]
  <2>1. h \in Task /\ row[u].email \in Address
    BY <1>0 DEF Row, Read, Task
  <2>2. task' = [task EXCEPT ![r] = h]
    BY <1>3 DEF ResendVerification, Become
  <2>3. /\ h.kind = "resend" /\ h.pc \in {"done", "setToken"} /\ h.seen = row[h.user]
        /\ h.wrote = {} /\ h.to = row[u].email
    BY DEF Read
  <2> HIDE DEF h
  <2> QED
    BY <1>3, <2>1, <2>2, <2>3, Arrival DEF ResendVerification, PcFits
<1>4. ASSUME NEW saves \in Saves, LoadUser(r, u, saves)
      PROVE  Inv'
  <2> DEFINE h == [Read("save", u) EXCEPT !.todo = saves, !.pc = "loaded"]
  <2>1. h \in Task /\ saves # <<>>
    BY <1>0, SavesAreSeq DEF Read, Task
  <2>2. task' = [task EXCEPT ![r] = h]
    BY <1>4 DEF LoadUser, Become
  <2>3. /\ h.kind = "save" /\ h.pc = "loaded" /\ h.seen = row[h.user]
        /\ h.wrote = {} /\ h.todo = saves
    BY DEF Read
  <2> HIDE DEF h
  <2> QED
    BY <1>4, <2>1, <2>2, <2>3, Arrival DEF LoadUser, PcFits
<1> QED
  BY <1>1, <1>2, <1>3, <1>4

LEMMA VerifyMoves ==
    ASSUME Inv, NEW r \in Requests, NEW c \in Requests, Received(c),
           FindByEmailVerificationToken(r, c)
    PROVE  Inv'
<1> USE NoneIsNoAddress, EmptyIsSeq
<1>1. PICK u \in Users :
         /\ row[u].token = c /\ row[u].pending = None
         /\ Become(r, [Read("verify", u) EXCEPT !.code = c, !.pc = "setVerified"])
  BY DEF FindByEmailVerificationToken
<1> DEFINE h == [Read("verify", u) EXCEPT !.code = c, !.pc = "setVerified"]
<1>2. h \in Task
  BY DEF Inv, TypeOK, Read, Task
<1>3. task' = [task EXCEPT ![r] = h]
  BY <1>1 DEF Become
<1>4. /\ h.kind = "verify" /\ h.pc = "setVerified" /\ h.seen = row[h.user] /\ h.user = u
      /\ h.wrote = {} /\ h.code = c
  BY DEF Read
<1> HIDE DEF h
<1> QED
  BY <1>1, <1>2, <1>3, <1>4, Arrival DEF FindByEmailVerificationToken, PcFits

-----------------------------------------------------------------------------
(* Requests that go on.                                                    *)
Pcs == {"check", "setPending", "mail", "apply", "setVerified", "clearToken",
        "setToken", "loaded", "write", "done", "refused"}

LEMMA GoesOn ==
    ASSUME Inv, NEW r \in Requests, NEW step \in Pcs, Goto(r, step),
           task[r].pc \notin {"idle", "done", "refused"},
           task[r].pc = "mail" => step \in {"done", "refused"}
    PROVE  \E h \in Task : /\ Becomes(r, h) /\ h = [task[r] EXCEPT !.pc = step]
                           /\ h.pc = step /\ h.kind = task[r].kind /\ h.user = task[r].user
                           /\ h.seen = task[r].seen /\ h.to = task[r].to
                           /\ h.code = task[r].code /\ h.wrote = task[r].wrote
                           /\ task[r] # NotCome /\ TaskFits(r) /\ task[r] \in Task
                           /\ h.todo = task[r].todo
<1>1. /\ task[r] \in Task /\ task[r] # NotCome /\ TaskFits(r)
      /\ task \in [Requests -> {NotCome} \cup Task]
  BY DEF Inv, TypeOK, NotCome
<1> DEFINE h == [task[r] EXCEPT !.pc = step]
<1>2. /\ h \in Task /\ h.pc = step /\ h.kind = task[r].kind /\ h.user = task[r].user
      /\ h.seen = task[r].seen /\ h.to = task[r].to /\ h.code = task[r].code
      /\ h.wrote = task[r].wrote /\ h.todo = task[r].todo
  BY <1>1 DEF Task, Pcs
<1>3. task' = [task EXCEPT ![r] = h]
  BY <1>1 DEF Goto
<1> HIDE DEF h
<1>4. Becomes(r, h)
  BY <1>1, <1>2, <1>3 DEF Becomes
<1>5. h = [task[r] EXCEPT !.pc = step]
  BY DEF h
<1> QED
  BY <1>1, <1>2, <1>4, <1>5

LEMMA QuietMoves ==
    ASSUME Inv, NEW r \in Requests, FindByEmail(r) \/ Abort(r)
    PROVE  Inv'
<1>1. ASSUME FindByEmail(r)
      PROVE  Inv'
  <2> DEFINE step == IF Owner(LOWER(task[r].to)) = {} THEN "setPending" ELSE "refused"
  <2>1. PICK h \in Task : /\ Becomes(r, h) /\ h.pc = step /\ h.kind = task[r].kind
                          /\ h.to = task[r].to /\ task[r] # NotCome /\ TaskFits(r)
    BY <1>1, GoesOn DEF FindByEmail, Pcs
  <2>2. h.kind = "request" /\ h.pc \in {"setPending", "refused"}
    BY <1>1, <2>1 DEF TaskFits, FindByEmail
  <2> QED
    BY <1>1, <2>1, <2>2, QuietStep DEF FindByEmail, PcFits
<1>2. ASSUME Abort(r)
      PROVE  Inv'
  <2>1. PICK h \in Task : /\ Becomes(r, h) /\ h.pc = "refused" /\ task[r] # NotCome
    BY <1>2, GoesOn DEF Abort, Pcs
  <2> QED
    BY <1>2, <2>1, QuietStep DEF Abort, PcFits
<1> QED
  BY <1>1, <1>2

LEMMA MailMoves ==
    ASSUME Inv, NEW r \in Requests, MailCode(r)
    PROVE  Inv'
<1>1. PICK step \in {"done", "refused"} : /\ Goto(r, step) /\ task[r].pc = "mail"
                                          /\ UNCHANGED <<row, lapsed, confirmed, proven>>
                                          /\ \/ mailed' = mailed \cup {<<r, task[r].to>>} /\ step = "done"
                                             \/ mailed' = mailed
  BY DEF MailCode
<1>2. PICK h \in Task : /\ Becomes(r, h) /\ h.pc = step /\ h.kind = task[r].kind
                        /\ h.to = task[r].to /\ task[r] # NotCome /\ TaskFits(r)
  BY <1>1, GoesOn DEF Pcs
<1>3. h.kind \in {"request", "resend"} /\ h.to \in Address
  BY <1>1, <1>2 DEF TaskFits, Task
<1>4. Records(r, h)
  BY <1>1, <1>2, <1>3 DEF Records, Inv, TypeOK
<1>5. Writes(r, h)
  BY <1>1 DEF Writes, Token, Inv, TypeOK
<1>6. TaskFits(r)'
  BY <1>2, <1>3, <1>4, FitsAsBefore DEF PcFits
<1> QED
  BY <1>2, <1>4, <1>5, <1>6, StepKeepsInv DEF Step

(* The UPDATEs.                                                            *)
LEMMA UpdateMoves ==
    ASSUME Inv, NEW r \in Requests,
           \/ SetPendingEmailChange(r) \/ SetEmailVerificationToken(r)
           \/ SetEmailVerified(r) \/ ClearEmailVerificationToken(r)
    PROVE  Inv'
<1> USE NoneIsNoAddress
<1>1. PICK step \in {"mail", "clearToken", "done"} :
         /\ Goto(r, step)
         /\ task[r].pc \in {"setPending", "setToken", "setVerified", "clearToken"}
         /\ step = IF task[r].pc \in {"setPending", "setToken"} THEN "mail"
                   ELSE IF task[r].pc = "setVerified" THEN "clearToken" ELSE "done"
         /\ UNCHANGED <<lapsed, mailed, confirmed>>
  BY DEF SetPendingEmailChange, SetEmailVerificationToken, SetEmailVerified,
         ClearEmailVerificationToken
<1>2. PICK h \in Task : /\ Becomes(r, h) /\ h.pc = step /\ h.kind = task[r].kind
                        /\ h.user = task[r].user /\ h.to = task[r].to
                        /\ task[r] # NotCome /\ TaskFits(r)
  BY <1>1, GoesOn DEF Pcs
<1> DEFINE u == h.user
           old == row[u]
           new == row'[u]
<1>3. /\ u \in Users /\ old \in Row /\ row \in [Users -> Row]
      /\ proven \subseteq Users /\ lapsed \subseteq Requests
      /\ h.to \in Address \cup {None}
  BY DEF Inv, TypeOK, Task
<1>4. CASE SetPendingEmailChange(r)
  <2>1. task[r].pc = "setPending" /\ h.kind = "request" /\ h.to # None /\ h.pc = "mail"
    BY <1>1, <1>2, <1>4 DEF SetPendingEmailChange, TaskFits
  <2>2. /\ row' = [row EXCEPT ![u] = [old EXCEPT !.pending = h.to, !.token = r, !.expires = r]]
        /\ UNCHANGED proven
    BY <1>2, <1>4 DEF SetPendingEmailChange
  <2>3. /\ new \in Row /\ new.token = r /\ new.pending = h.to
        /\ new.email = old.email /\ new.verified = old.verified
    BY <1>3, <2>2 DEF Row
  <2>4. row' \in [Users -> Row] /\ \A v \in Users \ {u} : row'[v] = row[v]
    BY <1>3, <2>2, <2>3
  <2>5. Writes(r, h)
    BY <2>1, <2>3, <2>4 DEF Writes, Token
  <2>6. Records(r, h)
    BY <1>1, <1>3, <2>1, <2>2 DEF Records, Inv, TypeOK
  <2>7. TaskFits(r)'
    BY <1>2, <2>1, <2>6, FitsAsBefore DEF PcFits
  <2> QED
    BY <1>2, <2>5, <2>6, <2>7, StepKeepsInv DEF Step
<1>5. CASE SetEmailVerificationToken(r)
  <2>1. task[r].pc = "setToken" /\ h.kind = "resend" /\ h.pc = "mail"
    BY <1>1, <1>2, <1>5 DEF SetEmailVerificationToken, TaskFits
  <2>2. /\ row' = [row EXCEPT ![u] = [old EXCEPT !.token = r, !.expires = r]]
        /\ UNCHANGED proven
    BY <1>2, <1>5 DEF SetEmailVerificationToken
  <2>3. /\ new \in Row /\ new.token = r /\ new.pending = old.pending
        /\ new.email = old.email /\ new.verified = old.verified
    BY <1>3, <2>2 DEF Row
  <2>4. row' \in [Users -> Row] /\ \A v \in Users \ {u} : row'[v] = row[v]
    BY <1>3, <2>2, <2>3
  <2>5. Writes(r, h)
    BY <2>1, <2>3, <2>4 DEF Writes, Token
  <2>6. Records(r, h)
    BY <1>1, <1>3, <2>1, <2>2 DEF Records, Inv, TypeOK
  <2>7. TaskFits(r)'
    BY <1>2, <2>1, <2>6, FitsAsBefore DEF PcFits
  <2> QED
    BY <1>2, <2>5, <2>6, <2>7, StepKeepsInv DEF Step
<1>6. CASE SetEmailVerified(r)
  <2>1. task[r].pc = "setVerified" /\ h.kind = "verify" /\ h.pc = "clearToken"
    BY <1>1, <1>2, <1>6 DEF SetEmailVerified, TaskFits
  <2>2. /\ row' = [row EXCEPT ![u] = [old EXCEPT !.verified = TRUE]]
        /\ proven' = proven \cup {u}
    BY <1>2, <1>6 DEF SetEmailVerified
  <2>3. /\ new \in Row /\ new.token = old.token /\ new.pending = old.pending
        /\ new.email = old.email /\ new.verified
    BY <1>3, <2>2 DEF Row
  <2>4. row' \in [Users -> Row] /\ \A v \in Users \ {u} : row'[v] = row[v]
    BY <1>3, <2>2, <2>3
  <2>5. Writes(r, h)
    BY <2>1, <2>3, <2>4 DEF Writes, Token
  <2>6. Records(r, h)
    BY <1>1, <1>3, <2>1, <2>2, <2>3 DEF Records, Inv, TypeOK
  <2>7. TaskFits(r)'
    BY <1>2, <2>1, <2>6, FitsAsBefore DEF PcFits
  <2> QED
    BY <1>2, <2>5, <2>6, <2>7, StepKeepsInv DEF Step
<1>7. CASE ClearEmailVerificationToken(r)
  <2>1. task[r].pc = "clearToken" /\ h.kind = "verify" /\ h.pc = "done"
    BY <1>1, <1>2, <1>7 DEF ClearEmailVerificationToken, TaskFits
  <2>2. /\ row' = [row EXCEPT ![u] = [old EXCEPT !.token = None, !.expires = None]]
        /\ UNCHANGED proven
    BY <1>2, <1>7 DEF ClearEmailVerificationToken
  <2>3. /\ new \in Row /\ new.token = None /\ new.pending = old.pending
        /\ new.email = old.email /\ new.verified = old.verified
    BY <1>3, <2>2 DEF Row
  <2>4. row' \in [Users -> Row] /\ \A v \in Users \ {u} : row'[v] = row[v]
    BY <1>3, <2>2, <2>3
  <2>5. Writes(r, h)
    BY <2>1, <2>3, <2>4 DEF Writes, Token
  <2>6. Records(r, h)
    BY <1>1, <1>3, <2>1, <2>2, <2>3 DEF Records, Inv, TypeOK
  <2>7. TaskFits(r)'
    BY <1>2, <2>1, <2>6, FitsAsBefore DEF PcFits
  <2> QED
    BY <1>2, <2>5, <2>6, <2>7, StepKeepsInv DEF Step
<1> QED
  BY <1>4, <1>5, <1>6, <1>7

LEMMA ConfirmMoves ==
    ASSUME Inv, NEW r \in Requests, ConfirmEmailChange(r)
    PROVE  Inv'
<1> USE NoneIsNoAddress
<1>1. PICK step \in {"done", "refused"} :
         /\ Goto(r, step) /\ task[r].pc = "apply"
         /\ UNCHANGED <<lapsed, mailed, proven>>
         /\ \/ /\ row' = [row EXCEPT ![task[r].user] =
                            [@ EXCEPT !.email = task[r].to, !.pending = None,
                                      !.token = None, !.expires = None]]
               /\ confirmed' = confirmed \cup {[user |-> task[r].user, code |-> task[r].code,
                                                address |-> task[r].to]}
            \/ row' = row /\ confirmed' = confirmed
  BY DEF ConfirmEmailChange
<1>2. PICK h \in Task : /\ Becomes(r, h) /\ h.pc = step /\ h.kind = task[r].kind
                        /\ h.user = task[r].user /\ h.to = task[r].to /\ h.code = task[r].code
                        /\ task[r] # NotCome /\ TaskFits(r)
  BY <1>1, GoesOn DEF Pcs
<1> DEFINE u == h.user
           old == row[u]
           new == row'[u]
<1>3. /\ u \in Users /\ old \in Row /\ row \in [Users -> Row]
      /\ h.kind = "confirm" /\ h.to \in Address
  BY <1>1, <1>2 DEF Inv, TypeOK, Task, TaskFits
<1>4. CASE row' = row /\ confirmed' = confirmed
  BY <1>1, <1>2, <1>3, <1>4, QuietStep DEF PcFits
<1>5. CASE /\ row' = [row EXCEPT ![u] = [old EXCEPT !.email = h.to, !.pending = None,
                                                    !.token = None, !.expires = None]]
           /\ confirmed' = confirmed \cup {Change(r, h)}
  <2>1. /\ new \in Row /\ new.token = None /\ new.pending = None
        /\ new.email = h.to /\ new.verified = old.verified
    BY <1>3, <1>5 DEF Row
  <2>2. row' \in [Users -> Row] /\ \A v \in Users \ {u} : row'[v] = row[v]
    BY <1>3, <1>5, <2>1
  <2>3. Writes(r, h)
    BY <1>1, <1>5, <2>1, <2>2 DEF Writes, Token
  <2>4. Records(r, h)
    BY <1>1, <1>2, <1>3, <1>5, <2>1 DEF Records, Inv, TypeOK
  <2>5. TaskFits(r)'
    BY <1>1, <1>2, <1>3, <2>4, FitsAsBefore DEF PcFits
  <2> QED
    BY <1>2, <2>3, <2>4, <2>5, StepKeepsInv DEF Step
<1> QED
  BY <1>1, <1>2, <1>4, <1>5 DEF Change

(* save().                                                                 *)
LEMMA SelectMoves ==
    ASSUME Inv, NEW r \in Requests, SelectForSave(r)
    PROVE  Inv'
<1>1. /\ task[r] \in Task /\ task[r] # NotCome /\ TaskFits(r) /\ task[r].pc = "loaded"
      /\ task \in [Requests -> {NotCome} \cup Task]
  BY DEF Inv, TypeOK, NotCome, SelectForSave
<1>2. task[r].todo \in Seq(SUBSET Loadable) /\ task[r].todo # <<>> /\ task[r].kind = "save"
  BY <1>1 DEF Task, TaskFits
<1>3. Head(task[r].todo) \in SUBSET Loadable
  BY <1>2
<1> DEFINE D == {c \in Head(task[r].todo) : task[r].seen[c] # row[task[r].user][c]}
           h == [task[r] EXCEPT !.pc = "write", !.diff = D]
<1>4. D \in SUBSET Loadable
  BY <1>3
<1> HIDE DEF D
<1>5. /\ h \in Task /\ h.pc = "write" /\ h.kind = "save" /\ h.user = task[r].user
      /\ h.seen = task[r].seen /\ h.to = task[r].to /\ h.code = task[r].code
      /\ h.wrote = task[r].wrote /\ h.todo = task[r].todo
  BY <1>1, <1>2, <1>4 DEF Task
<1>6. task' = [task EXCEPT ![r] = h]
  BY DEF SelectForSave, Become, D
<1> HIDE DEF h
<1>7. Becomes(r, h)
  BY <1>1, <1>2, <1>5, <1>6 DEF Becomes
<1> QED
  BY <1>1, <1>2, <1>5, <1>7, QuietStep DEF PcFits, SelectForSave

LEMMA SaveMoves ==
    ASSUME Inv, NEW r \in Requests, UpdateDiff(r)
    PROVE  Inv'
<1> DEFINE t == task[r]
           u == task[r].user
           new == [c \in DOMAIN t.seen |-> IF c \in t.diff THEN t.seen[c] ELSE row[u][c]]
           rest == Tail(t.todo)
           step == IF rest = <<>> THEN "done" ELSE "loaded"
           h == [t EXCEPT !.todo = rest, !.wrote = @ \cup t.diff, !.pc = step]
<1>1. /\ t \in Task /\ t # NotCome /\ TaskFits(r) /\ t.pc = "write"
      /\ task \in [Requests -> {NotCome} \cup Task] /\ row \in [Users -> Row]
  BY DEF Inv, TypeOK, NotCome, UpdateDiff
<1>2. /\ t.todo \in Seq(SUBSET Loadable) /\ t.todo # <<>> /\ t.kind = "save"
      /\ t.seen \in Row /\ u \in Users /\ t.diff \subseteq Loadable /\ t.wrote \subseteq Loadable
      /\ row[u] \in Row
  BY <1>1 DEF Task, TaskFits
<1>3. UNCHANGED <<lapsed, mailed, confirmed, proven>>
  BY DEF UpdateDiff
<1>4. CASE Goto(r, "refused") /\ row' = row
  <2>1. PICK g \in Task : Becomes(r, g) /\ g.pc = "refused" /\ g.kind = t.kind
    BY <1>1, <1>4, GoesOn DEF Pcs
  <2> QED
    BY <1>1, <1>2, <1>3, <1>4, <2>1, QuietStep DEF PcFits
<1>5. CASE row' = [row EXCEPT ![u] = new] /\ task' = [task EXCEPT ![r] = h]
  <2>1. rest \in Seq(SUBSET Loadable) /\ step \in {"done", "loaded"}
        /\ (step = "loaded" => rest # <<>>)
    BY <1>2
  <2> HIDE DEF rest, step
  <2>2. /\ h \in Task /\ h.pc = step /\ h.kind = "save" /\ h.user = u
        /\ h.seen = t.seen /\ h.to = t.to /\ h.code = t.code
        /\ h.wrote = t.wrote \cup t.diff /\ h.todo = rest
    BY <1>1, <1>2, <2>1 DEF Task
  <2> HIDE DEF h
  <2>3. Becomes(r, h)
    BY <1>1, <1>2, <1>5, <2>1, <2>2 DEF Becomes
  <2>4. /\ new.email = IF "email" \in t.diff THEN t.seen.email ELSE row[u].email
        /\ new.pending = IF "pending" \in t.diff THEN t.seen.pending ELSE row[u].pending
        /\ new.token = row[u].token
        /\ new.expires = IF "expires" \in t.diff THEN t.seen.expires ELSE row[u].expires
        /\ new.verified = IF "verified" \in t.diff THEN t.seen.verified ELSE row[u].verified
        /\ new = [email |-> new.email, pending |-> new.pending, token |-> new.token,
                  expires |-> new.expires, verified |-> new.verified]
    BY <1>2 DEF Row, Loadable
  <2>5. new \in Row
    BY <1>2, <2>4 DEF Row
  <2> HIDE DEF new
  <2>6. row' \in [Users -> Row] /\ row'[u] = new /\ \A v \in Users \ {u} : row'[v] = row[v]
    BY <1>1, <1>2, <1>5, <2>5
  <2>7. Token(r, h, row[u], row'[u])
    BY <2>2, <2>4, <2>6 DEF Token
  <2>8. /\ row'[u].email = row[u].email \/ "email" \in h.wrote
        /\ row'[u].verified = row[u].verified \/ "verified" \in h.wrote
    BY <2>2, <2>4, <2>6
  <2>9. Writes(r, h)
    BY <2>2, <2>6, <2>7, <2>8 DEF Writes
  <2>10. Records(r, h)
    BY <1>3, <2>1, <2>2 DEF Records, Inv, TypeOK
  <2>11. TaskFits(r)'
    BY <1>1, <2>1, <2>2, <2>3, <2>10, FitsAsBefore DEF PcFits
  <2> QED
    BY <2>2, <2>3, <2>9, <2>10, <2>11, StepKeepsInv DEF Step
<1> QED
  BY <1>4, <1>5 DEF UpdateDiff, Become

-----------------------------------------------------------------------------
LEMMA InitInv == Init => Inv
<1> SUFFICES ASSUME Init
             PROVE  Inv
  OBVIOUS
<1> USE NoneIsNoAddress
<1>1. /\ row \in [Users -> Row]
      /\ \A u \in Users : row[u].pending = None /\ row[u].token = None
      /\ \A u, v \in Users : u # v => LOWER(row[u].email) # LOWER(row[v].email)
      /\ \A u \in proven : row[u].verified
  BY DEF Init, Row
<1>2. /\ task = [r \in Requests |-> NotCome] /\ mailed = {} /\ confirmed = {}
      /\ lapsed = {} /\ proven \subseteq Users
  BY DEF Init
<1>3. \A r \in Requests : task[r] = NotCome /\ task[r].pc = "idle"
  BY <1>2 DEF NotCome
<1>4. TypeOK
  BY <1>1, <1>2 DEF TypeOK
<1>5. \A r \in Requests : TaskFits(r)
  BY <1>3 DEF TaskFits
<1>6. MailFits /\ ConfirmedFits /\ CodeProvesAddress /\ SpentCodeIsGone
  BY <1>1, <1>2, <1>3 DEF MailFits, ConfirmedFits, CodeProvesAddress, SpentCodeIsGone
<1>7. \A a \in Address : ~Asked(a)
  BY <1>1, <1>3 DEF Asked
<1>8. FreeWhenAsked /\ MailboxSharedByChangesOnly
  BY <1>1, <1>7 DEF FreeWhenAsked, MailboxSharedByChangesOnly
<1>9. (\A u \in Users : TokenFits(u)) /\ PendingHasCode /\ VerifiedIsKept
  BY <1>1, <1>2 DEF TokenFits, PendingHasCode, VerifiedIsKept
<1> QED
  BY <1>4, <1>5, <1>6, <1>8, <1>9 DEF Inv

(* The invariant does not depend on what has lapsed.                       *)
LEMMA OnlyLapses ==
    ASSUME Inv, lapsed' \subseteq Requests, UNCHANGED <<row, mailed, task, confirmed, proven>>
    PROVE  Inv'
<1>1. \A u, c : WroteBack(u, c)' <=> WroteBack(u, c)
  BY DEF WroteBack
<1>2. \A c : Received(c)' <=> Received(c)
  BY DEF Received
<1>3. TypeOK' /\ MailFits' /\ ConfirmedFits' /\ SpentCodeIsGone'
  BY <1>2 DEF Inv, TypeOK, MailFits, ConfirmedFits, SpentCodeIsGone
<1>4. \A r \in Requests : TaskFits(r)'
  BY <1>1, <1>2 DEF Inv, TaskFits
<1>5. \A u \in Users : TokenFits(u)'
  BY <1>1 DEF Inv, TokenFits
<1>6. FreeWhenAsked' /\ MailboxSharedByChangesOnly'
  BY <1>1 DEF Inv, FreeWhenAsked, Asked, Moved, MailboxSharedByChangesOnly
<1>7. CodeProvesAddress' /\ PendingHasCode' /\ VerifiedIsKept'
  BY <1>1 DEF Inv, CodeProvesAddress, PendingHasCode, VerifiedIsKept
<1> QED
  BY <1>3, <1>4, <1>5, <1>6, <1>7 DEF Inv

LEMMA NextInv == Inv /\ [Next]_vars => Inv'
<1> SUFFICES ASSUME Inv, [Next]_vars
             PROVE  Inv'
  OBVIOUS
<1>1. CASE UNCHANGED vars
  BY <1>1, OnlyLapses DEF vars, Inv, TypeOK
<1>2. ASSUME NEW r \in Requests, Lapse(r)
      PROVE  Inv'
  BY <1>2, OnlyLapses DEF Lapse, Inv, TypeOK
<1>3. CASE Next
  BY <1>2, <1>3, ArriveMoves, VerifyMoves, QuietMoves, MailMoves, UpdateMoves, ConfirmMoves,
     SelectMoves, SaveMoves DEF Next
<1> QED
  BY <1>1, <1>3

-----------------------------------------------------------------------------
(* Columns, mail, handlers and history agree in every state.               *)
THEOREM Invariance == Spec => []Inv
BY InitInv, NextInv, PTL DEF Spec

(* Two accounts share a mailbox only if both have changed to it, or a      *)
(* save() has brought an address back.                                     *)
THEOREM MailboxesAreOwn == Spec => []MailboxSharedByChangesOnly
BY Invariance, PTL DEF Inv

(* A confirmed address is the one its code was mailed to, but for codes of *)
(* resendVerification and pending addresses that a save() has written.     *)
THEOREM AddressesAreProven == Spec => []CodeProvesAddress
BY Invariance, PTL DEF Inv

(* No code of a change verifies the present address, unless a save() has   *)
(* wiped out the pending one.                                              *)
THEOREM CodesServeTheirPurpose == Spec => []CodeServesItsPurpose
<1>1. Inv => CodeServesItsPurpose
  BY DEF Inv, TaskFits, CodeServesItsPurpose
<1> QED
  BY <1>1, Invariance, PTL

(* A code that has been used up is in no account's column.                 *)
THEOREM CodesAreSpentOnce == Spec => []SpentCodeIsGone
BY Invariance, PTL DEF Inv

(* A pending address has a code, unless a verification has cleared it or a *)
(* save() has brought the address back.                                    *)
THEOREM PendingIsConfirmable == Spec => []PendingHasCode
BY Invariance, PTL DEF Inv

(* Only the save() of settings loaded before takes a verification back.    *)
THEOREM VerificationStays == Spec => []VerifiedIsKept
BY Invariance, PTL DEF Inv

(* Every state is well typed.                                              *)
THEOREM TypeCorrect == Spec => []TypeOK
BY Invariance, PTL DEF Inv
=============================================================================
