--------------------------- MODULE TwoFactorProofs ---------------------------
(***************************************************************************)
(* Proofs about TwoFactor for every number of requests and every size of   *)
(* the batches of recovery codes.                                          *)
(***************************************************************************)
EXTENDS TwoFactor, TLAPS

(* A record of Task has all six fields, NotCome has one step of its own.   *)
LEMMA TaskIsNotNotCome == \A t \in Task : t # NotCome /\ t.pc # "idle"
BY DEF Task, NotCome, Waiting, Ended

(* What a step that gives request r the local state t does not disturb:    *)
(* the requests that have ended, and so the writes they account for.       *)
LEMMA StepKeeps ==
  ASSUME Inv, NEW r \in Requests, task[r].pc \notin Ended,
         NEW t \in Task, task' = [task EXCEPT ![r] = t]
  PROVE  /\ task' \in [Requests -> {NotCome} \cup Task]
         /\ task'[r] = t
         /\ t # NotCome
         /\ \A q \in Requests \ {r} : task'[q] = task[q]
         /\ \A q \in Requests : Saved(q) => q # r
         /\ Split => Split'
         /\ GeneratedCodes \cup Batch(r) \subseteq GeneratedCodes'
<1>1. task \in [Requests -> {NotCome} \cup Task]
  BY DEF Inv, TypeOK
<1>2. /\ task' \in [Requests -> {NotCome} \cup Task]
      /\ task'[r] = t
      /\ \A q \in Requests \ {r} : task'[q] = task[q]
  BY <1>1
<1>3. t # NotCome
  BY TaskIsNotNotCome
<1>4. \A q \in Requests : Saved(q) => q # r
  BY DEF Saved, Ended
<1>5. Split => Split'
  BY <1>2, <1>4 DEF Split, Saved
<1>6. GeneratedCodes \cup Batch(r) \subseteq GeneratedCodes'
  BY <1>2, <1>3 DEF GeneratedCodes, Batch, Codes
<1> QED
  BY <1>2, <1>3, <1>4, <1>5, <1>6

(* A step keeps the invariant when its new local state and its new row     *)
(* satisfy what the invariant asks of one request and of the row.          *)
LEMMA StepSuffices ==
  ASSUME Inv, NEW r \in Requests, task[r].pc \notin Ended,
         NEW t \in Task, task' = [task EXCEPT ![r] = t],
         row' \in Row, switched' \in Row, overwrote' \in BOOLEAN,
         OneBatch(row'.codes), OneBatch(t.seen.codes),
         row'.codes \subseteq GeneratedCodes \cup Batch(r),
         dead' \subseteq GeneratedCodes \cup Batch(r),
         t.seen.codes \subseteq GeneratedCodes \cup Batch(r),
         t.pc = "spend" => t.code \in t.seen.codes,
         StepFitsKind(t),
         t.diff \subseteq LoadedColumns(t.kind),
         ~Split' => Agree(t.seen),
         SwitchMatchesSecret', SwitchAsLastSet', DeadCodeReturnsByWriteBack'
  PROVE  Inv'
<1>1. /\ task' \in [Requests -> {NotCome} \cup Task]
      /\ task'[r] = t
      /\ \A q \in Requests \ {r} : task'[q] = task[q]
      /\ Split => Split'
      /\ GeneratedCodes \cup Batch(r) \subseteq GeneratedCodes'
  BY StepKeeps
<1>2. GeneratedCodes \subseteq Codes /\ Batch(r) \subseteq Codes
  BY DEF GeneratedCodes, Batch, Codes
<1>3. TypeOK'
  <2>1. dead' \subseteq Codes
    BY <1>2
  <2> QED
    BY <1>1, <2>1 DEF TypeOK
<1>4. row'.codes \subseteq GeneratedCodes' /\ dead' \subseteq GeneratedCodes'
  BY <1>1
<1>5. ASSUME NEW p \in Requests, task'[p] # NotCome
      PROVE  /\ OneBatch(task'[p].seen.codes)
             /\ task'[p].seen.codes \subseteq GeneratedCodes'
             /\ task'[p].pc = "spend" => task'[p].code \in task'[p].seen.codes
             /\ StepFitsKind(task'[p])
             /\ task'[p].diff \subseteq LoadedColumns(task'[p].kind)
             /\ ~Split' => Agree(task'[p].seen)
  <2>1. CASE p = r
    BY <1>1, <2>1
  <2>2. CASE p # r
    BY <1>1, <1>5, <2>2 DEF Inv
  <2> QED
    BY <2>1, <2>2
<1> QED
  BY <1>3, <1>4, <1>5 DEF Inv

LEMMA InitInv == Init => Inv
<1> SUFFICES ASSUME Init PROVE Inv
  OBVIOUS
<1>1. /\ row = Off /\ switched = Off /\ dead = {} /\ overwrote \in BOOLEAN
      /\ Off.codes = {} /\ Off.enabled = FALSE /\ Off.secret = None
  BY DEF Init, Off
<1>2. Off \in Row
  BY DEF Off, Row
<1>3. task \in [Requests -> {NotCome} \cup Task] /\ \A r \in Requests : task[r] = NotCome
  BY DEF Init
<1>4. TypeOK
  BY <1>1, <1>2, <1>3 DEF TypeOK, OneBatch
<1>5. SwitchMatchesSecret /\ SwitchAsLastSet /\ DeadCodeReturnsByWriteBack
  BY <1>1 DEF SwitchMatchesSecret, SwitchAsLastSet, DeadCodeReturnsByWriteBack, Agree
<1> QED
  BY <1>1, <1>3, <1>4, <1>5 DEF Inv

(* If no dead code enters the row, the write-backs that account for those  *)
(* already there still do.                                                 *)
LEMMA NoNewDeadCode ==
  ASSUME Inv, NEW r \in Requests, task[r].pc \notin Ended,
         NEW t \in Task, task' = [task EXCEPT ![r] = t],
         row'.codes \cap dead' \subseteq row.codes \cap dead
  PROVE  DeadCodeReturnsByWriteBack'
<1> SUFFICES ASSUME NEW c \in row'.codes \cap dead'
             PROVE  \E q \in Requests :
                      /\ task'[q] # NotCome /\ c \in task'[q].seen.codes
                      /\ \/ task'[q].pc = "accepted" /\ task'[q].code \in Codes \ {c}
                         \/ Saved(q)' /\ task'[q].kind = "changePassword"
                                      /\ "codes" \in task'[q].diff
  BY DEF DeadCodeReturnsByWriteBack
<1>1. PICK q \in Requests :
        /\ task[q] # NotCome /\ c \in task[q].seen.codes
        /\ \/ task[q].pc = "accepted" /\ task[q].code \in Codes \ {c}
           \/ Saved(q) /\ task[q].kind = "changePassword" /\ "codes" \in task[q].diff
  BY DEF Inv, DeadCodeReturnsByWriteBack
<1>2. q # r
  BY <1>1 DEF Saved, Ended
<1>3. task'[q] = task[q]
  BY <1>2, StepKeeps
<1> QED
  BY <1>1, <1>3 DEF Saved

(* The two properties of the switch survive when a step leaves it alone.   *)
LEMMA SwitchUntouched ==
  ASSUME Inv, NEW r \in Requests, task[r].pc \notin Ended,
         NEW t \in Task, task' = [task EXCEPT ![r] = t],
         row'.enabled = row.enabled, row'.secret = row.secret, switched' = switched
  PROVE  SwitchMatchesSecret' /\ SwitchAsLastSet'
<1>1. /\ \A q \in Requests \ {r} : task'[q] = task[q]
      /\ \A q \in Requests : Saved(q) => q # r
      /\ Split => Split'
  BY StepKeeps
<1>2. SwitchMatchesSecret'
  BY <1>1 DEF Inv, SwitchMatchesSecret, Agree
<1>3. SwitchAsLastSet'
  BY <1>1 DEF Inv, SwitchAsLastSet, Saved
<1> QED
  BY <1>2, <1>3

(* What a request that comes has in its local state.                       *)
LEMMA ComeEffect ==
  ASSUME Inv, NEW r \in Requests, task[r] = NotCome,
         NEW step \in Waiting \cup Ended,
         NEW k \in {"blind", "verify", "changePassword", "profile"}, Come(r, step, k)
  PROVE  \E t \in Task :
           /\ task' = [task EXCEPT ![r] = t]
           /\ t.pc = step /\ t.kind = k /\ t.seen = row /\ t.code = None /\ t.diff = {}
<1> DEFINE t == [pc |-> step, kind |-> k, seen |-> row, code |-> None, diff |-> {}]
<1>1. t \in Task
  BY DEF Task, Inv, TypeOK
<1> QED
  BY <1>1 DEF Come

LEMMA NotComeIsWaiting == NotCome.pc \notin Ended
BY DEF NotCome, Ended

(* The three blind UPDATEs: the row that they write is their own.          *)
LEMMA BlindWrite ==
  ASSUME Inv, NEW r \in Requests, task[r] = NotCome, Come(r, "done", "blind"),
         UNCHANGED overwrote, row' \in Row, switched' \in Row, OneBatch(row'.codes),
         row'.codes \subseteq Batch(r),
         dead' = dead \cup (row.codes \ row'.codes),
         \/ Agree(row') /\ switched' = row'
         \/ row'.enabled = row.enabled /\ row'.secret = row.secret /\ switched' = switched
  PROVE  Inv'
<1>1. PICK t \in Task :
        /\ task' = [task EXCEPT ![r] = t]
        /\ t.pc = "done" /\ t.kind = "blind" /\ t.seen = row /\ t.code = None /\ t.diff = {}
  BY ComeEffect DEF Ended
<1>2. task[r].pc \notin Ended
  BY NotComeIsWaiting
<1>3. /\ Split => Split'
      /\ \A q \in Requests \ {r} : task'[q] = task[q]
  BY <1>1, <1>2, StepKeeps
<1>4. SwitchMatchesSecret' /\ SwitchAsLastSet'
  <2>1. CASE Agree(row') /\ switched' = row'
    BY <2>1 DEF SwitchMatchesSecret, SwitchAsLastSet, Agree
  <2>2. CASE row'.enabled = row.enabled /\ row'.secret = row.secret /\ switched' = switched
    BY <1>1, <1>2, <2>2, SwitchUntouched
  <2> QED
    BY <2>1, <2>2
<1>5. DeadCodeReturnsByWriteBack'
  <2>1. \A c \in GeneratedCodes : c \notin Batch(r)
    BY DEF GeneratedCodes, Batch
  <2>2. row'.codes \cap dead' = {}
    BY <2>1 DEF Inv
  <2> QED
    BY <1>1, <1>2, <2>2, NoNewDeadCode
<1>6. /\ dead' \subseteq GeneratedCodes \cup Batch(r)
      /\ t.seen.codes \subseteq GeneratedCodes \cup Batch(r)
      /\ OneBatch(t.seen.codes) /\ StepFitsKind(t)
      /\ ~Split' => Agree(t.seen)
      /\ overwrote' \in BOOLEAN
  BY <1>1, <1>3 DEF Inv, TypeOK, SwitchMatchesSecret, StepFitsKind
<1>7. row'.codes \subseteq GeneratedCodes \cup Batch(r) /\ t.diff \subseteq LoadedColumns(t.kind)
      /\ t.pc # "spend"
  BY <1>1
<1> QED
  BY <1>1, <1>2, <1>4, <1>5, <1>6, <1>7, StepSuffices

(* A step that only moves a request on: the row stays, and what the        *)
(* request has read is what it had read before or the row.                 *)
LEMMA QuietStep ==
  ASSUME Inv, NEW r \in Requests, task[r].pc \notin Ended,
         NEW t \in Task, task' = [task EXCEPT ![r] = t],
         UNCHANGED <<row, switched, dead, overwrote>>,
         t.seen = row \/ (task[r] # NotCome /\ t.seen = task[r].seen),
         t.pc = "spend" => t.code \in t.seen.codes,
         StepFitsKind(t),
         t.diff \subseteq LoadedColumns(t.kind)
  PROVE  Inv'
<1>1. Split => Split'
  BY StepKeeps
<1>2. SwitchMatchesSecret' /\ SwitchAsLastSet'
  BY SwitchUntouched
<1>3. DeadCodeReturnsByWriteBack'
  BY NoNewDeadCode
<1>4. /\ OneBatch(t.seen.codes)
      /\ t.seen.codes \subseteq GeneratedCodes
      /\ ~Split' => Agree(t.seen)
  <2>1. CASE t.seen = row
    BY <1>1, <2>1 DEF Inv, TypeOK, SwitchMatchesSecret
  <2>2. CASE task[r] # NotCome /\ t.seen = task[r].seen
    BY <1>1, <2>2 DEF Inv
  <2> QED
    BY <2>1, <2>2
<1>5. row \in Row /\ switched \in Row /\ OneBatch(row.codes) /\ overwrote \in BOOLEAN
  BY DEF Inv, TypeOK
<1>6. row.codes \subseteq GeneratedCodes /\ dead \subseteq GeneratedCodes
  BY DEF Inv
<1> QED
  BY <1>2, <1>3, <1>4, <1>5, <1>6, StepSuffices

(* The second half of save(): only columns that were loaded are written,   *)
(* and when switch and secret go together, they agree as they did.         *)
LEMMA SaveKeepsInv ==
  ASSUME Inv, NEW r \in Requests, UpdateDiff(r)
  PROVE  Inv'
<1> DEFINE t == [task[r] EXCEPT !.pc = "done"]
           new == Merged(r)
           d == task[r].diff
<1>1. row \in Row /\ switched \in Row /\ task \in [Requests -> {NotCome} \cup Task]
  BY DEF Inv, TypeOK
<1>2. task[r] \in Task /\ task[r].pc = "write" /\ task[r] # NotCome
  BY <1>1 DEF UpdateDiff, NotCome
<1>3. task[r].pc \notin Ended
  BY <1>2 DEF Ended
<1>4. /\ task[r].kind \in {"changePassword", "profile"}
      /\ d \subseteq LoadedColumns(task[r].kind)
      /\ OneBatch(task[r].seen.codes) /\ task[r].seen.codes \subseteq GeneratedCodes
      /\ ~Split => Agree(task[r].seen)
      /\ task[r].seen \in Row
  BY <1>2 DEF Inv, StepFitsKind, Task
<1>5. /\ new.enabled = IF "enabled" \in d THEN task[r].seen.enabled ELSE row.enabled
      /\ new.secret = IF "secret" \in d THEN task[r].seen.secret ELSE row.secret
      /\ new.codes = IF "codes" \in d THEN task[r].seen.codes ELSE row.codes
      /\ new = [enabled |-> new.enabled, secret |-> new.secret, codes |-> new.codes]
  BY DEF Merged, Columns
<1>6. new \in Row
  BY <1>1, <1>4, <1>5 DEF Row
<1>7. t \in Task /\ t.pc = "done" /\ t.seen = task[r].seen /\ t.code = task[r].code
      /\ t.kind = task[r].kind /\ t.diff = d
  BY <1>2 DEF Task, Ended
<1>8. task' = [task EXCEPT ![r] = t] /\ row' = new /\ switched' = switched
      /\ dead' = dead \cup (row.codes \ new.codes)
  BY <1>1, <1>2 DEF UpdateDiff, Goto, SetRow
<1> HIDE DEF t, new, d
<1>9. /\ task'[r] = t /\ t # NotCome /\ (Split => Split')
      /\ \A q \in Requests \ {r} : task'[q] = task[q]
      /\ \A q \in Requests : Saved(q) => q # r
  BY <1>3, <1>7, <1>8, StepKeeps
<1>10. Saved(r)'
  BY <1>4, <1>7, <1>9 DEF Saved
<1>11. SwitchMatchesSecret'
  <2>1. CASE ~("enabled" \in d <=> "secret" \in d)
    BY <1>7, <1>9, <1>10, <2>1 DEF SwitchMatchesSecret, Split
  <2>2. CASE "enabled" \in d <=> "secret" \in d
    <3>1. ~Split => Agree(new)
      BY <1>4, <1>5, <2>2 DEF Inv, SwitchMatchesSecret, Agree
    <3> QED
      BY <1>8, <1>9, <3>1 DEF SwitchMatchesSecret
  <2> QED
    BY <2>1, <2>2
<1>12. SwitchAsLastSet'
  <2>1. CASE d \cap {"enabled", "secret"} # {}
    BY <1>7, <1>9, <1>10, <2>1 DEF SwitchAsLastSet
  <2>2. CASE d \cap {"enabled", "secret"} = {}
    <3>1. new.enabled = row.enabled /\ new.secret = row.secret
      BY <1>5, <2>2
    <3> QED
      BY <1>3, <1>7, <1>8, <3>1, SwitchUntouched
  <2> QED
    BY <2>1, <2>2
<1>13. DeadCodeReturnsByWriteBack'
  <2>1. CASE "codes" \in d
    <3>1. t.kind = "changePassword"
      BY <1>4, <1>7, <2>1 DEF LoadedColumns
    <3> QED
      BY <1>5, <1>7, <1>8, <1>9, <1>10, <2>1, <3>1 DEF DeadCodeReturnsByWriteBack
  <2>2. CASE "codes" \notin d
    <3>1. row'.codes \cap dead' \subseteq row.codes \cap dead
      BY <1>5, <1>8, <2>2
    <3> QED
      BY <1>3, <1>7, <1>8, <3>1, NoNewDeadCode
  <2> QED
    BY <2>1, <2>2
<1>14. /\ OneBatch(row'.codes) /\ OneBatch(t.seen.codes)
       /\ row'.codes \subseteq GeneratedCodes /\ dead' \subseteq GeneratedCodes
       /\ t.seen.codes \subseteq GeneratedCodes
       /\ StepFitsKind(t)
       /\ t.diff \subseteq LoadedColumns(t.kind)
       /\ ~Split' => Agree(t.seen)
  BY <1>4, <1>5, <1>7, <1>8, <1>9 DEF Inv, TypeOK, StepFitsKind
<1>15. overwrote' \in BOOLEAN
  BY DEF UpdateDiff, Overwrites
<1> QED
  BY <1>1, <1>3, <1>6, <1>7, <1>8, <1>11, <1>12, <1>13, <1>14, <1>15,
     StepSuffices

LEMMA NextInv == Inv /\ [Next]_vars => Inv'
<1> SUFFICES ASSUME Inv, [Next]_vars PROVE Inv'
  OBVIOUS
<1> USE NotComeIsWaiting
<1>0. row \in Row /\ task \in [Requests -> {NotCome} \cup Task]
  BY DEF Inv, TypeOK
<1>1. CASE UNCHANGED vars
  BY <1>1 DEF vars, Inv, TypeOK, GeneratedCodes, Split, Saved, Agree, SwitchAsLastSet,
              SwitchMatchesSecret, DeadCodeReturnsByWriteBack
<1>2. ASSUME NEW r \in Requests, EnableTwoFactor(r)
      PROVE  Inv'
  <2> DEFINE new == [enabled |-> TRUE, secret |-> r, codes |-> Batch(r)]
  <2>1. new \in Row /\ OneBatch(new.codes) /\ Agree(new)
    BY NoneIsNoName DEF Row, Batch, Codes, OneBatch, Agree
  <2>2. task[r] = NotCome /\ Come(r, "done", "blind") /\ row' = new /\ switched' = row'
        /\ UNCHANGED overwrote
        /\ dead' = dead \cup (row.codes \ row'.codes)
    BY <1>2 DEF EnableTwoFactor, SetRow
  <2>3. row'.codes \subseteq Batch(r)
    BY <2>2
  <2> HIDE DEF new
  <2> QED
    BY <2>1, <2>2, <2>3, BlindWrite
<1>3. ASSUME NEW r \in Requests, DisableTwoFactor(r)
      PROVE  Inv'
  <2>1. Off \in Row /\ OneBatch(Off.codes) /\ Agree(Off) /\ Off.codes = {}
    BY DEF Row, Off, OneBatch, Agree
  <2>2. task[r] = NotCome /\ Come(r, "done", "blind") /\ row' = Off /\ switched' = row'
        /\ UNCHANGED overwrote
        /\ dead' = dead \cup (row.codes \ row'.codes)
    BY <1>3 DEF DisableTwoFactor, SetRow
  <2> QED
    BY <2>1, <2>2, BlindWrite
<1>4. ASSUME NEW r \in Requests, RegenerateRecoveryCodes(r)
      PROVE  Inv'
  <2> DEFINE new == [row EXCEPT !.codes = Batch(r)]
  <2>1. new \in Row /\ OneBatch(new.codes) /\ new.codes \subseteq Batch(r)
        /\ new.enabled = row.enabled /\ new.secret = row.secret
    BY <1>0 DEF Row, Batch, Codes, OneBatch
  <2>2. task[r] = NotCome /\ Come(r, "done", "blind") /\ row' = new /\ switched' = switched
        /\ UNCHANGED overwrote
        /\ dead' = dead \cup (row.codes \ row'.codes)
    BY <1>4 DEF RegenerateRecoveryCodes, SetRow
  <2>3. switched' \in Row
    BY <2>2 DEF Inv, TypeOK
  <2> HIDE DEF new
  <2> QED
    BY <2>1, <2>2, <2>3, BlindWrite
<1>5. ASSUME NEW r \in Requests, Challenge(r)
      PROVE  Inv'
  <2>1. PICK t \in Task : task' = [task EXCEPT ![r] = t] /\ t.pc = "challenged"
                          /\ t.kind = "verify" /\ t.seen = row /\ t.diff = {}
    BY <1>5, ComeEffect DEF Challenge, Waiting
  <2>2. StepFitsKind(t)
    BY <2>1 DEF StepFitsKind
  <2> QED
    BY <1>5, <2>1, <2>2, QuietStep DEF Challenge
<1>6. ASSUME NEW r \in Requests, NEW c \in Known \cup UNION {Batch(q) : q \in Known},
             VerifyTwoFactor(r, c)
      PROVE  Inv'
  <2> DEFINE step == IF ~row.enabled \/ row.secret = None THEN "notEnabled"
                     ELSE IF c = row.secret THEN "accepted" ELSE "recover"
             t == [task[r] EXCEPT !.code = c, !.seen = row, !.pc = step]
  <2>1. c \in Codes \cup Requests
    BY DEF Known, Batch, Codes
  <2>2. task[r] \in Task /\ task[r].pc \notin Ended /\ task[r] # NotCome
    BY <1>0, <1>6 DEF VerifyTwoFactor, NotCome, Ended
  <2>3. t \in Task /\ t.seen = row /\ t.diff = task[r].diff /\ t.kind = task[r].kind
        /\ t.pc \in {"notEnabled", "accepted", "recover"}
    BY <1>0, <2>1, <2>2 DEF Task, Waiting, Ended
  <2>4. task' = [task EXCEPT ![r] = t]
    BY <1>0, <1>6, <2>2 DEF VerifyTwoFactor
  <2>5. task[r].kind = "verify" /\ task[r].diff \subseteq LoadedColumns(task[r].kind)
    BY <1>6, <2>2 DEF VerifyTwoFactor, Inv, StepFitsKind
  <2> HIDE DEF t, step
  <2>6. StepFitsKind(t)
    BY <2>3, <2>5 DEF StepFitsKind
  <2> QED
    BY <1>6, <2>2, <2>3, <2>4, <2>5, <2>6, QuietStep DEF VerifyTwoFactor
<1>7. ASSUME NEW r \in Requests, FindRecoveryCodes(r)
      PROVE  Inv'
  <2> DEFINE step == IF task[r].code \in row.codes THEN "spend" ELSE "refused"
             t == [task[r] EXCEPT !.seen = row, !.pc = step]
  <2>1. task[r] \in Task /\ task[r].pc \notin Ended /\ task[r] # NotCome
    BY <1>0, <1>7 DEF FindRecoveryCodes, NotCome, Ended
  <2>2. t \in Task /\ t.seen = row /\ t.diff = task[r].diff /\ t.kind = task[r].kind
        /\ t.pc \in {"spend", "refused"} /\ (t.pc = "spend" => t.code \in row.codes)
    BY <1>0, <2>1 DEF Task, Waiting, Ended
  <2>3. task' = [task EXCEPT ![r] = t]
    BY <1>0, <1>7, <2>1 DEF FindRecoveryCodes
  <2>4. task[r].kind = "verify" /\ task[r].diff \subseteq LoadedColumns(task[r].kind)
    BY <1>7, <2>1 DEF FindRecoveryCodes, Inv, StepFitsKind
  <2> HIDE DEF t, step
  <2>5. StepFitsKind(t)
    BY <2>2, <2>4 DEF StepFitsKind
  <2> QED
    BY <1>7, <2>1, <2>2, <2>3, <2>4, <2>5, QuietStep DEF FindRecoveryCodes
<1>8. ASSUME NEW r \in Requests, UpdateRecoveryCodes(r)
      PROVE  Inv'
  <2> DEFINE old == task[r].seen.codes
             new == [row EXCEPT !.codes = old \ {task[r].code}]
             t == [task[r] EXCEPT !.pc = "accepted"]
  <2>1. task[r] \in Task /\ task[r].pc \notin Ended /\ task[r] # NotCome
    BY <1>0, <1>8 DEF UpdateRecoveryCodes, NotCome, Ended
  <2>2. /\ old \in SUBSET Codes /\ OneBatch(old) /\ old \subseteq GeneratedCodes
        /\ task[r].code \in old
        /\ task[r].kind = "verify" /\ task[r].diff \subseteq LoadedColumns(task[r].kind)
        /\ ~Split => Agree(task[r].seen)
    BY <1>8, <2>1 DEF UpdateRecoveryCodes, Inv, StepFitsKind, Task, Row
  <2>3. new \in Row /\ new.codes = old \ {task[r].code}
        /\ new.enabled = row.enabled /\ new.secret = row.secret
    BY <1>0, <2>2 DEF Row
  <2>4. t \in Task /\ t.pc = "accepted" /\ t.seen = task[r].seen /\ t.code = task[r].code
        /\ t.kind = task[r].kind /\ t.diff = task[r].diff
    BY <2>1 DEF Task, Ended
  <2>5. task' = [task EXCEPT ![r] = t] /\ row' = new /\ switched' = switched
        /\ dead' = dead \cup (row.codes \ new.codes) \cup {task[r].code}
    BY <1>0, <1>8, <2>1 DEF UpdateRecoveryCodes, Goto
  <2> HIDE DEF new, t
  <2>6. /\ task'[r] = t /\ t # NotCome
        /\ Split => Split'
    BY <2>1, <2>4, <2>5, StepKeeps
  <2>7. SwitchMatchesSecret' /\ SwitchAsLastSet'
    BY <2>1, <2>3, <2>4, <2>5, SwitchUntouched
  <2>8. DeadCodeReturnsByWriteBack'
    <3>1. \A c \in row'.codes : c \in t.seen.codes /\ t.code \in Codes \ {c}
      BY <2>2, <2>3, <2>4, <2>5
    <3> QED
      BY <2>4, <2>6, <3>1 DEF DeadCodeReturnsByWriteBack
  <2>9. /\ OneBatch(row'.codes) /\ OneBatch(t.seen.codes)
        /\ row'.codes \subseteq GeneratedCodes
        /\ dead' \subseteq GeneratedCodes
        /\ switched' \in Row /\ row' \in Row
        /\ StepFitsKind(t)
        /\ ~Split' => Agree(t.seen)
    BY <2>2, <2>3, <2>4, <2>5, <2>6 DEF OneBatch, Inv, TypeOK, StepFitsKind
  <2>10. overwrote' \in BOOLEAN
    BY <1>8 DEF UpdateRecoveryCodes, Overwrites
  <2> QED
    BY <2>1, <2>2, <2>4, <2>5, <2>7, <2>8, <2>9, <2>10, StepSuffices
<1>9. ASSUME NEW r \in Requests, NEW k \in {"changePassword", "profile"}, LoadUser(r, k)
      PROVE  Inv'
  <2>1. PICK t \in Task : task' = [task EXCEPT ![r] = t] /\ t.pc = "loaded" /\ t.kind = k
                          /\ t.seen = row /\ t.diff = {}
    BY <1>9, ComeEffect DEF LoadUser, Waiting
  <2>2. StepFitsKind(t)
    BY <2>1 DEF StepFitsKind
  <2> QED
    BY <1>9, <2>1, <2>2, QuietStep DEF LoadUser
<1>10. ASSUME NEW r \in Requests, SelectForSave(r)
       PROVE  Inv'
  <2> DEFINE d == {c \in LoadedColumns(task[r].kind) : task[r].seen[c] # row[c]}
             t == [task[r] EXCEPT !.pc = "write", !.diff = d]
  <2>1. task[r] \in Task /\ task[r].pc \notin Ended /\ task[r] # NotCome
    BY <1>0, <1>10 DEF SelectForSave, NotCome, Ended
  <2>2. t \in Task /\ t.seen = task[r].seen /\ t.diff = d /\ t.kind = task[r].kind
        /\ t.pc = "write"
    BY <2>1 DEF Task, Waiting, LoadedColumns, Columns
  <2>3. task' = [task EXCEPT ![r] = t]
    BY <1>0, <1>10, <2>1 DEF SelectForSave
  <2>4. StepFitsKind(t) /\ t.diff \subseteq LoadedColumns(t.kind)
    BY <1>10, <2>1, <2>2 DEF SelectForSave, Inv, StepFitsKind
  <2> HIDE DEF t, d
  <2> QED
    BY <1>10, <2>1, <2>2, <2>3, <2>4, QuietStep DEF SelectForSave
<1>11. ASSUME NEW r \in Requests, Abort(r)
       PROVE  Inv'
  <2> DEFINE t == [task[r] EXCEPT !.pc = "refused"]
  <2>1. task[r] \in Task /\ task[r].pc \notin Ended /\ task[r] # NotCome
    BY <1>0, <1>11 DEF Abort, NotCome, Ended, Waiting
  <2>2. t \in Task /\ t.seen = task[r].seen /\ t.diff = task[r].diff /\ t.kind = task[r].kind
        /\ t.pc = "refused"
    BY <2>1 DEF Task, Ended
  <2>3. task' = [task EXCEPT ![r] = t]
    BY <1>0, <1>11, <2>1 DEF Abort, Goto
  <2>4. StepFitsKind(t) /\ t.diff \subseteq LoadedColumns(t.kind)
    BY <2>1, <2>2 DEF Inv, StepFitsKind
  <2> HIDE DEF t
  <2> QED
    BY <1>11, <2>1, <2>2, <2>3, <2>4, QuietStep DEF Abort
<1>12. ASSUME NEW r \in Requests, UpdateDiff(r)
       PROVE  Inv'
  BY <1>12, SaveKeepsInv
<1> QED
  BY <1>1, <1>2, <1>3, <1>4, <1>5, <1>6, <1>7, <1>8, <1>9, <1>10, <1>11, <1>12 DEF Next

-----------------------------------------------------------------------------
(* The invariant holds of every behaviour.                                 *)
THEOREM Invariance == Spec => []Inv
BY InitInv, NextInv, PTL DEF Spec

(* The row is well-formed and its recovery codes are of a single batch.    *)
THEOREM TypeCorrect == Spec => []TypeOK
BY Invariance, PTL DEF Inv

(* Verifying and regenerating never touch the switch, and only a save() of *)
(* a stale entity can change it behind enable and disable.                 *)
THEOREM SwitchIsKept == Spec => []SwitchAsLastSet
BY Invariance, PTL DEF Inv

(* As long as no save() splits them, switch and secret agree, so that no   *)
(* user is asked for a second factor that cannot be given.                 *)
THEOREM SwitchHasSecret == Spec => []SwitchMatchesSecret
BY Invariance, PTL DEF Inv

(* A spent or replaced recovery code comes back only with a list that was  *)
(* read before, by a concurrent verification or changePassword.            *)
THEOREM CodesDieOnce == Spec => []DeadCodeReturnsByWriteBack
BY Invariance, PTL DEF Inv

-----------------------------------------------------------------------------
(* The promise of SecondFactor.                                            *)

(* The codes of a request that comes have never been any.                  *)
LEMMA BatchIsNew ==
  ASSUME Inv, NEW r \in Requests, task[r] = NotCome
  PROVE  Batch(r) \subseteq Codes /\ Batch(r) \cap (row.codes \cup dead) = {}
<1>1. \A c \in GeneratedCodes : c \notin Batch(r)
  BY DEF GeneratedCodes, Batch
<1> QED
  BY <1>1 DEF Inv, Batch, Codes

(* So setting them is a replacement as SecondFactor has it.                *)
LEMMA SetRowReplaces ==
  ASSUME Inv, NEW new \in Row, SetRow(new), new.codes \cap (row.codes \cup dead) = {}
  PROVE  Promise!ReplaceCodes
<1>1. /\ row' = new /\ dead' = dead \cup (row.codes \ new.codes)
      /\ new.codes \subseteq Codes
  BY DEF SetRow, Row
<1>2. row.codes \ new.codes = row.codes
  OBVIOUS
<1> QED
  BY <1>1, <1>2 DEF Promise!ReplaceCodes

(* The switch is only set by who asks for it.                              *)
LEMMA SwitchRefines ==
  ASSUME Inv, NEW r \in Requests,
         EnableTwoFactor(r) \/ DisableTwoFactor(r) \/ RegenerateRecoveryCodes(r)
  PROVE  UNCHANGED overwrote /\ (Promise!TurnOn \/ Promise!TurnOff \/ Promise!Renew)
<1>1. /\ UNCHANGED overwrote /\ row \in Row
      /\ task[r] = NotCome
  BY DEF EnableTwoFactor, DisableTwoFactor, RegenerateRecoveryCodes, Inv, TypeOK
<1>2. CASE EnableTwoFactor(r)
  <2> DEFINE new == [enabled |-> TRUE, secret |-> r, codes |-> Batch(r)]
  <2>1. new \in Row /\ SetRow(new)
    BY <1>1, <1>2, BatchIsNew DEF EnableTwoFactor, Row
  <2>2. Promise!ReplaceCodes
    BY <1>1, <2>1, BatchIsNew, SetRowReplaces
  <2> QED
    BY <1>1, <2>1, <2>2 DEF SetRow, Promise!TurnOn
<1>3. CASE DisableTwoFactor(r)
  <2>1. Off \in Row /\ SetRow(Off) /\ Off.codes = {}
    BY <1>3 DEF DisableTwoFactor, Row, Off
  <2>2. Promise!ReplaceCodes
    BY <2>1, SetRowReplaces
  <2> QED
    BY <1>1, <2>1, <2>2 DEF SetRow, Off, Promise!TurnOff
<1>4. CASE RegenerateRecoveryCodes(r)
  <2> DEFINE new == [row EXCEPT !.codes = Batch(r)]
  <2>1. new \in Row /\ SetRow(new) /\ new.codes = Batch(r)
        /\ new.enabled = row.enabled /\ new.secret = row.secret
    BY <1>1, <1>4, BatchIsNew DEF RegenerateRecoveryCodes, Row
  <2>2. Promise!ReplaceCodes
    BY <1>1, <2>1, BatchIsNew, SetRowReplaces
  <2> QED
    BY <1>1, <2>1, <2>2 DEF SetRow, Promise!Renew
<1> QED
  BY <1>1, <1>2, <1>3, <1>4

(* A list written as it was read, without one code, spends this code.      *)
LEMMA SpendRefines ==
  ASSUME Inv, NEW r \in Requests, UpdateRecoveryCodes(r)
  PROVE  overwrote' = TRUE \/ (UNCHANGED overwrote /\ \E c \in row.codes : Promise!Spend(c))
<1>1. CASE row.codes # task[r].seen.codes
  BY <1>1 DEF UpdateRecoveryCodes, Overwrites
<1>2. CASE row.codes = task[r].seen.codes
  <2> DEFINE c == task[r].code
             new == [row EXCEPT !.codes = row.codes \ {c}]
  <2>1. row \in Row /\ task[r] # NotCome /\ overwrote \in BOOLEAN
    BY DEF Inv, TypeOK, UpdateRecoveryCodes, NotCome
  <2>2. c \in row.codes
    BY <1>2, <2>1 DEF Inv, UpdateRecoveryCodes
  <2>3. row' = new /\ dead' = dead \cup (row.codes \ new.codes) \cup {c}
    BY <1>2 DEF UpdateRecoveryCodes
  <2>4. new.codes = row.codes \ {c} /\ new.enabled = row.enabled /\ new.secret = row.secret
    BY <2>1 DEF Row
  <2>5. dead' = dead \cup {c}
    BY <2>3, <2>4
  <2>6. UNCHANGED overwrote
    BY <1>2, <2>1 DEF UpdateRecoveryCodes, Overwrites
  <2> HIDE DEF new
  <2>7. Promise!Spend(c)
    BY <2>3, <2>4, <2>5 DEF Promise!Spend
  <2> QED
    BY <2>2, <2>6, <2>7
<1> QED
  BY <1>1, <1>2

(* A save() that finds the row as it has loaded it writes nothing.         *)
LEMMA SaveRefines ==
  ASSUME Inv, NEW r \in Requests, UpdateDiff(r)
  PROVE  overwrote' = TRUE \/ UNCHANGED <<row, dead, overwrote>>
<1>1. CASE \E c \in task[r].diff : row[c] # task[r].seen[c]
  BY <1>1 DEF UpdateDiff, Overwrites
<1>2. CASE \A c \in task[r].diff : row[c] = task[r].seen[c]
  <2>1. row \in Row /\ overwrote \in BOOLEAN
    BY DEF Inv, TypeOK
  <2>2. Merged(r) = [c \in Columns |-> row[c]]
    BY <1>2 DEF Merged
  <2>3. row = [c \in Columns |-> row[c]]
    BY <2>1 DEF Row, Columns
  <2>4. UNCHANGED <<row, dead>>
    BY <2>2, <2>3 DEF UpdateDiff, SetRow
  <2>5. UNCHANGED overwrote
    BY <1>2, <2>1 DEF UpdateDiff, Overwrites
  <2> QED
    BY <2>4, <2>5
<1> QED
  BY <1>1, <1>2

(* Every request keeps the promise until it has written over another.      *)
LEMMA NextRefines == Inv /\ [Next]_vars => [Promise!Next]_(Promise!vars)
<1> SUFFICES ASSUME Inv, [Next]_vars PROVE [Promise!Next]_(Promise!vars)
  OBVIOUS
<1>1. CASE UNCHANGED <<row, dead, overwrote>>
  BY <1>1 DEF Promise!vars
<1>2. CASE overwrote' = TRUE
  BY <1>2 DEF Promise!Next, Promise!Disturb
<1>3. CASE /\ UNCHANGED overwrote
           /\ \/ Promise!TurnOn \/ Promise!TurnOff \/ Promise!Renew
              \/ \E c \in row.codes : Promise!Spend(c)
  <2>1. overwrote = TRUE \/ overwrote = FALSE
    BY DEF Inv, TypeOK
  <2>2. CASE overwrote = TRUE
    <3>1. overwrote' = TRUE
      BY <1>3, <2>2
    <3> QED
      BY <1>2, <3>1
  <2>3. CASE overwrote = FALSE
    <3>1. ~overwrote
      BY <2>3
    <3> QED
      BY <1>3, <3>1, Zenon DEF Promise!Next
  <2> QED
    BY <2>1, <2>2, <2>3
<1>4. ASSUME NEW r \in Requests,
             EnableTwoFactor(r) \/ DisableTwoFactor(r) \/ RegenerateRecoveryCodes(r)
      PROVE  [Promise!Next]_(Promise!vars)
  BY <1>3, <1>4, SwitchRefines
<1>5. ASSUME NEW r \in Requests, UpdateRecoveryCodes(r)
      PROVE  [Promise!Next]_(Promise!vars)
  BY <1>2, <1>3, <1>5, SpendRefines
<1>6. ASSUME NEW r \in Requests, UpdateDiff(r)
      PROVE  [Promise!Next]_(Promise!vars)
  BY <1>1, <1>2, <1>6, SaveRefines
<1>7. ASSUME NEW r \in Requests,
             \/ Challenge(r) \/ FindRecoveryCodes(r) \/ SelectForSave(r) \/ Abort(r)
             \/ \E c \in Known \cup UNION {Batch(q) : q \in Known} : VerifyTwoFactor(r, c)
             \/ \E k \in {"changePassword", "profile"} : LoadUser(r, k)
      PROVE  [Promise!Next]_(Promise!vars)
  <2>1. UNCHANGED <<row, dead, overwrote>>
    BY <1>7 DEF Challenge, FindRecoveryCodes, SelectForSave, Abort, VerifyTwoFactor, LoadUser
  <2> QED
    BY <1>1, <2>1
<1>8. CASE UNCHANGED vars
  BY <1>1, <1>8 DEF vars
<1> QED
  BY <1>4, <1>5, <1>6, <1>7, <1>8 DEF Next

(* Until a request writes over what it had not read, the second factor of  *)
(* the account behaves as if every request were a single step.             *)
THEOREM SecondFactorImplemented == Spec => SecondFactorAsPromised
<1>1. Init => Promise!Init
  BY DEF Init, Off, Promise!Init
<1> QED
  BY <1>1, NextRefines, Invariance, PTL DEF Spec, SecondFactorAsPromised, Promise!Spec

(* What the promise comes to: as long as nobody has written over another,  *)
(* the switch is on exactly when there is a secret, and no dead code opens *)
(* the account.                                                            *)
THEOREM UndisturbedIsSound ==
  Spec => [](~overwrote => Agree(row) /\ row.codes \cap dead = {})
<1> DEFINE Sound == ~overwrote => Agree(row) /\ row.codes \cap dead = {}
<1>1. Promise!Init => Sound
  BY DEF Promise!Init, Agree
<1>2. Sound /\ [Promise!Next]_(Promise!vars) => Sound'
  <2> SUFFICES ASSUME Sound, [Promise!Next]_(Promise!vars), ~overwrote'
               PROVE  Agree(row)' /\ (row.codes \cap dead = {})'
    OBVIOUS
  <2>1. CASE UNCHANGED Promise!vars
    BY <2>1 DEF Promise!vars, Agree
  <2>2. CASE Promise!TurnOn /\ ~overwrote
    BY <2>2, NoneIsNoName DEF Promise!TurnOn, Promise!ReplaceCodes, Agree
  <2>3. CASE Promise!TurnOff /\ ~overwrote
    BY <2>3 DEF Promise!TurnOff, Promise!ReplaceCodes, Agree
  <2>4. CASE Promise!Renew /\ ~overwrote
    BY <2>4 DEF Promise!Renew, Promise!ReplaceCodes, Agree
  <2>5. ASSUME NEW c \in row.codes, Promise!Spend(c), ~overwrote
        PROVE  Agree(row)' /\ (row.codes \cap dead = {})'
    BY <2>5 DEF Promise!Spend, Agree
  <2> QED
    BY <2>1, <2>2, <2>3, <2>4, <2>5 DEF Promise!Next, Promise!Disturb
<1> QED
  BY <1>1, <1>2, SecondFactorImplemented, PTL DEF SecondFactorAsPromised, Promise!Spec
=============================================================================
