------------------------------ MODULE TwoFactor ------------------------------
(***************************************************************************)
(* The second factor of one account: the columns twoFactorEnabled,         *)
(* twoFactorSecret and recoveryCodes of its users row, and the requests    *)
(* that read and write them.  No statement touches two accounts, so one    *)
(* is enough.                                                              *)
(*                                                                         *)
(* enable, disable and regenerate are single UPDATEs.  Everything else is  *)
(* read-modify-write across awaits: a verification with a recovery code    *)
(* writes the list it has read minus one code; changePassword and the      *)
(* profile requests save() an entity they have loaded before, and save()   *)
(* selects the row, compares, and updates the columns that differ.         *)
(* A secret and a batch of recovery codes carry the name of the request    *)
(* that generated them.                                                    *)
(***************************************************************************)
EXTENDS Naturals

CONSTANTS
    Requests,     \* HTTP requests (a log-in and its 2fa/verify count as one)
    None,         \* no secret, no code
    BatchSize     \* twoFactorConfig.recoveryCodesCount

ASSUME NoneIsNoName == None \notin Requests
ASSUME BatchSizeIsPositive == BatchSize \in Nat \ {0}

Batch(r) == {r} \X (1..BatchSize)
Codes    == Requests \X (1..BatchSize)

Columns == {"enabled", "secret", "codes"}

(* recoveryCodes NULL and the empty list are treated alike by the code.    *)
Row == [enabled : BOOLEAN, secret : Requests \cup {None}, codes : SUBSET Codes]

Off == [enabled |-> FALSE, secret |-> None, codes |-> {}]

VARIABLES
    row,       \* the three columns
    task,      \* local state of each request's handler
    switched,  \* history: the row as the last enable or disable left it
    dead,      \* history: codes that were accepted, or have left the row
    overwrote  \* history: a request has written over what it had not read

vars == <<row, task, switched, dead, overwrote>>

Waiting == {"challenged", "recover", "spend", "loaded", "write"}
Ended   == {"done", "accepted", "notEnabled", "refused"}

Task == [pc   : Waiting \cup Ended,
         kind : {"blind", "verify", "changePassword", "profile"},
         seen : Row,                      \* what it has read
         code : Codes \cup Requests \cup {None},  \* recovery code, or TOTP of a secret
         diff : SUBSET Columns]           \* columns that its save() writes

NotCome == [pc |-> "idle"]

Come(r, step, k) ==
    task' = [task EXCEPT ![r] = [pc |-> step, kind |-> k, seen |-> row, code |-> None,
                                 diff |-> {}]]
Goto(r, step) == task' = [task EXCEPT ![r].pc = step]

SetRow(new) == row' = new /\ dead' = dead \cup (row.codes \ new.codes)

(* Between the read of request r and its write of these columns, somebody  *)
(* else has written one of them.                                           *)
Overwrites(r, columns) ==
    overwrote' = (overwrote \/ \E c \in columns : row[c] # task[r].seen[c])

Init ==
    /\ row = Off
    /\ task = [r \in Requests |-> NotCome]
    /\ switched = Off
    /\ dead = {}
    /\ overwrote = FALSE

-----------------------------------------------------------------------------
(* The password was right and the code fits dto.secret; one UPDATE follows,*)
(* whether or not the account has a second factor already.                 *)
EnableTwoFactor(r) ==
    /\ task[r] = NotCome
    /\ SetRow([enabled |-> TRUE, secret |-> r, codes |-> Batch(r)])
    /\ switched' = row'
    /\ Come(r, "done", "blind")
    /\ UNCHANGED overwrote

\* faulty: forgets the secret
DisableKeepingSecret(r) ==
    /\ task[r] = NotCome
    /\ SetRow([row EXCEPT !.enabled = FALSE, !.codes = {}])
    /\ switched' = Off
    /\ Come(r, "done", "blind")
    /\ UNCHANGED overwrote

DisableTwoFactor(r) ==
    /\ task[r] = NotCome
    /\ SetRow(Off)
    /\ switched' = Off
    /\ Come(r, "done", "blind")
    /\ UNCHANGED overwrote

\* faulty: the codes of before stay
RegenerateAppending(r) ==
    /\ task[r] = NotCome
    /\ SetRow([row EXCEPT !.codes = @ \cup Batch(r)])
    /\ Come(r, "done", "blind")
    /\ UNCHANGED <<switched, overwrote>>

(* Also without a second factor.                                           *)
RegenerateRecoveryCodes(r) ==
    /\ task[r] = NotCome
    /\ SetRow([row EXCEPT !.codes = Batch(r)])
    /\ Come(r, "done", "blind")
    /\ UNCHANGED <<switched, overwrote>>

-----------------------------------------------------------------------------
(* login: the password was right, a temporary token is answered.           *)
Challenge(r) ==
    /\ task[r] = NotCome
    /\ row.enabled
    /\ Come(r, "challenged", "verify")
    /\ UNCHANGED <<row, switched, dead, overwrote>>

(* verifyTwoFactor: first read; the TOTP is checked against the secret.    *)
VerifyTwoFactor(r, c) ==
    /\ task[r].pc = "challenged"
    /\ task' = [task EXCEPT ![r].code = c, ![r].seen = row,
                  ![r].pc = IF ~row.enabled \/ row.secret = None THEN "notEnabled"
                            ELSE IF c = row.secret THEN "accepted" ELSE "recover"]
    /\ UNCHANGED <<row, switched, dead, overwrote>>

(* validateRecoveryCode: second read, then bcrypt against code after code. *)
FindRecoveryCodes(r) ==
    /\ task[r].pc = "recover"
    /\ task' = [task EXCEPT ![r].seen = row,
                  ![r].pc = IF task[r].code \in row.codes THEN "spend" ELSE "refused"]
    /\ UNCHANGED <<row, switched, dead, overwrote>>

\* faulty: filters the wrong way round
KeepOnlySpent(r) ==
    /\ task[r].pc = "spend"
    /\ LET new == [row EXCEPT !.codes = @ \cap {task[r].code}] IN
         /\ row' = new
         /\ dead' = dead \cup (row.codes \ new.codes) \cup {task[r].code}
    /\ Overwrites(r, {"codes"})
    /\ Goto(r, "accepted")
    /\ UNCHANGED switched

(* The list that was read, without the code, replaces the list stored.     *)
UpdateRecoveryCodes(r) ==
    /\ task[r].pc = "spend"
    /\ LET new == [row EXCEPT !.codes = task[r].seen.codes \ {task[r].code}] IN
         /\ row' = new
         /\ dead' = dead \cup (row.codes \ new.codes) \cup {task[r].code}
    /\ Overwrites(r, {"codes"})
    /\ Goto(r, "accepted")
    /\ UNCHANGED switched

-----------------------------------------------------------------------------
(* changePassword loads every column, updateProfile and the avatar         *)
(* requests load twoFactorEnabled; then bcrypt or S3 is awaited.           *)
LoadedColumns(k) == IF k = "changePassword" THEN Columns ELSE {"enabled"}

LoadUser(r, k) ==
    /\ task[r] = NotCome
    /\ Come(r, "loaded", k)
    /\ UNCHANGED <<row, switched, dead, overwrote>>

(* save(), first half: compare with the row as it is now.                  *)
SelectForSave(r) ==
    /\ task[r].pc = "loaded"
    /\ task' = [task EXCEPT ![r].pc = "write",
                  ![r].diff = {c \in LoadedColumns(task[r].kind) : task[r].seen[c] # row[c]}]
    /\ UNCHANGED <<row, switched, dead, overwrote>>

Merged(r) == [c \in Columns |-> IF c \in task[r].diff THEN task[r].seen[c] ELSE row[c]]

\* faulty: not the columns that differ, but every column of the entity
WriteLoaded(r) ==
    /\ task[r].pc = "write"
    /\ SetRow(task[r].seen)
    /\ Overwrites(r, task[r].diff)
    /\ Goto(r, "done")
    /\ UNCHANGED switched

(* save(), second half: update the columns that differed.                  *)
UpdateDiff(r) ==
    /\ task[r].pc = "write"
    /\ SetRow(Merged(r))
    /\ Overwrites(r, task[r].diff)
    /\ Goto(r, "done")
    /\ UNCHANGED switched

(* A request is cut off, or the temporary token lapses.                    *)
Abort(r) ==
    /\ task[r].pc \in Waiting
    /\ Goto(r, "refused")
    /\ UNCHANGED <<row, switched, dead, overwrote>>

(* Codes a user can have at hand: TOTPs of secrets, recovery codes shown.  *)
Known == {r \in Requests : task[r].pc = "done" /\ task[r].kind = "blind"}

Next ==
    \E r \in Requests :
      \/ EnableTwoFactor(r) \/ DisableTwoFactor(r) \/ RegenerateRecoveryCodes(r)
      \/ Challenge(r)
      \/ \E c \in Known \cup UNION {Batch(q) : q \in Known} : VerifyTwoFactor(r, c)
      \/ FindRecoveryCodes(r) \/ UpdateRecoveryCodes(r)
      \/ \E k \in {"changePassword", "profile"} : LoadUser(r, k)
      \/ SelectForSave(r) \/ UpdateDiff(r)
      \/ Abort(r)

Spec == Init /\ [][Next]_vars

-----------------------------------------------------------------------------
OneBatch(codes) == \A c, d \in codes : c[1] = d[1]

(* Type invariant; the codes stored are always of a single batch.          *)
TypeOK ==
    /\ row \in Row
    /\ switched \in Row
    /\ dead \subseteq Codes
    /\ task \in [Requests -> {NotCome} \cup Task]
    /\ OneBatch(row.codes)
    /\ overwrote \in BOOLEAN

Saved(q) == task[q].pc = "done" /\ task[q].kind \in {"changePassword", "profile"}

(* The second factor is as the last enable or disable has left it, unless  *)
(* a save() has written the switch or the secret back from a stale entity: *)
(* verifying and regenerating never touch it.                              *)
SwitchAsLastSet ==
    \/ row.enabled = switched.enabled /\ row.secret = switched.secret
    \/ \E q \in Requests : Saved(q) /\ task[q].diff \cap {"enabled", "secret"} # {}

(* A save() has written back one of switch and secret and not the other.   *)
Split == \E q \in Requests :
            Saved(q) /\ ~("enabled" \in task[q].diff <=> "secret" \in task[q].diff)

Agree(s) == s.enabled = (s.secret # None)

(* The switch is on exactly when there is a secret (login asks for the     *)
(* second factor by the switch, verifyTwoFactor needs both), unless a      *)
(* save() has split them.                                                  *)
SwitchMatchesSecret == Agree(row) \/ Split

(* A recovery code that was accepted or replaced is gone, unless another   *)
(* request that had read it before has written the list back: a second     *)
(* verification at the same time, or changePassword, never a profile       *)
(* request.                                                                *)
DeadCodeReturnsByWriteBack ==
    \A c \in row.codes \cap dead :
      \E q \in Requests :
        /\ task[q] # NotCome /\ c \in task[q].seen.codes
        /\ \/ task[q].pc = "accepted" /\ task[q].code \in Codes \ {c}
           \/ Saved(q) /\ task[q].kind = "changePassword" /\ "codes" \in task[q].diff

Promise == INSTANCE SecondFactor WITH
             Secrets <- Requests, NoSecret <- None, on <- row.enabled,
             secret <- row.secret, codes <- row.codes, disturbed <- overwrote

(* Interleaved reads and writes of the row keep the promise of a second    *)
(* factor that is changed in one step, until some request writes over what *)
(* it had not read: a verification over another one's list, or a save()    *)
(* that finds a column changed since it was loaded.                        *)
SecondFactorAsPromised == Promise!Spec

(* The inductive invariant.  Codes are those of batches generated so far;  *)
(* a verification spends a code that it has read; only columns the entity  *)
(* was loaded with are written; and as long as no save() has split switch  *)
(* and secret, no entity is around in which they disagree.                 *)
GeneratedCodes == {c \in Codes : task[c[1]] # NotCome}

StepFitsKind(t) ==
    /\ t.pc \in {"challenged", "recover", "spend"} => t.kind = "verify"
    /\ t.pc \in {"loaded", "write"} => t.kind \in {"changePassword", "profile"}

Inv ==
    /\ TypeOK
    /\ row.codes \subseteq GeneratedCodes /\ dead \subseteq GeneratedCodes
    /\ \A r \in Requests : task[r] # NotCome =>
          /\ OneBatch(task[r].seen.codes)
          /\ task[r].seen.codes \subseteq GeneratedCodes
          /\ task[r].pc = "spend" => task[r].code \in task[r].seen.codes
          /\ StepFitsKind(task[r])
          /\ task[r].diff \subseteq LoadedColumns(task[r].kind)
          /\ ~Split => Agree(task[r].seen)
    /\ SwitchAsLastSet
    /\ SwitchMatchesSecret
    /\ DeadCodeReturnsByWriteBack
=============================================================================
