---------------------------- MODULE SecondFactor ----------------------------
(***************************************************************************)
(* What the second factor of an account promises, with no request and no   *)
(* column that is read before it is written: it is on exactly when it has  *)
(* a secret, a recovery code is spent once, and one that is spent or       *)
(* replaced is dead for good.  The promise lasts until one request has     *)
(* written over what another wrote since it read (disturbed); after that   *)
(* anything may happen.                                                    *)
(* TwoFactor implements it: see Promise there.                             *)
(***************************************************************************)
CONSTANTS
    Secrets,    \* secrets, drawn at random and so never drawn twice
    Codes,      \* recovery codes, drawn in batches
    NoSecret

VARIABLES
    on,         \* the log-in asks for the second factor
    secret,     \* what a TOTP is checked against
    codes,      \* recovery codes that open the account
    dead,       \* codes that did
    disturbed   \* somebody has written over what he had not read

vars == <<on, secret, codes, dead, disturbed>>

Init ==
    /\ on = FALSE /\ secret = NoSecret
    /\ codes = {} /\ dead = {}
    /\ disturbed = FALSE

(* The codes give way to others that have never been any.                  *)
ReplaceCodes ==
    /\ codes' \subseteq Codes /\ codes' \cap (codes \cup dead) = {}
    /\ dead' = dead \cup codes

TurnOn == on' = TRUE /\ secret' \in Secrets /\ ReplaceCodes

TurnOff == on' = FALSE /\ secret' = NoSecret /\ codes' = {} /\ ReplaceCodes

Renew == ReplaceCodes /\ UNCHANGED <<on, secret>>

Spend(c) ==
    /\ codes' = codes \ {c}
    /\ dead' = dead \cup {c}
    /\ UNCHANGED <<on, secret>>

Disturb == disturbed' = TRUE

Next ==
    \/ /\ ~disturbed /\ UNCHANGED disturbed
       /\ TurnOn \/ TurnOff \/ Renew \/ \E c \in codes : Spend(c)
    \/ Disturb

Spec == Init /\ [][Next]_vars
=============================================================================
