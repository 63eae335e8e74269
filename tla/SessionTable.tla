---------------------------- MODULE SessionTable ----------------------------
(***************************************************************************)
(* What the refresh-token store promises, with no request, no statement    *)
(* order and no failure in sight: every (user, session) pair has at most   *)
(* one live refresh secret, a secret becomes live at most once, a live     *)
(* secret is never overwritten (it has to end before another one starts),  *)
(* and one step ends sessions of one user only.                            *)
(* RefreshSessions implements it: see LiveTable there.                     *)
(***************************************************************************)
CONSTANTS
    Users,      \* accounts
    Sessions,   \* client chosen session identifiers
    Secrets,    \* refresh secrets, drawn at random and so never drawn twice
    NoSecret    \* "no live session"

VARIABLES
    live,       \* live[u][s]: the secret that session s of u answers to
    used        \* secrets that have been live at some time

vars == <<live, used>>

Init ==
    /\ live = [u \in Users |-> [s \in Sessions |-> NoSecret]]
    /\ used = {}

(* A session starts with a secret that never was live.                     *)
Begin(u, s, x) ==
    /\ live[u][s] = NoSecret
    /\ x \notin used
    /\ live' = [live EXCEPT ![u][s] = x]
    /\ used' = used \cup {x}

(* Some sessions of one user end.                                          *)
End(u, gone) ==
    /\ live' = [live EXCEPT ![u] =
                  [s \in Sessions |-> IF s \in gone THEN NoSecret ELSE live[u][s]]]
    /\ UNCHANGED used

Next ==
    \E u \in Users :
        \/ \E s \in Sessions, x \in Secrets : Begin(u, s, x)
        \/ \E gone \in SUBSET Sessions : End(u, gone)

Spec == Init /\ [][Next]_vars
=============================================================================
