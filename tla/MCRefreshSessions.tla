-------------------------- MODULE MCRefreshSessions --------------------------
(* RefreshSessions on small sets of users, sessions and requests.          *)
EXTENDS RefreshSessions, Naturals, FiniteSets

(* The liveness property rules out SYMMETRY: instead requests come in one  *)
(* order, the first is of a fixed user and session, and one that revokes   *)
(* all sessions names, if any, the same; an account is deleted when one of *)
(* its requests has come (before that it leads to the same states).        *)
(* Nothing has to come or to be deleted, so that this takes no step away   *)
(* that fairness would demand.                                             *)
Place == CHOOSE p \in [Requests -> 1..Cardinality(Requests)] :
            \A q, r \in Requests : q # r => p[q] # p[r]

InOrder ==
    /\ \A r \in Requests : req[r] = Idle /\ req'[r] # Idle =>
         /\ \A q \in Requests : Place[q] < Place[r] => req[q] # Idle
         /\ Place[r] = 1 => req'[r].user = CHOOSE u \in Users : TRUE
         /\ Place[r] = 1 \/ req'[r].op = "revokeAll" =>
              req'[r].session = CHOOSE s \in Sessions : TRUE
    /\ \A u \in users \ users' : \E r \in Requests : req[r] # Idle /\ req[r].user = u
=============================================================================
