---------------------------- MODULE MCEmailChange ----------------------------
(* EmailChange on two accounts and three mailboxes.                        *)
EXTENDS EmailChange, FiniteSets, TLC

Symmetry == Permutations(Users) \cup Permutations(Mailboxes) \cup Permutations(Requests)

Come == {r \in Requests : task[r] # NotCome}

Lower == Mailboxes \X {"lower"}

(* No request is cut off, refused or too late.                             *)
Smooth == lapsed = {} /\ \A r \in Come : task[r].pc # "refused"

(* Two verified accounts change their addresses: what it takes for them to *)
(* end up in one mailbox.                                                  *)
ChangesOnly == proven = Users /\ \A r \in Come : task[r].kind \in {"request", "confirm"}

(* All requests concern one account, addresses have one spelling, and the  *)
(* other account is verified and its mailbox not asked for.                *)
OneAccount ==
    \E u \in Users :
      /\ \A v \in Users : row[v].email \in Lower /\ (v = u \/ row[v].verified)
      /\ \A r \in Come :
            /\ task[r].user = u
            /\ task[r].to # None => /\ task[r].to \in Lower
                                   /\ Owner(LOWER(task[r].to)) \subseteq {u}

(* Four requests as long as none of them fails, three that may.            *)
OneQuestionAtATime ==
    \/ Smooth /\ (ChangesOnly \/ OneAccount)
    \/ OneAccount /\ Cardinality(Come) < 4
=============================================================================
