------------------------------- MODULE MCMailer -------------------------------
(* Mailer with a handful of requests.                                      *)
EXTENDS Mailer, FiniteSets

Come == {r \in Requests : task[r] # NotCome}

(* Requests are alike: they come in one order (the liveness property rules *)
(* out SYMMETRY).                                                          *)
Place == CHOOSE p \in [Requests -> 1..Cardinality(Requests)] :
            \A q, r \in Requests : q # r => p[q] # p[r]
InOrder == Come = {r \in Requests : Place[r] <= Cardinality(Come)}

(* Three requests while the files and the process stay as they are, or two *)
(* for one template, the only one that is replaced.  Only arrivals, edits  *)
(* and restarts, which nobody has to bring about, lead out of this set.    *)
Quiet == file = [t \in MailTemplate |-> 0] /\ restarts = 0
OneTemplate == /\ Cardinality(Come) < 3
               /\ \A r \in Come : TemplateOf(r) = "activation"
               /\ \A t \in MailTemplate \ {"activation"} : file[t] = 0

(* The cache is cleared when a file has changed since the last time.       *)
ClearsMatter == ClearTemplateCache => floor # file

OneQuestionAtATime == InOrder /\ (Quiet \/ OneTemplate)
=============================================================================
