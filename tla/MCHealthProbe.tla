---------------------------- MODULE MCHealthProbe ----------------------------
(* Three checks on two clients: two meet on one, the third comes after.    *)
EXTENDS HealthProbe
=============================================================================
