------------------------- MODULE MCRequestPipeline -------------------------
(* One request: requests share nothing but the accounts, which change      *)
(* freely here.                                                            *)
EXTENDS RequestPipeline
=============================================================================
