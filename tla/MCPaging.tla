------------------------------ MODULE MCPaging ------------------------------
(* Tables of up to three rows, read in pages of one or two.                 *)
EXTENDS Paging
=============================================================================
