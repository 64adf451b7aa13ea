---------------------------- MODULE MCSubboardLink ----------------------------
(* SubboardLink with a delay that is doubled twice and then capped.       *)
EXTENDS SubboardLink
=============================================================================
