---------------------------- MODULE MCLxScopes -----------------------------
(* Small instances of LxScopes: three tiles of one to three stick halves.  *)
EXTENDS LxScopes

CONSTANTS t1, t2, t3

MCSize == [t \in Tiles |-> CASE t = t1 -> 1 [] t = t2 -> 2 [] OTHER -> 3]
=============================================================================
