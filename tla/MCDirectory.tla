---------------------------- MODULE MCDirectory -----------------------------
(* Five entries of two to a block: two direct blocks and an indirect one.  *)
EXTENDS Directory, TLC
\* Names are only compared.
AnyNames == Permutations(Names)
=============================================================================
