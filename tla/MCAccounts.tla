------------------------------ MODULE MCAccounts ------------------------------
(* One account, two administrators, handlers that overlap.                 *)
EXTENDS Accounts, TLC

CONSTANTS h1, h2, t1, t2

Symmetry == Permutations(Handlers) \cup Permutations(Tokens)
=============================================================================
