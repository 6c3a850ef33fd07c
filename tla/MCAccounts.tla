------------------------------ MODULE MCAccounts ------------------------------
(* Small instances of the accounts.                                         *)
EXTENDS Accounts, TLC

Interchangeable == Permutations(User \ {BootstrapAdmin}) \cup Permutations(Request)
===============================================================================
