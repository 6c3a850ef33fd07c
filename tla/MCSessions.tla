------------------------------ MODULE MCSessions ------------------------------
(* A small instance of the sessions.                                        *)
EXTENDS Sessions, TLC

Interchangeable == Permutations(Session)
===============================================================================
