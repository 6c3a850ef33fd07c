--------------------------- MODULE MCLoginThrottle ---------------------------
(* Small instances of the sign-in throttle.                                 *)
EXTENDS LoginThrottle, TLC

(* Two lockouts, the second longer (3, 5 and 15 minutes in the code).         *)
Growing == <<1, 2>>

Interchangeable ==
  Permutations(Account) \cup Permutations(Address) \cup Permutations(Attempt)
===============================================================================
