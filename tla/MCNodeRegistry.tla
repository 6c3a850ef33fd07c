---------------------------- MODULE MCNodeRegistry ----------------------------
(* Instances of NodeRegistry for TLC.  Machines, sockets, channels, controls  *)
(* and codes are interchangeable, so the safety runs identify states up to    *)
(* their permutation; the liveness run does not.                             *)
EXTENDS NodeRegistry, TLC

Interchangeable ==
  Permutations(Machine) \cup Permutations(Socket) \cup Permutations(Channel)
    \cup Permutations(Control) \cup Permutations(Code)
===============================================================================
