----------------------------- MODULE MCSupervisor -----------------------------
(* Small instances of the supervisor.                                       *)
EXTENDS Supervisor, TLC

CONSTANTS c1, c2, b1, r1

Controls == {c1, c2}
OneControl == {c1}
OneBoot == {b1}
OneRefresh == {r1}
Symmetry == Permutations(Controls)

(* Every daemon.json that differs where the code looks: child mode ignores   *)
(* the start script.                                                        *)
Setup(c, p, a, z) == [child |-> c, probe |-> p, startScript |-> a, stopScript |-> z]
AllSetups == {Setup(TRUE, p, FALSE, z) : p, z \in BOOLEAN}
             \cup {Setup(FALSE, p, a, z) : p, a, z \in BOOLEAN}

(* Fewer, for two overlapping requests: a child with and without a probe,    *)
(* the shipped scripts, and the scripts without a start script.              *)
FourSetups ==
  {Setup(TRUE, TRUE, FALSE, FALSE), Setup(TRUE, FALSE, FALSE, FALSE),
   Setup(FALSE, TRUE, TRUE, TRUE), Setup(FALSE, TRUE, FALSE, TRUE)}
===============================================================================
