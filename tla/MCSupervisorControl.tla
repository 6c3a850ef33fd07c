-------------------------- MODULE MCSupervisorControl --------------------------
(* Small instances of the settings card's control of the supervisor.          *)
EXTENDS SupervisorControl, TLC

Interchangeable == Permutations(Pid) \cup Permutations(Save)
===============================================================================
