--------------------------- MODULE RequestLifecycle ---------------------------
(***************************************************************************)
(* What a request/response registry of the gateway promises its callers:   *)
(* a request is issued once, is answered at most once, and its answer      *)
(* never changes.  This is the promise written above DaemonControlRegistry *)
(* ("every request settles exactly once -- on result, on timeout, or when  *)
(* the supervisor disconnects") and the one the relay's callbacks rely on  *)
(* (an HTTP handler may call onEnd or onError only once).  Nothing is said *)
(* of how: NodeRegistry is the implementation.                             *)
(***************************************************************************)
CONSTANTS
  Request,   \* identities of requests
  Answer     \* the outcomes a caller can observe, "idle" and "pending" apart

VARIABLE outcome   \* outcome[r]: "idle", "pending", or the answer r got

Init == outcome = [r \in Request |-> "idle"]

(* One request moves one step of its life, or stays. *)
Advances(r) ==
  \/ outcome'[r] = outcome[r]
  \/ outcome[r] = "idle" /\ outcome'[r] = "pending"
  \/ outcome[r] = "pending" /\ outcome'[r] \in Answer

(* Any number of requests may move together: a closing socket answers all. *)
Next ==
  /\ outcome' \in [Request -> Answer \cup {"idle", "pending"}]
  /\ \A r \in Request : Advances(r)

Answers(r) ==
  /\ outcome[r] = "pending"
  /\ \E a \in Answer : outcome' = [outcome EXCEPT ![r] = a]

(* Safety: nothing is answered twice, or before it is asked. *)
SafeSpec == Init /\ [][Next]_outcome

(* With progress: what is asked is answered. *)
Spec == SafeSpec /\ \A r \in Request : WF_outcome(Answers(r))
===============================================================================
