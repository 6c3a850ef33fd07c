----------------------------- MODULE NodeRegistry -----------------------------
(***************************************************************************)
(* The gateway's registry of machines: onboarding and pairing, the live    *)
(* sockets of each machine (one per role), their leases, the relayed HTTP  *)
(* requests and browser WebSockets, and the lifecycle requests sent to a   *)
(* machine's supervisor (apps/gateway/src/nodes.ts, daemon-control.ts).    *)
(*                                                                         *)
(* One action is one event of the gateway's event loop.  A handler whose   *)
(* only awaits are store calls is one action: the gateway runs on the      *)
(* synchronous SQLite store, so such an await is a microtask and no other  *)
(* event comes between.  Machines' agents and browsers are the             *)
(* environment: what they send is chosen nondeterministically among what   *)
(* they can send; messages in transit are the ones not yet chosen.         *)
(***************************************************************************)
EXTENDS Naturals

CONSTANTS
  Machine,      \* machine ids (randomUUID: never reused)
  Socket,       \* agent connections; each socket lives once
  Code,         \* pairing codes
  SeededCode,   \* the codes of DSH_GATEWAY_PAIRING_CODES, seeded at boot
  Channel,      \* relay channels, HTTP and WebSocket alike
  Control,      \* ids of daemon-control requests
  Reported,     \* the daemon states supervisors report in this instance
  MaxBoots,     \* bound: how often the gateway process is started again
  NoMachine, NoSocket, NoCode

DaemonState == {"unknown", "starting", "running", "stopped", "exited"}

ASSUME NobodyIsReal ==
  NoMachine \notin Machine /\ NoSocket \notin Socket /\ NoCode \notin Code
ASSUME SeededAreCodes == SeededCode \subseteq Code
ASSUME ReportedAreStates == Reported \subseteq DaemonState
ASSUME BootsBounded == MaxBoots \in Nat

VARIABLES
  machine,   \* store: status of each machine's row
  daemonCol, \* store: the daemon_state column, last settled state
  code,      \* store: pairing codes, whether still valid and who consumed each
  proc,      \* the gateway process: "up", "stopping" (stop() ran), "down"
  boots,     \* how many times it was started again
  sock,      \* each socket: phase, who authenticated on it, is the peer there
  nodes,     \* NodeRegistry.nodes, keyed by machine and role
  relay,     \* streams/streamsNode and wsChannels/wsChannelNode
  fate,      \* what the caller of each relay was told ("pending": nothing yet)
  control,   \* DaemonControlRegistry.pending
  answer,    \* what the caller of each controlDaemon was told
  admitted   \* history: the code each machine was admitted with

vars == <<machine, daemonCol, code, proc, boots, sock, nodes, relay, fate,
          control, answer, admitted>>
store == <<machine, daemonCol, code, admitted>>
relays == <<relay, fate>>
controls == <<control, answer>>
process == <<proc, boots>>
-------------------------------------------------------------------------------
(* Roles, keys and records.                                                *)

Role == {"console", "supervisor"}
Key == Machine \X Role

(* An entry of the live map: its socket, the status relays are admitted by,  *)
(* whether its lease ran out, and the daemon state it last reported.         *)
Absent == [ws |-> NoSocket, status |-> "none", lapsed |-> FALSE,
           daemon |-> "unknown"]
Entry == [ws : Socket \cup {NoSocket}, status : {"none", "pending", "approved"},
          lapsed : BOOLEAN, daemon : DaemonState]

(* A relay or a control request: what was asked of which machine.  "via" is  *)
(* the socket it was sent on while it is in its map, NoSocket when it is not. *)
NoRelay == [kind |-> "none", machine |-> NoMachine, via |-> NoSocket]
NoControl == [machine |-> NoMachine, via |-> NoSocket]

SocketRecord == [phase : {"fresh", "open", "attached", "closing", "closed"},
                 machine : Machine \cup {NoMachine}, role : Role,
                 peer : {"up", "tail", "gone"}]
CodeRecord == [state : {"none", "valid", "expired"}, by : Machine \cup {NoMachine}]
RelayRecord == [kind : {"none", "http", "ws"}, machine : Machine \cup {NoMachine},
                via : Socket \cup {NoSocket}]
ControlRecord == [machine : Machine \cup {NoMachine}, via : Socket \cup {NoSocket}]

RelayAnswer == {"ended", "timedout", "dropped", "closed", "shutdown", "lost"}
ControlAnswer == {"ok", "refused", "failed", "timedout", "lost"}

Has(k) == nodes[k].ws # NoSocket
KeyOf(s) == <<sock[s].machine, sock[s].role>>

AnsweredTwice(c) == relay[c].kind # "none"   \* defect: the entry outlives its answer
InRelayMap(c) == relay[c].via # NoSocket

SettledTwice(x) == control[x].machine # NoMachine   \* defect: settle() keeps the entry
InControlMap(x) == control[x].via # NoSocket

(* ws.close() on the gateway's end: CLOSING until the 'close' event.  Frames *)
(* that still arrive in between are still handled.                          *)
Closing(S) ==
  [s \in Socket |-> IF s \in S /\ sock[s].phase # "closed"
                    THEN [sock[s] EXCEPT !.phase = "closing"] ELSE sock[s]]

(* An authenticated socket on which a frame can still arrive.  A peer that   *)
(* vanished leaves at most one frame in transit ("tail").                    *)
Speaks(s) ==
  /\ proc # "down"
  /\ sock[s].phase \in {"attached", "closing"}
  /\ sock[s].machine # NoMachine
  /\ sock[s].peer \in {"up", "tail"}

Heard(s) ==
  [sock EXCEPT ![s].peer = IF @ = "tail" THEN "gone" ELSE @]

(* Take relays (controls) out of their map, and answer their callers.        *)
RelaysWithout(C) ==
  [c \in Channel |-> IF c \in C THEN [relay[c] EXCEPT !.via = NoSocket]
                     ELSE relay[c]]
Tell(C, what) == [c \in Channel |-> IF c \in C THEN what ELSE fate[c]]

NothingOf(m) == {}   \* defect: a closed node drops nothing
RelaysOf(m) == {c \in Channel : InRelayMap(c) /\ relay[c].machine = m}

NoStreams == {}   \* defect: stop() forgets the HTTP callers
StreamsInFlight == {c \in Channel : InRelayMap(c) /\ relay[c].kind = "http"}

ControlsWithout(X) ==
  [x \in Control |-> IF x \in X THEN [control[x] EXCEPT !.via = NoSocket]
                     ELSE control[x]]
Resolve(X, what) == [x \in Control |-> IF x \in X THEN what ELSE answer[x]]
PendingControls == {x \in Control : InControlMap(x)}
-------------------------------------------------------------------------------
Init ==
  /\ machine = [m \in Machine |-> "none"]
  /\ daemonCol = [m \in Machine |-> "unknown"]
  /\ code = [c \in Code |-> [state |-> IF c \in SeededCode THEN "valid" ELSE "none",
                             by |-> NoMachine]]
  /\ proc = "up"
  /\ boots = 0
  /\ sock = [s \in Socket |-> [phase |-> "fresh", machine |-> NoMachine,
                               role |-> "console", peer |-> "up"]]
  /\ nodes = [k \in Key |-> Absent]
  /\ relay = [c \in Channel |-> NoRelay]
  /\ fate = [c \in Channel |-> "idle"]
  /\ control = [x \in Control |-> NoControl]
  /\ answer = [x \in Control |-> "idle"]
  /\ admitted = [m \in Machine |-> NoCode]
-------------------------------------------------------------------------------
(* Pairing codes.                                                          *)

IssuePairingCode(c) ==
  /\ proc = "up"
  /\ code[c].state = "none" /\ c \notin SeededCode
  /\ code' = [code EXCEPT ![c] = [state |-> "valid", by |-> NoMachine]]
  /\ UNCHANGED <<machine, daemonCol, admitted, process, sock, nodes, relays, controls>>

(* The ten minutes of an unused code pass.                                  *)
PairingCodeExpires(c) ==
  /\ code[c].state = "valid" /\ code[c].by = NoMachine
  /\ code' = [code EXCEPT ![c].state = "expired"]
  /\ UNCHANGED <<machine, daemonCol, admitted, process, sock, nodes, relays, controls>>

UsableAgain(c) == code[c].state = "valid"   \* defect: consumedBy not looked at
Usable(c) == code[c].state = "valid" /\ code[c].by = NoMachine
-------------------------------------------------------------------------------
(* Sockets and onboarding.                                                 *)

(* A node connects and is sent a challenge.                                 *)
Connect(s) ==
  /\ proc = "up"
  /\ sock[s].phase = "fresh"
  /\ sock' = [sock EXCEPT ![s].phase = "open"]
  /\ UNCHANGED <<store, process, nodes, relays, controls>>

(* The node's end goes away without the gateway noticing (process killed,    *)
(* network dropped, half-open connection).                                  *)
Vanish(s) ==
  /\ sock[s].phase \in {"open", "attached", "closing"}
  /\ sock[s].peer = "up"
  /\ sock' = [sock EXCEPT ![s].peer = "tail"]
  /\ UNCHANGED <<store, process, nodes, relays, controls>>

(* The socket becomes the live one of its machine and role, whatever entry   *)
(* was there: the replaced socket is not closed.                            *)
Attach(s, m, r, status) ==
  /\ sock' = [sock EXCEPT ![s] = [phase |-> "attached", machine |-> m, role |-> r,
                                  peer |-> IF @.peer = "tail" THEN "gone" ELSE @.peer]]
  /\ nodes' = [nodes EXCEPT ![<<m, r>>] = [ws |-> s, status |-> status,
                                           lapsed |-> FALSE, daemon |-> "unknown"]]

Onboarding(s) ==
  /\ proc # "down"
  /\ sock[s].phase = "open" /\ sock[s].peer # "gone"

(* handleOnboarding with a pairing code: a pending machine is created, the   *)
(* code is consumed, and the socket is attached at once.                    *)
RegisterWithCode(s, c, m, r) ==
  /\ Onboarding(s)
  /\ Usable(c)
  /\ machine[m] = "none"
  /\ machine' = [machine EXCEPT ![m] = "pending"]
  /\ code' = [code EXCEPT ![c].by = m]
  /\ admitted' = [admitted EXCEPT ![m] = c]
  /\ Attach(s, m, r, "pending")
  /\ UNCHANGED <<daemonCol, process, relays, controls>>

MayReconnect(m) == machine[m] \in {"pending", "approved"}

(* handleOnboarding with machineId and nodeKey.                             *)
Reconnect(s, m, r) ==
  /\ Onboarding(s)
  /\ MayReconnect(m)
  /\ Attach(s, m, r, machine[m])
  /\ UNCHANGED <<store, process, relays, controls>>

(* handleOnboarding refuses: a code that is invalid, expired or used, or a   *)
(* machine that is unknown or revoked.                                      *)
RejectOnboarding(s) ==
  /\ Onboarding(s)
  /\ \/ \E c \in Code : ~Usable(c)
     \/ \E m \in Machine : ~MayReconnect(m)
  /\ sock' = [sock EXCEPT ![s] = [Heard(s)[s] EXCEPT !.phase = "closing"]]
  /\ UNCHANGED <<store, process, nodes, relays, controls>>
-------------------------------------------------------------------------------
(* Administration.                                                         *)

OneEntryOf(m) == {k \in Key : k = <<m, "console">> /\ Has(k)}   \* defect: one role
EntriesOf(m) == {k \in Key : k[1] = m /\ Has(k)}

(* Both sockets of the machine learn of the approval.                       *)
ApproveMachine(m) ==
  /\ proc = "up"
  /\ machine[m] = "pending"
  /\ machine' = [machine EXCEPT ![m] = "approved"]
  /\ nodes' = [k \in Key |-> IF k \in EntriesOf(m)
                             THEN [nodes[k] EXCEPT !.status = "approved"]
                             ELSE nodes[k]]
  /\ UNCHANGED <<daemonCol, code, admitted, process, sock, relays, controls>>

(* ws.close() on every entry of m and drop it from the live map; the relays  *)
(* go with the 'close' events.  Every pending control fails, whoever's it is. *)
Disconnect(m) ==
  /\ sock' = Closing({nodes[k].ws : k \in EntriesOf(m)})
  /\ nodes' = [k \in Key |-> IF k \in EntriesOf(m) THEN Absent ELSE nodes[k]]
  /\ answer' = Resolve(PendingControls, "failed")
  /\ control' = ControlsWithout(PendingControls)

RevokeMachine(m) ==
  /\ proc = "up"
  /\ machine[m] \in {"pending", "approved", "revoked"}
  /\ machine' = [machine EXCEPT ![m] = "revoked"]
  /\ Disconnect(m)
  /\ UNCHANGED <<daemonCol, code, admitted, process, relays>>

DeleteMachine(m) ==
  /\ proc = "up"
  /\ machine[m] \in {"pending", "approved", "revoked"}
  /\ machine' = [machine EXCEPT ![m] = "deleted"]
  /\ Disconnect(m)
  /\ UNCHANGED <<daemonCol, code, admitted, process, relays>>
-------------------------------------------------------------------------------
(* Heartbeats and leases.                                                  *)

(* recordHeartbeat: the supervisor's socket owns the daemon column, and only *)
(* a settled state is written.                                              *)
RecordAnything(m, r, d) ==   \* defect: a transient state is written too
  daemonCol' = [daemonCol EXCEPT ![m] = IF r = "supervisor" THEN d ELSE @]
RecordHeartbeat(m, r, d) ==
  daemonCol' = [daemonCol EXCEPT ![m] =
    IF r = "supervisor" /\ machine[m] \in {"pending", "approved", "revoked"}
       /\ d # "starting"
    THEN d ELSE @]

(* A heartbeat renews the entry of the socket's machine and role.  Without   *)
(* one the socket is closed ("unknown machine").                            *)
Heartbeat(s, d) ==
  LET k == KeyOf(s) IN
  /\ Speaks(s)
  /\ sock[s].role = "console" => d = "unknown"
  /\ \/ /\ Has(k)
        /\ nodes' = [nodes EXCEPT ![k] = [@ EXCEPT !.lapsed = FALSE, !.daemon = d]]
        /\ RecordHeartbeat(sock[s].machine, sock[s].role, d)
        /\ sock' = Heard(s)
     \/ /\ ~Has(k)
        /\ sock' = [sock EXCEPT ![s] = [Heard(s)[s] EXCEPT !.phase = "closing"]]
        /\ UNCHANGED <<nodes, daemonCol>>
  /\ UNCHANGED <<machine, code, admitted, process, relays, controls>>

(* The 45 s since the last heartbeat pass.                                  *)
LeaseLapses(k) ==
  /\ Has(k) /\ ~nodes[k].lapsed
  /\ nodes' = [nodes EXCEPT ![k].lapsed = TRUE]
  /\ UNCHANGED <<store, process, sock, relays, controls>>

(* The sweep: every lapsed entry leaves the map and its socket is closed.    *)
LapsedSupervisors ==   \* defect: the sweep passes over consoles
  {k \in Key : k[2] = "supervisor" /\ Has(k) /\ nodes[k].lapsed}
Lapsed == {k \in Key : Has(k) /\ nodes[k].lapsed}
Expire ==
  /\ proc = "up"
  /\ Lapsed # {}
  /\ sock' = Closing({nodes[k].ws : k \in Lapsed})
  /\ nodes' = [k \in Key |-> IF k \in Lapsed THEN Absent ELSE nodes[k]]
  /\ UNCHANGED <<store, process, relays, controls>>

(* The 'close' event.  The entry goes only if it is still this socket's; the *)
(* relays of the machine are dropped whichever of its sockets closed; a      *)
(* supervisor's closing fails every pending control.                        *)
EvictedWhoever(s) == Key \cap {KeyOf(s)}   \* defect: a replaced socket evicts too
EvictedNever(s) == {}                      \* defect: the entry of a dead socket stays
EvictedBy(s) == {k \in Key : k = KeyOf(s) /\ nodes[k].ws = s}

FailedByLive(s) ==   \* defect: only the live supervisor's closing fails anything
  IF sock[s].role = "supervisor" /\ EvictedBy(s) # {} THEN PendingControls ELSE {}
FailedBy(s) ==
  IF sock[s].machine # NoMachine /\ sock[s].role = "supervisor"
  THEN PendingControls ELSE {}

SocketClosed(s) ==
  LET dropped == IF sock[s].machine = NoMachine THEN {} ELSE RelaysOf(sock[s].machine)
      failed == FailedBy(s)
  IN
  /\ proc # "down"
  /\ \/ sock[s].phase = "closing"
     \/ sock[s].phase \in {"open", "attached"} /\ sock[s].peer # "up"
  /\ sock' = [sock EXCEPT ![s] = [@ EXCEPT !.phase = "closed", !.peer = "gone"]]
  /\ nodes' = [k \in Key |-> IF k \in EvictedBy(s) THEN Absent ELSE nodes[k]]
  /\ relay' = RelaysWithout(dropped)
  /\ fate' = Tell(dropped, "dropped")
  /\ control' = ControlsWithout(failed)
  /\ answer' = Resolve(failed, "failed")
  /\ UNCHANGED <<store, process>>
-------------------------------------------------------------------------------
(* Relayed HTTP requests and browser WebSockets.                           *)

(* relayStream and relayWsOpen: a channel over the console's live socket.    *)
ConnectedOnly(node) == node.ws # NoSocket   \* defect: the status is not looked at
MayRelay(node) == node.ws # NoSocket /\ node.status = "approved"

OpenRelay(c, m, kind) ==
  LET node == nodes[<<m, "console">>] IN
  /\ proc = "up"
  /\ fate[c] = "idle"
  /\ MayRelay(node)
  /\ relay' = [relay EXCEPT ![c] = [kind |-> kind, machine |-> m, via |-> node.ws]]
  /\ fate' = [fate EXCEPT ![c] = "pending"]
  /\ UNCHANGED <<store, process, sock, nodes, controls>>

RelayStream(c, m) == OpenRelay(c, m, "http")
RelayWsOpen(c, m) == OpenRelay(c, m, "ws")

(* The console of the channel's machine says something about the channel:    *)
(* its requests outlive the socket they came on.                            *)
SpeaksAbout(s, c) ==
  /\ Speaks(s)
  /\ sock[s].role = "console" /\ sock[s].machine = relay[c].machine

(* RELAY_END: the first one ends the stream, a late one finds no entry.      *)
RelayEnd(s, c) ==
  /\ SpeaksAbout(s, c) /\ relay[c].kind = "http"
  /\ \/ /\ InRelayMap(c)
        /\ relay' = RelaysWithout({c})
        /\ fate' = Tell({c}, "ended")
     \/ /\ ~InRelayMap(c)
        /\ UNCHANGED relays
  /\ sock' = Heard(s)
  /\ UNCHANGED <<store, process, nodes, controls>>

(* The idle timer of a stream fires.                                        *)
RelayTimeout(c) ==
  /\ proc # "down"
  /\ InRelayMap(c) /\ relay[c].kind = "http"
  /\ relay' = RelaysWithout({c})
  /\ fate' = Tell({c}, "timedout")
  /\ UNCHANGED <<store, process, sock, nodes, controls>>

(* RELAY_WS_CLOSE forwards the upstream's close code to the browser.  1005   *)
(* and 1006 are codes a close event reports and a close frame may not carry: *)
(* the browser's socket throws, the error is swallowed, nobody is told.      *)
RelayWsClose(s, c, sendable) ==
  /\ SpeaksAbout(s, c) /\ relay[c].kind = "ws"
  /\ relay' = RelaysWithout({c})
  /\ fate' = IF InRelayMap(c) /\ sendable THEN Tell({c}, "closed") ELSE fate
  /\ sock' = Heard(s)
  /\ UNCHANGED <<store, process, nodes, controls>>

(* The browser closes its end.                                              *)
BrowserCloses(c) ==
  /\ proc # "down"
  /\ relay[c].kind = "ws" /\ fate[c] = "pending"
  /\ relay' = RelaysWithout({c})
  /\ fate' = Tell({c}, "closed")
  /\ UNCHANGED <<store, process, sock, nodes, controls>>
-------------------------------------------------------------------------------
(* Lifecycle requests to the supervisor.                                   *)

ControlDaemon(x, m) ==
  LET node == nodes[<<m, "supervisor">>] IN
  /\ proc = "up"
  /\ answer[x] = "idle"
  /\ node.ws # NoSocket
  /\ control' = [control EXCEPT ![x] = [machine |-> m, via |-> node.ws]]
  /\ answer' = [answer EXCEPT ![x] = "pending"]
  /\ UNCHANGED <<store, process, sock, nodes, relays>>

(* settle(): an unknown id is ignored.  A success is applied to the live     *)
(* supervisor entry, if there is one by then.                               *)
DaemonResult(s, x, ok, d) ==
  LET k == <<control[x].machine, "supervisor">> IN
  /\ Speaks(s) /\ KeyOf(s) = k
  /\ \/ /\ InControlMap(x)
        /\ control' = ControlsWithout({x})
        /\ answer' = Resolve({x}, IF ok THEN "ok" ELSE "refused")
        /\ nodes' = IF ok /\ Has(k) THEN [nodes EXCEPT ![k].daemon = d] ELSE nodes
     \/ /\ ~InControlMap(x)
        /\ UNCHANGED <<controls, nodes>>
  /\ sock' = Heard(s)
  /\ UNCHANGED <<store, process, relays>>

ControlTimeout(x) ==
  /\ proc # "down"
  /\ InControlMap(x)
  /\ control' = ControlsWithout({x})
  /\ answer' = Resolve({x}, "timedout")
  /\ UNCHANGED <<store, process, sock, nodes, relays>>
-------------------------------------------------------------------------------
(* The gateway process.                                                    *)

(* registry.stop(), on SIGTERM: HTTP callers are told, browser channels are   *)
(* forgotten.                                                               *)
Stop ==
  /\ proc = "up"
  /\ proc' = "stopping"
  /\ sock' = Closing({nodes[k].ws : k \in Key})
  /\ nodes' = [k \in Key |-> Absent]
  /\ control' = ControlsWithout(PendingControls)
  /\ answer' = Resolve(PendingControls, "failed")
  /\ relay' = RelaysWithout(Channel)
  /\ fate' = Tell(StreamsInFlight, "shutdown")
  /\ UNCHANGED <<store, boots>>

(* The process is gone: exit after stop(), or a crash at any point.  Memory  *)
(* and connections go, the store stays.                                     *)
Exit ==
  /\ proc # "down"
  /\ proc' = "down"
  /\ sock' = [s \in Socket |-> IF sock[s].phase = "fresh" THEN sock[s]
                               ELSE [sock[s] EXCEPT !.phase = "closed", !.peer = "gone"]]
  /\ nodes' = [k \in Key |-> Absent]
  /\ relay' = RelaysWithout(Channel)
  /\ fate' = Tell({c \in Channel : fate[c] = "pending"}, "lost")
  /\ control' = ControlsWithout(Control)
  /\ answer' = Resolve(PendingControls, "lost")
  /\ UNCHANGED <<store, boots>>

(* Started again: the seeded codes are upserted with no consumer.           *)
Boot ==
  /\ proc = "down" /\ boots < MaxBoots
  /\ proc' = "up"
  /\ boots' = boots + 1
  /\ code' = [c \in Code |-> IF c \in SeededCode
                             THEN [state |-> "valid", by |-> NoMachine] ELSE code[c]]
  /\ UNCHANGED <<machine, daemonCol, admitted, sock, nodes, relays, controls>>
-------------------------------------------------------------------------------
Next ==
  \/ \E c \in Code : IssuePairingCode(c) \/ PairingCodeExpires(c)
  \/ \E s \in Socket : Connect(s) \/ Vanish(s) \/ RejectOnboarding(s) \/ SocketClosed(s)
  \/ \E s \in Socket, m \in Machine, r \in Role :
       \/ \E c \in Code : RegisterWithCode(s, c, m, r)
       \/ Reconnect(s, m, r)
  \/ \E m \in Machine : ApproveMachine(m) \/ RevokeMachine(m) \/ DeleteMachine(m)
  \/ \E s \in Socket, d \in Reported \cup {"unknown"} : Heartbeat(s, d)
  \/ \E k \in Key : LeaseLapses(k)
  \/ Expire
  \/ \E c \in Channel, m \in Machine : RelayStream(c, m) \/ RelayWsOpen(c, m)
  \/ \E s \in Socket, c \in Channel :
       RelayEnd(s, c) \/ \E sendable \in BOOLEAN : RelayWsClose(s, c, sendable)
  \/ \E c \in Channel : RelayTimeout(c) \/ BrowserCloses(c)
  \/ \E x \in Control, m \in Machine : ControlDaemon(x, m)
  \/ \E s \in Socket, x \in Control, ok \in BOOLEAN, d \in Reported :
       DaemonResult(s, x, ok, d)
  \/ \E x \in Control : ControlTimeout(x)
  \/ Stop \/ Exit \/ Boot

Spec == Init /\ [][Next]_vars

(* Timers fire, and a socket the gateway closed is eventually gone (ws gives  *)
(* the peer 30 s to answer the close frame).  Nothing is assumed of nodes or  *)
(* browsers; a lease is only bound to lapse when nobody can renew it.        *)
NobodyAt(k) == \A s \in Socket : KeyOf(s) = k => sock[s].peer # "up"

Fairness ==
  /\ WF_vars(Expire)
  /\ \A k \in Key : WF_vars(NobodyAt(k) /\ LeaseLapses(k))
  /\ \A s \in Socket : WF_vars(sock[s].phase = "closing" /\ SocketClosed(s))
  /\ \A x \in Control : WF_vars(ControlTimeout(x))

FairSpec == Spec /\ Fairness
-------------------------------------------------------------------------------
(* What the portal shows of a machine's daemon: live from the supervisor, or  *)
(* the stored last state; "running" without a console is still starting.     *)
DaemonView(m) ==
  IF ~Has(<<m, "supervisor">>) THEN daemonCol[m]
  ELSE IF nodes[<<m, "supervisor">>].daemon = "running" /\ ~Has(<<m, "console">>)
       THEN "starting"
       ELSE nodes[<<m, "supervisor">>].daemon

(* Types.  A consumed code names its machine, a stored daemon state is       *)
(* settled.                                                                 *)
TypeOK ==
  /\ machine \in [Machine -> {"none", "pending", "approved", "revoked", "deleted"}]
  /\ daemonCol \in [Machine -> DaemonState \ {"starting"}]
  /\ code \in [Code -> CodeRecord]
  /\ proc \in {"up", "stopping", "down"}
  /\ boots \in 0..MaxBoots
  /\ sock \in [Socket -> SocketRecord]
  /\ nodes \in [Key -> Entry]
  /\ relay \in [Channel -> RelayRecord]
  /\ fate \in [Channel -> RelayAnswer \cup {"idle", "pending"}]
  /\ control \in [Control -> ControlRecord]
  /\ answer \in [Control -> ControlAnswer \cup {"idle", "pending"}]
  /\ admitted \in [Machine -> Code \cup {NoCode}]

(* The live map never names a dead or somebody else's socket: whatever is    *)
(* replaced, expired, revoked or closed, in any order, an entry is a socket   *)
(* that authenticated as that machine and role and that is still open.       *)
LiveEntryIsAttached ==
  \A k \in Key : Has(k) =>
    /\ sock[nodes[k].ws].phase = "attached"
    /\ KeyOf(nodes[k].ws) = k

(* Relays are admitted by the status copied into the entry: the copy and the *)
(* store's row never disagree while the node is connected.                  *)
AdmissionMatchesStore ==
  \A k \in Key : Has(k) => nodes[k].status = machine[k[1]]

(* A channel is opened only to a machine whose row is approved right then.   *)
OpensRelay(c) == fate[c] = "idle" /\ fate'[c] = "pending"
RelayOnlyApproved ==
  [][\A c \in Channel : OpensRelay(c) => machine[relay'[c].machine] = "approved"]_vars

(* "Fail every in-flight relay owned by a node that just disconnected": no    *)
(* channel stays in the maps after the socket it was opened on has closed.   *)
NoRelayOutlivesItsSocket ==
  \A c \in Channel : InRelayMap(c) =>
    sock[relay[c].via].phase \in {"attached", "closing"}

(* No lifecycle request waits for a supervisor whose socket has closed, not   *)
(* even when that socket had been replaced before it closed.                *)
NoControlOutlivesItsSocket ==
  \A x \in Control : InControlMap(x) =>
    sock[control[x].via].phase \in {"attached", "closing"}

(* Whoever waits on an HTTP relay or a lifecycle request is still in the map  *)
(* that will answer: nobody is forgotten, whatever ended the connection.     *)
CallersAreNeverForgotten ==
  /\ \A c \in Channel : relay[c].kind = "http" /\ fate[c] = "pending" => InRelayMap(c)
  /\ \A x \in Control : answer[x] = "pending" => InControlMap(x)

(* A late 'close' of a replaced socket leaves the fresh entry alone.         *)
ClosesNow(s) == sock[s].phase # "closed" /\ sock'[s].phase = "closed"
StaleCloseKeepsFresh ==
  [][\A s \in Socket, k \in Key :
       ClosesNow(s) /\ proc' = proc /\ nodes[k].ws \notin {s, NoSocket}
         => nodes'[k] = nodes[k]]_vars

(* A pairing code is one-time: no two machines were admitted with it.        *)
OneMachinePerCode ==
  \A m1, m2 \in Machine :
    m1 # m2 /\ admitted[m1] # NoCode => admitted[m1] # admitted[m2]

(* The daemon-control registry implements the request life cycle, progress   *)
(* included: every request is answered exactly once.                        *)
ControlLifecycle == INSTANCE RequestLifecycle WITH
  Request <- Control, Answer <- ControlAnswer, outcome <- answer
ControlsSettleOnce == ControlLifecycle!Spec

(* A relay's caller is answered at most once: a late RELAY_END, a timeout, a  *)
(* disconnect and a shutdown never answer the same channel twice.           *)
RelayLifecycle == INSTANCE RequestLifecycle WITH
  Request <- Channel, Answer <- RelayAnswer, outcome <- fate
RelaysSettleOnce == RelayLifecycle!SafeSpec

(* A node that vanished silently leaves the live map, although frames it had  *)
(* in transit may renew its lease.                                          *)
VanishedNodeLeaves ==
  \A k \in Key :
    (Has(k) /\ NobodyAt(k)) ~> (~Has(k) \/ ~NobodyAt(k) \/ proc # "up")

(* A channel whose machine has nobody at its console any more does not stay   *)
(* silent: it ends, unless the console comes back.                          *)
ConsoleOf(c) == <<relay[c].machine, "console">>
SilentRelayEnds ==
  \A c \in Channel :
    (InRelayMap(c) /\ NobodyAt(ConsoleOf(c)))
      ~> (~InRelayMap(c) \/ ~NobodyAt(ConsoleOf(c)) \/ proc # "up")

(* The portal is not frozen at "starting" by a supervisor that went away while *)
(* its daemon was starting: the lease ends, and the stored state is settled.  *)
PortalThaws ==
  \A m \in Machine : LET k == <<m, "supervisor">> IN
    (DaemonView(m) = "starting" /\ NobodyAt(k))
      ~> (DaemonView(m) # "starting" \/ ~NobodyAt(k) \/ proc # "up")
-------------------------------------------------------------------------------
(* What the comments of nodes.ts say and the code does not do.              *)

(* "Fail every in-flight relay owned by a node that just disconnected": a     *)
(* relay is dropped as disconnected only when its own socket is closed.      *)
DroppedOnlyWithItsNode ==
  [][\A c \in Channel :
       InRelayMap(c) /\ fate'[c] = "dropped" => sock'[relay[c].via].phase = "closed"]_vars

(* "settles [...] when the supervisor disconnects": a request fails only when *)
(* the supervisor it was sent to is disconnected.                           *)
FailedOnlyWithItsSupervisor ==
  [][\A x \in Control :
       InControlMap(x) /\ answer'[x] = "failed"
         => sock'[control[x].via].phase \in {"closing", "closed"}]_vars

(* Browser channels are closed rather than left waiting on a silent channel:  *)
(* while the gateway runs, an open browser socket has a channel.            *)
BrowserIsNeverForgotten ==
  \A c \in Channel :
    proc = "up" /\ relay[c].kind = "ws" /\ fate[c] = "pending" => InRelayMap(c)
===============================================================================
