-------------------------- MODULE NodeRegistry_proofs --------------------------
(* Theorems about NodeRegistry, for every set of machines, sockets, codes,    *)
(* channels and controls.                                                   *)
EXTENDS NodeRegistry, TLAPS

(* The shapes the helpers of the module keep: closing sockets, taking entries *)
(* out of a map and answering callers never leave the types.                 *)
LEMMA ClosingType ==
  ASSUME sock \in [Socket -> SocketRecord], NEW S
  PROVE  Closing(S) \in [Socket -> SocketRecord]
BY DEF Closing, SocketRecord

LEMMA HeardType ==
  ASSUME sock \in [Socket -> SocketRecord], NEW s \in Socket
  PROVE  Heard(s) \in [Socket -> SocketRecord]
BY DEF Heard, SocketRecord

(* A record that is changed in a field stays a record.                       *)
LEMMA SocketFields ==
  ASSUME NEW r \in SocketRecord
  PROVE  /\ \A phase \in {"fresh", "open", "attached", "closing", "closed"} :
              [r EXCEPT !.phase = phase] \in SocketRecord
         /\ \A peer \in {"up", "tail", "gone"} : [r EXCEPT !.peer = peer] \in SocketRecord
         /\ [r EXCEPT !.phase = "closed", !.peer = "gone"] \in SocketRecord
BY DEF SocketRecord

LEMMA EntryFields ==
  ASSUME NEW r \in Entry
  PROVE  /\ [r EXCEPT !.lapsed = TRUE] \in Entry
         /\ \A daemon \in DaemonState : [r EXCEPT !.lapsed = FALSE, !.daemon = daemon] \in Entry
BY DEF Entry

LEMMA AbsentType == Absent \in Entry
BY DEF Absent, Entry, DaemonState

LEMMA RelaysWithoutType ==
  ASSUME relay \in [Channel -> RelayRecord], NEW C
  PROVE  RelaysWithout(C) \in [Channel -> RelayRecord]
BY DEF RelaysWithout, RelayRecord

LEMMA TellType ==
  ASSUME fate \in [Channel -> RelayAnswer \cup {"idle", "pending"}],
         NEW C, NEW what \in RelayAnswer
  PROVE  Tell(C, what) \in [Channel -> RelayAnswer \cup {"idle", "pending"}]
BY DEF Tell

LEMMA ControlsWithoutType ==
  ASSUME control \in [Control -> ControlRecord], NEW X
  PROVE  ControlsWithout(X) \in [Control -> ControlRecord]
BY DEF ControlsWithout, ControlRecord

LEMMA ResolveType ==
  ASSUME answer \in [Control -> ControlAnswer \cup {"idle", "pending"}],
         NEW X, NEW what \in ControlAnswer
  PROVE  Resolve(X, what) \in [Control -> ControlAnswer \cup {"idle", "pending"}]
BY DEF Resolve

LEMMA TypeStep == TypeOK /\ [Next]_vars => TypeOK'
<1> SUFFICES ASSUME TypeOK, [Next]_vars PROVE TypeOK'
  OBVIOUS
<1> USE NobodyIsReal, SeededAreCodes, ReportedAreStates, BootsBounded DEF TypeOK
<1>1. ASSUME NEW c \in Code, IssuePairingCode(c) PROVE TypeOK'
  BY <1>1 DEF IssuePairingCode, process, relays, controls, CodeRecord
<1>2. ASSUME NEW c \in Code, PairingCodeExpires(c) PROVE TypeOK'
  BY <1>2 DEF PairingCodeExpires, process, relays, controls, CodeRecord
<1>3. ASSUME NEW s \in Socket, Connect(s) PROVE TypeOK'
  <2>1. [sock[s] EXCEPT !.phase = "open"] \in SocketRecord
    BY SocketFields
  <2>2. sock' \in [Socket -> SocketRecord]
    BY <1>3, <2>1 DEF Connect
  <2>3. QED
    BY <1>3, <2>2 DEF Connect, process, relays, controls, store
<1>4. ASSUME NEW s \in Socket, Vanish(s) PROVE TypeOK'
  <2>1. [sock[s] EXCEPT !.peer = "tail"] \in SocketRecord
    BY SocketFields
  <2>2. sock' \in [Socket -> SocketRecord]
    BY <1>4, <2>1 DEF Vanish
  <2>3. QED
    BY <1>4, <2>2 DEF Vanish, process, relays, controls, store
<1>5. ASSUME NEW s \in Socket, RejectOnboarding(s) PROVE TypeOK'
  <2>1. [Heard(s)[s] EXCEPT !.phase = "closing"] \in SocketRecord
    <3>1. Heard(s)[s] \in SocketRecord
      BY HeardType
    <3>2. QED
      BY <3>1, SocketFields
  <2>2. sock' \in [Socket -> SocketRecord]
    BY <1>5, <2>1 DEF RejectOnboarding
  <2>3. QED
    BY <1>5, <2>2 DEF RejectOnboarding, process, relays, controls, store
<1>6. ASSUME NEW s \in Socket, SocketClosed(s) PROVE TypeOK'
  <2>1. sock' \in [Socket -> SocketRecord]
    <3>1. [sock[s] EXCEPT !.phase = "closed", !.peer = "gone"] \in SocketRecord
      BY SocketFields
    <3> QED
      BY <1>6, <3>1 DEF SocketClosed
  <2>2. nodes' \in [Key -> Entry]
    BY <1>6, AbsentType DEF SocketClosed
  <2>3. relay' \in [Channel -> RelayRecord] /\ control' \in [Control -> ControlRecord]
    BY <1>6, RelaysWithoutType, ControlsWithoutType DEF SocketClosed
  <2>4. fate' \in [Channel -> RelayAnswer \cup {"idle", "pending"}]
    BY <1>6, TellType DEF SocketClosed, RelayAnswer
  <2>5. answer' \in [Control -> ControlAnswer \cup {"idle", "pending"}]
    BY <1>6, ResolveType DEF SocketClosed, ControlAnswer
  <2>6. QED
    BY <1>6, <2>1, <2>2, <2>3, <2>4, <2>5 DEF SocketClosed, process, store
<1>7. ASSUME NEW s \in Socket, NEW m \in Machine, NEW r \in Role, NEW status, Attach(s, m, r, status),
             status \in {"pending", "approved"}
      PROVE sock' \in [Socket -> SocketRecord] /\ nodes' \in [Key -> Entry]
  BY <1>7 DEF Attach, SocketRecord, Entry, DaemonState, Key
<1>8. ASSUME NEW s \in Socket, NEW m \in Machine, NEW r \in Role, NEW c \in Code,
             RegisterWithCode(s, c, m, r) PROVE TypeOK'
  BY <1>7, <1>8 DEF RegisterWithCode, process, relays, controls, CodeRecord
<1>9. ASSUME NEW s \in Socket, NEW m \in Machine, NEW r \in Role, Reconnect(s, m, r)
      PROVE TypeOK'
  BY <1>7, <1>9 DEF Reconnect, MayReconnect, process, relays, controls, store
<1>10. ASSUME NEW m \in Machine, ApproveMachine(m) PROVE TypeOK'
  BY <1>10 DEF ApproveMachine, process, relays, controls, Entry
<1>11. ASSUME NEW m \in Machine, Disconnect(m)
       PROVE /\ sock' \in [Socket -> SocketRecord] /\ nodes' \in [Key -> Entry]
             /\ control' \in [Control -> ControlRecord]
             /\ answer' \in [Control -> ControlAnswer \cup {"idle", "pending"}]
  BY <1>11, ClosingType, ControlsWithoutType, ResolveType, AbsentType
     DEF Disconnect, ControlAnswer
<1>12. ASSUME NEW m \in Machine, RevokeMachine(m) PROVE TypeOK'
  BY <1>11, <1>12 DEF RevokeMachine, process, relays
<1>13. ASSUME NEW m \in Machine, DeleteMachine(m) PROVE TypeOK'
  BY <1>11, <1>13 DEF DeleteMachine, process, relays
<1>14. ASSUME NEW s \in Socket, NEW d \in Reported \cup {"unknown"}, Heartbeat(s, d)
       PROVE TypeOK'
  <2> DEFINE k == KeyOf(s)
  <2>1. d \in DaemonState
    BY DEF DaemonState
  <2>2. Heard(s) \in [Socket -> SocketRecord]
    BY HeardType
  <2>3. sock' \in [Socket -> SocketRecord]
    <3>1. [Heard(s)[s] EXCEPT !.phase = "closing"] \in SocketRecord
      BY <2>2, SocketFields
    <3>2. QED
      BY <1>14, <2>2, <3>1 DEF Heartbeat
  <2>4. nodes' \in [Key -> Entry]
    <3>1. k \in Key => [nodes[k] EXCEPT !.lapsed = FALSE, !.daemon = d] \in Entry
      BY <2>1, EntryFields
    <3>2. QED
      BY <1>14, <3>1 DEF Heartbeat
  <2>5. daemonCol' \in [Machine -> DaemonState \ {"starting"}]
    BY <1>14, <2>1 DEF Heartbeat, RecordHeartbeat
  <2>6. QED
    BY <1>14, <2>3, <2>4, <2>5 DEF Heartbeat, process, relays, controls
<1>15. ASSUME NEW k \in Key, LeaseLapses(k) PROVE TypeOK'
  <2>1. [nodes[k] EXCEPT !.lapsed = TRUE] \in Entry
    <3>1. nodes[k] \in Entry
      OBVIOUS
    <3>2. QED
      BY <3>1, EntryFields
  <2>2. nodes' \in [Key -> Entry]
    BY <1>15, <2>1 DEF LeaseLapses
  <2>3. QED
    BY <1>15, <2>2 DEF LeaseLapses, process, relays, controls, store
<1>16. ASSUME Expire PROVE TypeOK'
  BY <1>16, ClosingType, AbsentType DEF Expire, process, relays, controls, store
<1>17. ASSUME NEW c \in Channel, NEW m \in Machine, NEW kind \in {"http", "ws"},
              OpenRelay(c, m, kind) PROVE TypeOK'
  <2>1. nodes[<<m, "console">>].ws \in Socket \cup {NoSocket}
    BY DEF Entry, Key, Role
  <2>2. relay' \in [Channel -> RelayRecord]
    BY <1>17, <2>1 DEF OpenRelay, RelayRecord
  <2>3. QED
    BY <1>17, <2>2 DEF OpenRelay, process, controls, store
<1>18. ASSUME NEW s \in Socket, NEW c \in Channel, RelayEnd(s, c) PROVE TypeOK'
  BY <1>18, HeardType, RelaysWithoutType, TellType
     DEF RelayEnd, process, controls, store, relays, RelayAnswer
<1>19. ASSUME NEW s \in Socket, NEW c \in Channel, NEW b \in BOOLEAN, RelayWsClose(s, c, b)
       PROVE TypeOK'
  BY <1>19, HeardType, RelaysWithoutType, TellType
     DEF RelayWsClose, process, controls, store, RelayAnswer
<1>20. ASSUME NEW c \in Channel, RelayTimeout(c) PROVE TypeOK'
  BY <1>20, RelaysWithoutType, TellType DEF RelayTimeout, process, controls, store, RelayAnswer
<1>21. ASSUME NEW c \in Channel, BrowserCloses(c) PROVE TypeOK'
  BY <1>21, RelaysWithoutType, TellType DEF BrowserCloses, process, controls, store, RelayAnswer
<1>22. ASSUME NEW x \in Control, NEW m \in Machine, ControlDaemon(x, m) PROVE TypeOK'
  <2>1. nodes[<<m, "supervisor">>].ws \in Socket \cup {NoSocket}
    BY DEF Entry, Key, Role
  <2>2. control' \in [Control -> ControlRecord]
    BY <1>22, <2>1 DEF ControlDaemon, ControlRecord
  <2>3. QED
    BY <1>22, <2>2 DEF ControlDaemon, process, relays, store
<1>23. ASSUME NEW s \in Socket, NEW x \in Control, NEW ok \in BOOLEAN, NEW d \in Reported,
              DaemonResult(s, x, ok, d) PROVE TypeOK'
  <2>1. control' \in [Control -> ControlRecord] /\ sock' \in [Socket -> SocketRecord]
    BY <1>23, ControlsWithoutType, HeardType DEF DaemonResult, controls
  <2>2. answer' \in [Control -> ControlAnswer \cup {"idle", "pending"}]
    BY <1>23, ResolveType DEF DaemonResult, controls, ControlAnswer
  <2>3. nodes' \in [Key -> Entry]
    BY <1>23 DEF DaemonResult, Entry
  <2>4. QED
    BY <1>23, <2>1, <2>2, <2>3 DEF DaemonResult, process, relays, store
<1>24. ASSUME NEW x \in Control, ControlTimeout(x) PROVE TypeOK'
  BY <1>24, ControlsWithoutType, ResolveType
     DEF ControlTimeout, process, relays, store, ControlAnswer
<1>25. ASSUME Stop PROVE TypeOK'
  BY <1>25, ClosingType, RelaysWithoutType, TellType, ControlsWithoutType, ResolveType,
     AbsentType DEF Stop, store, RelayAnswer, ControlAnswer
<1>26. ASSUME Exit PROVE TypeOK'
  <2>1. sock' \in [Socket -> SocketRecord]
    <3>1. \A s \in Socket : [sock[s] EXCEPT !.phase = "closed", !.peer = "gone"] \in SocketRecord
      BY SocketFields
    <3> QED
      BY <1>26, <3>1 DEF Exit
  <2>2. relay' \in [Channel -> RelayRecord] /\ control' \in [Control -> ControlRecord]
    BY <1>26, RelaysWithoutType, ControlsWithoutType DEF Exit
  <2>3. fate' \in [Channel -> RelayAnswer \cup {"idle", "pending"}]
    BY <1>26, TellType DEF Exit, RelayAnswer
  <2>4. answer' \in [Control -> ControlAnswer \cup {"idle", "pending"}]
    BY <1>26, ResolveType DEF Exit, ControlAnswer
  <2>5. QED
    BY <1>26, <2>1, <2>2, <2>3, <2>4, AbsentType DEF Exit, store
<1>27. ASSUME Boot PROVE TypeOK'
  BY <1>27 DEF Boot, relays, controls, CodeRecord
<1>28. CASE UNCHANGED vars
  BY <1>28 DEF vars
<1>29. QED
  BY <1>1, <1>2, <1>3, <1>4, <1>5, <1>6, <1>8, <1>9, <1>10, <1>12, <1>13, <1>14, <1>15,
     <1>16, <1>17, <1>18, <1>19, <1>20, <1>21, <1>22, <1>23, <1>24, <1>25, <1>26, <1>27,
     <1>28 DEF Next, RelayStream, RelayWsOpen

LEMMA TypeInit == Init => TypeOK
BY NobodyIsReal, BootsBounded, AbsentType
   DEF Init, TypeOK, NoRelay, NoControl, DaemonState, Role, SocketRecord, CodeRecord,
       RelayRecord, ControlRecord

(* Every state of every behaviour is well typed.                            *)
THEOREM TypeCorrect == Spec => []TypeOK
BY TypeInit, TypeStep, PTL DEF Spec
-------------------------------------------------------------------------------
(* The live map and the store agree.                                        *)

(* A machine in the live map was admitted; without this a fresh registration *)
(* could meet an entry of its own.                                          *)
EntryIsAdmitted == \A k \in Key : Has(k) => nodes[k].status \in {"pending", "approved"}

Coherent == TypeOK /\ LiveEntryIsAttached /\ EntryIsAdmitted /\ AdmissionMatchesStore

LEMMA ClosingKeeps ==
  ASSUME sock \in [Socket -> SocketRecord], NEW S, NEW t \in Socket
  PROVE  /\ Closing(S)[t].machine = sock[t].machine
         /\ Closing(S)[t].role = sock[t].role
         /\ t \notin S => Closing(S)[t].phase = sock[t].phase
         /\ sock[t].phase \in {"attached", "closing"}
              => Closing(S)[t].phase \in {"attached", "closing"}
         /\ sock[t].phase # "closed" => Closing(S)[t].phase # "closed"
BY DEF Closing, SocketRecord

LEMMA HeardKeeps ==
  ASSUME sock \in [Socket -> SocketRecord], NEW s \in Socket, NEW t \in Socket
  PROVE  /\ Heard(s)[t].machine = sock[t].machine
         /\ Heard(s)[t].role = sock[t].role
         /\ Heard(s)[t].phase = sock[t].phase
BY DEF Heard, SocketRecord

LEMMA CoherentStep == Coherent /\ [Next]_vars => Coherent'
<1> SUFFICES ASSUME Coherent, [Next]_vars
             PROVE  LiveEntryIsAttached' /\ EntryIsAdmitted' /\ AdmissionMatchesStore'
  BY TypeStep DEF Coherent
<1> USE NobodyIsReal
<1> DEFINE Goal == LiveEntryIsAttached' /\ EntryIsAdmitted' /\ AdmissionMatchesStore'
<1>0. /\ sock \in [Socket -> SocketRecord] /\ nodes \in [Key -> Entry]
      /\ machine \in [Machine -> {"none", "pending", "approved", "revoked", "deleted"}]
      /\ \A k \in Key : Has(k) => /\ nodes[k].ws \in Socket
                                  /\ sock[nodes[k].ws].phase = "attached"
                                  /\ KeyOf(nodes[k].ws) = k
                                  /\ nodes[k].status \in {"pending", "approved"}
                                  /\ nodes[k].status = machine[k[1]]
  BY DEF Coherent, TypeOK, LiveEntryIsAttached, EntryIsAdmitted, AdmissionMatchesStore, Has,
         Entry
(* Nothing of the map or of the store changes, and no live socket is touched. *)
<1>a. ASSUME UNCHANGED <<nodes, machine>>,
             \A t \in Socket : sock[t].phase = "attached" =>
                /\ sock'[t].phase = "attached" /\ sock'[t].machine = sock[t].machine
                /\ sock'[t].role = sock[t].role
      PROVE  Goal
  BY <1>0, <1>a DEF LiveEntryIsAttached, EntryIsAdmitted, AdmissionMatchesStore, Has, KeyOf
(* Some entries leave the map, and only their sockets are touched.           *)
<1>b. ASSUME NEW K, nodes' = [k \in Key |-> IF k \in K THEN Absent ELSE nodes[k]],
             \A k \in Key : Has(k) /\ k \notin K => machine'[k[1]] = machine[k[1]],
             \A k \in Key : Has(k) /\ k \notin K =>
                /\ sock'[nodes[k].ws].phase = "attached"
                /\ sock'[nodes[k].ws].machine = sock[nodes[k].ws].machine
                /\ sock'[nodes[k].ws].role = sock[nodes[k].ws].role
      PROVE  Goal
  <2>1. \A k \in Key : Has(k)' => k \notin K /\ Has(k) /\ nodes'[k] = nodes[k]
    BY <1>b DEF Has, Absent
  <2>2. QED
    BY <1>0, <1>b, <2>1 DEF LiveEntryIsAttached, EntryIsAdmitted, AdmissionMatchesStore, KeyOf
(* A socket attaches.                                                       *)
<1>c. ASSUME NEW s \in Socket, NEW m \in Machine, NEW r \in Role, NEW status \in {"pending", "approved"},
             sock[s].phase = "open", Attach(s, m, r, status), machine'[m] = status,
             \A k \in Key : Has(k) /\ k # <<m, r>> => machine'[k[1]] = machine[k[1]]
      PROVE  Goal
  <2>1. sock'[s].phase = "attached" /\ sock'[s].machine = m /\ sock'[s].role = r
    BY <1>0, <1>c DEF Attach
  <2>2. \A t \in Socket : t # s => sock'[t] = sock[t]
    BY <1>0, <1>c DEF Attach
  <2>3. <<m, r>> \in Key /\ nodes'[<<m, r>>].ws = s /\ nodes'[<<m, r>>].status = status
    BY <1>0, <1>c DEF Attach, Key
  <2>4. \A k \in Key : k # <<m, r>> => nodes'[k] = nodes[k]
    BY <1>0, <1>c DEF Attach
  <2>5. \A k \in Key : Has(k) => nodes[k].ws # s
    BY <1>0, <1>c
  <2>6. LiveEntryIsAttached'
    BY <1>0, <2>1, <2>2, <2>3, <2>4, <2>5 DEF LiveEntryIsAttached, Has, KeyOf
  <2>7. EntryIsAdmitted'
    BY <1>0, <2>3, <2>4 DEF EntryIsAdmitted, Has
  <2>8. AdmissionMatchesStore'
    BY <1>0, <1>c, <2>3, <2>4 DEF AdmissionMatchesStore, Has
  <2>9. QED
    BY <2>6, <2>7, <2>8
<1>1. ASSUME UNCHANGED <<machine, sock, nodes>> PROVE Goal
  BY <1>a, <1>1
<1>2. ASSUME NEW s \in Socket, Connect(s) \/ Vanish(s) \/ RejectOnboarding(s) PROVE Goal
  <2>1. \A t \in Socket : sock[t].phase = "attached" =>
          /\ sock'[t].phase = "attached" /\ sock'[t].machine = sock[t].machine
          /\ sock'[t].role = sock[t].role
    BY <1>0, <1>2 DEF Connect, Vanish, RejectOnboarding, Onboarding, SocketRecord
  <2>2. QED
    BY <1>2, <1>a, <2>1 DEF Connect, Vanish, RejectOnboarding, store
<1>3. ASSUME NEW s \in Socket, SocketClosed(s) PROVE Goal
  <2>1. \A k \in Key : Has(k) /\ k \notin EvictedBy(s) => nodes[k].ws # s
    BY <1>0 DEF EvictedBy
  <2>2. \A t \in Socket : t # s => sock'[t] = sock[t]
    BY <1>0, <1>3 DEF SocketClosed
  <2>3. nodes' = [k \in Key |-> IF k \in EvictedBy(s) THEN Absent ELSE nodes[k]]
        /\ machine' = machine
    BY <1>3 DEF SocketClosed, store
  <2>4. QED
    BY <1>0, <1>b, <2>1, <2>2, <2>3
<1>4. ASSUME NEW s \in Socket, NEW m \in Machine, NEW r \in Role, NEW c \in Code,
             RegisterWithCode(s, c, m, r) PROVE Goal
  <2>1. \A k \in Key : Has(k) => k[1] # m
    BY <1>0, <1>4 DEF RegisterWithCode
  <2>2. \A k \in Key : Has(k) => machine'[k[1]] = machine[k[1]]
    BY <1>0, <1>4, <2>1 DEF RegisterWithCode
  <2>3. machine'[m] = "pending" /\ Attach(s, m, r, "pending") /\ sock[s].phase = "open"
    BY <1>0, <1>4 DEF RegisterWithCode, Onboarding
  <2>4. QED
    BY <1>c, <2>2, <2>3
<1>5. ASSUME NEW s \in Socket, NEW m \in Machine, NEW r \in Role, Reconnect(s, m, r)
      PROVE Goal
  <2>1. machine[m] \in {"pending", "approved"} /\ machine' = machine
    BY <1>5 DEF Reconnect, MayReconnect, store
  <2>2. Attach(s, m, r, machine[m]) /\ sock[s].phase = "open"
    BY <1>5 DEF Reconnect, Onboarding
  <2>3. QED
    BY <1>c, <2>1, <2>2
<1>6. ASSUME NEW m \in Machine, ApproveMachine(m) PROVE Goal
  <2>1. \A k \in Key : Has(k)' = Has(k) /\ nodes'[k].ws = nodes[k].ws
    BY <1>0, <1>6 DEF ApproveMachine, Has, Entry
  <2>2. \A k \in Key : Has(k) /\ k[1] = m => nodes'[k].status = "approved"
    BY <1>0, <1>6 DEF ApproveMachine, EntriesOf, Entry
  <2>3. \A k \in Key : k[1] # m => nodes'[k].status = nodes[k].status
    BY <1>0, <1>6 DEF ApproveMachine, EntriesOf
  <2>4. machine'[m] = "approved" /\ \A n \in Machine : n # m => machine'[n] = machine[n]
    BY <1>0, <1>6 DEF ApproveMachine
  <2>5. \A k \in Key : k[1] \in Machine
    BY DEF Key
  <2>6. sock' = sock
    BY <1>6 DEF ApproveMachine
  <2>7. QED
    BY <1>0, <2>1, <2>2, <2>3, <2>4, <2>5, <2>6
       DEF LiveEntryIsAttached, EntryIsAdmitted, AdmissionMatchesStore, KeyOf
(* Entries leave the map because the gateway closes their sockets.           *)
<1>d. ASSUME NEW K \in SUBSET Key, \A k \in K : Has(k) \/ nodes[k].ws = NoSocket,
             nodes' = [k \in Key |-> IF k \in K THEN Absent ELSE nodes[k]],
             sock' = Closing({nodes[k].ws : k \in K}),
             \A k \in Key : Has(k) /\ k \notin K => machine'[k[1]] = machine[k[1]]
      PROVE  Goal
  <2>1. \A k \in Key : Has(k) /\ k \notin K => nodes[k].ws \notin {nodes[j].ws : j \in K}
    BY <1>0, <1>d DEF Has
  <2>2. \A k \in Key : Has(k) /\ k \notin K =>
          /\ sock'[nodes[k].ws].phase = "attached"
          /\ sock'[nodes[k].ws].machine = sock[nodes[k].ws].machine
          /\ sock'[nodes[k].ws].role = sock[nodes[k].ws].role
    BY <1>0, <1>d, <2>1, ClosingKeeps
  <2>3. QED
    BY <1>b, <1>d, <2>2
<1>7. ASSUME NEW m \in Machine, RevokeMachine(m) \/ DeleteMachine(m) PROVE Goal
  <2>1. /\ sock' = Closing({nodes[k].ws : k \in EntriesOf(m)})
        /\ nodes' = [k \in Key |-> IF k \in EntriesOf(m) THEN Absent ELSE nodes[k]]
    BY <1>7 DEF RevokeMachine, DeleteMachine, Disconnect
  <2>2. \A n \in Machine : n # m => machine'[n] = machine[n]
    BY <1>0, <1>7 DEF RevokeMachine, DeleteMachine
  <2>3. \A k \in Key : Has(k) /\ k \notin EntriesOf(m) => machine'[k[1]] = machine[k[1]]
    BY <2>2 DEF EntriesOf, Key
  <2>4. EntriesOf(m) \in SUBSET Key /\ \A k \in EntriesOf(m) : Has(k)
    BY DEF EntriesOf
  <2>5. QED
    BY <1>d, <2>1, <2>3, <2>4
<1>8. ASSUME NEW s \in Socket, NEW d \in Reported \cup {"unknown"}, Heartbeat(s, d) PROVE Goal
  <2>1. CASE Has(KeyOf(s))
    <3>1. \A t \in Socket : /\ sock'[t].phase = sock[t].phase
                            /\ sock'[t].machine = sock[t].machine
                            /\ sock'[t].role = sock[t].role
      BY <1>0, <1>8, <2>1, HeardKeeps DEF Heartbeat
    <3>2. \A k \in Key : nodes'[k].ws = nodes[k].ws /\ nodes'[k].status = nodes[k].status
      <4> DEFINE e == [nodes[KeyOf(s)] EXCEPT !.lapsed = FALSE, !.daemon = d]
      <4>1. nodes' = [nodes EXCEPT ![KeyOf(s)] = e]
        BY <1>8, <2>1 DEF Heartbeat
      <4>2. KeyOf(s) \in Key =>
              e.ws = nodes[KeyOf(s)].ws /\ e.status = nodes[KeyOf(s)].status
        BY <1>0 DEF Entry
      <4>3. QED
        BY <1>0, <4>1, <4>2
    <3>3. machine' = machine
      BY <1>8 DEF Heartbeat
    <3>4. QED
      BY <1>0, <3>1, <3>2, <3>3
         DEF LiveEntryIsAttached, EntryIsAdmitted, AdmissionMatchesStore, Has, KeyOf
  <2>2. CASE ~Has(KeyOf(s))
    <3>1. nodes' = nodes /\ machine' = machine
      BY <1>8, <2>2 DEF Heartbeat
    <3>2. \A t \in Socket : t # s => sock'[t] = sock[t]
      BY <1>0, <1>8, <2>2 DEF Heartbeat
    <3>3. \A k \in Key : Has(k) => nodes[k].ws # s
      BY <1>0, <2>2
    <3>4. QED
      BY <1>0, <3>1, <3>2, <3>3
         DEF LiveEntryIsAttached, EntryIsAdmitted, AdmissionMatchesStore, Has, KeyOf
  <2>3. QED
    BY <2>1, <2>2
<1>9. ASSUME NEW k \in Key, LeaseLapses(k) PROVE Goal
  <2>1. \A j \in Key : nodes'[j].ws = nodes[j].ws /\ nodes'[j].status = nodes[j].status
    BY <1>0, <1>9 DEF LeaseLapses, Entry
  <2>2. UNCHANGED <<machine, sock>>
    BY <1>9 DEF LeaseLapses, store
  <2>3. QED
    BY <1>0, <2>1, <2>2
       DEF LiveEntryIsAttached, EntryIsAdmitted, AdmissionMatchesStore, Has, KeyOf
<1>10. ASSUME Expire PROVE Goal
  <2>1. Lapsed \in SUBSET Key /\ \A k \in Lapsed : Has(k)
    BY DEF Lapsed
  <2>2. /\ sock' = Closing({nodes[k].ws : k \in Lapsed}) /\ machine' = machine
        /\ nodes' = [k \in Key |-> IF k \in Lapsed THEN Absent ELSE nodes[k]]
    BY <1>10 DEF Expire, store
  <2>3. QED
    BY <1>d, <2>1, <2>2
<1>11. ASSUME NEW s \in Socket, sock' = Heard(s), UNCHANGED <<machine, nodes>> PROVE Goal
  BY <1>0, <1>a, <1>11, HeardKeeps
<1>12. ASSUME NEW s \in Socket, NEW x \in Control, NEW ok \in BOOLEAN, NEW d \in Reported,
              DaemonResult(s, x, ok, d) PROVE Goal
  <2>1. \A t \in Socket : /\ sock'[t].phase = sock[t].phase
                          /\ sock'[t].machine = sock[t].machine
                          /\ sock'[t].role = sock[t].role
    BY <1>0, <1>12, HeardKeeps DEF DaemonResult
  <2>2. \A k \in Key : nodes'[k].ws = nodes[k].ws /\ nodes'[k].status = nodes[k].status
    BY <1>0, <1>12 DEF DaemonResult, Entry
  <2>3. machine' = machine
    BY <1>12 DEF DaemonResult, store
  <2>4. QED
    BY <1>0, <2>1, <2>2, <2>3
       DEF LiveEntryIsAttached, EntryIsAdmitted, AdmissionMatchesStore, Has, KeyOf
<1>13. ASSUME Stop \/ Exit PROVE Goal
  <2>1. nodes' = [k \in Key |-> Absent]
    BY <1>13 DEF Stop, Exit
  <2>2. \A k \in Key : ~Has(k)'
    BY <2>1 DEF Has, Absent
  <2>3. QED
    BY <2>2 DEF LiveEntryIsAttached, EntryIsAdmitted, AdmissionMatchesStore
<1>14. QED
  <2>1. CASE \E c \in Code : IssuePairingCode(c) \/ PairingCodeExpires(c)
    BY <1>1, <2>1 DEF IssuePairingCode, PairingCodeExpires
  <2>2. CASE \E c \in Channel, m \in Machine : RelayStream(c, m) \/ RelayWsOpen(c, m)
    BY <1>1, <2>2 DEF RelayStream, RelayWsOpen, OpenRelay, store
  <2>3. CASE \E c \in Channel : RelayTimeout(c) \/ BrowserCloses(c)
    BY <1>1, <2>3 DEF RelayTimeout, BrowserCloses, store
  <2>4. CASE \E x \in Control : ControlTimeout(x) \/ \E m \in Machine : ControlDaemon(x, m)
    BY <1>1, <2>4 DEF ControlTimeout, ControlDaemon, store
  <2>5. CASE Boot \/ UNCHANGED vars
    BY <1>1, <2>5 DEF Boot, vars
  <2>6. CASE \E s \in Socket, c \in Channel :
               RelayEnd(s, c) \/ \E b \in BOOLEAN : RelayWsClose(s, c, b)
    BY <1>11, <2>6 DEF RelayEnd, RelayWsClose, store
  <2>7. QED
    BY <1>2, <1>3, <1>4, <1>5, <1>6, <1>7, <1>8, <1>9, <1>10, <1>12, <1>13,
       <2>1, <2>2, <2>3, <2>4, <2>5, <2>6 DEF Next

LEMMA CoherentInit == Init => Coherent
<1>1. Init => TypeOK
  BY TypeInit
<1>2. Init => \A k \in Key : ~Has(k)
  BY DEF Init, Has, Absent
<1>3. QED
  BY <1>1, <1>2 DEF Coherent, LiveEntryIsAttached, EntryIsAdmitted, AdmissionMatchesStore

(* The live map only ever names open sockets of the right machine and role.  *)
THEOREM EntriesAreAttached == Spec => []LiveEntryIsAttached
<1>1. Coherent => LiveEntryIsAttached
  BY DEF Coherent
<1>2. QED
  BY <1>1, CoherentInit, CoherentStep, PTL DEF Spec

(* The status relays are admitted by is the store's, however approvals,       *)
(* revocations, deletions and reconnections interleave.                     *)
THEOREM AdmissionIsCoherent == Spec => []AdmissionMatchesStore
<1>1. Coherent => AdmissionMatchesStore
  BY DEF Coherent
<1>2. QED
  BY <1>1, CoherentInit, CoherentStep, PTL DEF Spec
-------------------------------------------------------------------------------
(* Relays.                                                                  *)

(* A channel in the maps belongs to the machine of its socket, its socket is  *)
(* not closed, and its caller was told nothing yet; an HTTP caller who waits  *)
(* is in the map.                                                           *)
RelaysKept ==
  \A c \in Channel :
    /\ InRelayMap(c) =>
         /\ fate[c] = "pending"
         /\ sock[relay[c].via].phase \in {"attached", "closing"}
         /\ sock[relay[c].via].machine = relay[c].machine
         /\ relay[c].machine \in Machine
    /\ relay[c].kind = "http" /\ fate[c] = "pending" => InRelayMap(c)

LEMMA RelaysWithoutKeeps ==
  ASSUME relay \in [Channel -> RelayRecord], NEW C, NEW c \in Channel
  PROVE  /\ c \notin C => RelaysWithout(C)[c] = relay[c]
         /\ c \in C => RelaysWithout(C)[c].via = NoSocket
         /\ RelaysWithout(C)[c].kind = relay[c].kind
BY DEF RelaysWithout, RelayRecord

LEMMA RelaysKeptStep == Coherent /\ RelaysKept /\ [Next]_vars => RelaysKept'
<1> SUFFICES ASSUME Coherent, RelaysKept, [Next]_vars PROVE RelaysKept'
  OBVIOUS
<1> USE NobodyIsReal
<1>0. /\ sock \in [Socket -> SocketRecord] /\ nodes \in [Key -> Entry]
      /\ relay \in [Channel -> RelayRecord]
      /\ fate \in [Channel -> RelayAnswer \cup {"idle", "pending"}]
      /\ \A c \in Channel : InRelayMap(c) => relay[c].via \in Socket
  BY DEF Coherent, TypeOK, InRelayMap, RelayRecord
(* The maps are untouched, and so is who an open socket is.                  *)
<1>a. ASSUME UNCHANGED <<relay, fate>>,
             \A t \in Socket : sock[t].phase \in {"attached", "closing"} =>
                /\ sock'[t].phase \in {"attached", "closing"}
                /\ sock'[t].machine = sock[t].machine
      PROVE  RelaysKept'
  BY <1>0, <1>a DEF RelaysKept, InRelayMap
(* Some channels leave the maps, their HTTP callers answered.                *)
<1>b. ASSUME NEW C, relay' = RelaysWithout(C),
             \A c \in Channel : c \notin C => fate'[c] = fate[c],
             \A c \in Channel : c \in C /\ relay[c].kind = "http" => fate'[c] # "pending",
             \A c \in Channel : InRelayMap(c) /\ c \notin C =>
                /\ sock'[relay[c].via].phase \in {"attached", "closing"}
                /\ sock'[relay[c].via].machine = sock[relay[c].via].machine
      PROVE  RelaysKept'
  <2>1. ASSUME NEW c \in Channel, c \in C
        PROVE  relay'[c].via = NoSocket /\ relay'[c].kind = relay[c].kind
    BY <1>0, <1>b, <2>1, RelaysWithoutKeeps
  <2>2. ASSUME NEW c \in Channel, c \notin C
        PROVE  relay'[c] = relay[c] /\ fate'[c] = fate[c]
    BY <1>0, <1>b, <2>2, RelaysWithoutKeeps
  <2>3. QED
    BY <1>0, <1>b, <2>1, <2>2 DEF RelaysKept, InRelayMap
<1>1. ASSUME NEW s \in Socket, Connect(s) \/ Vanish(s) \/ RejectOnboarding(s)
      PROVE  RelaysKept'
  <2>1. \A t \in Socket : sock[t].phase \in {"attached", "closing"} =>
          /\ sock'[t].phase \in {"attached", "closing"}
          /\ sock'[t].machine = sock[t].machine
    BY <1>0, <1>1 DEF Connect, Vanish, RejectOnboarding, Onboarding, SocketRecord
  <2>2. QED
    BY <1>a, <1>1, <2>1 DEF Connect, Vanish, RejectOnboarding, relays
<1>2. ASSUME NEW s \in Socket, SocketClosed(s) PROVE RelaysKept'
  <2> DEFINE D == IF sock[s].machine = NoMachine THEN {} ELSE RelaysOf(sock[s].machine)
  <2>1. relay' = RelaysWithout(D) /\ fate' = Tell(D, "dropped")
    BY <1>2 DEF SocketClosed
  <2>2. \A c \in Channel : fate'[c] = IF c \in D THEN "dropped" ELSE fate[c]
    BY <2>1 DEF Tell
  <2>3. \A c \in Channel : InRelayMap(c) /\ c \notin D => relay[c].via # s
    <3>1. TAKE c \in Channel
    <3>2. HAVE InRelayMap(c) /\ c \notin D
    <3>3. CASE sock[s].machine = NoMachine
      BY <1>0, <3>2, <3>3 DEF RelaysKept
    <3>4. CASE sock[s].machine # NoMachine
      BY <1>0, <3>2, <3>4 DEF RelaysKept, RelaysOf
    <3>5. QED
      BY <3>3, <3>4
  <2>4. \A t \in Socket : t # s => sock'[t] = sock[t]
    BY <1>0, <1>2 DEF SocketClosed
  <2>5. \A c \in Channel : InRelayMap(c) => relay[c].via \in Socket
    BY <1>0 DEF InRelayMap, RelayRecord
  <2> HIDE DEF D
  <2>6. ASSUME NEW c \in Channel, InRelayMap(c), c \notin D
        PROVE  /\ sock'[relay[c].via].phase \in {"attached", "closing"}
               /\ sock'[relay[c].via].machine = sock[relay[c].via].machine
    <3>1. relay[c].via \in Socket /\ relay[c].via # s
      BY <2>3, <2>5, <2>6
    <3>2. sock'[relay[c].via] = sock[relay[c].via]
      BY <2>4, <3>1
    <3>3. /\ sock[relay[c].via].phase \in {"attached", "closing"}
          /\ sock[relay[c].via].machine = relay[c].machine
      BY <1>0, <2>6 DEF RelaysKept
    <3>4. QED
      BY <3>2, <3>3
  <2>7. ASSUME NEW c \in Channel, c \notin D PROVE fate'[c] = fate[c]
    BY <2>2, <2>7
  <2>8. QED
    <3>1. \A c \in Channel : c \in D /\ relay[c].kind = "http" => fate'[c] # "pending"
      BY <2>2
    <3>2. QED
      BY <1>b, <2>1, <2>6, <2>7, <3>1
<1>3. ASSUME NEW s \in Socket, NEW m \in Machine, NEW r \in Role,
             Reconnect(s, m, r) \/ \E c \in Code : RegisterWithCode(s, c, m, r)
      PROVE  RelaysKept'
  <2>1. sock[s].phase = "open" /\ \A t \in Socket : t # s => sock'[t] = sock[t]
    BY <1>0, <1>3 DEF Reconnect, RegisterWithCode, Onboarding, Attach
  <2>2. QED
    BY <1>a, <1>3, <2>1 DEF Reconnect, RegisterWithCode, relays
(* The gateway closes some sockets: they stay until the 'close' event.       *)
<1>4. ASSUME NEW S, sock' = Closing(S), UNCHANGED <<relay, fate>> PROVE RelaysKept'
  BY <1>0, <1>a, <1>4, ClosingKeeps
<1>5. ASSUME NEW s \in Socket, NEW d \in Reported \cup {"unknown"}, Heartbeat(s, d)
      PROVE  RelaysKept'
  <2>1. \A t \in Socket : sock[t].phase \in {"attached", "closing"} =>
          /\ sock'[t].phase \in {"attached", "closing"}
          /\ sock'[t].machine = sock[t].machine
    <3>1. CASE sock' = Heard(s)
      BY <1>0, <3>1, HeardKeeps
    <3>2. CASE sock' = [sock EXCEPT ![s] = [Heard(s)[s] EXCEPT !.phase = "closing"]]
      <4>1. Heard(s)[s] \in SocketRecord /\ Heard(s)[s].machine = sock[s].machine
        BY <1>0, HeardType, HeardKeeps
      <4>2. QED
        BY <1>0, <3>2, <4>1 DEF SocketRecord
    <3>3. QED
      BY <1>5, <3>1, <3>2 DEF Heartbeat
  <2>2. QED
    BY <1>a, <1>5, <2>1 DEF Heartbeat, relays
<1>6. ASSUME NEW c \in Channel, NEW m \in Machine, NEW kind \in {"http", "ws"},
             OpenRelay(c, m, kind) PROVE RelaysKept'
  <2> DEFINE k == <<m, "console">>
  <2>1. k \in Key /\ Has(k) /\ sock' = sock
    BY <1>6 DEF OpenRelay, MayRelay, Has, Key, Role
  <2>2. nodes[k].ws \in Socket /\ sock[nodes[k].ws].phase = "attached"
        /\ sock[nodes[k].ws].machine = m
    BY <1>0, <2>1 DEF Coherent, LiveEntryIsAttached, Has, KeyOf, Entry
  <2>3. relay'[c] = [kind |-> kind, machine |-> m, via |-> nodes[k].ws] /\ fate'[c] = "pending"
    BY <1>0, <1>6 DEF OpenRelay
  <2>4. \A e \in Channel : e # c => relay'[e] = relay[e] /\ fate'[e] = fate[e]
    BY <1>0, <1>6 DEF OpenRelay
  <2>5. QED
    BY <1>0, <2>1, <2>2, <2>3, <2>4 DEF RelaysKept, InRelayMap
(* One channel ends.                                                        *)
<1>7. ASSUME NEW c \in Channel, relay' = RelaysWithout({c}), NEW what \in RelayAnswer,
             fate' = Tell({c}, what) \/ (fate' = fate /\ relay[c].kind # "http"),
             \A t \in Socket : sock'[t].phase = sock[t].phase
                             /\ sock'[t].machine = sock[t].machine
      PROVE  RelaysKept'
  <2>1. \A e \in Channel : e \notin {c} => fate'[e] = fate[e]
    BY <1>7 DEF Tell
  <2>2. relay[c].kind = "http" => fate'[c] # "pending"
    BY <1>7 DEF Tell, RelayAnswer
  <2>3. \A e \in Channel : e \in {c} /\ relay[e].kind = "http" => fate'[e] # "pending"
    BY <2>2
  <2>4. \A e \in Channel : InRelayMap(e) /\ e \notin {c} =>
          /\ sock'[relay[e].via].phase \in {"attached", "closing"}
          /\ sock'[relay[e].via].machine = sock[relay[e].via].machine
    BY <1>0, <1>7 DEF RelaysKept
  <2>5. QED
    BY <1>b, <1>7, <2>1, <2>3, <2>4
<1>8. ASSUME NEW s \in Socket, NEW c \in Channel, RelayEnd(s, c) PROVE RelaysKept'
  <2>1. \A t \in Socket : sock'[t].phase = sock[t].phase /\ sock'[t].machine = sock[t].machine
    BY <1>0, <1>8, HeardKeeps DEF RelayEnd
  <2>2. CASE relay' = RelaysWithout({c}) /\ fate' = Tell({c}, "ended")
    BY <1>7, <2>1, <2>2 DEF RelayAnswer
  <2>3. CASE UNCHANGED relays
    BY <1>0, <1>a, <2>1, <2>3 DEF relays
  <2>4. QED
    BY <1>8, <2>2, <2>3 DEF RelayEnd
<1>9. ASSUME NEW s \in Socket, NEW c \in Channel, NEW b \in BOOLEAN, RelayWsClose(s, c, b)
      PROVE  RelaysKept'
  <2>1. \A t \in Socket : sock'[t].phase = sock[t].phase /\ sock'[t].machine = sock[t].machine
    BY <1>0, <1>9, HeardKeeps DEF RelayWsClose
  <2>2. relay' = RelaysWithout({c}) /\ relay[c].kind # "http"
        /\ (fate' = Tell({c}, "closed") \/ fate' = fate)
    BY <1>9 DEF RelayWsClose, SpeaksAbout
  <2>3. QED
    BY <1>7, <2>1, <2>2 DEF RelayAnswer
<1>10. ASSUME NEW c \in Channel, RelayTimeout(c) \/ BrowserCloses(c) PROVE RelaysKept'
  <2>1. relay' = RelaysWithout({c}) /\ sock' = sock
        /\ (fate' = Tell({c}, "timedout") \/ fate' = Tell({c}, "closed"))
    BY <1>10 DEF RelayTimeout, BrowserCloses
  <2>2. QED
    BY <1>7, <2>1 DEF RelayAnswer
<1>11. ASSUME NEW s \in Socket, sock' = Heard(s), UNCHANGED relays PROVE RelaysKept'
  BY <1>0, <1>a, <1>11, HeardKeeps DEF relays
<1>12. ASSUME Stop PROVE RelaysKept'
  <2>1. relay' = RelaysWithout(Channel) /\ fate' = Tell(StreamsInFlight, "shutdown")
    BY <1>12 DEF Stop
  <2>2. \A c \in Channel : relay'[c].via = NoSocket /\ relay'[c].kind = relay[c].kind
    BY <1>0, <2>1, RelaysWithoutKeeps
  <2>3. \A c \in Channel : relay[c].kind = "http" => fate'[c] # "pending"
    BY <2>1 DEF Tell, StreamsInFlight, RelaysKept
  <2>4. QED
    BY <2>2, <2>3 DEF RelaysKept, InRelayMap
<1>13. ASSUME Exit PROVE RelaysKept'
  <2>1. relay' = RelaysWithout(Channel)
        /\ fate' = Tell({c \in Channel : fate[c] = "pending"}, "lost")
    BY <1>13 DEF Exit
  <2>2. \A c \in Channel : relay'[c].via = NoSocket
    BY <1>0, <2>1, RelaysWithoutKeeps
  <2>3. \A c \in Channel : fate'[c] # "pending"
    BY <2>1 DEF Tell
  <2>4. QED
    BY <2>2, <2>3 DEF RelaysKept, InRelayMap
<1>14. ASSUME UNCHANGED <<sock, relay, fate>> PROVE RelaysKept'
  BY <1>a, <1>14
<1>15. QED
  <2>1. CASE \E c \in Code : IssuePairingCode(c) \/ PairingCodeExpires(c)
    BY <1>14, <2>1 DEF IssuePairingCode, PairingCodeExpires, relays
  <2>2. CASE \E m \in Machine : ApproveMachine(m) \/ RevokeMachine(m) \/ DeleteMachine(m)
    BY <1>14, <1>4, <2>2 DEF ApproveMachine, RevokeMachine, DeleteMachine, Disconnect, relays
  <2>3. CASE Expire \/ \E k \in Key : LeaseLapses(k)
    BY <1>14, <1>4, <2>3 DEF Expire, LeaseLapses, relays
  <2>4. CASE \E c \in Channel, m \in Machine : RelayStream(c, m) \/ RelayWsOpen(c, m)
    BY <1>6, <2>4 DEF RelayStream, RelayWsOpen
  <2>5. CASE \E x \in Control : ControlTimeout(x) \/ \E m \in Machine : ControlDaemon(x, m)
    BY <1>14, <2>5 DEF ControlTimeout, ControlDaemon, relays
  <2>6. CASE \E s \in Socket, x \in Control, ok \in BOOLEAN, d \in Reported :
               DaemonResult(s, x, ok, d)
    BY <1>11, <2>6 DEF DaemonResult
  <2>7. CASE Boot \/ UNCHANGED vars
    BY <1>14, <2>7 DEF Boot, vars, relays
  <2>8. QED
    BY <1>1, <1>2, <1>3, <1>5, <1>8, <1>9, <1>10, <1>12, <1>13,
       <2>1, <2>2, <2>3, <2>4, <2>5, <2>6, <2>7 DEF Next

LEMMA RelaysKeptInit == Init => RelaysKept
BY NobodyIsReal DEF Init, RelaysKept, InRelayMap, NoRelay

(* No channel stays in the maps after its socket closed.                     *)
THEOREM NoRelayIsLeftBehind == Spec => []NoRelayOutlivesItsSocket
<1>1. Coherent /\ RelaysKept => NoRelayOutlivesItsSocket
  BY DEF RelaysKept, NoRelayOutlivesItsSocket
<1>2. QED
  BY <1>1, CoherentInit, CoherentStep, RelaysKeptInit, RelaysKeptStep, PTL DEF Spec
-------------------------------------------------------------------------------
(* Lifecycle requests.                                                      *)

(* The caller waits exactly while the request is pending, and a pending       *)
(* request was sent on a supervisor's socket that is not closed yet.         *)
ControlsKept ==
  \A x \in Control :
    /\ InControlMap(x) <=> answer[x] = "pending"
    /\ InControlMap(x) =>
         /\ sock[control[x].via].phase \in {"attached", "closing"}
         /\ sock[control[x].via].machine \in Machine
         /\ sock[control[x].via].role = "supervisor"

LEMMA ControlsWithoutKeeps ==
  ASSUME control \in [Control -> ControlRecord], NEW X, NEW x \in Control
  PROVE  /\ x \notin X => ControlsWithout(X)[x] = control[x]
         /\ x \in X => ControlsWithout(X)[x].via = NoSocket
BY DEF ControlsWithout, ControlRecord

LEMMA ControlsKeptStep == Coherent /\ ControlsKept /\ [Next]_vars => ControlsKept'
<1> SUFFICES ASSUME Coherent, ControlsKept, [Next]_vars PROVE ControlsKept'
  OBVIOUS
<1> USE NobodyIsReal
<1>0. /\ sock \in [Socket -> SocketRecord] /\ nodes \in [Key -> Entry]
      /\ control \in [Control -> ControlRecord]
      /\ answer \in [Control -> ControlAnswer \cup {"idle", "pending"}]
      /\ \A x \in Control : InControlMap(x) => control[x].via \in Socket
  BY DEF Coherent, TypeOK, InControlMap, ControlRecord
(* The map is untouched, and so is who an open socket is.                    *)
<1>a. ASSUME UNCHANGED <<control, answer>>,
             \A t \in Socket : sock[t].phase \in {"attached", "closing"} =>
                /\ sock'[t].phase \in {"attached", "closing"}
                /\ sock'[t].machine = sock[t].machine /\ sock'[t].role = sock[t].role
      PROVE  ControlsKept'
  BY <1>0, <1>a DEF ControlsKept, InControlMap
(* Some requests leave the map, answered.                                   *)
<1>b. ASSUME NEW X, NEW what \in ControlAnswer,
             control' = ControlsWithout(X), answer' = Resolve(X, what),
             \A x \in Control : InControlMap(x) /\ x \notin X =>
                /\ sock'[control[x].via].phase \in {"attached", "closing"}
                /\ sock'[control[x].via].machine = sock[control[x].via].machine
                /\ sock'[control[x].via].role = sock[control[x].via].role
      PROVE  ControlsKept'
  <2>1. ASSUME NEW x \in Control, x \in X
        PROVE  control'[x].via = NoSocket /\ answer'[x] # "pending"
    <3>1. control'[x].via = NoSocket
      BY <1>0, <1>b, <2>1, ControlsWithoutKeeps
    <3>2. answer'[x] = what
      BY <1>b, <2>1 DEF Resolve
    <3>3. QED
      BY <3>1, <3>2 DEF ControlAnswer
  <2>2. ASSUME NEW x \in Control, x \notin X
        PROVE  control'[x] = control[x] /\ answer'[x] = answer[x]
    <3>1. control'[x] = control[x]
      BY <1>0, <1>b, <2>2, ControlsWithoutKeeps
    <3>2. answer'[x] = answer[x]
      BY <1>b, <2>2 DEF Resolve
    <3>3. QED
      BY <3>1, <3>2
  <2>3. QED
    BY <1>0, <1>b, <2>1, <2>2 DEF ControlsKept, InControlMap
<1>1. ASSUME NEW s \in Socket, Connect(s) \/ Vanish(s) \/ RejectOnboarding(s)
      PROVE  ControlsKept'
  <2>1. \A t \in Socket : sock[t].phase \in {"attached", "closing"} =>
          /\ sock'[t].phase \in {"attached", "closing"}
          /\ sock'[t].machine = sock[t].machine /\ sock'[t].role = sock[t].role
    BY <1>0, <1>1 DEF Connect, Vanish, RejectOnboarding, Onboarding, SocketRecord
  <2>2. QED
    BY <1>a, <1>1, <2>1 DEF Connect, Vanish, RejectOnboarding, controls
<1>2. ASSUME NEW s \in Socket, SocketClosed(s) PROVE ControlsKept'
  <2>1. control' = ControlsWithout(FailedBy(s)) /\ answer' = Resolve(FailedBy(s), "failed")
    BY <1>2 DEF SocketClosed
  <2>2. \A x \in Control : InControlMap(x) /\ x \notin FailedBy(s) => control[x].via # s
    BY <1>0 DEF ControlsKept, FailedBy, PendingControls
  <2>3. \A t \in Socket : t # s => sock'[t] = sock[t]
    BY <1>0, <1>2 DEF SocketClosed
  <2>4. \A y \in Control : InControlMap(y) /\ y \notin FailedBy(s) =>
          /\ sock'[control[y].via].phase \in {"attached", "closing"}
          /\ sock'[control[y].via].machine = sock[control[y].via].machine
          /\ sock'[control[y].via].role = sock[control[y].via].role
    BY <1>0, <2>2, <2>3 DEF ControlsKept
  <2>5. "failed" \in ControlAnswer
    BY DEF ControlAnswer
  <2>6. QED
    BY <1>b, <2>1, <2>4, <2>5
<1>3. ASSUME NEW s \in Socket, NEW m \in Machine, NEW r \in Role,
             Reconnect(s, m, r) \/ \E c \in Code : RegisterWithCode(s, c, m, r)
      PROVE  ControlsKept'
  <2>1. sock[s].phase = "open" /\ \A t \in Socket : t # s => sock'[t] = sock[t]
    BY <1>0, <1>3 DEF Reconnect, RegisterWithCode, Onboarding, Attach
  <2>2. QED
    BY <1>a, <1>3, <2>1 DEF Reconnect, RegisterWithCode, controls
<1>4. ASSUME NEW m \in Machine, Disconnect(m) PROVE ControlsKept'
  <2>1. control' = ControlsWithout(PendingControls)
        /\ answer' = Resolve(PendingControls, "failed")
    BY <1>4 DEF Disconnect
  <2>2. QED
    BY <1>b, <2>1 DEF PendingControls, ControlAnswer
<1>5. ASSUME NEW s \in Socket, NEW d \in Reported \cup {"unknown"}, Heartbeat(s, d)
      PROVE  ControlsKept'
  <2>1. \A t \in Socket : sock[t].phase \in {"attached", "closing"} =>
          /\ sock'[t].phase \in {"attached", "closing"}
          /\ sock'[t].machine = sock[t].machine /\ sock'[t].role = sock[t].role
    <3>1. CASE sock' = Heard(s)
      BY <1>0, <3>1, HeardKeeps
    <3>2. CASE sock' = [sock EXCEPT ![s] = [Heard(s)[s] EXCEPT !.phase = "closing"]]
      <4>1. Heard(s)[s] \in SocketRecord /\ Heard(s)[s].machine = sock[s].machine
            /\ Heard(s)[s].role = sock[s].role
        BY <1>0, HeardType, HeardKeeps
      <4>2. QED
        BY <1>0, <3>2, <4>1 DEF SocketRecord
    <3>3. QED
      BY <1>5, <3>1, <3>2 DEF Heartbeat
  <2>2. QED
    BY <1>a, <1>5, <2>1 DEF Heartbeat, controls
<1>6. ASSUME NEW x \in Control, NEW m \in Machine, ControlDaemon(x, m) PROVE ControlsKept'
  <2> DEFINE k == <<m, "supervisor">>
  <2>1. k \in Key /\ Has(k) /\ sock' = sock
    BY <1>6 DEF ControlDaemon, Has, Key, Role
  <2>2. /\ nodes[k].ws \in Socket /\ sock[nodes[k].ws].phase = "attached"
        /\ sock[nodes[k].ws].machine = m /\ sock[nodes[k].ws].role = "supervisor"
    BY <1>0, <2>1 DEF Coherent, LiveEntryIsAttached, Has, KeyOf, Entry
  <2>3. control'[x] = [machine |-> m, via |-> nodes[k].ws] /\ answer'[x] = "pending"
    BY <1>0, <1>6 DEF ControlDaemon
  <2>4. \A y \in Control : y # x => control'[y] = control[y] /\ answer'[y] = answer[y]
    BY <1>0, <1>6 DEF ControlDaemon
  <2>5. QED
    BY <1>0, <2>1, <2>2, <2>3, <2>4 DEF ControlsKept, InControlMap
<1>7. ASSUME NEW s \in Socket, NEW x \in Control, NEW ok \in BOOLEAN, NEW d \in Reported,
             DaemonResult(s, x, ok, d) PROVE ControlsKept'
  <2>1. \A t \in Socket : /\ sock'[t].phase = sock[t].phase
                          /\ sock'[t].machine = sock[t].machine
                          /\ sock'[t].role = sock[t].role
    BY <1>0, <1>7, HeardKeeps DEF DaemonResult
  <2>2. CASE InControlMap(x)
    <3>1. control' = ControlsWithout({x})
          /\ answer' = Resolve({x}, IF ok THEN "ok" ELSE "refused")
      BY <1>7, <2>2 DEF DaemonResult
    <3>2. (IF ok THEN "ok" ELSE "refused") \in ControlAnswer
      BY DEF ControlAnswer
    <3>3. \A y \in Control : InControlMap(y) /\ y \notin {x} =>
            /\ sock'[control[y].via].phase \in {"attached", "closing"}
            /\ sock'[control[y].via].machine = sock[control[y].via].machine
            /\ sock'[control[y].via].role = sock[control[y].via].role
      BY <1>0, <2>1 DEF ControlsKept
    <3>4. QED
      BY <1>b, <3>1, <3>2, <3>3
  <2>3. CASE ~InControlMap(x)
    BY <1>0, <1>a, <1>7, <2>1, <2>3 DEF DaemonResult, controls
  <2>4. QED
    BY <2>2, <2>3
<1>8. ASSUME NEW x \in Control, ControlTimeout(x) PROVE ControlsKept'
  <2>1. control' = ControlsWithout({x}) /\ answer' = Resolve({x}, "timedout") /\ sock' = sock
    BY <1>8 DEF ControlTimeout
  <2>2. \A y \in Control : InControlMap(y) /\ y \notin {x} =>
          /\ sock'[control[y].via].phase \in {"attached", "closing"}
          /\ sock'[control[y].via].machine = sock[control[y].via].machine
          /\ sock'[control[y].via].role = sock[control[y].via].role
    BY <2>1 DEF ControlsKept
  <2>3. "timedout" \in ControlAnswer
    BY DEF ControlAnswer
  <2>4. QED
    BY <1>b, <2>1, <2>2, <2>3
<1>9. ASSUME Stop PROVE ControlsKept'
  <2>1. control' = ControlsWithout(PendingControls)
        /\ answer' = Resolve(PendingControls, "failed")
    BY <1>9 DEF Stop
  <2>2. QED
    BY <1>b, <2>1 DEF PendingControls, ControlAnswer
<1>10. ASSUME Exit PROVE ControlsKept'
  <2>1. control' = ControlsWithout(Control) /\ answer' = Resolve(PendingControls, "lost")
    BY <1>10 DEF Exit
  <2>2. \A x \in Control : control'[x].via = NoSocket
    BY <1>0, <2>1, ControlsWithoutKeeps
  <2>3. \A x \in Control : answer'[x] = IF x \in PendingControls THEN "lost" ELSE answer[x]
    BY <2>1 DEF Resolve
  <2>4. QED
    BY <2>2, <2>3 DEF ControlsKept, InControlMap, PendingControls
<1>11. ASSUME NEW S, sock' = Closing(S), UNCHANGED <<control, answer>> PROVE ControlsKept'
  BY <1>0, <1>a, <1>11, ClosingKeeps
<1>12. ASSUME NEW s \in Socket, sock' = Heard(s), UNCHANGED controls PROVE ControlsKept'
  BY <1>0, <1>a, <1>12, HeardKeeps DEF controls
<1>13. ASSUME UNCHANGED <<sock, control, answer>> PROVE ControlsKept'
  BY <1>a, <1>13
<1>14. QED
  <2>1. CASE \E c \in Code : IssuePairingCode(c) \/ PairingCodeExpires(c)
    BY <1>13, <2>1 DEF IssuePairingCode, PairingCodeExpires, controls
  <2>2. CASE \E m \in Machine : ApproveMachine(m) \/ RevokeMachine(m) \/ DeleteMachine(m)
    BY <1>13, <1>4, <2>2 DEF ApproveMachine, RevokeMachine, DeleteMachine, controls
  <2>3. CASE Expire \/ \E k \in Key : LeaseLapses(k)
    BY <1>13, <1>11, <2>3 DEF Expire, LeaseLapses, controls
  <2>4. CASE \E c \in Channel, m \in Machine : RelayStream(c, m) \/ RelayWsOpen(c, m)
    BY <1>13, <2>4 DEF RelayStream, RelayWsOpen, OpenRelay, controls
  <2>5. CASE \E s \in Socket, c \in Channel :
               RelayEnd(s, c) \/ \E b \in BOOLEAN : RelayWsClose(s, c, b)
    BY <1>12, <2>5 DEF RelayEnd, RelayWsClose
  <2>6. CASE \E c \in Channel : RelayTimeout(c) \/ BrowserCloses(c)
    BY <1>13, <2>6 DEF RelayTimeout, BrowserCloses, controls
  <2>7. CASE Boot \/ UNCHANGED vars
    BY <1>13, <2>7 DEF Boot, vars, controls
  <2>8. QED
    BY <1>1, <1>2, <1>3, <1>5, <1>6, <1>7, <1>8, <1>9, <1>10,
       <2>1, <2>2, <2>3, <2>4, <2>5, <2>6, <2>7 DEF Next

LEMMA ControlsKeptInit == Init => ControlsKept
BY NobodyIsReal DEF Init, ControlsKept, InControlMap, NoControl
-------------------------------------------------------------------------------
(* What the parts give together.                                            *)

IInv == Coherent /\ RelaysKept /\ ControlsKept

(* Every handler of nodes.ts and every timer keeps the live map, the sockets, *)
(* the store and the two maps of pending callers in step with each other.    *)
THEOREM Inductive == Spec => []IInv
<1>1. Init => IInv
  BY CoherentInit, RelaysKeptInit, ControlsKeptInit DEF IInv
<1>2. IInv /\ [Next]_vars => IInv'
  BY CoherentStep, RelaysKeptStep, ControlsKeptStep DEF IInv
<1>3. QED
  BY <1>1, <1>2, PTL DEF Spec

(* No lifecycle request waits for a supervisor whose socket closed.          *)
THEOREM NoControlIsLeftBehind == Spec => []NoControlOutlivesItsSocket
<1>1. IInv => NoControlOutlivesItsSocket
  BY DEF IInv, ControlsKept, NoControlOutlivesItsSocket
<1>2. QED
  BY <1>1, Inductive, PTL

(* Whoever waits is in the map that answers.                                 *)
THEOREM NobodyIsForgotten == Spec => []CallersAreNeverForgotten
<1>1. IInv => CallersAreNeverForgotten
  BY DEF IInv, RelaysKept, ControlsKept, CallersAreNeverForgotten
<1>2. QED
  BY <1>1, Inductive, PTL
-------------------------------------------------------------------------------
(* Steps.                                                                   *)

(* What one step can do to a caller of a relay: nothing, OpenRelay, or an     *)
(* answer to a caller who waits.                                            *)
LEMMA FateStep ==
  ASSUME IInv, [Next]_vars, NEW c \in Channel
  PROVE  \/ fate'[c] = fate[c]
         \/ \E m \in Machine, kind \in {"http", "ws"} : OpenRelay(c, m, kind)
         \/ fate[c] = "pending" /\ fate'[c] \in RelayAnswer
<1> DEFINE Goal == \/ fate'[c] = fate[c]
                   \/ \E m \in Machine, kind \in {"http", "ws"} : OpenRelay(c, m, kind)
                   \/ fate[c] = "pending" /\ fate'[c] \in RelayAnswer
<1>0. /\ \A e \in Channel : InRelayMap(e) => fate[e] = "pending"
      /\ fate \in [Channel -> RelayAnswer \cup {"idle", "pending"}]
  BY DEF IInv, RelaysKept, Coherent, TypeOK
<1>1. ASSUME NEW C, NEW what \in RelayAnswer, fate' = Tell(C, what),
             \A e \in Channel : e \in C => fate[e] = "pending"
      PROVE  Goal
  BY <1>1 DEF Tell
<1>2. ASSUME UNCHANGED fate PROVE Goal
  BY <1>2
<1>3. ASSUME NEW s \in Socket, SocketClosed(s) PROVE Goal
  <2> DEFINE D == IF sock[s].machine = NoMachine THEN {} ELSE RelaysOf(sock[s].machine)
  <2>1. fate' = Tell(D, "dropped")
    BY <1>3 DEF SocketClosed
  <2>2. \A e \in Channel : e \in D => fate[e] = "pending"
    BY <1>0 DEF RelaysOf
  <2>3. "dropped" \in RelayAnswer
    BY DEF RelayAnswer
  <2>4. QED
    BY <1>1, <2>1, <2>2, <2>3
<1>4. ASSUME NEW s \in Socket, NEW e \in Channel, RelayEnd(s, e) PROVE Goal
  <2>1. "ended" \in RelayAnswer
    BY DEF RelayAnswer
  <2>2. CASE InRelayMap(e) /\ fate' = Tell({e}, "ended")
    BY <1>0, <1>1, <2>1, <2>2
  <2>3. CASE UNCHANGED relays
    BY <1>2, <2>3 DEF relays
  <2>4. QED
    BY <1>4, <2>2, <2>3 DEF RelayEnd
<1>5. ASSUME NEW s \in Socket, NEW e \in Channel, NEW b \in BOOLEAN, RelayWsClose(s, e, b)
      PROVE  Goal
  <2>1. "closed" \in RelayAnswer
    BY DEF RelayAnswer
  <2>2. CASE InRelayMap(e) /\ fate' = Tell({e}, "closed")
    BY <1>0, <1>1, <2>1, <2>2
  <2>3. CASE fate' = fate
    BY <1>2, <2>3
  <2>4. QED
    BY <1>5, <2>2, <2>3 DEF RelayWsClose
<1>6. ASSUME NEW e \in Channel, RelayTimeout(e) \/ BrowserCloses(e) PROVE Goal
  <2>1. fate[e] = "pending"
    BY <1>0, <1>6 DEF RelayTimeout, BrowserCloses
  <2>2. fate' = Tell({e}, "timedout") \/ fate' = Tell({e}, "closed")
    BY <1>6 DEF RelayTimeout, BrowserCloses
  <2>3. {"timedout", "closed"} \subseteq RelayAnswer
    BY DEF RelayAnswer
  <2>4. QED
    BY <1>1, <2>1, <2>2, <2>3
<1>7. ASSUME Stop PROVE Goal
  <2>1. fate' = Tell(StreamsInFlight, "shutdown") /\ "shutdown" \in RelayAnswer
    BY <1>7 DEF Stop, RelayAnswer
  <2>2. \A e \in Channel : e \in StreamsInFlight => fate[e] = "pending"
    BY <1>0 DEF StreamsInFlight
  <2>3. QED
    BY <1>1, <2>1, <2>2
<1>8. ASSUME Exit PROVE Goal
  <2>1. fate' = Tell({e \in Channel : fate[e] = "pending"}, "lost") /\ "lost" \in RelayAnswer
    BY <1>8 DEF Exit, RelayAnswer
  <2>2. QED
    BY <1>1, <2>1
<1>9. ASSUME NEW e \in Channel, NEW m \in Machine, NEW kind \in {"http", "ws"},
             OpenRelay(e, m, kind) PROVE Goal
  <2>1. e # c => fate'[c] = fate[c]
    BY <1>0, <1>9 DEF OpenRelay
  <2>2. QED
    BY <1>9, <2>1
<1>10. QED
  <2>1. CASE \E p \in Code : IssuePairingCode(p) \/ PairingCodeExpires(p)
    BY <1>2, <2>1 DEF IssuePairingCode, PairingCodeExpires, relays
  <2>2. CASE \E m \in Machine : ApproveMachine(m) \/ RevokeMachine(m) \/ DeleteMachine(m)
    BY <1>2, <2>2 DEF ApproveMachine, RevokeMachine, DeleteMachine, relays
  <2>3. CASE Expire \/ \E k \in Key : LeaseLapses(k)
    BY <1>2, <2>3 DEF Expire, LeaseLapses, relays
  <2>4. CASE \E s \in Socket : Connect(s) \/ Vanish(s) \/ RejectOnboarding(s)
    BY <1>2, <2>4 DEF Connect, Vanish, RejectOnboarding, relays
  <2>5. CASE \E s \in Socket, m \in Machine, r \in Role :
               Reconnect(s, m, r) \/ \E p \in Code : RegisterWithCode(s, p, m, r)
    BY <1>2, <2>5 DEF Reconnect, RegisterWithCode, relays
  <2>6. CASE \E s \in Socket, d \in Reported \cup {"unknown"} : Heartbeat(s, d)
    BY <1>2, <2>6 DEF Heartbeat, relays
  <2>7. CASE \E x \in Control : ControlTimeout(x) \/ \E m \in Machine : ControlDaemon(x, m)
    BY <1>2, <2>7 DEF ControlTimeout, ControlDaemon, relays
  <2>8. CASE \E s \in Socket, x \in Control, ok \in BOOLEAN, d \in Reported :
               DaemonResult(s, x, ok, d)
    BY <1>2, <2>8 DEF DaemonResult, relays
  <2>9. CASE Boot \/ UNCHANGED vars
    BY <1>2, <2>9 DEF Boot, vars, relays
  <2>10. CASE \E e \in Channel, m \in Machine : RelayStream(e, m) \/ RelayWsOpen(e, m)
    BY <1>9, <2>10 DEF RelayStream, RelayWsOpen
  <2>11. QED
    BY <1>3, <1>4, <1>5, <1>6, <1>7, <1>8,
       <2>1, <2>2, <2>3, <2>4, <2>5, <2>6, <2>7, <2>8, <2>9, <2>10 DEF Next

(* A relay's caller is answered at most once and its answer never changes.    *)
THEOREM RelaysSettle == Spec => RelaysSettleOnce
<1>1. Init => RelayLifecycle!Init
  BY DEF Init, RelayLifecycle!Init
<1>2. IInv /\ IInv' /\ [Next]_vars => [RelayLifecycle!Next]_fate
  <2> SUFFICES ASSUME IInv, IInv', [Next]_vars PROVE RelayLifecycle!Next
    OBVIOUS
  <2>1. fate' \in [Channel -> RelayAnswer \cup {"idle", "pending"}]
    BY DEF IInv, Coherent, TypeOK
  <2>2. fate \in [Channel -> RelayAnswer \cup {"idle", "pending"}]
    BY DEF IInv, Coherent, TypeOK
  <2>3. ASSUME NEW c \in Channel PROVE RelayLifecycle!Advances(c)
    <3>1. CASE \E m \in Machine, kind \in {"http", "ws"} : OpenRelay(c, m, kind)
      BY <2>2, <3>1 DEF OpenRelay, RelayLifecycle!Advances
    <3>2. QED
      BY <3>1, FateStep DEF RelayLifecycle!Advances
  <2>4. QED
    BY <2>1, <2>3 DEF RelayLifecycle!Next
<1>3. QED
  BY <1>1, <1>2, Inductive, PTL DEF Spec, RelaysSettleOnce, RelayLifecycle!SafeSpec

(* A channel is only ever opened to a machine the store holds as approved.    *)
THEOREM RelaysNeedApproval == Spec => RelayOnlyApproved
<1> DEFINE A == \A c \in Channel : OpensRelay(c) => machine[relay'[c].machine] = "approved"
<1>1. IInv /\ [Next]_vars => [A]_vars
  <2> SUFFICES ASSUME IInv, [Next]_vars, NEW c \in Channel, OpensRelay(c)
               PROVE  machine[relay'[c].machine] = "approved"
    OBVIOUS
  <2>1. PICK m \in Machine, kind \in {"http", "ws"} : OpenRelay(c, m, kind)
    BY FateStep DEF OpensRelay, RelayAnswer
  <2>2. relay'[c].machine = m
    BY <2>1 DEF OpenRelay, IInv, Coherent, TypeOK
  <2>3. <<m, "console">> \in Key /\ nodes[<<m, "console">>].ws # NoSocket
        /\ nodes[<<m, "console">>].status = "approved"
    BY <2>1 DEF OpenRelay, MayRelay, Key, Role
  <2>4. QED
    BY <2>2, <2>3 DEF IInv, Coherent, AdmissionMatchesStore, Has
<1>2. QED
  BY <1>1, Inductive, PTL DEF Spec, RelayOnlyApproved

(* What one step can do to the caller of a lifecycle request.                *)
LEMMA AnswerStep ==
  ASSUME IInv, [Next]_vars, NEW x \in Control
  PROVE  ControlLifecycle!Advances(x)
<1> DEFINE Goal == ControlLifecycle!Advances(x)
<1>0. /\ \A y \in Control : InControlMap(y) => answer[y] = "pending"
      /\ answer \in [Control -> ControlAnswer \cup {"idle", "pending"}]
  BY DEF IInv, ControlsKept, Coherent, TypeOK
<1>1. ASSUME NEW X, NEW what \in ControlAnswer, answer' = Resolve(X, what),
             \A y \in Control : y \in X => answer[y] = "pending"
      PROVE  Goal
  BY <1>1 DEF Resolve, ControlLifecycle!Advances
<1>2. ASSUME UNCHANGED answer PROVE Goal
  BY <1>2 DEF ControlLifecycle!Advances
<1>3. \A y \in Control : y \in PendingControls => answer[y] = "pending"
  BY <1>0 DEF PendingControls
<1>4. {"ok", "refused", "failed", "timedout", "lost"} \subseteq ControlAnswer
  BY DEF ControlAnswer
<1>5. ASSUME NEW s \in Socket, SocketClosed(s) PROVE Goal
  <2>1. answer' = Resolve(FailedBy(s), "failed")
    BY <1>5 DEF SocketClosed
  <2>2. \A y \in Control : y \in FailedBy(s) => answer[y] = "pending"
    BY <1>3 DEF FailedBy
  <2>3. QED
    BY <1>1, <1>4, <2>1, <2>2
<1>6. ASSUME NEW m \in Machine, Disconnect(m) PROVE Goal
  BY <1>1, <1>3, <1>4, <1>6 DEF Disconnect
<1>7. ASSUME NEW y \in Control, NEW m \in Machine, ControlDaemon(y, m) PROVE Goal
  BY <1>0, <1>7 DEF ControlDaemon, ControlLifecycle!Advances
<1>8. ASSUME NEW s \in Socket, NEW y \in Control, NEW ok \in BOOLEAN, NEW d \in Reported,
             DaemonResult(s, y, ok, d) PROVE Goal
  <2>1. CASE InControlMap(y)
    <3> DEFINE what == IF ok THEN "ok" ELSE "refused"
    <3>1. answer' = Resolve({y}, what)
      BY <1>8, <2>1 DEF DaemonResult
    <3>2. what \in ControlAnswer
      BY <1>4
    <3>3. \A z \in Control : z \in {y} => answer[z] = "pending"
      BY <1>0, <2>1
    <3>4. QED
      BY <1>1, <3>1, <3>2, <3>3
  <2>2. CASE ~InControlMap(y)
    BY <1>2, <1>8, <2>2 DEF DaemonResult, controls
  <2>3. QED
    BY <2>1, <2>2
<1>9. ASSUME NEW y \in Control, ControlTimeout(y) PROVE Goal
  <2>1. answer' = Resolve({y}, "timedout") /\ answer[y] = "pending"
    BY <1>0, <1>9 DEF ControlTimeout
  <2>2. \A z \in Control : z \in {y} => answer[z] = "pending"
    BY <2>1
  <2>3. QED
    BY <1>1, <1>4, <2>1, <2>2
<1>10. ASSUME Stop \/ Exit PROVE Goal
  <2>1. answer' = Resolve(PendingControls, "failed") \/ answer' = Resolve(PendingControls, "lost")
    BY <1>10 DEF Stop, Exit
  <2>2. QED
    BY <1>1, <1>3, <1>4, <2>1
<1>11. QED
  <2>1. CASE \E p \in Code : IssuePairingCode(p) \/ PairingCodeExpires(p)
    BY <1>2, <2>1 DEF IssuePairingCode, PairingCodeExpires, controls
  <2>2. CASE \E m \in Machine : ApproveMachine(m) \/ RevokeMachine(m) \/ DeleteMachine(m)
    BY <1>2, <1>6, <2>2 DEF ApproveMachine, RevokeMachine, DeleteMachine, controls
  <2>3. CASE Expire \/ \E k \in Key : LeaseLapses(k)
    BY <1>2, <2>3 DEF Expire, LeaseLapses, controls
  <2>4. CASE \E s \in Socket : Connect(s) \/ Vanish(s) \/ RejectOnboarding(s)
    BY <1>2, <2>4 DEF Connect, Vanish, RejectOnboarding, controls
  <2>5. CASE \E s \in Socket, m \in Machine, r \in Role :
               Reconnect(s, m, r) \/ \E p \in Code : RegisterWithCode(s, p, m, r)
    BY <1>2, <2>5 DEF Reconnect, RegisterWithCode, controls
  <2>6. CASE \E s \in Socket, d \in Reported \cup {"unknown"} : Heartbeat(s, d)
    BY <1>2, <2>6 DEF Heartbeat, controls
  <2>7. CASE \E c \in Channel, m \in Machine : RelayStream(c, m) \/ RelayWsOpen(c, m)
    BY <1>2, <2>7 DEF RelayStream, RelayWsOpen, OpenRelay, controls
  <2>8. CASE \E s \in Socket, c \in Channel :
               RelayEnd(s, c) \/ \E b \in BOOLEAN : RelayWsClose(s, c, b)
    BY <1>2, <2>8 DEF RelayEnd, RelayWsClose, controls
  <2>9. CASE \E c \in Channel : RelayTimeout(c) \/ BrowserCloses(c)
    BY <1>2, <2>9 DEF RelayTimeout, BrowserCloses, controls
  <2>10. CASE Boot \/ UNCHANGED vars
    BY <1>2, <2>10 DEF Boot, vars, controls
  <2>11. QED
    BY <1>5, <1>7, <1>8, <1>9, <1>10,
       <2>1, <2>2, <2>3, <2>4, <2>5, <2>6, <2>7, <2>8, <2>9, <2>10 DEF Next

(* The daemon-control registry implements the safety of the request life      *)
(* cycle: a request settles at most once, and only after it was made.        *)
THEOREM ControlsSettle == Spec => ControlLifecycle!SafeSpec
<1>1. Init => ControlLifecycle!Init
  BY DEF Init, ControlLifecycle!Init
<1>2. IInv /\ IInv' /\ [Next]_vars => [ControlLifecycle!Next]_answer
  <2> SUFFICES ASSUME IInv, IInv', [Next]_vars PROVE ControlLifecycle!Next
    OBVIOUS
  <2>1. answer' \in [Control -> ControlAnswer \cup {"idle", "pending"}]
    BY DEF IInv, Coherent, TypeOK
  <2>2. \A x \in Control : ControlLifecycle!Advances(x)
    BY AnswerStep
  <2>3. QED
    BY <2>1, <2>2 DEF ControlLifecycle!Next
<1>3. QED
  BY <1>1, <1>2, Inductive, PTL DEF Spec, ControlLifecycle!SafeSpec

(* Only its own 'close' event, or the end of the process, closes a socket.    *)
LEMMA CloseStep ==
  ASSUME IInv, [Next]_vars, NEW s \in Socket, ClosesNow(s), proc' = proc
  PROVE  SocketClosed(s)
<1> USE DEF ClosesNow
<1>0. sock \in [Socket -> SocketRecord]
  BY DEF IInv, Coherent, TypeOK
<1>1. ASSUME sock' = sock PROVE FALSE
  BY <1>1
<1>2. ASSUME NEW t \in Socket, sock' = Heard(t) PROVE FALSE
  BY <1>0, <1>2, HeardKeeps
<1>3. ASSUME NEW S, sock' = Closing(S) PROVE FALSE
  BY <1>0, <1>3, ClosingKeeps
<1>4. ASSUME NEW t \in Socket, sock' = [sock EXCEPT ![t] = [Heard(t)[t] EXCEPT !.phase = "closing"]]
      PROVE  FALSE
  <2>1. Heard(t)[t] \in SocketRecord
    BY <1>0, HeardType
  <2>2. QED
    BY <1>0, <1>4, <2>1 DEF SocketRecord
<1>5. ASSUME NEW t \in Socket, Connect(t) \/ Vanish(t) PROVE FALSE
  BY <1>0, <1>5 DEF Connect, Vanish, SocketRecord
<1>6. ASSUME NEW t \in Socket, NEW m \in Machine, NEW r \in Role, NEW status,
             Attach(t, m, r, status) PROVE FALSE
  BY <1>0, <1>6 DEF Attach
<1>7. ASSUME NEW t \in Socket, SocketClosed(t) PROVE t = s
  BY <1>0, <1>7 DEF SocketClosed
<1>8. Stop \/ Exit => proc' # proc
  BY DEF Stop, Exit
<1>9. QED
  <2>1. CASE \E p \in Code : IssuePairingCode(p) \/ PairingCodeExpires(p)
    BY <1>1, <2>1 DEF IssuePairingCode, PairingCodeExpires
  <2>2. CASE \E m \in Machine : ApproveMachine(m) \/ RevokeMachine(m) \/ DeleteMachine(m)
    BY <1>1, <1>3, <2>2 DEF ApproveMachine, RevokeMachine, DeleteMachine, Disconnect
  <2>3. CASE Expire \/ \E k \in Key : LeaseLapses(k)
    BY <1>1, <1>3, <2>3 DEF Expire, LeaseLapses
  <2>4. CASE \E t \in Socket : RejectOnboarding(t)
    BY <1>4, <2>4 DEF RejectOnboarding
  <2>5. CASE \E t \in Socket, m \in Machine, r \in Role :
               Reconnect(t, m, r) \/ \E p \in Code : RegisterWithCode(t, p, m, r)
    BY <1>6, <2>5 DEF Reconnect, RegisterWithCode
  <2>6. CASE \E t \in Socket, d \in Reported \cup {"unknown"} : Heartbeat(t, d)
    BY <1>2, <1>4, <2>6 DEF Heartbeat
  <2>7. CASE \E c \in Channel, m \in Machine : RelayStream(c, m) \/ RelayWsOpen(c, m)
    BY <1>1, <2>7 DEF RelayStream, RelayWsOpen, OpenRelay
  <2>8. CASE \E t \in Socket, c \in Channel :
               RelayEnd(t, c) \/ \E b \in BOOLEAN : RelayWsClose(t, c, b)
    BY <1>2, <2>8 DEF RelayEnd, RelayWsClose
  <2>9. CASE \E c \in Channel : RelayTimeout(c) \/ BrowserCloses(c)
    BY <1>1, <2>9 DEF RelayTimeout, BrowserCloses
  <2>10. CASE \E x \in Control : ControlTimeout(x) \/ \E m \in Machine : ControlDaemon(x, m)
    BY <1>1, <2>10 DEF ControlTimeout, ControlDaemon
  <2>11. CASE \E t \in Socket, x \in Control, ok \in BOOLEAN, d \in Reported :
               DaemonResult(t, x, ok, d)
    BY <1>2, <2>11 DEF DaemonResult
  <2>12. CASE Boot \/ UNCHANGED vars
    BY <1>1, <2>12 DEF Boot, vars
  <2>13. QED
    BY <1>5, <1>7, <1>8,
       <2>1, <2>2, <2>3, <2>4, <2>5, <2>6, <2>7, <2>8, <2>9, <2>10, <2>11, <2>12 DEF Next

(* A late 'close' of a replaced socket never evicts the fresh entry.         *)
THEOREM FreshEntryIsKept == Spec => StaleCloseKeepsFresh
<1> DEFINE A == \A s \in Socket, k \in Key :
                  ClosesNow(s) /\ proc' = proc /\ nodes[k].ws \notin {s, NoSocket}
                    => nodes'[k] = nodes[k]
<1>1. IInv /\ [Next]_vars => [A]_vars
  <2> SUFFICES ASSUME IInv, [Next]_vars, NEW s \in Socket, NEW k \in Key,
                      ClosesNow(s), proc' = proc, nodes[k].ws \notin {s, NoSocket}
               PROVE  nodes'[k] = nodes[k]
    OBVIOUS
  <2>1. SocketClosed(s)
    BY CloseStep
  <2>2. k \notin EvictedBy(s)
    BY DEF EvictedBy
  <2>3. QED
    BY <2>1, <2>2 DEF SocketClosed
<1>2. QED
  BY <1>1, Inductive, PTL DEF Spec, StaleCloseKeepsFresh
-------------------------------------------------------------------------------
(* Pairing codes.                                                           *)

(* A code's consumer is the machine it admitted, and is never forgotten.      *)
CodesKept ==
  /\ \A m \in Machine : admitted[m] # NoCode => code[admitted[m]].by = m
  /\ \A c \in Code : code[c].by # NoMachine => code[c].state # "none"

LEMMA CodesKeptStep ==
  ASSUME SeededCode = {}, TypeOK, CodesKept, [Next]_vars
  PROVE  CodesKept'
<1> USE NobodyIsReal
<1>0. /\ code \in [Code -> CodeRecord] /\ admitted \in [Machine -> Code \cup {NoCode}]
      /\ machine \in [Machine -> {"none", "pending", "approved", "revoked", "deleted"}]
  BY DEF TypeOK
<1>1. ASSUME UNCHANGED <<code, admitted>> PROVE CodesKept'
  BY <1>1 DEF CodesKept
<1>2. ASSUME NEW c \in Code, IssuePairingCode(c) PROVE CodesKept'
  <2>1. /\ code'[c] = [state |-> "valid", by |-> NoMachine] /\ code[c].by = NoMachine
        /\ \A d \in Code : d # c => code'[d] = code[d]
        /\ admitted' = admitted
    BY <1>0, <1>2 DEF IssuePairingCode, CodesKept
  <2>2. \A m \in Machine : admitted[m] # NoCode => admitted[m] # c
    BY <2>1 DEF CodesKept
  <2>3. QED
    BY <1>0, <2>1, <2>2 DEF CodesKept
<1>3. ASSUME NEW c \in Code, PairingCodeExpires(c) PROVE CodesKept'
  <2>1. /\ \A d \in Code : code'[d].by = code[d].by
        /\ code'[c].state = "expired" /\ \A d \in Code : d # c => code'[d] = code[d]
        /\ admitted' = admitted
    BY <1>0, <1>3 DEF PairingCodeExpires, CodeRecord
  <2>2. QED
    BY <1>0, <2>1 DEF CodesKept
<1>4. ASSUME NEW s \in Socket, NEW m \in Machine, NEW r \in Role, NEW c \in Code,
             RegisterWithCode(s, c, m, r) PROVE CodesKept'
  <2>1. code[c].by = NoMachine /\ code[c].state = "valid"
    BY <1>4 DEF RegisterWithCode, Usable
  <2>2. code'[c].by = m /\ code'[c].state = "valid"
        /\ \A d \in Code : d # c => code'[d] = code[d]
    BY <1>0, <1>4, <2>1 DEF RegisterWithCode, CodeRecord
  <2>3. admitted'[m] = c /\ \A n \in Machine : n # m => admitted'[n] = admitted[n]
    BY <1>0, <1>4 DEF RegisterWithCode
  <2>4. \A n \in Machine : admitted[n] # NoCode => admitted[n] # c
    BY <2>1 DEF CodesKept
  <2>5. QED
    BY <1>0, <2>2, <2>3, <2>4 DEF CodesKept
<1>5. ASSUME Boot PROVE CodesKept'
  <2>1. code' = code /\ admitted' = admitted
    BY <1>0, <1>5 DEF Boot
  <2>2. QED
    BY <1>1, <2>1
<1>6. QED
  <2>1. CASE \E m \in Machine : ApproveMachine(m) \/ RevokeMachine(m) \/ DeleteMachine(m)
    BY <1>1, <2>1 DEF ApproveMachine, RevokeMachine, DeleteMachine
  <2>2. CASE Expire \/ \E k \in Key : LeaseLapses(k)
    BY <1>1, <2>2 DEF Expire, LeaseLapses, store
  <2>3. CASE \E s \in Socket : Connect(s) \/ Vanish(s) \/ RejectOnboarding(s) \/ SocketClosed(s)
    BY <1>1, <2>3 DEF Connect, Vanish, RejectOnboarding, SocketClosed, store
  <2>4. CASE \E s \in Socket, m \in Machine, r \in Role : Reconnect(s, m, r)
    BY <1>1, <2>4 DEF Reconnect, store
  <2>5. CASE \E s \in Socket, d \in Reported \cup {"unknown"} : Heartbeat(s, d)
    BY <1>1, <2>5 DEF Heartbeat
  <2>6. CASE \E c \in Channel, m \in Machine : RelayStream(c, m) \/ RelayWsOpen(c, m)
    BY <1>1, <2>6 DEF RelayStream, RelayWsOpen, OpenRelay, store
  <2>7. CASE \E s \in Socket, c \in Channel :
               RelayEnd(s, c) \/ \E b \in BOOLEAN : RelayWsClose(s, c, b)
    BY <1>1, <2>7 DEF RelayEnd, RelayWsClose, store
  <2>8. CASE \E c \in Channel : RelayTimeout(c) \/ BrowserCloses(c)
    BY <1>1, <2>8 DEF RelayTimeout, BrowserCloses, store
  <2>9. CASE \E x \in Control : ControlTimeout(x) \/ \E m \in Machine : ControlDaemon(x, m)
    BY <1>1, <2>9 DEF ControlTimeout, ControlDaemon, store
  <2>10. CASE \E s \in Socket, x \in Control, ok \in BOOLEAN, d \in Reported :
               DaemonResult(s, x, ok, d)
    BY <1>1, <2>10 DEF DaemonResult, store
  <2>11. CASE Stop \/ Exit \/ UNCHANGED vars
    BY <1>1, <2>11 DEF Stop, Exit, vars, store
  <2>12. QED
    BY <1>2, <1>3, <1>4, <1>5,
       <2>1, <2>2, <2>3, <2>4, <2>5, <2>6, <2>7, <2>8, <2>9, <2>10, <2>11 DEF Next

(* A gateway that is given no codes at boot admits one machine per code, over  *)
(* any number of restarts: codes issued by the portal are one-time.          *)
THEOREM IssuedCodesAreOneTime ==
  ASSUME SeededCode = {}
  PROVE  Spec => []OneMachinePerCode
<1>1. Init => CodesKept
  BY NobodyIsReal DEF Init, CodesKept
<1>2. TypeOK /\ CodesKept /\ [Next]_vars => CodesKept'
  BY CodesKeptStep
<1>3. TypeOK /\ CodesKept => OneMachinePerCode
  BY NobodyIsReal DEF TypeOK, CodesKept, OneMachinePerCode
<1>4. QED
  BY <1>1, <1>2, <1>3, TypeCorrect, PTL DEF Spec
===============================================================================
