------------------------- MODULE QMPCollectorProofs -------------------------
(***************************************************************************)
(* Proofs about QMPCollector for any number of pods, containers and        *)
(* connections, any concurrency and any number of failures.                *)
(***************************************************************************)
EXTENDS QMPCollector, TLAPS, FiniteSetTheorems

(* A step that names no prover is tried with Zenon, then with SMT. *)
USE ZenonT(20), SMTT(20)

(* The initial state is well typed. *)
LEMMA TypeInit == Init => TypeOK
  <1> SUFFICES ASSUME Init PROVE TypeOK
    OBVIOUS
  <1>1. faults \in 0..MaxFaults /\ clock \in 1..MaxClock /\ lastPollTS \in 0..MaxClock
    BY ConstantsAssumption, SMT DEF Init
  <1>2. /\ cancelled \in BOOLEAN
        /\ connections \in [Containers -> VMConnection \cup {None}]
    BY DEF Init
  <1>3. QED
    BY <1>1, <1>2 DEF Init, TypeOK

(* CloseAndDelete keeps the types of the map and of the set of open clients. *)
LEMMA CloseAndDeleteType ==
    ASSUME TypeOK, NEW K \in SUBSET Containers, CloseAndDelete(K)
    PROVE  /\ connections' \in [Containers -> VMConnection \cup {None}]
           /\ open' \in SUBSET Conns
  BY DEF CloseAndDelete, TypeOK

(* Every action keeps TypeOK. *)
LEMMA TypeStep == TypeOK /\ [Next]_vars => TypeOK'
  <1> SUFFICES ASSUME TypeOK, [Next]_vars PROVE TypeOK'
    OBVIOUS
  <1> USE ConstantsAssumption
  <1>1. ASSUME Environment PROVE TypeOK'
    <2>1. ASSUME NEW p \in Pods, PodAppears(p) \/ PodLeaves(p) PROVE TypeOK'
      BY <2>1 DEF TypeOK, PodAppears, PodLeaves, connVars, pubVars, runVars, workerVars
    <2>2. ASSUME NEW c \in Containers, ContainerStarts(c) \/ ContainerExits(c) PROVE TypeOK'
      BY <2>2 DEF TypeOK, ContainerStarts, ContainerExits, connVars, pubVars, runVars, workerVars
    <2>3. ASSUME Cancel PROVE TypeOK'
      BY <2>3 DEF TypeOK, Cancel, connVars, pubVars, runVars, workerVars
    <2>4. ASSUME TimePasses PROVE TypeOK'
      BY <2>4, SMT DEF TypeOK, TimePasses, connVars, pubVars, runVars, workerVars
    <2>5. QED
      BY <1>1, <2>1, <2>2, <2>3, <2>4 DEF Environment
  <1>2. ASSUME PollList PROVE TypeOK'
    BY <1>2 DEF TypeOK, PollList, envVars, connVars, pubVars, workerVars
  <1>3. ASSUME NEW p \in Pods, PollResolve(p) PROVE TypeOK'
    BY <1>3, SMT DEF TypeOK, PollResolve, CRIFails, Fault, envVars, connVars, pubVars, workerVars
  <1>4. ASSUME PollReconcile PROVE TypeOK'
    <2>1. Keys \ targets \in SUBSET Containers
      BY DEF Keys
    <2>2. connections' \in [Containers -> VMConnection \cup {None}] /\ open' \in SUBSET Conns
      BY <1>4, <2>1, CloseAndDeleteType DEF PollReconcile
    <2>3. QED
      BY <1>4, <2>2 DEF TypeOK, PollReconcile, envVars, pubVars, workerVars
  <1>5. ASSUME NEW c \in Containers, PollFindPID(c) PROVE TypeOK'
    BY <1>5, SMT DEF TypeOK, Lookup, PollFindPID, CRIFails, Fault, envVars, connVars, pubVars, workerVars
  <1>6. ASSUME ConnectVM PROVE TypeOK'
    <2>1. dialing.key \in Containers /\ dialing.found \in Containers
      BY <1>6 DEF TypeOK, Lookup, ConnectVM
    <2>2. connections' \in [Containers -> VMConnection \cup {None}] /\ open' \in SUBSET Conns
      <3>1. CASE UNCHANGED connVars
        BY <3>1 DEF TypeOK, connVars
      <3>2. ASSUME NEW o \in FreshConns,
                   connections' = [connections EXCEPT ![dialing.key] = [id |-> o, peer |-> dialing.found]],
                   open' = open \cup {o}
            PROVE  connections' \in [Containers -> VMConnection \cup {None}] /\ open' \in SUBSET Conns
        BY <3>2, <2>1 DEF TypeOK, FreshConns, VMConnection
      <3>3. QED
        BY <1>6, <3>1, <3>2 DEF ConnectVM, InsertConnection
    <2>3. faults' \in 0..MaxFaults
      BY <1>6, SMT DEF TypeOK, ConnectVM, InsertConnection, Fault
    <2>4. QED
      BY <1>6, <2>1, <2>2, <2>3 DEF TypeOK, ConnectVM, InsertConnection, envVars, pubVars, workerVars
  <1>7. ASSUME PollSnapshot PROVE TypeOK'
    BY <1>7 DEF TypeOK, PollSnapshot, envVars, connVars, pubVars
  <1>8. ASSUME PollPublish PROVE TypeOK'
    BY <1>8, SMT DEF TypeOK, PollPublish, PublishAs, envVars, connVars
  <1>9. ASSUME NEW c \in Containers, WorkerStep(c) PROVE TypeOK'
    <2>1. CASE WorkerAcquire(c)
      BY <2>1 DEF TypeOK, WorkerAcquire, envVars, connVars, pubVars, runVars
    <2>2. CASE WorkerScrape(c)
      BY <2>2, SMT DEF TypeOK, WorkerScrape, Fault, envVars, connVars, pubVars, runVars
    <2>3. CASE WorkerRecord(c)
      <3>1. connections' \in [Containers -> VMConnection \cup {None}] /\ open' \in SUBSET Conns
        BY <2>3, CloseAndDeleteType DEF WorkerRecord, connVars, TypeOK
      <3>2. /\ worker' \in [Containers -> {"none", "waiting", "scraping", "ok", "err", "done"}]
            /\ sem' \in SUBSET Containers
        BY <2>3 DEF TypeOK, WorkerRecord
      <3>3. results' \in SUBSET Containers /\ pollErrors' \in Nat
        BY <2>3, SMT DEF TypeOK, WorkerRecord
      <3>4. UNCHANGED <<envVars, faults, pubVars, runVars>>
        BY <2>3 DEF WorkerRecord
      <3>5. QED
        BY <3>1, <3>2, <3>3, <3>4 DEF TypeOK, envVars, pubVars, runVars
    <2>4. QED
      BY <1>9, <2>1, <2>2, <2>3 DEF WorkerStep
  <1>10. ASSUME RunTick PROVE TypeOK'
    BY <1>10 DEF TypeOK, RunTick, envVars, connVars, pubVars, workerVars
  <1>11. ASSUME RunDone PROVE TypeOK'
    <2>1. connections' \in [Containers -> VMConnection \cup {None}] /\ open' \in SUBSET Conns
      BY <1>11, CloseAndDeleteType DEF RunDone, Keys
    <2>2. QED
      BY <1>11, <2>1 DEF TypeOK, RunDone, envVars, pubVars, workerVars
  <1>12. CASE UNCHANGED vars
    BY <1>12 DEF TypeOK, vars, envVars, connVars, pubVars, runVars, workerVars
  <1>13. QED
    BY <1>1, <1>2, <1>3, <1>4, <1>5, <1>6, <1>7, <1>8, <1>9, <1>10, <1>11, <1>12
       DEF Next, PollStep, Terminated

(* Type correctness of the poller. *)
THEOREM TypeCorrect == Spec => []TypeOK
  BY TypeInit, TypeStep, PTL DEF Spec
-----------------------------------------------------------------------------
(* The inductive invariant of the connections map. *)

(* A pod runs one compute container at a time; a target was seen running   *)
(* in this poll, and its pod is resolved once.                             *)
TargetsInv ==
    /\ \A c, d \in Containers :
          container[c] = "up" /\ container[d] = "up" /\ PodOf[c] = PodOf[d] => c = d
    /\ \A c \in targets : container[c] # "new" /\ PodOf[c] \notin allPods
    /\ \A c, d \in targets : PodOf[c] = PodOf[d] => c = d

(* From the pruning of the map to publication, its keys are targets; a     *)
(* lookup in hand is for a pending target and found a container of the     *)
(* same pod.                                                               *)
KeysInv ==
    /\ pc \in {"connect", "dial", "wait"} => Keys \subseteq targets /\ pending \subseteq targets
    /\ pc \in {"connect", "dial"} => pending \cap Keys = {}
    /\ pc = "dial" => /\ dialing.key \in pending
                      /\ PodOf[dialing.found] = PodOf[dialing.key]

(* Goroutines exist only while poll waits for them.  Until a goroutine has *)
(* recorded its outcome its connection is in the map and it has no result; *)
(* afterwards it has both or neither.                                      *)
WorkersInv ==
    /\ pc # "wait" => results = {} /\ \A c \in Containers : worker[c] = "none"
    /\ pc = "wait" =>
         \A c \in Containers :
            /\ worker[c] = "none" => c \notin Keys /\ c \notin results
            /\ worker[c] \in {"waiting", "scraping", "ok", "err"} => c \in Keys /\ c \notin results
            /\ worker[c] = "done" => (c \in Keys <=> c \in results)

(* An entry filed under another container than the one it dialled is filed *)
(* under a container that has exited, hence one no later lookup finds.     *)
PeerInv ==
    \A c \in Keys : connections[c].peer # c =>
        container[c] = "dead" /\ (pc = "resolve" => c \notin targets)

IndInv ==
    /\ TypeOK
    /\ TargetsInv
    /\ KeysInv
    /\ WorkersInv
    /\ PeerInv
    /\ OneConnectionPerPod
    /\ NoDuplicateSeries
    /\ NoConnectionLeak
    /\ ExportedIsConnected

(* What CloseAndDelete does to the map: the keys of K go, the other entries *)
(* stay, and the open clients remain those of the map.                      *)
LEMMA CloseAndDeleteEffect ==
    ASSUME TypeOK, NoConnectionLeak, NEW K \in SUBSET Containers, CloseAndDelete(K)
    PROVE  /\ Keys' = Keys \ K
           /\ \A c \in Keys' : connections'[c] = connections[c]
           /\ NoConnectionLeak'
  <1>1. Keys' = Keys \ K
    BY DEF CloseAndDelete, Keys
  <1>2. \A c \in Keys' : connections'[c] = connections[c]
    BY DEF CloseAndDelete, Keys
  <1>3. \A c, d \in Keys' : connections'[c].id = connections'[d].id => c = d
    BY <1>1, <1>2, SMT DEF NoConnectionLeak
  <1>4. open' = {connections[c].id : c \in Keys \ K}
    BY DEF CloseAndDelete, NoConnectionLeak
  <1>5. open' = {connections'[c].id : c \in Keys'}
    BY <1>1, <1>2, <1>4
  <1>6. QED
    BY <1>1, <1>2, <1>3, <1>5 DEF NoConnectionLeak

(* A step that leaves the map, the results and the place of every goroutine *)
(* alone keeps what is said of those alone.                                 *)
LEMMA MapUnchanged ==
    ASSUME IndInv, UNCHANGED <<connections, open, published, pc, worker, results>>
    PROVE  /\ Keys' = Keys
           /\ WorkersInv'
           /\ OneConnectionPerPod'
           /\ NoDuplicateSeries'
           /\ NoConnectionLeak'
           /\ ExportedIsConnected'
  <1>1. Keys' = Keys
    BY DEF Keys
  <1>2. QED
    BY <1>1, SMT DEF IndInv, WorkersInv, OneConnectionPerPod, NoDuplicateSeries, NoConnectionLeak,
                ExportedIsConnected

(* Steps of the environment keep the invariant. *)
LEMMA EnvironmentStep == IndInv /\ Environment /\ TypeOK' => IndInv'
  <1> SUFFICES ASSUME IndInv, Environment, TypeOK' PROVE IndInv'
    OBVIOUS
  <1> USE ConstantsAssumption
  <1>1. UNCHANGED <<connVars, pubVars, runVars, workerVars>>
    BY DEF Environment, PodAppears, PodLeaves, ContainerStarts, ContainerExits, Cancel, TimePasses
  <1>2. /\ Keys' = Keys
        /\ WorkersInv' /\ OneConnectionPerPod' /\ NoDuplicateSeries'
        /\ NoConnectionLeak' /\ ExportedIsConnected'
    BY <1>1, MapUnchanged DEF connVars, pubVars, runVars, workerVars
  <1>3. KeysInv'
    BY <1>1, <1>2 DEF IndInv, KeysInv, connVars, runVars
  <1>4. TargetsInv' /\ PeerInv'
    <2>1. CASE UNCHANGED container
      BY <1>1, <1>2, <2>1 DEF IndInv, TargetsInv, PeerInv, connVars, runVars
    <2>2. ASSUME NEW c \in Containers, ContainerStarts(c) PROVE TargetsInv' /\ PeerInv'
      BY <1>1, <1>2, <2>2, SMT
         DEF IndInv, TypeOK, TargetsInv, PeerInv, Keys, ContainerStarts, Running, connVars, runVars
    <2>3. ASSUME NEW c \in Containers, ContainerExits(c) PROVE TargetsInv' /\ PeerInv'
      BY <1>1, <1>2, <2>3, SMT
         DEF IndInv, TypeOK, TargetsInv, PeerInv, Keys, ContainerExits, connVars, runVars
    <2>4. QED
      BY <2>1, <2>2, <2>3 DEF Environment, PodAppears, PodLeaves, Cancel, TimePasses
  <1>5. QED
    BY <1>2, <1>3, <1>4 DEF IndInv

(* Resolving pods and looking up PIDs change no connection. *)
LEMMA LookupStep ==
    ASSUME IndInv, TypeOK',
           PollList \/ (\E p \in Pods : PollResolve(p)) \/ (\E c \in Containers : PollFindPID(c))
    PROVE  IndInv'
  <1> USE ConstantsAssumption
  <1>1. /\ UNCHANGED <<envVars, connVars, pubVars, workerVars>>
        /\ pc # "wait" /\ pc' # "wait" /\ pc' # "idle"
    BY DEF PollList, PollResolve, PollFindPID, IndInv, TypeOK
  <1>2. Keys' = Keys
    BY <1>1 DEF Keys, connVars
  <1>3. /\ WorkersInv' /\ OneConnectionPerPod' /\ NoDuplicateSeries'
        /\ NoConnectionLeak' /\ ExportedIsConnected'
    <2>1. UNCHANGED <<connections, open, published, worker, results>>
      BY <1>1 DEF connVars, pubVars, workerVars
    <2>2. WorkersInv'
      BY <1>1, <2>1 DEF IndInv, WorkersInv
    <2>3. OneConnectionPerPod' /\ NoDuplicateSeries'
      BY <1>2, <2>1 DEF IndInv, OneConnectionPerPod, NoDuplicateSeries
    <2>4. NoConnectionLeak'
      BY <1>2, <2>1 DEF IndInv, NoConnectionLeak
    <2>5. ExportedIsConnected'
      BY <1>1 DEF ExportedIsConnected
    <2>6. QED
      BY <2>2, <2>3, <2>4, <2>5
  <1>4. CASE PollList
    <2>1. TargetsInv' /\ KeysInv' /\ PeerInv'
      BY <1>1, <1>2, <1>4 DEF PollList, IndInv, TargetsInv, KeysInv, PeerInv, envVars, connVars
    <2>2. QED
      BY <1>3, <2>1 DEF IndInv
  <1>5. ASSUME NEW p \in Pods, PollResolve(p) PROVE IndInv'
    <2>1. KeysInv'
      BY <1>2, <1>5 DEF PollResolve, IndInv, KeysInv
    <2>2. CASE UNCHANGED targets
      BY <1>1, <1>2, <1>3, <1>5, <2>1, <2>2
         DEF PollResolve, IndInv, TargetsInv, PeerInv, envVars, connVars
    <2>3. ASSUME NEW c \in Containers, CRIFinds(p, c), targets' = targets \cup {c}
          PROVE  IndInv'
      <3>1. PodOf[c] = p /\ container[c] = "up"
        BY <2>3 DEF CRIFinds, Running
      <3>2. TargetsInv'
        BY <1>1, <1>5, <2>3, <3>1 DEF PollResolve, IndInv, TypeOK, TargetsInv, envVars
      <3>3. PeerInv'
        BY <1>1, <1>2, <1>5, <2>3, <3>1 DEF PollResolve, IndInv, PeerInv, envVars, connVars
      <3>4. QED
        BY <1>3, <2>1, <3>2, <3>3 DEF IndInv
    <2>4. QED
      BY <1>5, <2>2, <2>3 DEF PollResolve
  <1>6. ASSUME NEW k \in Containers, PollFindPID(k) PROVE IndInv'
    <2>1. TargetsInv' /\ PeerInv'
      BY <1>1, <1>2, <1>6 DEF PollFindPID, IndInv, TargetsInv, PeerInv, envVars, connVars
    <2>2. KeysInv'
      BY <1>2, <1>6, SMT DEF PollFindPID, CRIFinds, Running, IndInv, KeysInv
    <2>3. QED
      BY <1>3, <2>1, <2>2 DEF IndInv
  <1>7. QED
    BY <1>4, <1>5, <1>6

(* Pruning the map of what this poll did not resolve. *)
LEMMA ReconcileStep ==
    ASSUME IndInv, TypeOK', PollReconcile
    PROVE  IndInv' /\ \A c \in Keys' : connections'[c].peer = c
  <1>1. Keys \ targets \in SUBSET Containers
    BY DEF Keys
  <1>2. /\ Keys' = Keys \cap targets
        /\ \A c \in Keys' : connections'[c] = connections[c]
        /\ NoConnectionLeak'
    BY <1>1, CloseAndDeleteEffect DEF PollReconcile, IndInv
  <1>3. \A c \in Keys' : connections'[c].peer = c
    BY <1>2 DEF PollReconcile, IndInv, PeerInv
  <1>4. TargetsInv' /\ PeerInv'
    BY <1>2, <1>3 DEF PollReconcile, IndInv, TargetsInv, PeerInv, envVars
  <1>5. KeysInv' /\ WorkersInv'
    BY <1>2 DEF PollReconcile, IndInv, KeysInv, WorkersInv, workerVars
  <1>6. OneConnectionPerPod' /\ NoDuplicateSeries' /\ ExportedIsConnected'
    BY <1>2 DEF PollReconcile, IndInv, OneConnectionPerPod, NoDuplicateSeries, ExportedIsConnected,
                pubVars
  <1>7. QED
    BY <1>2, <1>3, <1>4, <1>5, <1>6 DEF IndInv

(* A new connection is filed under a target, so under a pod that has none. *)
LEMMA ConnectStep ==
    ASSUME IndInv, TypeOK', ConnectVM
    PROVE  IndInv'
  <1> DEFINE k == dialing.key
             f == dialing.found
  <1> USE ConstantsAssumption
  <1>1. /\ k \in Containers /\ f \in Containers
        /\ k \in pending /\ k \in targets /\ k \notin Keys /\ PodOf[f] = PodOf[k]
    BY DEF ConnectVM, InsertConnection, IndInv, TypeOK, Lookup, KeysInv
  <1>2. UNCHANGED <<envVars, pubVars, allPods, targets, workerVars>> /\ pc = "dial" /\ pc' = "connect"
    BY DEF ConnectVM, InsertConnection
  <1>3. TargetsInv' /\ NoDuplicateSeries' /\ ExportedIsConnected' /\ WorkersInv'
    BY <1>2 DEF IndInv, TargetsInv, NoDuplicateSeries, ExportedIsConnected, WorkersInv,
                envVars, pubVars, workerVars
  <1>4. CASE UNCHANGED connVars
    <2>1. Keys' = Keys
      BY <1>4 DEF Keys, connVars
    <2>2. KeysInv' /\ PeerInv' /\ OneConnectionPerPod' /\ NoConnectionLeak'
      <3>1. /\ UNCHANGED <<connections, open, container, targets>>
            /\ pending' \subseteq pending /\ pc = "dial" /\ pc' = "connect"
        BY <1>2, <1>4 DEF ConnectVM, connVars, envVars
      <3>2. KeysInv' /\ PeerInv'
        BY <2>1, <3>1 DEF IndInv, KeysInv, PeerInv
      <3>3. OneConnectionPerPod' /\ NoConnectionLeak'
        BY <2>1, <3>1, SMT DEF IndInv, OneConnectionPerPod, NoConnectionLeak
      <3> QED BY <3>2, <3>3
    <2>3. QED
      BY <1>3, <2>2 DEF IndInv
  <1>5. ASSUME NEW o \in FreshConns, container[f] = "up",
               connections' = [connections EXCEPT ![k] = [id |-> o, peer |-> f]],
               open' = open \cup {o}
        PROVE  IndInv'
    <2>1. [id |-> o, peer |-> f] # None
      BY <1>1, <1>5, SMT DEF FreshConns, VMConnection
    <2>2. /\ Keys' = Keys \cup {k}
          /\ connections'[k] = [id |-> o, peer |-> f]
          /\ \A c \in Keys : connections'[c] = connections[c]
      <3>1. connections \in [Containers -> VMConnection \cup {None}]
        BY DEF IndInv, TypeOK
      <3>2. k \in Containers /\ k \notin Keys
        BY <1>1
      <3> HIDE DEF k, f
      <3>3. /\ connections'[k] = [id |-> o, peer |-> f]
            /\ \A c \in Containers \ {k} : connections'[c] = connections[c]
        BY <1>5, <3>1, <3>2
      <3> QED BY <2>1, <3>2, <3>3 DEF Keys
    <2>3. KeysInv' /\ OneConnectionPerPod'
      <3>1. /\ Keys \subseteq targets /\ pending \subseteq targets /\ pending \cap Keys = {}
            /\ \A c, d \in targets : PodOf[c] = PodOf[d] => c = d
        BY <1>2 DEF IndInv, KeysInv, TargetsInv
      <3>2. pending' = pending \ {k} /\ targets' = targets /\ pc' = "connect"
        BY <1>2 DEF ConnectVM
      <3>3. k \in targets
        BY <1>1
      <3> HIDE DEF k, f
      <3>4. Keys' \subseteq targets /\ pending' \subseteq targets /\ pending' \cap Keys' = {}
        BY <2>2, <3>1, <3>2, <3>3
      <3> QED BY <3>1, <3>2, <3>4 DEF KeysInv, OneConnectionPerPod
    <2>4. f # k => container[k] = "dead"
      <3>1. /\ container[k] \in {"new", "up", "dead"} /\ container[k] # "new"
            /\ container[k] = "up" /\ container[f] = "up" /\ PodOf[f] = PodOf[k] => f = k
        BY <1>1 DEF IndInv, TypeOK, TargetsInv
      <3> HIDE DEF k, f
      <3> QED BY <1>1, <1>5, <3>1
    <2>5. PeerInv'
      <3>1. PeerInv /\ container' = container /\ pc' = "connect" /\ pc = "dial"
        BY <1>2 DEF IndInv, envVars
      <3> HIDE DEF k, f
      <3>2. connections'[k].peer = f
        BY <2>2, SMT
      <3>3. ASSUME NEW c \in Keys', connections'[c].peer # c
            PROVE  container'[c] = "dead"
        <4>1. CASE c = k
          BY <2>4, <3>1, <3>2, <3>3, <4>1
        <4>2. CASE c \in Keys
          BY <2>2, <3>1, <3>3, <4>2 DEF PeerInv
        <4> QED BY <2>2, <4>1, <4>2
      <3> QED BY <3>1, <3>3 DEF PeerInv
    <2>6. NoConnectionLeak'
      BY <1>5, <2>2, <1>1, SMT DEF IndInv, NoConnectionLeak, FreshConns
    <2>7. QED
      BY <1>3, <2>3, <2>5, <2>6 DEF IndInv
  <1>6. QED
    BY <1>1, <1>4, <1>5 DEF ConnectVM, InsertConnection

(* Starting the goroutines: one for each key of the map. *)
LEMMA SnapshotStep ==
    ASSUME IndInv, TypeOK', PollSnapshot
    PROVE  IndInv'
  <1>1. Keys' = Keys
    BY DEF PollSnapshot, Keys, connVars
  <1>2. WorkersInv'
    BY <1>1 DEF PollSnapshot, IndInv, WorkersInv, Keys
  <1>3. TargetsInv' /\ KeysInv' /\ PeerInv'
    BY <1>1 DEF PollSnapshot, IndInv, TargetsInv, KeysInv, PeerInv, envVars, connVars
  <1>4. OneConnectionPerPod' /\ NoDuplicateSeries' /\ NoConnectionLeak' /\ ExportedIsConnected'
    BY <1>1 DEF PollSnapshot, IndInv, OneConnectionPerPod, NoDuplicateSeries, NoConnectionLeak,
                ExportedIsConnected, connVars, pubVars
  <1>5. QED
    BY <1>2, <1>3, <1>4 DEF IndInv

(* Steps of a scrape goroutine. *)
LEMMA WorkerStepInv ==
    ASSUME IndInv, TypeOK', NEW w \in Containers, WorkerStep(w)
    PROVE  IndInv'
  <1>1. /\ UNCHANGED <<envVars, pubVars, runVars>> /\ pc = "wait"
        /\ worker[w] \in {"waiting", "scraping", "ok", "err"}
    BY DEF WorkerStep, WorkerAcquire, WorkerScrape, WorkerRecord, IndInv, WorkersInv
  <1>2. w \in Keys /\ w \notin results
    BY <1>1 DEF IndInv, WorkersInv
  <1>3. CASE WorkerAcquire(w) \/ WorkerScrape(w)
    <2>1. /\ UNCHANGED <<connections, open, results>>
          /\ \E x \in {"scraping", "ok", "err"} : worker' = [worker EXCEPT ![w] = x]
      BY <1>3 DEF WorkerAcquire, WorkerScrape, connVars
    <2>2. Keys' = Keys
      BY <2>1 DEF Keys
    <2>3. WorkersInv'
      <3>1. PICK x \in {"scraping", "ok", "err"} : worker' = [worker EXCEPT ![w] = x]
        BY <2>1
      <3>2. worker'[w] = x /\ \A c \in Containers \ {w} : worker'[c] = worker[c]
        BY <3>1 DEF IndInv, TypeOK
      <3>3. pc' = "wait" /\ results' = results
        BY <1>1, <2>1 DEF runVars
      <3> QED BY <1>1, <1>2, <2>2, <3>2, <3>3 DEF IndInv, WorkersInv
    <2>4. TargetsInv' /\ KeysInv' /\ PeerInv'
      BY <1>1, <2>1, <2>2 DEF IndInv, TargetsInv, KeysInv, PeerInv, envVars, runVars
    <2>5. OneConnectionPerPod' /\ NoDuplicateSeries' /\ NoConnectionLeak' /\ ExportedIsConnected'
      <3>1. UNCHANGED <<published, pc>>
        BY <1>1 DEF pubVars, runVars
      <3>2. OneConnectionPerPod' /\ NoDuplicateSeries' /\ ExportedIsConnected'
        BY <2>2, <3>1 DEF IndInv, OneConnectionPerPod, NoDuplicateSeries, ExportedIsConnected
      <3>3. NoConnectionLeak'
        BY <2>1, <2>2 DEF IndInv, NoConnectionLeak
      <3> QED BY <3>2, <3>3
    <2>6. QED
      BY <2>3, <2>4, <2>5 DEF IndInv
  <1>4. CASE WorkerRecord(w)
    <2>1. /\ worker' = [worker EXCEPT ![w] = "done"]
          /\ \A c \in Containers : worker'[c] = IF c = w THEN "done" ELSE worker[c]
      BY <1>4 DEF WorkerRecord, IndInv, TypeOK
    <2>2. /\ Keys' \subseteq Keys /\ Keys \ {w} \subseteq Keys'
          /\ \A c \in Keys' : connections'[c] = connections[c]
          /\ NoConnectionLeak'
          /\ results' \ {w} = results
          /\ w \in Keys' <=> w \in results'
      <3>1. CASE worker[w] = "ok"
        <4>1. results' = results \cup {w} /\ UNCHANGED <<connections, open>>
          BY <1>4, <3>1 DEF WorkerRecord, connVars
        <4>2. Keys' = Keys
          BY <4>1 DEF Keys
        <4>3. QED
          BY <1>2, <4>1, <4>2 DEF IndInv, NoConnectionLeak
      <3>2. CASE worker[w] = "err"
        <4>1. results' = results /\ CloseAndDelete({w})
          BY <1>4, <3>2 DEF WorkerRecord
        <4>2. /\ Keys' = Keys \ {w}
              /\ \A c \in Keys' : connections'[c] = connections[c]
              /\ NoConnectionLeak'
          BY <4>1, CloseAndDeleteEffect DEF IndInv
        <4>3. QED
          BY <1>2, <4>1, <4>2
      <3>3. QED
        BY <1>4, <3>1, <3>2 DEF WorkerRecord
    <2>3. WorkersInv'
      <3>1. pc' = "wait"
        BY <1>1 DEF runVars
      <3>2. \A c \in Containers \ {w} : (c \in Keys' <=> c \in Keys) /\ (c \in results' <=> c \in results)
        BY <2>2
      <3>3. worker'[w] = "done" /\ \A c \in Containers \ {w} : worker'[c] = worker[c]
        BY <2>1
      <3> QED BY <1>1, <2>2, <3>1, <3>2, <3>3 DEF IndInv, WorkersInv
    <2>4. TargetsInv' /\ KeysInv' /\ PeerInv'
      BY <1>1, <2>2 DEF IndInv, TargetsInv, KeysInv, PeerInv, envVars, runVars
    <2>5. OneConnectionPerPod' /\ NoDuplicateSeries' /\ ExportedIsConnected'
      BY <1>1, <2>2 DEF IndInv, OneConnectionPerPod, NoDuplicateSeries, ExportedIsConnected,
                        pubVars, runVars
    <2>6. QED
      BY <2>2, <2>3, <2>4, <2>5 DEF IndInv
  <1>5. QED
    BY <1>3, <1>4 DEF WorkerStep

(* Publication: with every goroutine done, the results are the keys. *)
LEMMA PublishStep ==
    ASSUME IndInv, TypeOK', PollPublish
    PROVE  IndInv' /\ published' \subseteq targets
  <1>1. Keys' = Keys
    BY DEF PollPublish, PublishAs, Keys, connVars
  <1>2. results = Keys
    BY DEF PollPublish, PublishAs, IndInv, TypeOK, WorkersInv, Keys
  <1>3. published' = Keys /\ Keys \subseteq targets
    BY <1>2 DEF PollPublish, PublishAs, IndInv, KeysInv
  <1>4. WorkersInv' /\ TargetsInv' /\ KeysInv' /\ PeerInv'
    BY <1>1 DEF PollPublish, PublishAs, IndInv, WorkersInv, TargetsInv, KeysInv, PeerInv, envVars, connVars
  <1>5. OneConnectionPerPod' /\ NoDuplicateSeries' /\ NoConnectionLeak' /\ ExportedIsConnected'
    BY <1>1, <1>3, SMT DEF PollPublish, PublishAs, IndInv, OneConnectionPerPod, NoDuplicateSeries,
                      NoConnectionLeak, ExportedIsConnected, connVars
  <1>6. QED
    BY <1>3, <1>4, <1>5 DEF IndInv

(* The select of Run: the next poll, or closeAll. *)
LEMMA RunStep ==
    ASSUME IndInv, TypeOK', RunTick \/ RunDone
    PROVE  IndInv'
  <1>1. CASE RunTick
    <2>1. Keys' = Keys
      BY <1>1 DEF RunTick, Keys, connVars
    <2>2. /\ UNCHANGED <<container, connections, open, published, targets, allPods, worker, results>>
          /\ pc = "idle" /\ pc' = "list"
      BY <1>1 DEF RunTick, envVars, connVars, pubVars, workerVars
    <2>3. TargetsInv' /\ WorkersInv'
      BY <2>2 DEF IndInv, TargetsInv, WorkersInv
    <2>4. KeysInv' /\ PeerInv' /\ ExportedIsConnected'
      BY <2>1, <2>2 DEF IndInv, KeysInv, PeerInv, ExportedIsConnected
    <2>5. OneConnectionPerPod' /\ NoDuplicateSeries' /\ NoConnectionLeak'
      BY <2>1, <2>2 DEF IndInv, OneConnectionPerPod, NoDuplicateSeries, NoConnectionLeak
    <2>6. QED
      BY <2>3, <2>4, <2>5 DEF IndInv
  <1>2. CASE RunDone
    <2>1. Keys' = {} /\ NoConnectionLeak'
      BY <1>2, CloseAndDeleteEffect DEF RunDone, IndInv, Keys
    <2>2. QED
      BY <1>2, <2>1 DEF RunDone, IndInv, TargetsInv, KeysInv, WorkersInv, PeerInv, OneConnectionPerPod,
         NoDuplicateSeries, ExportedIsConnected, envVars, pubVars, workerVars
  <1>3. QED
    BY <1>1, <1>2

(* The invariant holds initially: the map is empty and nothing is resolved. *)
LEMMA IndInit == Init => IndInv
  <1> SUFFICES ASSUME Init PROVE IndInv
    OBVIOUS
  <1>1. TypeOK
    BY TypeInit
  <1>2. Keys = {}
    BY DEF Init, Keys
  <1>3. QED
    BY <1>1, <1>2 DEF Init, IndInv, TargetsInv, KeysInv, WorkersInv, PeerInv, OneConnectionPerPod,
       NoDuplicateSeries, NoConnectionLeak, ExportedIsConnected

(* The invariant is inductive, and the pruning step of poll keeps only     *)
(* entries filed under the container they dialled.                         *)
LEMMA IndStep ==
    IndInv /\ [Next]_vars =>
        IndInv' /\ (pc = "resolve" /\ pc' = "connect" => \A c \in Keys' : connections'[c].peer = c)
  <1> SUFFICES ASSUME IndInv, [Next]_vars
               PROVE  IndInv' /\ (pc = "resolve" /\ pc' = "connect" =>
                                     \A c \in Keys' : connections'[c].peer = c)
    OBVIOUS
  <1>1. TypeOK'
    BY TypeStep DEF IndInv
  <1>2. CASE PollReconcile
    BY <1>1, <1>2, ReconcileStep
  <1>3. CASE Environment
    BY <1>1, <1>3, EnvironmentStep
       DEF Environment, PodAppears, PodLeaves, ContainerStarts, ContainerExits, Cancel, TimePasses, runVars
  <1>4. CASE PollList \/ (\E p \in Pods : PollResolve(p)) \/ (\E c \in Containers : PollFindPID(c))
    BY <1>1, <1>4, LookupStep DEF PollList, PollResolve, PollFindPID
  <1>5. CASE ConnectVM
    BY <1>1, <1>5, ConnectStep DEF ConnectVM, InsertConnection
  <1>6. CASE PollSnapshot
    BY <1>1, <1>6, SnapshotStep DEF PollSnapshot
  <1>7. CASE PollPublish
    BY <1>1, <1>7, PublishStep DEF PollPublish, PublishAs
  <1>8. ASSUME NEW c \in Containers, WorkerStep(c) PROVE IndInv' /\ UNCHANGED pc
    BY <1>1, <1>8, WorkerStepInv DEF WorkerStep, WorkerAcquire, WorkerScrape, WorkerRecord, runVars
  <1>9. CASE RunTick \/ RunDone
    BY <1>1, <1>9, RunStep DEF RunTick, RunDone
  <1>10. CASE UNCHANGED vars
    <2>1. UNCHANGED <<envVars, connVars, pubVars, runVars, workerVars>>
      BY <1>10 DEF vars
    <2>2. /\ Keys' = Keys
          /\ WorkersInv' /\ OneConnectionPerPod' /\ NoDuplicateSeries'
          /\ NoConnectionLeak' /\ ExportedIsConnected'
      BY <2>1, MapUnchanged DEF connVars, pubVars, runVars, workerVars
    <2>3. QED
      BY <1>1, <2>1, <2>2 DEF IndInv, TargetsInv, KeysInv, PeerInv, envVars, connVars, runVars
  <1>11. QED
    BY <1>2, <1>3, <1>4, <1>5, <1>6, <1>7, <1>8, <1>9, <1>10 DEF Next, PollStep, Terminated

(* IndInv holds in every reachable state. *)
THEOREM InductiveInvariant == Spec => []IndInv
  BY IndInit, IndStep, PTL DEF Spec

(* poll never keeps two connections for one pod, for any number of pods,   *)
(* container restarts and failed lookups.                                  *)
THEOREM OneConnection == Spec => []OneConnectionPerPod
  <1>1. IndInv => OneConnectionPerPod
    BY DEF IndInv
  <1>2. QED
    BY <1>1, InductiveInvariant, PTL

(* Collect never emits the series of one pod twice. *)
THEOREM SeriesUnique == Spec => []NoDuplicateSeries
  <1>1. IndInv => NoDuplicateSeries
    BY DEF IndInv
  <1>2. QED
    BY <1>1, InductiveInvariant, PTL

(* The open libvirt clients are those of the connections map, one each. *)
THEOREM ClientsOwned == Spec => []NoConnectionLeak
  <1>1. IndInv => NoConnectionLeak
    BY DEF IndInv
  <1>2. QED
    BY <1>1, InductiveInvariant, PTL

(* Between polls what Collect reports is what is connected. *)
THEOREM ExportMatchesConnections == Spec => []ExportedIsConnected
  <1>1. IndInv => ExportedIsConnected
    BY DEF IndInv
  <1>2. QED
    BY <1>1, InductiveInvariant, PTL

(* An entry filed under a replaced container does not survive the next     *)
(* pruning of the map.                                                     *)
THEOREM Healing == Spec => ReconcileHeals
  BY InductiveInvariant, IndStep, PTL DEF Spec, ReconcileHeals
-----------------------------------------------------------------------------
(* QMPCollector implements VMExport, for all values of the constants.  The *)
(* argument needs IndInv, for a goroutine that fails must take away the    *)
(* only connection of its VM and the results must be the keys, and that    *)
(* what a poll resolves is selected.                                       *)

(* The pods a poll has still to resolve, and those of its targets, pass    *)
(* the filters.                                                            *)
SelectedInv ==
    /\ allPods \subseteq Selected
    /\ \A c \in targets : PodOf[c] \in Selected

(* SelectedInv is inductive: only PollList fills allPods, and a target is  *)
(* a container of one of these pods.                                       *)
LEMMA SelectedStep == SelectedInv /\ [Next]_vars => SelectedInv'
  <1> SUFFICES ASSUME SelectedInv, [Next]_vars PROVE SelectedInv'
    OBVIOUS
  <1>1. CASE PollList
    BY <1>1 DEF PollList, SelectedInv
  <1>2. ASSUME NEW p \in Pods, PollResolve(p) PROVE SelectedInv'
    BY <1>2 DEF PollResolve, CRIFinds, Running, SelectedInv
  <1>3. CASE PollPublish
    BY <1>3 DEF PollPublish, PublishAs, SelectedInv
  <1>4. ASSUME UNCHANGED <<allPods, targets>> PROVE SelectedInv'
    BY <1>4 DEF SelectedInv
  <1>5. CASE Environment
    BY <1>4, <1>5 DEF Environment, PodAppears, PodLeaves, ContainerStarts, ContainerExits, Cancel,
                      TimePasses, runVars
  <1>6. CASE PollReconcile \/ (\E c \in Containers : PollFindPID(c)) \/ ConnectVM \/ PollSnapshot
    BY <1>4, <1>6 DEF PollReconcile, PollFindPID, ConnectVM, PollSnapshot
  <1>7. ASSUME NEW c \in Containers, WorkerStep(c) PROVE SelectedInv'
    BY <1>4, <1>7 DEF WorkerStep, WorkerAcquire, WorkerScrape, WorkerRecord, runVars
  <1>8. CASE RunTick \/ RunDone
    BY <1>4, <1>8 DEF RunTick, RunDone
  <1>9. CASE UNCHANGED vars
    BY <1>4, <1>9 DEF vars, runVars
  <1>10. QED
    BY <1>1, <1>2, <1>3, <1>5, <1>6, <1>7, <1>8, <1>9 DEF Next, PollStep, Terminated

(* The initial states are initial states of VMExport. *)
LEMMA VMInit == Init => VM!Init /\ SelectedInv
  <1> SUFFICES ASSUME Init PROVE VM!Init /\ SelectedInv
    OBVIOUS
  <1>1. Keys = {}
    BY DEF Init, Keys
  <1>2. QED
    BY <1>1 DEF Init, VM!Init, Phase, SelectedInv

(* A step that keeps the map, the published results and the phase is a     *)
(* stuttering step of VMExport.                                            *)
LEMMA VMStutter ==
    ASSUME UNCHANGED <<connections, published>>, Phase' = Phase
    PROVE  UNCHANGED VM!vars
  <1>1. Keys' = Keys
    BY DEF Keys
  <1>2. QED
    BY <1>1 DEF VM!vars

(* ConnectVM connects a selected VM that is not connected, or nothing. *)
LEMMA VMConnect ==
    ASSUME IndInv, SelectedInv, ConnectVM
    PROVE  [VM!Next]_VM!vars
  <1> DEFINE k == dialing.key
             f == dialing.found
  <1> USE ConstantsAssumption
  <1>1. /\ k \in Containers /\ f \in Containers
        /\ k \in targets /\ k \notin Keys
    BY DEF ConnectVM, IndInv, TypeOK, Lookup, KeysInv
  <1>2. Phase = "connecting" /\ Phase' = "connecting" /\ published' = published
    BY DEF ConnectVM, Phase, pubVars
  <1>3. CASE UNCHANGED connVars
    BY <1>2, <1>3, VMStutter DEF connVars
  <1>4. ASSUME NEW o \in FreshConns, connections' = [connections EXCEPT ![k] = [id |-> o, peer |-> f]]
        PROVE  VM!Connect(PodOf[k])
    <2>1. [id |-> o, peer |-> f] # None
      BY <1>1, <1>4, SMT DEF FreshConns, VMConnection
    <2>2. Keys' = Keys \cup {k}
      BY <1>1, <1>4, <2>1 DEF Keys, IndInv, TypeOK
    <2>3. PodOf[k] \notin {PodOf[c] : c \in Keys}
      BY <1>1 DEF ConnectVM, IndInv, KeysInv, TargetsInv
    <2>4. {PodOf[c] : c \in Keys'} = {PodOf[c] : c \in Keys} \cup {PodOf[k]}
      BY <2>2
    <2>5. QED
      BY <1>2, <2>3, <2>4 DEF VM!Connect
  <1>5. PodOf[k] \in Selected
    BY <1>1 DEF SelectedInv
  <1>6. \/ UNCHANGED connVars
        \/ \E o \in FreshConns : connections' = [connections EXCEPT ![k] = [id |-> o, peer |-> f]]
    BY <1>1 DEF ConnectVM, InsertConnection
  <1>7. VM!Connect(PodOf[k]) => VM!Next
    BY <1>5 DEF VM!Next, VM!Connect
  <1>8. QED
    BY <1>3, <1>4, <1>6, <1>7

(* A goroutine changes nothing that VMExport sees, or disconnects the VM   *)
(* whose scrape failed and no other.                                       *)
LEMMA VMWorker ==
    ASSUME IndInv, SelectedInv, NEW w \in Containers, WorkerStep(w)
    PROVE  [VM!Next]_VM!vars
  <1> USE ConstantsAssumption
  <1>1. Phase' = Phase /\ published' = published
    BY DEF WorkerStep, WorkerAcquire, WorkerScrape, WorkerRecord, runVars, pubVars, Phase
  <1>2. CASE UNCHANGED connections
    BY <1>1, <1>2, VMStutter
  <1>3. ASSUME worker[w] = "err", CloseAndDelete({w}) PROVE VM!ScrapeFails(PodOf[w])
    <2>1. pc = "wait" /\ w \in Keys
      BY <1>3 DEF IndInv, WorkersInv, TypeOK
    <2>2. Keys' = Keys \ {w}
      BY <1>3, CloseAndDeleteEffect DEF IndInv
    <2>3. {PodOf[c] : c \in Keys'} = {PodOf[c] : c \in Keys} \ {PodOf[w]}
      BY <2>1, <2>2 DEF IndInv, OneConnectionPerPod
    <2>4. Phase = "scraping"
      BY <2>1 DEF Phase
    <2>5. QED
      BY <1>1, <2>1, <2>3, <2>4 DEF VM!ScrapeFails
  <1>4. worker[w] = "err" => PodOf[w] \in Selected
    BY DEF IndInv, WorkersInv, KeysInv, TypeOK, SelectedInv
  <1>5. CASE WorkerRecord(w)
    BY <1>2, <1>3, <1>4, <1>5 DEF WorkerRecord, connVars, VM!Next
  <1>6. CASE WorkerAcquire(w) \/ WorkerScrape(w)
    BY <1>2, <1>6 DEF WorkerAcquire, WorkerScrape, connVars
  <1>7. QED
    BY <1>5, <1>6 DEF WorkerStep

(* Every step is a step of VMExport or a stuttering step. *)
LEMMA VMStep == IndInv /\ SelectedInv /\ [Next]_vars => [VM!Next]_VM!vars
  <1> SUFFICES ASSUME IndInv, SelectedInv, [Next]_vars PROVE [VM!Next]_VM!vars
    OBVIOUS
  <1>1. CASE PollReconcile
    <2>1. Keys' \subseteq Keys
      BY <1>1, CloseAndDeleteEffect DEF PollReconcile, IndInv, Keys
    <2>2. {PodOf[c] : c \in Keys'} \in SUBSET {PodOf[c] : c \in Keys}
      BY <2>1
    <2>3. QED
      BY <1>1, <2>2 DEF PollReconcile, pubVars, Phase, VM!Reconcile, VM!Next
  <1>2. CASE Environment
    BY <1>2, VMStutter DEF Environment, PodAppears, PodLeaves, ContainerStarts, ContainerExits, Cancel,
                           TimePasses, runVars, connVars, pubVars, Phase
  <1>3. CASE PollList \/ (\E p \in Pods : PollResolve(p)) \/ (\E c \in Containers : PollFindPID(c))
    BY <1>3, VMStutter DEF PollList, PollResolve, PollFindPID, connVars, pubVars, Phase
  <1>4. CASE ConnectVM
    BY <1>4, VMConnect
  <1>5. CASE PollSnapshot
    <2>1. Keys' = Keys
      BY <1>5 DEF PollSnapshot, connVars, Keys
    <2>2. QED
      BY <1>5, <2>1 DEF PollSnapshot, pubVars, Phase, VM!Scrape, VM!Next
  <1>6. CASE PollPublish
    <2>1. Keys' = Keys
      BY <1>6 DEF PollPublish, PublishAs, connVars, Keys
    <2>2. results = Keys
      BY <1>6 DEF PollPublish, PublishAs, IndInv, TypeOK, WorkersInv, Keys
    <2>3. QED
      BY <1>6, <2>1, <2>2 DEF PollPublish, PublishAs, Phase, VM!Publish, VM!Next
  <1>7. ASSUME NEW c \in Containers, WorkerStep(c) PROVE [VM!Next]_VM!vars
    BY <1>7, VMWorker
  <1>8. CASE RunTick
    <2>1. Keys' = Keys
      BY <1>8 DEF RunTick, connVars, Keys
    <2>2. QED
      BY <1>8, <2>1 DEF RunTick, pubVars, Phase, VM!Poll, VM!Next
  <1>9. CASE RunDone
    <2>1. Keys' = {}
      BY <1>9, CloseAndDeleteEffect DEF RunDone, IndInv, Keys
    <2>2. QED
      BY <1>9, <2>1 DEF RunDone, pubVars, Phase, VM!Stop, VM!Next
  <1>10. CASE UNCHANGED vars
    BY <1>10, VMStutter DEF vars, connVars, pubVars, runVars, Phase
  <1>11. QED
    BY <1>1, <1>2, <1>3, <1>4, <1>5, <1>6, <1>7, <1>8, <1>9, <1>10 DEF Next, PollStep, Terminated

(* The poller implements VMExport, for any number of pods, containers and  *)
(* failures: VMs are connected once, lost by their own failures only, and  *)
(* shown exactly when connected at the end of a poll.                      *)
THEOREM Refinement == Spec => ImplementsVMExport
  <1>1. Spec => []SelectedInv
    BY VMInit, SelectedStep, PTL DEF Spec
  <1>2. QED
    BY <1>1, VMInit, VMStep, InductiveInvariant, PTL DEF Spec, ImplementsVMExport, VM!Spec
-----------------------------------------------------------------------------
(* The accounts of a poll. *)

(* Goroutines that are done and have no result. *)
Failed == {c \in Containers : worker[c] = "done"} \ results

CountInv == pollErrors = Cardinality(Failed)

LEMMA CountInit == Init => CountInv
  <1> SUFFICES ASSUME Init PROVE CountInv
    OBVIOUS
  <1>1. Failed = {} BY DEF Init, Failed
  <1> QED BY <1>1, FS_EmptySet DEF Init, CountInv

(* Only a goroutine that records its outcome, and the end of the poll,     *)
(* change the accounts.                                                    *)
LEMMA CountSame ==
  ASSUME CountInv, UNCHANGED pollErrors, Failed' = Failed
  PROVE  CountInv'
  BY DEF CountInv

LEMMA CountRecord ==
  ASSUME IndInv, CountInv, NEW w \in Containers, WorkerRecord(w)
  PROVE  CountInv'
  <1>1. w \notin Failed /\ w \notin results
    <2>1. worker[w] \in {"ok", "err"} /\ worker[w] # "none" BY DEF WorkerRecord
    <2> QED BY <2>1 DEF Failed, IndInv, WorkersInv
  <1>2. \A c \in Containers : worker'[c] = IF c = w THEN "done" ELSE worker[c]
    BY DEF WorkerRecord, IndInv, TypeOK
  <1>3. CASE worker[w] = "ok"
    <2>1. results' = results \cup {w} /\ UNCHANGED pollErrors BY <1>3 DEF WorkerRecord
    <2>2. Failed' = Failed BY <1>2, <1>3, <2>1 DEF Failed
    <2> QED BY <2>1, <2>2, CountSame
  <1>4. CASE worker[w] = "err"
    <2>1. results' = results /\ pollErrors' = pollErrors + 1 BY <1>4 DEF WorkerRecord
    <2>2. Failed' = Failed \cup {w} BY <1>1, <1>2, <1>4, <2>1 DEF Failed
    <2>3. Failed \in SUBSET Containers BY DEF Failed
    <2>4. IsFiniteSet(Failed) BY <2>3, FS_Subset, ConstantsAssumption
    <2>5. Cardinality(Failed \cup {w}) = Cardinality(Failed) + 1 BY <1>1, <2>4, FS_AddElement
    <2> QED BY <2>1, <2>2, <2>5 DEF CountInv
  <1> QED BY <1>3, <1>4 DEF WorkerRecord

LEMMA CountStep == IndInv /\ CountInv /\ [Next]_vars => CountInv'
  <1> SUFFICES ASSUME IndInv, CountInv, [Next]_vars PROVE CountInv'
    OBVIOUS
  <1>1. CASE UNCHANGED workerVars
    BY <1>1, CountSame DEF workerVars, Failed
  <1>2. CASE PollSnapshot
    <2>1. Failed' = {} /\ Failed = {}
      BY <1>2 DEF PollSnapshot, Failed, IndInv, WorkersInv
    <2> QED BY <1>2, <2>1, CountSame DEF PollSnapshot
  <1>3. CASE PollPublish
    <2>1. Failed' = {} /\ pollErrors' = 0 BY <1>3 DEF PollPublish, PublishAs, Failed
    <2> QED BY <2>1, FS_EmptySet DEF CountInv
  <1>4. ASSUME NEW w \in Containers, WorkerAcquire(w) \/ WorkerScrape(w) PROVE CountInv'
    <2>1. /\ UNCHANGED <<results, pollErrors>> /\ worker[w] # "done"
          /\ \E x \in {"scraping", "ok", "err"} : worker' = [worker EXCEPT ![w] = x]
      BY <1>4 DEF WorkerAcquire, WorkerScrape
    <2>2. Failed' = Failed BY <2>1 DEF Failed, IndInv, TypeOK
    <2> QED BY <2>1, <2>2, CountSame
  <1>5. ASSUME NEW w \in Containers, WorkerRecord(w) PROVE CountInv'
    BY <1>5, CountRecord
  <1>6. CASE Environment
    BY <1>1, <1>6 DEF Environment, PodAppears, PodLeaves, ContainerStarts, ContainerExits, Cancel, TimePasses
  <1>7. CASE PollList \/ (\E p \in Pods : PollResolve(p)) \/ PollReconcile
             \/ (\E c \in Containers : PollFindPID(c)) \/ ConnectVM
    BY <1>1, <1>7 DEF PollList, PollResolve, PollReconcile, PollFindPID, ConnectVM
  <1>8. CASE RunTick \/ RunDone \/ UNCHANGED vars
    BY <1>1, <1>8 DEF RunTick, RunDone, vars
  <1> QED BY <1>2, <1>3, <1>4, <1>5, <1>6, <1>7, <1>8 DEF Next, PollStep, WorkerStep, Terminated

(* At the end of a poll the goroutines are done: those with a result are   *)
(* published, the others are the errors counted.                           *)
LEMMA PublishCounts ==
  ASSUME IndInv, CountInv, PollPublish
  PROVE  Cardinality({c \in Containers : worker[c] # "none"})
           = Cardinality(published') + (scrapeErrors' - scrapeErrors)
  <1> DEFINE Done == {c \in Containers : worker[c] = "done"}
  <1>1. {c \in Containers : worker[c] # "none"} = Done BY DEF PollPublish, PublishAs
  <1>2. published' = results /\ scrapeErrors' = scrapeErrors + pollErrors
    BY DEF PollPublish, PublishAs
  <1>3. Done \cap results = results
    BY DEF PollPublish, PublishAs, IndInv, TypeOK, WorkersInv
  <1>4. IsFiniteSet(Done) /\ IsFiniteSet(results)
    BY FS_Subset, ConstantsAssumption DEF IndInv, TypeOK
  <1>5. Failed = Done \ results BY DEF Failed
  <1> HIDE DEF Done
  <1>6. Cardinality(Failed) = Cardinality(Done) - Cardinality(results)
    BY <1>3, <1>4, <1>5, FS_Difference, SMT
  <1>7. Cardinality(Done) \in Nat /\ Cardinality(results) \in Nat BY <1>4, FS_CardinalityType
  <1>8. scrapeErrors \in Nat BY DEF IndInv, TypeOK
  <1>9. pollErrors = Cardinality(Done) - Cardinality(results) BY <1>6 DEF CountInv
  <1>10. Cardinality(Done) = Cardinality(results) + ((scrapeErrors + pollErrors) - scrapeErrors)
    BY <1>7, <1>8, <1>9, SMT
  <1> QED BY <1>1, <1>2, <1>10

(* poll publishes results of containers it resolved itself, and every      *)
(* goroutine it started is in the results or in the error counter, once:   *)
(* however the goroutines interleave under resultsMu.                      *)
THEOREM Accounts == Spec => PublishAccounts
  <1>1. ASSUME IndInv, CountInv, [Next]_vars, pc = "wait", pc' = "idle"
        PROVE  /\ published' \subseteq targets
               /\ Cardinality({c \in Containers : worker[c] # "none"})
                    = Cardinality(published') + (scrapeErrors' - scrapeErrors)
    <2>1. PollPublish
      <3>1. ASSUME NEW w \in Containers PROVE ~WorkerStep(w)
        BY <1>1 DEF WorkerStep, WorkerAcquire, WorkerScrape, WorkerRecord, runVars
      <3>2. ~Environment
        BY <1>1 DEF Environment, PodAppears, PodLeaves, ContainerStarts, ContainerExits, Cancel, TimePasses, runVars
      <3>3. ~(UNCHANGED vars) BY <1>1 DEF vars, runVars
      <3> QED BY <1>1, <3>1, <3>2, <3>3 DEF Next, PollStep, PollList, PollResolve, PollReconcile, PollFindPID,
              ConnectVM, PollSnapshot, RunTick, RunDone, Terminated
    <2>2. TypeOK' BY <1>1, TypeStep DEF IndInv
    <2> QED BY <1>1, <2>1, <2>2, PublishStep, PublishCounts
  <1>2. IndInv /\ CountInv /\ [Next]_vars =>
          [pc = "wait" /\ pc' = "idle" =>
             /\ published' \subseteq targets
             /\ Cardinality({c \in Containers : worker[c] # "none"})
                  = Cardinality(published') + (scrapeErrors' - scrapeErrors)]_vars
    BY <1>1
  <1>3. Spec => []CountInv
    BY CountInit, CountStep, InductiveInvariant, PTL DEF Spec
  <1> QED BY <1>2, <1>3, InductiveInvariant, PTL DEF Spec, PublishAccounts
=============================================================================
