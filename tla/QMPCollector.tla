---------------------------- MODULE QMPCollector ----------------------------
(***************************************************************************)
(* The QMP poller of pkg/qmp/collector.go: Run and poll, which find the    *)
(* virt-launcher pods of the node, ask the container runtime for the       *)
(* compute container of each, keep one libvirt connection per container    *)
(* ID, scrape every connection from its own goroutine and publish what the *)
(* goroutines gathered.  Pods, containers and the process that signals     *)
(* shutdown are the environment.  What one scrape asks of QEMU is          *)
(* QMPScrape; here a scrape succeeds or fails.                             *)
(*                                                                         *)
(* Sections the code runs under connMu, mu or resultsMu are one step each: *)
(* every access to the state they touch is under the same lock.            *)
(***************************************************************************)
EXTENDS Integers, FiniteSets

CONSTANTS
    Pods,          \* pods of the node, each with its namespace, name and VMI
    Selected,      \* those that pass the label, namespace and VMI-name filters
    Containers,    \* container IDs; the runtime never hands one out twice
    PodOf,         \* the pod a compute container belongs to
    Conns,         \* vmConnection objects
    None,          \* the absent map entry, and no lookup in hand
    Concurrency,   \* capacity of the channel sem
    MaxFaults,     \* bound: transient failures of calls to a healthy peer
    MaxClock       \* bound: the clock stops there

(* A map entry: the object and the container whose socket its client dialled. *)
VMConnection == [id : Conns, peer : Containers]

(* The second lookup: the ID to file the connection under, the container found. *)
Lookup == [key : Containers, found : Containers]

ASSUME ConstantsAssumption ==
    /\ Selected \subseteq Pods
    /\ PodOf \in [Containers -> Pods]
    /\ IsFiniteSet(Containers)
    /\ None \notin VMConnection \cup Lookup
    /\ Concurrency \in Nat \ {0}
    /\ MaxFaults \in Nat
    /\ MaxClock \in Nat \ {0}

VARIABLES
    (* environment *)
    podStore,      \* pods the informer cache lists with phase Running
    container,     \* life of each compute container
    cancelled,     \* the context of Run is cancelled
    clock,         \* Unix time
    faults,        \* transient failures so far
    (* the Collector and its vmConnection objects *)
    connections,   \* containerID -> vmConnection and the container it dialled
    open,          \* vmConnection objects that are dialled and not closed
    published,     \* container IDs of c.results
    scrapeErrors,  \* c.scrapeErrors
    lastPollTS,    \* c.lastPollTS
    (* the goroutine of Run *)
    pc,            \* where it is
    allPods,       \* pods of this poll still to be resolved
    targets,       \* container IDs resolved by this poll
    pending,       \* targets still to be connected
    dialing,       \* the second lookup of a target
    (* the scrape goroutines of this poll *)
    worker,        \* where the goroutine of each snapshot entry is
    sem,           \* goroutines whose token is in the channel
    results,       \* container IDs of the local results
    pollErrors     \* the local scrapeErrors

envVars    == <<podStore, container, cancelled, clock>>
connVars   == <<connections, open>>
pubVars    == <<published, scrapeErrors, lastPollTS>>
runVars    == <<pc, allPods, targets, pending, dialing>>
workerVars == <<worker, sem, results, pollErrors>>
vars       == <<envVars, faults, connVars, pubVars, runVars, workerVars>>

TypeOK ==
    /\ podStore \in SUBSET Pods
    /\ container \in [Containers -> {"new", "up", "dead"}]
    /\ cancelled \in BOOLEAN
    /\ clock \in 1..MaxClock
    /\ faults \in 0..MaxFaults
    /\ connections \in [Containers -> VMConnection \cup {None}]
    /\ open \in SUBSET Conns
    /\ published \in SUBSET Containers
    /\ scrapeErrors \in Nat
    /\ lastPollTS \in 0..MaxClock
    /\ pc \in {"list", "resolve", "connect", "dial", "wait", "idle", "stopped"}
    /\ allPods \in SUBSET Pods
    /\ targets \in SUBSET Containers
    /\ pending \in SUBSET Containers
    /\ dialing \in Lookup \cup {None}
    /\ pc = "dial" => dialing # None
    /\ worker \in [Containers -> {"none", "waiting", "scraping", "ok", "err", "done"}]
    /\ sem \in SUBSET Containers
    /\ results \in SUBSET Containers
    /\ pollErrors \in Nat

Init ==
    /\ podStore \in SUBSET Pods
    /\ container = [c \in Containers |-> "new"]
    /\ cancelled = FALSE
    /\ clock = 1
    /\ faults = 0
    /\ connections = [c \in Containers |-> None]
    /\ open = {}
    /\ published = {}
    /\ scrapeErrors = 0
    /\ lastPollTS = 0
    /\ pc = "list"
    /\ allPods = {}
    /\ targets = {}
    /\ pending = {}
    /\ dialing = None
    /\ worker = [c \in Containers |-> "none"]
    /\ sem = {}
    /\ results = {}
    /\ pollErrors = 0
-----------------------------------------------------------------------------
(* The environment. *)

(* The container of a pod that the runtime reports as running, if any. *)
Running(p) == {c \in Containers : PodOf[c] = p /\ container[c] = "up"}

PodAppears(p) ==
    /\ p \notin podStore
    /\ podStore' = podStore \cup {p}
    /\ UNCHANGED <<container, cancelled, clock, faults, connVars, pubVars, runVars, workerVars>>

PodLeaves(p) ==
    /\ p \in podStore
    /\ podStore' = podStore \ {p}
    /\ UNCHANGED <<container, cancelled, clock, faults, connVars, pubVars, runVars, workerVars>>

ContainerStarts(c) ==
    /\ container[c] = "new"
    /\ Running(PodOf[c]) = {}
    /\ container' = [container EXCEPT ![c] = "up"]
    /\ UNCHANGED <<podStore, cancelled, clock, faults, connVars, pubVars, runVars, workerVars>>

ContainerExits(c) ==
    /\ container[c] = "up"
    /\ container' = [container EXCEPT ![c] = "dead"]
    /\ UNCHANGED <<podStore, cancelled, clock, faults, connVars, pubVars, runVars, workerVars>>

(* SIGTERM or SIGINT reaches main. *)
Cancel ==
    /\ ~cancelled
    /\ cancelled' = TRUE
    /\ UNCHANGED <<podStore, container, clock, faults, connVars, pubVars, runVars, workerVars>>

TimePasses ==
    /\ clock < MaxClock
    /\ clock' = clock + 1
    /\ UNCHANGED <<podStore, container, cancelled, faults, connVars, pubVars, runVars, workerVars>>

(* A call that its peer could have answered fails all the same: a timeout, *)
(* a reset socket, an error reply.                                         *)
Fault ==
    /\ faults < MaxFaults
    /\ faults' = faults + 1
-----------------------------------------------------------------------------
(* FindComputePID: with the context cancelled it always fails; otherwise   *)
(* it fails when no compute container runs, and it may fail when one does. *)
CRIFails(p) == IF cancelled \/ Running(p) = {} THEN UNCHANGED faults ELSE Fault

CRIFinds(p, c) == ~cancelled /\ c \in Running(p)

(* Keys of the connections map. *)
Keys == {c \in Containers : connections[c] # None}

(* Objects a new vmConnection may be: nothing refers to them any more. *)
FreshConns == Conns \ (open \cup {connections[c].id : c \in Keys})

(* Mutant: the entry is deleted and its client left open. *)
DeleteOnly(K) ==
    /\ connections' = [c \in Containers |-> IF c \in K THEN None ELSE connections[c]]
    /\ UNCHANGED open

(* conn.close() followed by delete(c.connections, id), for each id of K. *)
CloseAndDelete(K) ==
    /\ open' = open \ {connections[c].id : c \in K \cap Keys}
    /\ connections' = [c \in Containers |-> IF c \in K THEN None ELSE connections[c]]
-----------------------------------------------------------------------------
(* poll: the pods of the store that pass the filters. *)
PollList ==
    /\ pc = "list"
    /\ allPods' = podStore \cap Selected
    /\ targets' = {}
    /\ pc' = "resolve"
    /\ UNCHANGED <<envVars, faults, connVars, pubVars, pending, dialing, workerVars>>

(* poll: the compute container of one listed pod. *)
PollResolve(p) ==
    /\ pc = "resolve"
    /\ p \in allPods
    /\ allPods' = allPods \ {p}
    /\ \/ /\ \E c \in Containers : CRIFinds(p, c) /\ targets' = targets \cup {c}
          /\ UNCHANGED faults
       \/ CRIFails(p) /\ UNCHANGED targets
    /\ UNCHANGED <<envVars, connVars, pubVars, pc, pending, dialing, workerVars>>

(* Mutant: entries of containers that were not found are kept. *)
ReconcileKeepsDeparted ==
    /\ pc = "resolve"
    /\ allPods = {}
    /\ pending' = targets \ Keys
    /\ pc' = "connect"
    /\ UNCHANGED <<envVars, faults, connVars, pubVars, allPods, targets, dialing, workerVars>>

(* poll: connections of containers that were not found are closed and      *)
(* dropped; targets that have none are to be connected.                    *)
PollReconcile ==
    /\ pc = "resolve"
    /\ allPods = {}
    /\ CloseAndDelete(Keys \ targets)
    /\ pending' = targets \ Keys
    /\ pc' = "connect"
    /\ UNCHANGED <<envVars, faults, pubVars, allPods, targets, dialing, workerVars>>

(* poll: the PID of a new target comes from a second lookup of its pod,    *)
(* which may find another container than the first did.                    *)
PollFindPID(k) ==
    /\ pc = "connect"
    /\ k \in pending
    /\ \/ /\ \E c \in Containers : CRIFinds(PodOf[k], c) /\ dialing' = [key |-> k, found |-> c]
          /\ pc' = "dial"
          /\ UNCHANGED <<faults, pending>>
       \/ /\ CRIFails(PodOf[k])
          /\ pending' = pending \ {k}
          /\ UNCHANGED <<pc, dialing>>
    /\ UNCHANGED <<envVars, connVars, pubVars, allPods, targets, workerVars>>

(* The new connection is filed, or closed when its key is taken by now. *)
InsertConnection(k, conn) ==
    IF k \in Keys
      THEN UNCHANGED connVars
      ELSE /\ connections' = [connections EXCEPT ![k] = conn]
           /\ open' = open \cup {conn.id}

(* connectVM.  The socket is reached through /proc/<pid>/root, so a        *)
(* container that has exited since the lookup cannot be dialled.           *)
ConnectVM ==
    /\ pc = "dial"
    /\ LET k == dialing.key
           c == dialing.found
       IN  /\ \/ /\ container[c] = "up"
                 /\ \E o \in FreshConns : InsertConnection(k, [id |-> o, peer |-> c])
                 /\ UNCHANGED faults
              \/ /\ IF container[c] = "up" THEN Fault ELSE UNCHANGED faults
                 /\ UNCHANGED connVars
           /\ pending' = pending \ {k}
    /\ dialing' = None
    /\ pc' = "connect"
    /\ UNCHANGED <<envVars, pubVars, allPods, targets, workerVars>>

(* poll: one goroutine per connection of the map; all of them are started  *)
(* before wg.Wait.                                                         *)
PollSnapshot ==
    /\ pc = "connect"
    /\ pending = {}
    /\ worker' = [c \in Containers |-> IF c \in Keys THEN "waiting" ELSE "none"]
    /\ pc' = "wait"
    /\ UNCHANGED <<envVars, faults, connVars, pubVars, allPods, targets, pending, dialing,
                   sem, results, pollErrors>>

(* sem <- struct{}{} *)
WorkerAcquire(c) ==
    /\ worker[c] = "waiting"
    /\ Cardinality(sem) < Concurrency
    /\ sem' = sem \cup {c}
    /\ worker' = [worker EXCEPT ![c] = "scraping"]
    /\ UNCHANGED <<envVars, faults, connVars, pubVars, runVars, results, pollErrors>>

(* scrapeVM returns.  It fails on a connection that is closed or whose VM  *)
(* is gone, and it may fail on any other.                                  *)
WorkerScrape(c) ==
    /\ worker[c] = "scraping"
    /\ LET alive == connections[c].id \in open /\ container[connections[c].peer] = "up"
       IN  \/ /\ alive
              /\ worker' = [worker EXCEPT ![c] = "ok"]
              /\ UNCHANGED faults
           \/ /\ IF alive THEN Fault ELSE UNCHANGED faults
              /\ worker' = [worker EXCEPT ![c] = "err"]
    /\ UNCHANGED <<envVars, connVars, pubVars, runVars, sem, results, pollErrors>>

(* Mutant: a failed scrape closes the connection and returns, which leaves *)
(* the closed one in the map.                                              *)
RecordKeepsEntry(c) ==
    /\ \/ worker[c] = "ok" /\ results' = results \cup {c} /\ UNCHANGED open
       \/ worker[c] = "err" /\ open' = open \ {connections[c].id} /\ UNCHANGED results
    /\ sem' = sem \ {c}
    /\ worker' = [worker EXCEPT ![c] = "done"]
    /\ UNCHANGED <<envVars, faults, connections, pubVars, runVars, pollErrors>>

(* Mutant: a failed scrape is not counted. *)
RecordUncounted(c) ==
    /\ \/ worker[c] = "ok" /\ results' = results \cup {c} /\ UNCHANGED connVars
       \/ worker[c] = "err" /\ CloseAndDelete({c}) /\ UNCHANGED results
    /\ sem' = sem \ {c}
    /\ worker' = [worker EXCEPT ![c] = "done"]
    /\ UNCHANGED <<envVars, faults, pubVars, runVars, pollErrors>>

(* The section under resultsMu and the deferred release of the token.  A   *)
(* failed scrape costs the VM its connection.                              *)
WorkerRecord(c) ==
    /\ \/ /\ worker[c] = "ok"
          /\ results' = results \cup {c}
          /\ UNCHANGED <<connVars, pollErrors>>
       \/ /\ worker[c] = "err"
          /\ pollErrors' = pollErrors + 1
          /\ CloseAndDelete({c})
          /\ UNCHANGED results
    /\ sem' = sem \ {c}
    /\ worker' = [worker EXCEPT ![c] = "done"]
    /\ UNCHANGED <<envVars, faults, pubVars, runVars>>

(* The end of poll, for the results and the time it stores. *)
PublishAs(newResults, timestamp) ==
    /\ pc = "wait"
    /\ \A c \in Containers : worker[c] \in {"none", "done"}
    /\ published' = newResults
    /\ scrapeErrors' = scrapeErrors + pollErrors
    /\ lastPollTS' = timestamp
    /\ pc' = "idle"
    /\ worker' = [c \in Containers |-> "none"]
    /\ results' = {}
    /\ pollErrors' = 0
    /\ targets' = {}
    /\ UNCHANGED <<envVars, faults, connVars, allPods, pending, dialing, sem>>

(* Mutant: the results are added to those of the previous poll. *)
PublishMerges == PublishAs(published \cup results, clock)

(* Mutant: the timestamp is in milliseconds. *)
PublishMillis == PublishAs(results, 1000 * clock)

(* poll after wg.Wait: the results replace those of the previous poll. *)
PollPublish == PublishAs(results, clock)

(* Run: the ticker fires. *)
RunTick ==
    /\ pc = "idle"
    /\ pc' = "list"
    /\ UNCHANGED <<envVars, faults, connVars, pubVars, allPods, targets, pending, dialing,
                   workerVars>>

(* Mutant: Run returns without closeAll. *)
DoneWithoutCloseAll ==
    /\ pc = "idle"
    /\ cancelled
    /\ pc' = "stopped"
    /\ UNCHANGED <<envVars, faults, connVars, pubVars, allPods, targets, pending, dialing,
                   workerVars>>

(* Run: the context is done; closeAll, then return. *)
RunDone ==
    /\ pc = "idle"
    /\ cancelled
    /\ CloseAndDelete(Keys)
    /\ pc' = "stopped"
    /\ UNCHANGED <<envVars, faults, pubVars, allPods, targets, pending, dialing, workerVars>>

(* The process is gone; nothing is left to do. *)
Terminated == pc = "stopped" /\ UNCHANGED vars
-----------------------------------------------------------------------------
Environment ==
    \/ \E p \in Pods : PodAppears(p) \/ PodLeaves(p)
    \/ \E c \in Containers : ContainerStarts(c) \/ ContainerExits(c)
    \/ Cancel
    \/ TimePasses

PollStep ==
    \/ PollList
    \/ \E p \in Pods : PollResolve(p)
    \/ PollReconcile
    \/ \E c \in Containers : PollFindPID(c)
    \/ ConnectVM
    \/ PollSnapshot
    \/ PollPublish

WorkerStep(c) == WorkerAcquire(c) \/ WorkerScrape(c) \/ WorkerRecord(c)

Next ==
    \/ Environment
    \/ PollStep
    \/ \E c \in Containers : WorkerStep(c)
    \/ RunTick
    \/ RunDone
    \/ Terminated

Spec == Init /\ [][Next]_vars

(* The goroutines run, the ticker fires, and a select between a ready      *)
(* ticker and a done context does not pick the ticker for ever.            *)
Fairness ==
    /\ WF_vars(PollStep)
    /\ \A c \in Containers : WF_vars(WorkerStep(c))
    /\ WF_vars(RunTick)
    /\ SF_vars(RunDone)

FairSpec == Spec /\ Fairness
-----------------------------------------------------------------------------
(* Safety. *)

(* However containers restart and lookups fail between two polls, the      *)
(* connections map, which is keyed by container ID, never holds two        *)
(* entries for one pod: poll drops the entries of containers it did not    *)
(* resolve before it adds any.                                             *)
OneConnectionPerPod ==
    \A c, d \in Keys : PodOf[c] = PodOf[d] => c = d

(* No two results handed to Collect carry the same namespace, VMI and pod. *)
(* Collect labels its series with these, and the Prometheus registry fails *)
(* the whole scrape of the node on a repeated series.                      *)
NoDuplicateSeries ==
    \A c, d \in published : PodOf[c] = PodOf[d] => c = d

(* Every libvirt client that is open is the client of exactly one entry of *)
(* the map: departures, failed scrapes and closeAll close what they        *)
(* delete, and no entry keeps a closed client.                             *)
NoConnectionLeak ==
    /\ open = {connections[c].id : c \in Keys}
    /\ \A c, d \in Keys : connections[c].id = connections[d].id => c = d

(* Between polls Collect reports exactly the VMs that are connected: a VM  *)
(* whose scrape failed is neither reported nor connected, and one that     *)
(* connected in this poll was also scraped in it.                          *)
ExportedIsConnected == pc = "idle" => published = Keys

(* When poll goes on to connect new VMs, every connection it kept was      *)
(* dialled to the very container it is filed under: an entry filed under a *)
(* container that was replaced between the two lookups of one poll does    *)
(* not survive the next.                                                   *)
ReconcileHeals ==
    [][pc = "resolve" /\ pc' = "connect" =>
        \A c \in Keys' : connections'[c].peer = c]_vars

(* What a poll publishes are containers the same poll resolved, and every  *)
(* goroutine it started is accounted for once, in results or in the error  *)
(* counter.                                                                *)
PublishAccounts ==
    [][pc = "wait" /\ pc' = "idle" =>
        /\ published' \subseteq targets
        /\ Cardinality({c \in Containers : worker[c] # "none"})
             = Cardinality(published') + (scrapeErrors' - scrapeErrors)]_vars
-----------------------------------------------------------------------------
(* What the poller is doing, seen from outside. *)
Phase ==
    CASE pc \in {"list", "resolve"} -> "resolving"
      [] pc \in {"connect", "dial"} -> "connecting"
      [] pc = "wait" -> "scraping"
      [] OTHER -> pc

VM == INSTANCE VMExport WITH
    VMs       <- Selected,
    connected <- {PodOf[c] : c \in Keys},
    shown     <- {PodOf[c] : c \in published},
    phase     <- Phase

(* The poller implements VMExport: whatever its lookups, dials and scrape  *)
(* goroutines do, a selected VM is connected at most once, a failed scrape *)
(* disconnects its VM and no other, connections are made and lost only in  *)
(* the phase meant for it, and a poll shows what is connected at its end.  *)
ImplementsVMExport == VM!Spec
-----------------------------------------------------------------------------
(* Liveness, under FairSpec. *)

(* A VM whose pod stays listed and whose container stays up is, from some  *)
(* poll on, reported by every poll, whatever failures came before: a       *)
(* failed scrape only costs it the connection, which a later poll redials. *)
HealthyVMExported ==
    \A c \in Containers :
        <>[](PodOf[c] \in podStore \cap Selected /\ container[c] = "up" /\ ~cancelled)
            => <>[](c \in published /\ c \in Keys)

(* A container that has exited stops being reported, and its connection is *)
(* dropped, unless the poller is told to stop first.                       *)
DeadVMDropped ==
    \A c \in Containers :
        container[c] = "dead" ~> (c \notin published /\ c \notin Keys) \/ pc = "stopped"

(* Once the context is cancelled Run returns, and leaves no client open.   *)
ShutdownCompletes == cancelled ~> (pc = "stopped" /\ open = {})
=============================================================================
