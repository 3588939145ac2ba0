----------------------------- MODULE QMPScrape ------------------------------
(***************************************************************************)
(* One VM as scrapeVM of pkg/qmp/collector.go sees it, scrape after        *)
(* scrape, while disks are plugged and unplugged: the caches armed, pvcMap *)
(* and numQueues of its vmConnection, the calls a scrape makes to QEMU and *)
(* to the API server, and what it hands to poll.                           *)
(*                                                                         *)
(* conn.mu is held for the whole of a scrape, so scrapes do not overlap;   *)
(* QEMU and the VMI change between any two calls.  A scrape that fails     *)
(* costs the connection (QMPCollector), and the next one starts on a new   *)
(* one.  A disk is named by its alias, which the device ID repeats.        *)
(***************************************************************************)
EXTENDS Integers, FiniteSets

CONSTANTS
    Disks,         \* aliases of disks, each with the volume name it comes from
    Blk,           \* disks on virtio-blk; the others sit on the controller
    Controller,    \* the virtio-scsi controller
    Claims,        \* PVC names
    None,
    MaxQueues,     \* virtqueues of a virtio device, at most
    MaxPlugs,      \* bound: disks plugged while the VM runs
    MaxFaults      \* bound: calls that fail though the peer could answer

Virtio == Blk \cup {Controller}

ASSUME ScrapeAssumption ==
    /\ Blk \subseteq Disks
    /\ Controller \notin Disks
    /\ None \notin Disks \cup Claims
    /\ {MaxQueues, MaxPlugs, MaxFaults} \subseteq Nat

VARIABLES
    (* QEMU and the VMI object *)
    plugged,       \* disk -> the claim behind it, None when it is not there
    histSet,       \* block-latency-histogram-set commands a disk has executed
    queues,        \* virtqueues of each virtio device
    status,        \* volumeStatus of the VMI: disk -> claim, lagging behind
    plugs, faults, \* how much of the bounds is used
    reused,        \* history: aliases unplugged since the connection was made
    (* the vmConnection *)
    armed, pvcMap, numQueues,
    (* one scrape *)
    pc,
    stats,         \* disks of the blockstats reply still to be looked at
    withHist,      \* those the reply has histograms for
    virtio,        \* devices of the x-query-virtio reply still to be looked at
    pvcRefreshed,
    devices, virtqueues,
    (* what the last scrape returned *)
    result

qemuVars == <<plugged, queues, status, plugs>>
connVars == <<armed, pvcMap, numQueues>>
scrapeVars == <<pc, stats, withHist, virtio, pvcRefreshed, devices, virtqueues>>
vars == <<qemuVars, histSet, faults, reused, connVars, scrapeVars, result>>

DeviceResult == [disk : Disks, pvc : Claims \cup {None}]

VirtqueueResult ==
    [dev : Virtio, pvc : Claims \cup {None}, queue : 0..(MaxQueues - 1)]

TypeOK ==
    /\ plugged \in [Disks -> Claims \cup {None}]
    /\ histSet \in [Disks -> Nat]
    /\ queues \in [Virtio -> 0..MaxQueues]
    /\ status \in [Disks -> Claims \cup {None}]
    /\ plugs \in 0..MaxPlugs
    /\ faults \in 0..MaxFaults
    /\ reused \in SUBSET Disks
    /\ armed \in SUBSET Disks
    /\ pvcMap \in [Disks -> Claims \cup {None}]
    /\ numQueues \in [Virtio -> 0..MaxQueues]
    /\ pc \in {"idle", "arm", "devices", "virtio"}
    /\ stats \in SUBSET Disks
    /\ withHist \in SUBSET Disks
    /\ virtio \in SUBSET Virtio
    /\ pvcRefreshed \in BOOLEAN
    /\ devices \in SUBSET DeviceResult
    /\ virtqueues \in SUBSET VirtqueueResult
    /\ result \in [devices : SUBSET DeviceResult, virtqueues : SUBSET VirtqueueResult]

NoResult == [devices |-> {}, virtqueues |-> {}]
NoCache  == [d \in Virtio |-> 0]
NoClaims == [d \in Disks |-> None]

Plugged == {d \in Disks : plugged[d] # None}

(* The first connection is made to a VM that has its disks and its status. *)
Init ==
    /\ plugged \in [Disks -> Claims \cup {None}]
    /\ histSet = [d \in Disks |-> 0]
    /\ queues \in [Virtio -> 1..MaxQueues]
    /\ status = plugged
    /\ plugs = 0
    /\ faults = 0
    /\ reused = {}
    /\ armed = {}
    /\ pvcMap = status
    /\ numQueues = NoCache
    /\ pc = "idle"
    /\ stats = {}
    /\ withHist = {}
    /\ virtio = {}
    /\ pvcRefreshed = FALSE
    /\ devices = {}
    /\ virtqueues = {}
    /\ result = NoResult
-----------------------------------------------------------------------------
(* The environment. *)

(* A disk is plugged, with any claim and number of queues. *)
Plug(d, claim) ==
    /\ d \notin Plugged
    /\ plugs < MaxPlugs
    /\ plugs' = plugs + 1
    /\ plugged' = [plugged EXCEPT ![d] = claim]
    /\ histSet' = [histSet EXCEPT ![d] = 0]
    /\ IF d \in Blk THEN \E n \in 1..MaxQueues : queues' = [queues EXCEPT ![d] = n]
                    ELSE UNCHANGED queues
    /\ UNCHANGED <<status, faults, reused, connVars, scrapeVars, result>>

Unplug(d) ==
    /\ d \in Plugged
    /\ plugs < MaxPlugs
    /\ plugged' = [plugged EXCEPT ![d] = None]
    /\ histSet' = [histSet EXCEPT ![d] = 0]
    /\ reused' = reused \cup {d}
    /\ UNCHANGED <<queues, status, plugs, faults, connVars, scrapeVars, result>>

(* The controllers of KubeVirt catch up with what is plugged. *)
StatusUpdate ==
    /\ status # plugged
    /\ status' = plugged
    /\ UNCHANGED <<plugged, histSet, queues, plugs, faults, reused, connVars, scrapeVars, result>>

Fault ==
    /\ faults < MaxFaults
    /\ faults' = faults + 1

(* A step spends at most one fault: none when everything went well. *)
FaultUnless(well) == IF well THEN UNCHANGED faults ELSE Fault
-----------------------------------------------------------------------------
(* FetchPVCMap: the claims of the VMI status, or nothing when Get fails. *)
FetchPVCMap(ok) == pvcMap' = IF ok THEN status ELSE NoClaims

(* refreshPVC: a missing claim is looked up once per scrape.  Afterwards   *)
(* pvcMap'[d] is the claim.                                                *)
RefreshPVC(d, ok) ==
    IF pvcMap[d] = None /\ ~pvcRefreshed
      THEN pvcRefreshed' = TRUE /\ FetchPVCMap(ok)
      ELSE ok /\ UNCHANGED <<pvcMap, pvcRefreshed>>

(* Mutant: claims are looked up once per connection, not per scrape. *)
QueryWithoutReset ==
    /\ pc = "idle"
    /\ pc' = "arm"
    /\ stats' = Plugged
    /\ withHist' = {d \in Plugged : histSet[d] > 0}
    /\ UNCHANGED <<qemuVars, histSet, faults, reused, connVars, virtio, pvcRefreshed, devices,
                   virtqueues, result>>

(* QueryBlockStats answers: the scrape works on this reply. *)
QueryBlockStats ==
    /\ pc = "idle"
    /\ pc' = "arm"
    /\ stats' = Plugged
    /\ withHist' = {d \in Plugged : histSet[d] > 0}
    /\ pvcRefreshed' = FALSE
    /\ UNCHANGED <<qemuVars, histSet, faults, reused, connVars, virtio, devices, virtqueues, result>>

(* QueryBlockStats fails: poll reports nothing for the VM and closes the   *)
(* connection; connectVM of a later poll starts with empty caches.         *)
ScrapeFails(ok) ==
    /\ pc = "idle"
    /\ Fault
    /\ armed' = {}
    /\ numQueues' = NoCache
    /\ reused' = {}
    /\ FetchPVCMap(ok)
    /\ result' = NoResult
    /\ UNCHANGED <<qemuVars, histSet, scrapeVars>>

(* Mutant: only armed tells whether a disk has its histograms. *)
ArmTrustsCache(d) ==
    /\ pc = "arm"
    /\ d \in stats
    /\ stats' = stats \ {d}
    /\ armed' = armed \cup {d}
    /\ histSet' = IF d \in Plugged \ armed THEN [histSet EXCEPT ![d] = @ + 1] ELSE histSet
    /\ UNCHANGED <<qemuVars, faults, reused, pvcMap, numQueues, pc, withHist, virtio, pvcRefreshed,
                   devices, virtqueues, result>>

(* Mutant: a disk counts as armed though EnableHistogram failed. *)
ArmIgnoresFailure(d) ==
    /\ pc = "arm"
    /\ d \in stats
    /\ stats' = stats \ {d}
    /\ armed' = armed \cup {d}
    /\ \/ d \in armed \cup withHist /\ UNCHANGED <<histSet, faults>>
       \/ d \in Plugged \ (armed \cup withHist) /\ histSet' = [histSet EXCEPT ![d] = @ + 1]
             /\ UNCHANGED faults
       \/ d \notin armed \cup withHist /\ FaultUnless(d \notin Plugged) /\ UNCHANGED histSet
    /\ UNCHANGED <<qemuVars, reused, pvcMap, numQueues, pc, withHist, virtio, pvcRefreshed,
                   devices, virtqueues, result>>

(* One turn of the arming loop.  EnableHistogram fails on a disk that was  *)
(* unplugged since the reply, and a failure may be a lost answer to a      *)
(* command that was executed.                                              *)
Arm(d) ==
    /\ pc = "arm"
    /\ d \in stats
    /\ stats' = stats \ {d}
    /\ \/ /\ d \in armed \cup withHist
          /\ armed' = armed \cup {d}
          /\ UNCHANGED <<histSet, faults>>
       \/ /\ d \notin armed \cup withHist
          /\ d \in Plugged
          /\ \E answered \in BOOLEAN :
               /\ armed' = IF answered THEN armed \cup {d} ELSE armed
               /\ FaultUnless(answered)
          /\ histSet' = [histSet EXCEPT ![d] = @ + 1]
       \/ /\ d \notin armed \cup withHist
          /\ FaultUnless(d \notin Plugged)
          /\ UNCHANGED <<armed, histSet>>
    /\ UNCHANGED <<qemuVars, reused, pvcMap, numQueues, pc, withHist, virtio, pvcRefreshed, devices,
                   virtqueues, result>>

(* The second loop over the reply takes the disks that had histograms. *)
ArmingDone ==
    /\ pc = "arm"
    /\ stats = {}
    /\ stats' = withHist
    /\ pc' = "devices"
    /\ UNCHANGED <<qemuVars, histSet, faults, reused, connVars, withHist, virtio, pvcRefreshed, devices,
                   virtqueues, result>>

(* A disk that had histograms is reported, with the claim found for it. *)
Device(d) ==
    /\ pc = "devices"
    /\ d \in stats
    /\ stats' = stats \ {d}
    /\ \E ok \in BOOLEAN : RefreshPVC(d, ok) /\ FaultUnless(ok)
    /\ devices' = devices \cup {[disk |-> d, pvc |-> pvcMap'[d]]}
    /\ UNCHANGED <<qemuVars, histSet, reused, armed, numQueues, pc, withHist, virtio, virtqueues, result>>

(* QueryVirtio; when it is not available the queues are skipped. *)
QueryVirtio(ok) ==
    /\ pc = "devices"
    /\ stats = {}
    /\ FaultUnless(ok)
    /\ virtio' = IF ok THEN (Blk \cap Plugged) \cup {Controller} ELSE {}
    /\ pc' = "virtio"
    /\ UNCHANGED <<qemuVars, histSet, reused, connVars, stats, withHist, pvcRefreshed, devices,
                   virtqueues, result>>

(* The device is there to answer. *)
Present(x) == x = Controller \/ x \in Plugged

(* Mutants: the last queue is left out, one queue too many is counted. *)
CountedButLast(x) == (IF numQueues[x] # 0 THEN numQueues[x] ELSE queues[x]) - 1

CountedAndOne(x) == (IF numQueues[x] # 0 THEN numQueues[x] ELSE queues[x]) + 1

(* The number of queues, asked for once per connection. *)
CountedQueues(x) == IF numQueues[x] # 0 THEN numQueues[x] ELSE queues[x]

(* The queues whose status is asked for and that the device has: a         *)
(* replaced device may have fewer.                                         *)
Answered(x) ==
    IF Present(x) THEN {q \in 0..(CountedQueues(x) - 1) : q < queues[x]} ELSE {}

(* The queues of one virtio device, virtio-blk before virtio-scsi; those   *)
(* whose query fails are left out.                                         *)
VirtioDevice(x) ==
    /\ pc = "virtio"
    /\ x \in virtio
    /\ x = Controller => virtio = {Controller}
    /\ virtio' = virtio \ {x}
    /\ \/ /\ numQueues[x] = 0
          /\ FaultUnless(~Present(x))
          /\ UNCHANGED <<pvcMap, numQueues, pvcRefreshed, virtqueues>>
       \/ /\ numQueues[x] # 0 \/ Present(x)
          /\ numQueues' = [numQueues EXCEPT ![x] = CountedQueues(x)]
          /\ \E ok \in BOOLEAN, lost \in SUBSET Answered(x) :
               LET replies == Answered(x) \ lost
                   claim   == IF x \in Blk THEN pvcMap'[x] ELSE None
               IN  /\ IF x \in Blk /\ replies # {}
                        THEN RefreshPVC(x, ok)
                        ELSE ok /\ UNCHANGED <<pvcMap, pvcRefreshed>>
                   /\ FaultUnless(ok /\ lost = {})
                   /\ virtqueues' = virtqueues \cup
                        {[dev |-> x, pvc |-> claim, queue |-> q] : q \in replies}
    /\ UNCHANGED <<qemuVars, histSet, reused, armed, pc, stats, withHist, devices, result>>

(* scrapeVM returns and poll publishes the result. *)
ScrapeDone ==
    /\ pc = "virtio"
    /\ virtio = {}
    /\ result' = [devices |-> devices, virtqueues |-> virtqueues]
    /\ devices' = {}
    /\ virtqueues' = {}
    /\ withHist' = {}
    /\ pc' = "idle"
    /\ UNCHANGED <<qemuVars, histSet, faults, reused, connVars, stats, virtio, pvcRefreshed>>
-----------------------------------------------------------------------------
Environment ==
    \/ \E d \in Disks, claim \in Claims : Plug(d, claim)
    \/ \E d \in Disks : Unplug(d)
    \/ StatusUpdate

(* The scrapes that the peer answers: poll goes on for as long as Run does. *)
ScrapeStep ==
    \/ QueryBlockStats
    \/ \E d \in Disks : Arm(d) \/ Device(d)
    \/ ArmingDone
    \/ \E ok \in BOOLEAN : QueryVirtio(ok)
    \/ \E x \in Virtio : VirtioDevice(x)
    \/ ScrapeDone

Next ==
    \/ Environment
    \/ ScrapeStep
    \/ \E ok \in BOOLEAN : ScrapeFails(ok)

Spec == Init /\ [][Next]_vars

(* Every call returns, by its answer or by the timeout of its context, and *)
(* poll scrapes again; the status is eventually brought up to date.        *)
FairSpec == Spec /\ WF_vars(ScrapeStep) /\ WF_vars(StatusUpdate)
-----------------------------------------------------------------------------
(* block-latency-histogram-set empties the bins of a disk, so it must not  *)
(* be sent to a disk that is counting already: neither after a reconnect,  *)
(* which forgets armed, nor after a lost answer, nor for a disk that was   *)
(* replaced while the scrape was under way.                                *)
HistogramSetOnce == \A d \in Disks : histSet[d] <= 1

(* A disk that stays plugged has its histograms set from some scrape on,   *)
(* whatever calls failed, unless a disk of the same alias was unplugged    *)
(* since the connection was made.                                          *)
ArmedUnlessReused ==
    \A d \in Disks :
        <>[](d \in Plugged \ reused) => <>[](histSet[d] > 0)

(* A disk that has histograms and a claim in the VMI status is, from some  *)
(* scrape on, reported by every scrape with a claim: an API failure, which *)
(* empties pvcMap, is made up for by refreshPVC, whichever other disk      *)
(* causes the refresh.                                                     *)
ClaimReported ==
    \A d \in Disks :
        <>[](d \in Plugged /\ histSet[d] > 0 /\ status[d] # None)
            => <>[](\E r \in result.devices : r.disk = d /\ r.pvc # None)

(* All queues of a virtio device are reported from some scrape on, unless  *)
(* their number is cached from a device that had the same path before.     *)
QueuesReported ==
    \A x \in Virtio :
        <>[](Present(x) /\ x \notin reused)
            => <>[]({r.queue : r \in {v \in result.virtqueues : v.dev = x}} = 0..(queues[x] - 1))

(* README: the QMP subsystem connects to each VM "to collect per-disk      *)
(* read/write/flush latency histograms": a disk that stays plugged would   *)
(* have them from some scrape on, also when its alias was in use before.   *)
DiskEventuallyArmed ==
    \A d \in Disks : <>[](d \in Plugged) => <>[](histSet[d] > 0)
=============================================================================
