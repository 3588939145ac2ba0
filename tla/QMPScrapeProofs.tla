-------------------------- MODULE QMPScrapeProofs ---------------------------
(***************************************************************************)
(* A disk gets block-latency-histogram-set at most once, for any number of *)
(* disks, plugs and failures: scrapeVM sends it only to a disk that had no *)
(* histograms in the reply it works on, and nobody else sends it.          *)
(***************************************************************************)
EXTENDS QMPScrape, TLAPS

(* A step that names no prover is tried with SMT, then with Zenon. *)
USE SMTT(10), ZenonT(20)

(* A disk of the reply that had no histograms, and whose turn in the       *)
(* arming loop is still to come, has none now: it was not armed since, and *)
(* a disk plugged in its place starts with none.                           *)
SetInv ==
    /\ histSet \in [Disks -> Nat]
    /\ HistogramSetOnce
    /\ pc = "arm" => \A d \in stats \cap Disks : d \notin withHist => histSet[d] = 0

(* Init: no disk has its histograms. *)
LEMMA SetInit == Init => SetInv
  BY DEF Init, SetInv, HistogramSetOnce

(* A step that leaves the histograms alone and ends outside the arming     *)
(* loop, or leaves the loop's state alone.                                 *)
LEMMA SetUnchanged ==
  ASSUME SetInv, UNCHANGED histSet,
         pc' # "arm" \/ UNCHANGED <<pc, stats, withHist>>
  PROVE  SetInv'
  BY DEF SetInv, HistogramSetOnce

(* Arm: the command goes to a disk whose histograms are not set, and the   *)
(* loop does not come back to it.                                          *)
LEMMA ArmStep ==
  ASSUME SetInv, NEW d \in Disks, Arm(d)
  PROVE  SetInv'
  <1>1. CASE UNCHANGED histSet
    BY <1>1 DEF Arm, SetInv, HistogramSetOnce
  <1>2. CASE d \notin withHist /\ histSet' = [histSet EXCEPT ![d] = @ + 1]
    <2>1. histSet[d] = 0
      BY <1>2 DEF Arm, SetInv
    <2>2. histSet' = [histSet EXCEPT ![d] = 1]
      BY <1>2, <2>1 DEF SetInv
    <2>3. pc' = pc /\ withHist' = withHist /\ stats' = stats \ {d}
      BY DEF Arm
    <2>4. QED BY <2>2, <2>3 DEF SetInv, HistogramSetOnce
  <1>3. QED BY <1>1, <1>2 DEF Arm

(* Every step preserves SetInv. *)
LEMMA SetStep == SetInv /\ [Next]_vars => SetInv'
  <1> SUFFICES ASSUME SetInv, [Next]_vars PROVE SetInv'
    OBVIOUS
  <1>1. ASSUME NEW d \in Disks, NEW claim \in Claims, Plug(d, claim) PROVE SetInv'
    BY <1>1 DEF Plug, scrapeVars, SetInv, HistogramSetOnce
  <1>2. ASSUME NEW d \in Disks, Unplug(d) PROVE SetInv'
    BY <1>2 DEF Unplug, scrapeVars, SetInv, HistogramSetOnce
  <1>3. CASE StatusUpdate
    BY <1>3, SetUnchanged DEF StatusUpdate, scrapeVars
  <1>4. CASE QueryBlockStats
    BY <1>4 DEF QueryBlockStats, SetInv, HistogramSetOnce
  <1>5. ASSUME NEW d \in Disks, Arm(d) PROVE SetInv'
    BY <1>5, ArmStep
  <1>6. ASSUME NEW d \in Disks, Device(d) PROVE SetInv'
    BY <1>6, SetUnchanged DEF Device
  <1>7. CASE ArmingDone
    BY <1>7, SetUnchanged DEF ArmingDone
  <1>8. ASSUME NEW ok \in BOOLEAN, QueryVirtio(ok) \/ ScrapeFails(ok) PROVE SetInv'
    BY <1>8, SetUnchanged DEF QueryVirtio, ScrapeFails, scrapeVars
  <1>9. ASSUME NEW x \in Virtio, VirtioDevice(x) PROVE SetInv'
    BY <1>9, SetUnchanged DEF VirtioDevice
  <1>10. CASE ScrapeDone
    BY <1>10, SetUnchanged DEF ScrapeDone
  <1>11. CASE UNCHANGED vars
    BY <1>11, SetUnchanged DEF vars, scrapeVars
  <1>12. QED
    BY <1>1, <1>2, <1>3, <1>4, <1>5, <1>6, <1>7, <1>8, <1>9, <1>10, <1>11
       DEF Next, Environment, ScrapeStep

(* HistogramSetOnce: the bins of a disk that is counting are never emptied *)
(* by scrapeVM, whatever calls fail and whatever is plugged meanwhile.     *)
THEOREM SetOnce == Spec => []HistogramSetOnce
  <1>1. SetInv => HistogramSetOnce
    BY DEF SetInv
  <1>2. QED BY <1>1, SetInit, SetStep, PTL DEF Spec
-----------------------------------------------------------------------------
LEMMA ScrapeTypeInit == Init => TypeOK
  <1> SUFFICES ASSUME Init PROVE TypeOK
    OBVIOUS
  <1>1. 0 \in 0..MaxPlugs /\ 0 \in 0..MaxFaults /\ 0 \in 0..MaxQueues BY ScrapeAssumption
  <1>2. queues \in [Virtio -> 0..MaxQueues]
    <2>1. 1..MaxQueues \subseteq 0..MaxQueues BY ScrapeAssumption
    <2> QED BY <2>1 DEF Init
  <1>3. numQueues \in [Virtio -> 0..MaxQueues] BY <1>1 DEF Init, NoCache
  <1>4. histSet \in [Disks -> Nat] BY DEF Init
  <1>5. result \in [devices : SUBSET DeviceResult, virtqueues : SUBSET VirtqueueResult]
    BY DEF Init, NoResult
  <1> QED BY <1>1, <1>2, <1>3, <1>4, <1>5, Zenon DEF Init, TypeOK

(* A step spends no fault, or one that was left. *)
LEMMA FaultType ==
  ASSUME faults \in 0..MaxFaults, UNCHANGED faults \/ Fault
  PROVE  faults' \in 0..MaxFaults
  BY ScrapeAssumption DEF Fault

LEMMA RefreshType ==
  ASSUME TypeOK, NEW d \in Disks, NEW ok \in BOOLEAN, RefreshPVC(d, ok)
  PROVE  /\ pvcMap' \in [Disks -> Claims \cup {None}] /\ pvcMap'[d] \in Claims \cup {None}
         /\ pvcRefreshed' \in BOOLEAN
  <1>1. pvcMap' \in [Disks -> Claims \cup {None}]
    BY DEF RefreshPVC, FetchPVCMap, NoClaims, TypeOK
  <1>2. pvcRefreshed' \in BOOLEAN BY Zenon DEF RefreshPVC, TypeOK
  <1> QED BY <1>1, <1>2

(* The queues that answer are queues of the device. *)
LEMMA AnsweredType ==
  ASSUME TypeOK, NEW x \in Virtio
  PROVE  CountedQueues(x) \in 0..MaxQueues /\ Answered(x) \subseteq 0..(MaxQueues - 1)
  <1>1. numQueues[x] \in 0..MaxQueues /\ queues[x] \in 0..MaxQueues BY DEF TypeOK
  <1>2. CountedQueues(x) \in 0..MaxQueues BY <1>1 DEF CountedQueues
  <1>3. \A q \in 0..(CountedQueues(x) - 1) : q \in 0..(MaxQueues - 1) BY <1>2, ScrapeAssumption
  <1> QED BY <1>2, <1>3, Zenon DEF Answered

LEMMA PlugTypes ==
  ASSUME TypeOK, NEW d \in Disks
  PROVE  /\ \A claim \in Claims : Plug(d, claim) => TypeOK'
         /\ Unplug(d) => TypeOK'
  <1>1. ASSUME NEW claim \in Claims, Plug(d, claim) PROVE TypeOK'
    <2>1. plugs' \in 0..MaxPlugs BY <1>1, ScrapeAssumption DEF Plug, TypeOK
    <2>2. plugged' \in [Disks -> Claims \cup {None}] /\ histSet' \in [Disks -> Nat]
      BY <1>1 DEF Plug, TypeOK
    <2>3. queues' \in [Virtio -> 0..MaxQueues]
      <3>1. \A n \in 1..MaxQueues : n \in 0..MaxQueues BY ScrapeAssumption
      <3> QED BY <1>1, <3>1 DEF Plug, TypeOK
    <2> QED BY <1>1, <2>1, <2>2, <2>3 DEF Plug, connVars, scrapeVars, TypeOK
  <1>2. ASSUME Unplug(d) PROVE TypeOK'
    <2>1. /\ plugged' \in [Disks -> Claims \cup {None}] /\ histSet' \in [Disks -> Nat]
          /\ reused' \in SUBSET Disks
      BY <1>2 DEF Unplug, TypeOK
    <2> QED BY <1>2, <2>1 DEF Unplug, connVars, scrapeVars, TypeOK
  <1> QED BY <1>1, <1>2

LEMMA VirtioTypes ==
  ASSUME TypeOK, NEW x \in Virtio, VirtioDevice(x)
  PROVE  TypeOK'
  <1>1. /\ UNCHANGED <<qemuVars, histSet, reused, armed, pc, stats, withHist, devices, result>>
        /\ virtio' = virtio \ {x}
    BY DEF VirtioDevice
  <1>2. ASSUME faults' \in 0..MaxFaults, pvcMap' \in [Disks -> Claims \cup {None}],
               numQueues' \in [Virtio -> 0..MaxQueues], pvcRefreshed' \in BOOLEAN,
               virtqueues' \in SUBSET VirtqueueResult
        PROVE  TypeOK'
    BY <1>1, <1>2 DEF TypeOK, qemuVars
  <1>3. CASE /\ FaultUnless(~Present(x))
             /\ UNCHANGED <<pvcMap, numQueues, pvcRefreshed, virtqueues>>
    <2>1. faults' \in 0..MaxFaults BY <1>3, FaultType DEF FaultUnless, TypeOK
    <2> QED BY <1>2, <1>3, <2>1 DEF TypeOK
  <1>4. ASSUME NEW ok \in BOOLEAN, NEW lost \in SUBSET Answered(x),
               numQueues' = [numQueues EXCEPT ![x] = CountedQueues(x)],
               IF x \in Blk /\ Answered(x) \ lost # {}
                 THEN RefreshPVC(x, ok)
                 ELSE ok /\ UNCHANGED <<pvcMap, pvcRefreshed>>,
               FaultUnless(ok /\ lost = {}),
               virtqueues' = virtqueues \cup
                 {[dev |-> x, pvc |-> IF x \in Blk THEN pvcMap'[x] ELSE None, queue |-> q] :
                    q \in Answered(x) \ lost}
        PROVE  TypeOK'
    <2>1. faults' \in 0..MaxFaults BY <1>4, FaultType DEF FaultUnless, TypeOK
    <2>2. numQueues' \in [Virtio -> 0..MaxQueues] BY <1>4, AnsweredType DEF TypeOK
    <2>3. x \in Blk => x \in Disks BY ScrapeAssumption
    <2>4. pvcMap' \in [Disks -> Claims \cup {None}] /\ pvcRefreshed' \in BOOLEAN
      <3>1. CASE x \in Blk /\ Answered(x) \ lost # {} BY <1>4, <2>3, <3>1, RefreshType
      <3>2. CASE ~ (x \in Blk /\ Answered(x) \ lost # {}) BY <1>4, <3>2, Zenon DEF TypeOK
      <3> QED BY <3>1, <3>2
    <2>5. virtqueues' \in SUBSET VirtqueueResult
      <3> DEFINE claim == IF x \in Blk THEN pvcMap'[x] ELSE None
      <3>1. claim \in Claims \cup {None} BY <2>3, <2>4
      <3>2. \A q \in Answered(x) : q \in 0..(MaxQueues - 1) BY AnsweredType
      <3> HIDE DEF claim
      <3>3. \A q \in Answered(x) : [dev |-> x, pvc |-> claim, queue |-> q] \in VirtqueueResult
        BY <3>1, <3>2 DEF VirtqueueResult
      <3>4. virtqueues' = virtqueues \cup {[dev |-> x, pvc |-> claim, queue |-> q] : q \in Answered(x) \ lost}
        BY <1>4 DEF claim
      <3> QED BY <3>3, <3>4 DEF TypeOK
    <2> QED BY <1>2, <2>1, <2>2, <2>4, <2>5
  <1> QED BY <1>3, <1>4 DEF VirtioDevice

LEMMA ArmTypes ==
  ASSUME TypeOK, NEW d \in Disks, Arm(d)
  PROVE  TypeOK'
  <1>1. faults' \in 0..MaxFaults BY FaultType DEF Arm, FaultUnless, TypeOK
  <1>2. armed' \in SUBSET Disks /\ histSet' \in [Disks -> Nat] /\ stats' \in SUBSET Disks
    BY DEF Arm, TypeOK
  <1> QED BY <1>1, <1>2 DEF Arm, qemuVars, TypeOK

LEMMA DeviceTypes ==
  ASSUME TypeOK, NEW d \in Disks, Device(d)
  PROVE  TypeOK'
  <1>1. PICK ok \in BOOLEAN : RefreshPVC(d, ok) /\ FaultUnless(ok) BY DEF Device
  <1>2. faults' \in 0..MaxFaults BY <1>1, FaultType DEF FaultUnless, TypeOK
  <1>3. /\ pvcMap' \in [Disks -> Claims \cup {None}] /\ pvcMap'[d] \in Claims \cup {None}
        /\ pvcRefreshed' \in BOOLEAN
    BY <1>1, RefreshType
  <1>4. devices' \in SUBSET DeviceResult
    <2>1. [disk |-> d, pvc |-> pvcMap'[d]] \in DeviceResult BY <1>3 DEF DeviceResult
    <2> QED BY <2>1 DEF Device, TypeOK
  <1> QED BY <1>2, <1>3, <1>4 DEF Device, qemuVars, TypeOK

(* Every step keeps the types. *)
LEMMA ScrapeTypeStep == TypeOK /\ [Next]_vars => TypeOK'
  <1> SUFFICES ASSUME TypeOK, [Next]_vars PROVE TypeOK'
    OBVIOUS
  <1>1. CASE Environment
    BY <1>1, PlugTypes DEF Environment, StatusUpdate, connVars, scrapeVars, TypeOK
  <1>2. CASE QueryBlockStats
    BY <1>2, Zenon DEF QueryBlockStats, Plugged, qemuVars, connVars, TypeOK
  <1>3. ASSUME NEW d \in Disks, Arm(d) \/ Device(d) PROVE TypeOK' BY <1>3, ArmTypes, DeviceTypes
  <1>4. CASE ArmingDone BY <1>4 DEF ArmingDone, qemuVars, connVars, TypeOK
  <1>5. ASSUME NEW ok \in BOOLEAN, QueryVirtio(ok) PROVE TypeOK'
    <2>1. faults' \in 0..MaxFaults BY <1>5, FaultType DEF QueryVirtio, FaultUnless, TypeOK
    <2>2. virtio' \in SUBSET Virtio BY <1>5 DEF QueryVirtio, Virtio
    <2> QED BY <1>5, <2>1, <2>2 DEF QueryVirtio, qemuVars, connVars, TypeOK
  <1>6. ASSUME NEW x \in Virtio, VirtioDevice(x) PROVE TypeOK' BY <1>6, VirtioTypes
  <1>7. CASE ScrapeDone
    <2>1. result' \in [devices : SUBSET DeviceResult, virtqueues : SUBSET VirtqueueResult]
      BY <1>7 DEF ScrapeDone, TypeOK
    <2> QED BY <1>7, <2>1 DEF ScrapeDone, qemuVars, connVars, TypeOK
  <1>8. ASSUME NEW ok \in BOOLEAN, ScrapeFails(ok) PROVE TypeOK'
    <2>1. faults' \in 0..MaxFaults BY <1>8, FaultType DEF ScrapeFails, TypeOK
    <2>2. result' \in [devices : SUBSET DeviceResult, virtqueues : SUBSET VirtqueueResult]
      BY <1>8 DEF ScrapeFails, NoResult
    <2>3. pvcMap' \in [Disks -> Claims \cup {None}]
      BY <1>8 DEF ScrapeFails, FetchPVCMap, NoClaims, TypeOK
    <2>4. numQueues' \in [Virtio -> 0..MaxQueues]
      <3>1. 0 \in 0..MaxQueues BY ScrapeAssumption
      <3> QED BY <1>8, <3>1 DEF ScrapeFails, NoCache
    <2> QED BY <1>8, <2>1, <2>2, <2>3, <2>4 DEF ScrapeFails, qemuVars, scrapeVars, TypeOK
  <1>9. CASE UNCHANGED vars BY <1>9 DEF vars, qemuVars, connVars, scrapeVars, TypeOK
  <1> QED BY <1>1, <1>2, <1>3, <1>4, <1>5, <1>6, <1>7, <1>8, <1>9 DEF Next, ScrapeStep

(* Every variable of a scrape keeps its type: scrapeVM reports disks that  *)
(* exist and queue indices below the largest number of queues, also when   *)
(* a cached number of queues is that of a device since replaced.           *)
THEOREM ScrapeTypes == Spec => []TypeOK
  BY ScrapeTypeInit, ScrapeTypeStep, PTL DEF Spec
=============================================================================
