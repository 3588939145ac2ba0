------------------------- MODULE QGACollectorProofs -------------------------
(***************************************************************************)
(* Proofs about the QGA poller: when a VM is excluded, that nothing is     *)
(* reported for one that is, and that the metrics are those of the         *)
(* interval between two snapshots and carry the right label.               *)
(***************************************************************************)
EXTENDS QGACollector, TLAPS

(* A step that names no prover is tried with SMT, then with Zenon. *)
USE SMTT(10), ZenonT(20)

(* The retries counted are the failures in a row, until the VM is          *)
(* excluded.                                                               *)
RetryInv ==
    vm # None =>
        /\ vm.stopped => failures <= MaxRetries /\ (failures = MaxRetries \/ blacklisted)
        /\ ~vm.stopped => vm.retryCount = failures /\ failures < MaxRetries /\ ~blacklisted

(* Only a VM that is not excluded is scraped, and only such a one has      *)
(* results.                                                                *)
PollInv ==
    /\ pc \in {"exec", "wait"} => vm # None /\ ~vm.stopped
    /\ pc = "connect" => vm = None
    /\ results # None => pc = "publish" /\ vm # None /\ ~vm.stopped
    /\ pc = "idle" /\ (vm = None \/ vm.stopped) => published = None

(* The counters of a snapshot, and the order of snapshots. *)
Counted(s) ==
    /\ s.ops = s.total % 2^OpsBits
    /\ s.qlen = s.ticks % 2^WordBits

UpTo(s, b, t, q) == s.boot <= b /\ (s.boot = b => s.total <= t /\ s.ticks <= q)

SnapshotInv ==
    /\ output # None => Counted(output) /\ UpTo(output, boot, total, ticks)
    /\ vm # None /\ vm.prevSnapshot # None =>
         /\ Counted(vm.prevSnapshot)
         /\ UpTo(vm.prevSnapshot, boot, total, ticks)
         /\ output # None => UpTo(vm.prevSnapshot, output.boot, output.total, output.ticks)

(* The label is that of the drive when the state was made. *)
LabelInv ==
    vm # None => mappedDrive \in Volumes /\ vm.diskMap \in {BuildDiskMapping(mappedDrive), None}

Inv == TypeOK /\ RetryInv /\ PollInv /\ SnapshotInv /\ LabelInv
-----------------------------------------------------------------------------
(* Constants and records. *)

LEMMA Constants ==
  /\ MaxRetries \in Nat \ {0} /\ MaxAttempts \in Nat \ {0}
  /\ MaxOps \in Nat /\ MaxTicks \in Nat /\ MaxBoots \in Nat /\ MaxNow \in Nat /\ MaxFaults \in Nat
  /\ 2^OpsBits \in Nat \ {0} /\ 2^WordBits \in Nat \ {0}
  /\ MaxTicks < 2^WordBits /\ 2^OpsBits <= 2^WordBits
  BY QGAAssumption

(* The fields of a vmState. *)
LEMMA VMFields ==
  ASSUME NEW w \in VMState
  PROVE  /\ w.retryCount \in 0..MaxRetries /\ w.stopped \in BOOLEAN
         /\ w.prevSnapshot \in Sample \cup {None} /\ w.diskMap \in Aliases \cup {None}
         /\ w # None
  BY NoneAssumption DEF VMState

LEMMA VMExcept ==
  ASSUME NEW w \in VMState, NEW r \in 0..MaxRetries, NEW b \in BOOLEAN, NEW s \in Sample \cup {None}
  PROVE  /\ [w EXCEPT !.stopped = b] \in VMState
         /\ [w EXCEPT !.retryCount = r, !.stopped = b] \in VMState
         /\ [w EXCEPT !.prevSnapshot = s, !.retryCount = r] \in VMState
  BY Zenon DEF VMState

(* The fields of a snapshot. *)
LEMMA SampleFields ==
  ASSUME NEW s \in Sample
  PROVE  /\ s.ops \in 0..(2^OpsBits - 1) /\ s.qlen \in 0..(2^WordBits - 1) /\ s.ts \in 0..MaxNow
         /\ s.total \in 0..MaxOps /\ s.ticks \in 0..MaxTicks
         /\ s.boot \in 0..MaxBoots /\ s.volume \in Volumes
  BY DEF Sample

LEMMA ModRange ==
  ASSUME NEW n \in Nat, NEW K \in Nat \ {0}
  PROVE  n % K \in 0..(K - 1)
  BY SMT

(* A snapshot the process takes. *)
LEMMA SampleTaken ==
  ASSUME NEW t \in 0..MaxOps, NEW k \in 0..MaxTicks, NEW b \in 0..MaxBoots, NEW n \in 0..MaxNow,
         NEW v \in Volumes
  PROVE  LET s == [ops |-> t % 2^OpsBits, qlen |-> k % 2^WordBits, ts |-> n,
                   total |-> t, ticks |-> k, boot |-> b, volume |-> v]
         IN  s \in Sample /\ Counted(s) /\ s.boot = b /\ s.total = t /\ s.ticks = k
  <1> DEFINE o == t % 2^OpsBits
             q == k % 2^WordBits
             s == [ops |-> o, qlen |-> q, ts |-> n, total |-> t, ticks |-> k, boot |-> b, volume |-> v]
  <1>1. t \in Nat /\ k \in Nat BY Constants, SMT
  <1>2. o \in 0..(2^OpsBits - 1) BY <1>1, Constants, ModRange, Zenon
  <1>3. q \in 0..(2^WordBits - 1) BY <1>1, Constants, ModRange, Zenon
  <1>4. /\ s.ops = t % 2^OpsBits /\ s.qlen = k % 2^WordBits
        /\ s.total = t /\ s.ticks = k /\ s.boot = b
    OBVIOUS
  <1>5. Counted(s) BY <1>4 DEF Counted
  <1> HIDE DEF o, q
  <1>6. s \in Sample BY <1>2, <1>3 DEF Sample
  <1> QED BY <1>4, <1>5, <1>6 DEF o, q

(* BuildDiskMapping gives the alias of a disk, if anything. *)
LEMMA MappingType ==
  ASSUME NEW v
  PROVE  BuildDiskMapping(v) \in Aliases \cup {None}
  <1> DEFINE location == ParseDiskLocations(<<GuestDisk[v].pci, GuestDisk[v].unit>>)
             serial   == ParseDiskSerials(GuestDisk[v].serial)
  <1>1. location \subseteq Aliases BY DEF ParseDiskLocations, Aliases
  <1>2. serial \subseteq Aliases BY DEF ParseDiskSerials, Aliases
  <1>3. location # {} => (CHOOSE n \in location : TRUE) \in location OBVIOUS
  <1>4. serial # {} => (CHOOSE n \in serial : TRUE) \in serial OBVIOUS
  <1>5. \/ BuildDiskMapping(v) = None
        \/ location # {} /\ BuildDiskMapping(v) = CHOOSE n \in location : TRUE
        \/ serial # {} /\ BuildDiskMapping(v) = CHOOSE n \in serial : TRUE
    BY DEF BuildDiskMapping
  <1> HIDE DEF location, serial
  <1> QED BY <1>1, <1>2, <1>3, <1>4, <1>5

(* It gives no other volume's name when the agent is truthful. *)
LEMMA MappingRight ==
  ASSUME AgentTruthful, NEW v \in Volumes
  PROVE  BuildDiskMapping(v) \in {v, None}
  <1> DEFINE location == ParseDiskLocations(<<GuestDisk[v].pci, GuestDisk[v].unit>>)
             serial   == ParseDiskSerials(GuestDisk[v].serial)
  <1>1. \A n \in location : n = v
    <2>1. \A d \in Named : <<GuestDisk[v].pci, GuestDisk[v].unit>> \in Location(d) => PluggedAt(d, GuestDisk[v].pci, GuestDisk[v].unit)
      BY DEF Location, ControllerOf, PluggedAt
    <2> QED BY <2>1 DEF ParseDiskLocations, AgentTruthful
  <1>2. \A n \in serial : n = v BY DEF ParseDiskSerials, AgentTruthful
  <1>3. location # {} => (CHOOSE n \in location : TRUE) \in location OBVIOUS
  <1>4. serial # {} => (CHOOSE n \in serial : TRUE) \in serial OBVIOUS
  <1>5. \/ BuildDiskMapping(v) = None
        \/ location # {} /\ BuildDiskMapping(v) = CHOOSE n \in location : TRUE
        \/ serial # {} /\ BuildDiskMapping(v) = CHOOSE n \in serial : TRUE
    BY DEF BuildDiskMapping
  <1> HIDE DEF location, serial
  <1> QED BY <1>1, <1>2, <1>3, <1>4, <1>5
-----------------------------------------------------------------------------
LEMMA InvInit == Init => Inv
  <1> SUFFICES ASSUME Init PROVE Inv OBVIOUS
  <1>1. TypeOK
    <2>1. /\ total \in 0..MaxOps /\ ticks \in 0..MaxTicks /\ boot \in 0..MaxBoots
          /\ now \in 0..MaxNow /\ faults \in 0..MaxFaults
          /\ attempt \in 0..(MaxAttempts - 1) /\ failures \in 0..(MaxRetries + 1)
      BY Constants, SMT DEF Init
    <2> QED BY <2>1, Zenon DEF Init, TypeOK
  <1>2. RetryInv /\ PollInv /\ SnapshotInv /\ LabelInv
    BY DEF Init, RetryInv, PollInv, SnapshotInv, LabelInv
  <1> QED BY <1>1, <1>2 DEF Inv

(* What the invariant says of the guest and of the snapshots. *)
LEMMA GuestFacts ==
  ASSUME Inv
  PROVE  /\ total \in 0..MaxOps /\ ticks \in 0..MaxTicks
         /\ boot \in 0..MaxBoots /\ now \in 0..MaxNow
         /\ drive \in Volumes /\ output \in Sample \cup {None}
         /\ total \in Nat /\ ticks \in Nat /\ boot \in Nat
         /\ output # None => output.boot \in Nat /\ output.total \in Nat /\ output.ticks \in Nat
         /\ vm # None => vm \in VMState
         /\ vm # None /\ vm.prevSnapshot # None =>
              /\ vm.prevSnapshot \in Sample
              /\ vm.prevSnapshot.boot \in Nat /\ vm.prevSnapshot.total \in Nat
              /\ vm.prevSnapshot.ticks \in Nat
  <1>1. /\ total \in 0..MaxOps /\ ticks \in 0..MaxTicks
        /\ boot \in 0..MaxBoots /\ now \in 0..MaxNow
        /\ drive \in Volumes /\ output \in Sample \cup {None} /\ vm \in VMState \cup {None}
    BY DEF Inv, TypeOK
  <1>2. total \in Nat /\ ticks \in Nat /\ boot \in Nat BY <1>1, Constants, SMT
  <1>3. ASSUME NEW s \in Sample PROVE s.boot \in Nat /\ s.total \in Nat /\ s.ticks \in Nat
    <2>1. s.boot \in 0..MaxBoots /\ s.total \in 0..MaxOps /\ s.ticks \in 0..MaxTicks BY SampleFields
    <2> QED BY <2>1, Constants, SMT
  <1>4. vm # None => vm.prevSnapshot \in Sample \cup {None} BY <1>1, VMFields
  <1> QED BY <1>1, <1>2, <1>3, <1>4

(* The guest does not touch the state of the collector. *)
LEMMA GuestFrame ==
  ASSUME Inv, UNCHANGED collector,
         total' \in 0..MaxOps, ticks' \in 0..MaxTicks, boot' \in 0..MaxBoots, now' \in 0..MaxNow,
         agent' \in {"up", "down", "disabled"}, drive' \in Volumes,
         running' \in BOOLEAN, output' \in Sample \cup {None},
         SnapshotInv'
  PROVE  Inv'
  <1>1. UNCHANGED <<faults, vm, pc, attempt, results, published, failures, blacklisted, mappedDrive>>
    BY DEF collector, history
  <1>2. TypeOK' BY <1>1 DEF Inv, TypeOK
  <1>3. RetryInv' BY <1>1 DEF Inv, RetryInv
  <1>4. PollInv' BY <1>1 DEF Inv, PollInv
  <1>5. LabelInv' BY <1>1 DEF Inv, LabelInv
  <1> QED BY <1>2, <1>3, <1>4, <1>5 DEF Inv

(* Snapshots stay in order as the guest goes on, unless a new one is taken. *)
LEMMA SnapshotsLater ==
  ASSUME Inv, UNCHANGED vm, output' \in {output, None},
         boot' \in Nat, total' \in Nat, ticks' \in Nat,
         (boot' = boot /\ total <= total' /\ ticks <= ticks') \/ boot' = boot + 1
  PROVE  SnapshotInv'
  <1>1. ASSUME NEW s, s.boot \in Nat, s.total \in Nat, s.ticks \in Nat, UpTo(s, boot, total, ticks)
        PROVE  UpTo(s, boot', total', ticks')
    BY <1>1, GuestFacts, SMT DEF UpTo
  <1>2. output' # None => output' = output OBVIOUS
  <1>3. output # None => UpTo(output, boot', total', ticks') BY <1>1, GuestFacts DEF Inv, SnapshotInv
  <1>4. vm # None /\ vm.prevSnapshot # None => UpTo(vm.prevSnapshot, boot', total', ticks')
    BY <1>1, GuestFacts DEF Inv, SnapshotInv
  <1>5. output' # None => Counted(output') /\ UpTo(output', boot', total', ticks')
    BY <1>2, <1>3 DEF Inv, SnapshotInv
  <1>6. vm # None /\ vm.prevSnapshot # None =>
          /\ Counted(vm.prevSnapshot)
          /\ UpTo(vm.prevSnapshot, boot', total', ticks')
          /\ output' # None => UpTo(vm.prevSnapshot, output'.boot, output'.total, output'.ticks)
    BY <1>2, <1>4 DEF Inv, SnapshotInv
  <1> QED BY <1>5, <1>6 DEF SnapshotInv, Counted, UpTo

(* Every step of the guest. *)
LEMMA GuestInv ==
  ASSUME Inv, Guest
  PROVE  Inv'
  <1>0. /\ total \in 0..MaxOps /\ ticks \in 0..MaxTicks
        /\ boot \in 0..MaxBoots /\ now \in 0..MaxNow
        /\ drive \in Volumes /\ output \in Sample \cup {None}
        /\ agent \in {"up", "down", "disabled"} /\ running \in BOOLEAN
        /\ total \in Nat /\ ticks \in Nat /\ boot \in Nat
    BY GuestFacts DEF Inv, TypeOK
  <1>1. CASE GuestIO
    <2>1. /\ total < MaxOps /\ total' = total + 1
          /\ UNCHANGED <<ticks, boot, now, agent, drive, running, output>> /\ UNCHANGED collector
      BY <1>1 DEF GuestIO, process
    <2>2. total' \in 0..MaxOps /\ total' \in Nat /\ total <= total' /\ ticks <= ticks'
      BY <2>1, <1>0, Constants, SMT
    <2>3. UNCHANGED vm BY <2>1 DEF collector
    <2>4. SnapshotInv' BY <2>1, <2>2, <2>3, <1>0, SnapshotsLater
    <2> QED BY <2>1, <2>2, <2>4, <1>0, GuestFrame
  <1>2. ASSUME NEW a \in {"up", "down", "disabled"}, AgentChanges(a) PROVE Inv'
    <2>1. agent' = a /\ UNCHANGED <<total, ticks, boot, now, drive, running, output>> /\ UNCHANGED collector
      BY <1>2 DEF AgentChanges, process
    <2>2. UNCHANGED vm BY <2>1 DEF collector
    <2>3. total <= total' /\ ticks <= ticks' BY <2>1, <1>0, SMT
    <2>4. SnapshotInv' BY <2>1, <2>2, <2>3, <1>0, SnapshotsLater
    <2> QED BY <2>1, <2>4, <1>0, GuestFrame
  <1>3. ASSUME NEW t \in 0..MaxNow, ClockChanges(t) PROVE Inv'
    <2>1. now' = t /\ UNCHANGED <<total, ticks, boot, agent, drive, running, output>> /\ UNCHANGED collector
      BY <1>3 DEF ClockChanges, process
    <2>2. UNCHANGED vm BY <2>1 DEF collector
    <2>3. total <= total' /\ ticks <= ticks' BY <2>1, <1>0, SMT
    <2>4. SnapshotInv' BY <2>1, <2>2, <2>3, <1>0, SnapshotsLater
    <2> QED BY <2>1, <2>4, <1>0, GuestFrame
  <1>4. ASSUME NEW v \in Volumes, Reboot(v) \/ DriveChanges(v) PROVE Inv'
    <2>1. /\ boot < MaxBoots /\ boot' = boot + 1 /\ total' = 0 /\ ticks' = 0 /\ drive' = v
          /\ agent' \in {"up", "down", "disabled"} /\ running' \in BOOLEAN /\ output' \in {output, None}
          /\ UNCHANGED now /\ UNCHANGED collector
      BY <1>0, <1>4, Zenon DEF Reboot, DriveChanges, process
    <2>2. /\ boot' \in 0..MaxBoots /\ boot' \in Nat /\ total' \in 0..MaxOps /\ total' \in Nat
          /\ ticks' \in 0..MaxTicks /\ ticks' \in Nat
      BY <2>1, <1>0, Constants, SMT
    <2>3. UNCHANGED vm BY <2>1 DEF collector
    <2>4. SnapshotInv' BY <2>1, <2>2, <2>3, SnapshotsLater
    <2>5. output' \in Sample \cup {None} BY <2>1, <1>0
    <2> QED BY <2>1, <2>2, <2>4, <2>5, <1>0, GuestFrame
  <1>5. CASE ProcessExits
    <2>1. /\ running' = FALSE /\ UNCHANGED <<total, ticks, boot, now, agent, drive>> /\ UNCHANGED collector
          /\ output' = [ops |-> total % 2^OpsBits, qlen |-> ticks % 2^WordBits, ts |-> now,
                        total |-> total, ticks |-> ticks, boot |-> boot, volume |-> drive]
      BY <1>5 DEF ProcessExits, guest
    <2>2. /\ output' \in Sample /\ Counted(output') /\ output'.boot = boot /\ output'.total = total
          /\ output'.ticks = ticks
      BY <2>1, <1>0, SampleTaken
    <2>3. UNCHANGED vm BY <2>1 DEF collector
    <2>4. UpTo(output', boot, total, ticks) BY <2>2, <1>0, SMT DEF UpTo
    <2>5. SnapshotInv'
      <3>1. vm # None /\ vm.prevSnapshot # None =>
              /\ Counted(vm.prevSnapshot)
              /\ UpTo(vm.prevSnapshot, boot, total, ticks)
              /\ UpTo(vm.prevSnapshot, output'.boot, output'.total, output'.ticks)
        BY <2>2 DEF Inv, SnapshotInv
      <3> HIDE DEF UpTo, Counted
      <3>2. boot' = boot /\ total' = total /\ ticks' = ticks /\ vm' = vm BY <2>1, <2>3
      <3> QED BY <3>1, <3>2, <2>2, <2>4 DEF SnapshotInv, UpTo, Counted
    <2> QED BY <2>1, <2>2, <2>5, <1>0, GuestFrame, Zenon
  <1>6. CASE QueueTicks
    <2>1. /\ ticks < MaxTicks /\ ticks' = ticks + 1
          /\ UNCHANGED <<total, boot, now, agent, drive, running, output>> /\ UNCHANGED collector
      BY <1>6 DEF QueueTicks, process
    <2>2. ticks' \in 0..MaxTicks /\ ticks' \in Nat /\ ticks <= ticks' /\ total <= total'
      BY <2>1, <1>0, Constants, SMT
    <2>3. UNCHANGED vm BY <2>1 DEF collector
    <2>4. SnapshotInv' BY <2>1, <2>2, <2>3, <1>0, SnapshotsLater
    <2> QED BY <2>1, <2>2, <2>4, <1>0, GuestFrame
  <1> QED BY <1>1, <1>2, <1>3, <1>4, <1>5, <1>6 DEF Guest
-----------------------------------------------------------------------------
(* The collector. *)

LEMMA CollectorFacts ==
  ASSUME Inv
  PROVE  /\ vm \in VMState \cup {None}
         /\ vm # None =>
              /\ vm \in VMState /\ vm.retryCount \in 0..MaxRetries /\ vm.stopped \in BOOLEAN
              /\ vm.prevSnapshot \in Sample \cup {None} /\ vm.diskMap \in Aliases \cup {None}
         /\ results \in Metrics \cup {None} /\ published \in Metrics \cup {None}
         /\ failures \in 0..(MaxRetries + 1) /\ blacklisted \in BOOLEAN
         /\ attempt \in 0..(MaxAttempts - 1)
         /\ mappedDrive \in Volumes \cup {None} /\ drive \in Volumes
         /\ pc # "publish" => results = None
  <1>1. TypeOK /\ PollInv BY DEF Inv
  <1>2. /\ vm \in VMState \cup {None}
        /\ results \in Metrics \cup {None} /\ published \in Metrics \cup {None}
        /\ failures \in 0..(MaxRetries + 1) /\ blacklisted \in BOOLEAN
        /\ attempt \in 0..(MaxAttempts - 1)
        /\ mappedDrive \in Volumes \cup {None} /\ drive \in Volumes
    BY <1>1 DEF TypeOK
  <1>3. pc # "publish" => results = None BY <1>1 DEF PollInv
  <1> QED BY <1>2, <1>3, VMFields

(* A failing call is counted. *)
LEMMA FaultsCounted ==
  ASSUME Inv, NEW well \in BOOLEAN, FaultUnless(well)
  PROVE  faults' \in 0..MaxFaults
  <1>1. faults \in 0..MaxFaults BY DEF Inv, TypeOK
  <1>2. faults' = faults \/ (faults < MaxFaults /\ faults' = faults + 1) BY DEF FaultUnless
  <1> QED BY <1>1, <1>2, Constants, SMT

(* The types, when the poller takes a step. *)
LEMMA PollTypes ==
  ASSUME Inv, UNCHANGED guest, running' \in BOOLEAN, output' \in {output, None},
         faults' \in 0..MaxFaults, vm' \in VMState \cup {None},
         pc' \in {"idle", "connect", "exec", "wait", "publish"},
         pc' \in {"exec", "wait"} => vm' # None,
         attempt' \in 0..(MaxAttempts - 1),
         results' \in Metrics \cup {None}, published' \in Metrics \cup {None},
         failures' \in 0..(MaxRetries + 1), blacklisted' \in BOOLEAN,
         mappedDrive' \in Volumes \cup {None}
  PROVE  TypeOK'
  <1>1. UNCHANGED <<total, ticks, boot, now, agent, drive>> BY DEF guest
  <1>2. /\ total \in 0..MaxOps /\ ticks \in 0..MaxTicks
        /\ boot \in 0..MaxBoots /\ now \in 0..MaxNow
        /\ agent \in {"up", "down", "disabled"} /\ drive \in Volumes
        /\ output \in Sample \cup {None}
    BY DEF Inv, TypeOK
  <1> QED BY <1>1, <1>2 DEF TypeOK

(* A step of the poller takes no snapshot by itself. *)
LEMMA SnapshotsKept ==
  ASSUME Inv, UNCHANGED guest, output' \in {output, None},
         vm' # None => \/ vm'.prevSnapshot = None
                       \/ vm # None /\ vm'.prevSnapshot = vm.prevSnapshot
                       \/ output' = None /\ vm'.prevSnapshot = output
  PROVE  SnapshotInv'
  <1>1. UNCHANGED <<total, ticks, boot>> BY DEF guest
  <1>2. SnapshotInv BY DEF Inv
  <1>3. output' # None => Counted(output) /\ UpTo(output, boot, total, ticks) /\ output' = output
    BY <1>2 DEF SnapshotInv
  <1>4. vm' # None /\ vm'.prevSnapshot # None =>
          /\ Counted(vm'.prevSnapshot) /\ UpTo(vm'.prevSnapshot, boot, total, ticks)
          /\ output' # None => UpTo(vm'.prevSnapshot, output'.boot, output'.total, output'.ticks)
    BY <1>2 DEF SnapshotInv
  <1> QED BY <1>1, <1>3, <1>4 DEF SnapshotInv, Counted, UpTo

LEMMA PollDiscoverInv ==
  ASSUME Inv, NEW found \in BOOLEAN, PollDiscover(found)
  PROVE  Inv'
  <1>1. /\ pc = "idle" /\ vm' = (IF found THEN vm ELSE None)
        /\ pc' = (IF ~found \/ (vm # None /\ vm.stopped) THEN "publish"
                  ELSE IF vm = None THEN "connect" ELSE "exec")
        /\ mappedDrive' = (IF found THEN mappedDrive ELSE None)
        /\ UNCHANGED guest /\ UNCHANGED <<running, output, attempt, results, published, failures, blacklisted>>
    BY DEF PollDiscover, process
  <1>2. faults' \in 0..MaxFaults BY FaultsCounted DEF PollDiscover
  <1>3. running \in BOOLEAN BY DEF Inv, TypeOK
  <1>4. results = None BY <1>1, CollectorFacts
  <1>5. TypeOK' BY <1>1, <1>2, <1>3, CollectorFacts, PollTypes
  <1>6. SnapshotInv' BY <1>1, SnapshotsKept
  <1>7. RetryInv' BY <1>1 DEF Inv, RetryInv
  <1>8. PollInv' BY <1>1, <1>4, CollectorFacts DEF PollInv
  <1>9. LabelInv' BY <1>1 DEF Inv, LabelInv
  <1> QED BY <1>5, <1>6, <1>7, <1>8, <1>9 DEF Inv

LEMMA ConnectVMInv ==
  ASSUME Inv, NEW dialled \in BOOLEAN, NEW mapped \in BOOLEAN, ConnectVM(dialled, mapped)
  PROVE  Inv'
  <1>1. /\ pc = "connect"
        /\ UNCHANGED guest /\ UNCHANGED <<running, output, attempt, results, published>>
    BY DEF ConnectVM, process
  <1>2. faults' \in 0..MaxFaults
    <2>1. (dialled /\ (mapped \/ agent = "down")) \in BOOLEAN OBVIOUS
    <2> QED BY <2>1, FaultsCounted DEF ConnectVM
  <1>3. running \in BOOLEAN BY DEF Inv, TypeOK
  <1>4. results = None BY <1>1, CollectorFacts
  <1>5. vm = None BY <1>1 DEF Inv, PollInv
  <1>6. CASE dialled
    <2> DEFINE m == IF mapped THEN BuildDiskMapping(drive) ELSE None
    <2>1. /\ vm' = [retryCount |-> 0, stopped |-> FALSE, prevSnapshot |-> None, diskMap |-> m]
          /\ failures' = 0 /\ blacklisted' = FALSE /\ mappedDrive' = drive /\ pc' = "exec"
      BY <1>6 DEF ConnectVM
    <2>2. m \in Aliases \cup {None} /\ m \in {BuildDiskMapping(drive), None} BY MappingType
    <2> HIDE DEF m
    <2>3. 0 \in 0..MaxRetries /\ 0 \in 0..(MaxRetries + 1) /\ 0 < MaxRetries BY Constants, SMT
    <2>4. vm' \in VMState BY <2>1, <2>2, <2>3 DEF VMState
    <2>5. /\ vm' # None /\ vm'.stopped = FALSE /\ vm'.retryCount = 0 /\ vm'.prevSnapshot = None
          /\ vm'.diskMap = m
      BY <2>1, <2>4, VMFields, Zenon
    <2>6. TypeOK' BY <1>1, <1>2, <1>3, <2>1, <2>3, <2>4, <2>5, CollectorFacts, PollTypes, Zenon
    <2>7. SnapshotInv' BY <1>1, <2>5, SnapshotsKept
    <2>8. RetryInv' BY <2>1, <2>3, <2>5 DEF RetryInv
    <2>9. PollInv' BY <1>1, <1>4, <2>1, <2>5 DEF PollInv
    <2>10. LabelInv'
      <3>1. drive' = drive BY <1>1 DEF guest
      <3> QED BY <2>1, <2>2, <2>5, <3>1, CollectorFacts DEF LabelInv
    <2> QED BY <2>6, <2>7, <2>8, <2>9, <2>10 DEF Inv
  <1>7. CASE ~dialled
    <2>1. pc' = "publish" /\ UNCHANGED <<vm, failures, blacklisted, mappedDrive>>
      BY <1>7 DEF ConnectVM, history
    <2>2. TypeOK' BY <1>1, <1>2, <1>3, <2>1, CollectorFacts, PollTypes
    <2>3. SnapshotInv' BY <1>1, <2>1, <1>5, SnapshotsKept
    <2>4. PollInv' BY <1>1, <1>4, <2>1 DEF PollInv
    <2>5. RetryInv' /\ LabelInv' BY <1>5, <2>1 DEF RetryInv, LabelInv
    <2> QED BY <2>2, <2>3, <2>4, <2>5 DEF Inv
  <1> QED BY <1>6, <1>7

(* A scrape that fails: handleScrapeError. *)
LEMMA ScrapeErrorInv ==
  ASSUME Inv, pc \in {"exec", "wait"}, HandleScrapeError,
         UNCHANGED guest, UNCHANGED <<running, output, published>>,
         faults' \in 0..MaxFaults, attempt' \in 0..(MaxAttempts - 1)
  PROVE  Inv'
  <1> DEFINE r    == vm.retryCount + 1
             last == r >= MaxRetries
  <1>1. vm # None /\ ~vm.stopped /\ results = None BY CollectorFacts DEF Inv, PollInv
  <1>2. vm \in VMState /\ running \in BOOLEAN BY <1>1, CollectorFacts DEF Inv, TypeOK
  <1>3. vm.retryCount = failures /\ failures < MaxRetries /\ ~blacklisted
    BY <1>1 DEF Inv, RetryInv
  <1>4. failures \in Nat /\ MaxRetries \in Nat BY CollectorFacts, Constants, SMT
  <1>5. /\ vm' = (IF agent = "disabled" THEN [vm EXCEPT !.stopped = TRUE]
                  ELSE [vm EXCEPT !.retryCount = r, !.stopped = @ \/ last])
        /\ blacklisted' = (blacklisted \/ agent = "disabled")
        /\ failures' = (IF failures > MaxRetries THEN failures ELSE failures + 1)
        /\ pc' = "publish"
        /\ UNCHANGED <<results, mappedDrive>>
    BY DEF HandleScrapeError, ScrapeError
  <1>6. failures' = failures + 1 BY <1>3, <1>4, <1>5, SMT
  <1>7. /\ r = failures + 1 /\ r \in 0..MaxRetries /\ failures' \in 0..(MaxRetries + 1)
        /\ failures' <= MaxRetries
        /\ last \in BOOLEAN /\ (last <=> failures' = MaxRetries)
        /\ ~last => failures' < MaxRetries
    BY <1>3, <1>4, <1>6, SMT
  <1> HIDE DEF r, last
  <1>8. CASE agent = "disabled"
    <2>1. vm' = [vm EXCEPT !.stopped = TRUE] /\ blacklisted' = TRUE BY <1>5, <1>8, Zenon
    <2>2. vm' \in VMState BY <2>1, <1>2, <1>7, VMExcept, Zenon
    <2>3. /\ vm' # None /\ vm'.stopped /\ vm'.prevSnapshot = vm.prevSnapshot
          /\ vm'.diskMap = vm.diskMap
      BY <2>1, <2>2, <1>2, VMFields, Zenon DEF VMState
    <2>4. TypeOK' BY <1>1, <1>2, <1>5, <1>7, <2>1, <2>2, CollectorFacts, PollTypes
    <2>5. SnapshotInv' BY <1>1, <2>3, SnapshotsKept
    <2>6. RetryInv' BY <1>7, <2>1, <2>3 DEF RetryInv
    <2>7. PollInv' BY <1>1, <1>5 DEF PollInv
    <2>8. LabelInv' BY <1>1, <1>5, <2>3 DEF Inv, LabelInv
    <2> QED BY <2>4, <2>5, <2>6, <2>7, <2>8 DEF Inv
  <1>9. CASE agent # "disabled"
    <2>1. vm' = [vm EXCEPT !.retryCount = r, !.stopped = last] /\ blacklisted' = FALSE
      <3>1. (vm.stopped \/ last) = last BY <1>1, <1>2, <1>7, VMFields
      <3> QED BY <1>3, <1>5, <1>9, <3>1, Zenon
    <2>2. vm' \in VMState BY <2>1, <1>2, <1>7, VMExcept, Zenon
    <2>3. /\ vm' # None /\ vm'.stopped = last /\ vm'.retryCount = r
          /\ vm'.prevSnapshot = vm.prevSnapshot /\ vm'.diskMap = vm.diskMap
      BY <2>1, <2>2, <1>2, VMFields, Zenon DEF VMState
    <2>4. TypeOK' BY <1>1, <1>2, <1>5, <1>7, <2>1, <2>2, CollectorFacts, PollTypes
    <2>5. SnapshotInv' BY <1>1, <2>3, SnapshotsKept
    <2>6. RetryInv' BY <1>6, <1>7, <2>1, <2>3 DEF RetryInv
    <2>7. PollInv' BY <1>1, <1>5 DEF PollInv
    <2>8. LabelInv' BY <1>1, <1>5, <2>3 DEF Inv, LabelInv
    <2> QED BY <2>4, <2>5, <2>6, <2>7, <2>8 DEF Inv
  <1> QED BY <1>8, <1>9

(* The metrics of two snapshots. *)
LEMMA MetricsType ==
  ASSUME NEW prev \in Sample, NEW curr \in Sample, NEW disk \in Aliases \cup {None}
  PROVE  ComputeMetrics(prev, curr, disk) \in Metrics \cup {None}
  <1>1. ASSUME NEW a \in Int, NEW b \in Int PROVE Minus(a, b) \in Nat
    BY Constants, SMT DEF Minus
  <1>2. prev.ops \in Int /\ prev.qlen \in Int /\ curr.ops \in Int /\ curr.qlen \in Int
    <2>1. /\ prev.ops \in 0..(2^OpsBits - 1) /\ prev.qlen \in 0..(2^WordBits - 1)
          /\ curr.ops \in 0..(2^OpsBits - 1) /\ curr.qlen \in 0..(2^WordBits - 1)
      BY SampleFields
    <2> QED BY <2>1, Constants, SMT
  <1> DEFINE o == Minus(curr.ops, prev.ops)
             q == IF o > 0 THEN Minus(curr.qlen, prev.qlen) ELSE 0
  <1>3. o \in Nat /\ q \in Nat BY <1>1, <1>2, Zenon
  <1>4. ComputeMetrics(prev, curr, disk) \in {None, [ops |-> o, qlen |-> q, disk |-> disk]}
    BY DEF ComputeMetrics
  <1> HIDE DEF o, q
  <1> QED BY <1>3, <1>4 DEF Metrics

(* A scrape that succeeds. *)
LEMMA ScrapeSucceedsInv ==
  ASSUME Inv, pc = "wait", output # None, ScrapeSucceeds,
         UNCHANGED guest, UNCHANGED <<running, published>>, output' = None,
         faults' \in 0..MaxFaults, attempt' \in 0..(MaxAttempts - 1)
  PROVE  Inv'
  <1>1. vm # None /\ ~vm.stopped /\ vm \in VMState BY CollectorFacts DEF Inv, PollInv
  <1>2. running \in BOOLEAN /\ output \in Sample BY DEF Inv, TypeOK
  <1>3. ~blacklisted BY <1>1 DEF Inv, RetryInv
  <1>4. /\ results' = (IF vm.prevSnapshot = None THEN None
                       ELSE ComputeMetrics(vm.prevSnapshot, output, vm.diskMap))
        /\ vm' = [vm EXCEPT !.prevSnapshot = output, !.retryCount = 0]
        /\ failures' = 0 /\ pc' = "publish" /\ UNCHANGED <<blacklisted, mappedDrive>>
    BY DEF ScrapeSucceeds
  <1>5. 0 \in 0..MaxRetries /\ 0 \in 0..(MaxRetries + 1) /\ 0 < MaxRetries BY Constants, SMT
  <1>6. vm' \in VMState BY <1>1, <1>2, <1>4, <1>5, VMExcept, Zenon
  <1>7. /\ vm' # None /\ ~vm'.stopped /\ vm'.retryCount = 0 /\ vm'.prevSnapshot = output
        /\ vm'.diskMap = vm.diskMap
    BY <1>1, <1>4, <1>6, VMFields, Zenon DEF VMState
  <1>8. results' \in Metrics \cup {None} BY <1>1, <1>2, <1>4, CollectorFacts, MetricsType
  <1>9. TypeOK' BY <1>2, <1>4, <1>5, <1>6, <1>8, CollectorFacts, PollTypes
  <1>10. SnapshotInv' BY <1>7, SnapshotsKept
  <1>11. RetryInv' BY <1>3, <1>4, <1>5, <1>7 DEF RetryInv
  <1>12. PollInv' BY <1>4, <1>7 DEF PollInv
  <1>13. LabelInv' BY <1>1, <1>4, <1>7 DEF Inv, LabelInv
  <1> QED BY <1>9, <1>10, <1>11, <1>12, <1>13 DEF Inv

LEMMA GuestExecInv ==
  ASSUME Inv, NEW answered \in BOOLEAN, GuestExec(answered)
  PROVE  Inv'
  <1>1. pc = "exec" /\ UNCHANGED guest /\ UNCHANGED <<attempt, published>> BY DEF GuestExec
  <1>2. faults' \in 0..MaxFaults
    <2>1. (answered <=> agent = "up") \in BOOLEAN OBVIOUS
    <2> QED BY <2>1, FaultsCounted, Zenon DEF GuestExec
  <1>3. CASE answered
    <2>1. /\ running' = TRUE /\ output' = None /\ pc' = "wait"
          /\ UNCHANGED <<vm, results, failures, blacklisted, mappedDrive>>
      BY <1>3 DEF GuestExec, history
    <2>2. vm # None /\ ~vm.stopped /\ results = None BY <1>1, CollectorFacts DEF Inv, PollInv
    <2>3. TypeOK' BY <1>1, <1>2, <2>1, <2>2, CollectorFacts, PollTypes
    <2>4. SnapshotInv' BY <1>1, <2>1, <2>2, SnapshotsKept
    <2>5. RetryInv' BY <2>1 DEF Inv, RetryInv
    <2>6. PollInv' BY <2>1, <2>2 DEF PollInv
    <2>7. LabelInv' BY <2>1 DEF Inv, LabelInv
    <2> QED BY <2>3, <2>4, <2>5, <2>6, <2>7 DEF Inv
  <1>4. CASE ~answered
    <2>1. HandleScrapeError /\ UNCHANGED <<running, output>> BY <1>4 DEF GuestExec, process
    <2> QED BY <1>1, <1>2, <2>1, CollectorFacts, ScrapeErrorInv
  <1> QED BY <1>3, <1>4

LEMMA GuestExecStatusInv ==
  ASSUME Inv, NEW answered \in BOOLEAN, GuestExecStatus(answered)
  PROVE  Inv'
  <1>1. pc = "wait" /\ UNCHANGED guest /\ UNCHANGED published BY DEF GuestExecStatus
  <1>2. faults' \in 0..MaxFaults
    <2>1. (answered <=> agent = "up" /\ (running \/ output # None)) \in BOOLEAN OBVIOUS
    <2> QED BY <2>1, FaultsCounted, Zenon DEF GuestExecStatus
  <1>3. 0 \in 0..(MaxAttempts - 1) BY Constants, SMT
  <1>4. CASE /\ attempt < MaxAttempts - 1 /\ attempt' = attempt + 1
             /\ UNCHANGED <<process, vm, pc, results, history>>
    <2>1. UNCHANGED <<running, output, vm, pc, results, failures, blacklisted, mappedDrive>>
      BY <1>4 DEF process, history
    <2>2. attempt' \in 0..(MaxAttempts - 1) BY <1>4, CollectorFacts, Constants, SMT
    <2>3. vm # None /\ running \in BOOLEAN BY <1>1 DEF Inv, PollInv, TypeOK
    <2>4. TypeOK' BY <1>1, <1>2, <2>1, <2>2, <2>3, CollectorFacts, PollTypes
    <2>5. SnapshotInv' BY <1>1, <2>1, <2>3, SnapshotsKept
    <2>6. RetryInv' BY <2>1 DEF Inv, RetryInv
    <2>7. PollInv' BY <1>1, <2>1 DEF Inv, PollInv
    <2>8. LabelInv' BY <2>1 DEF Inv, LabelInv
    <2> QED BY <2>4, <2>5, <2>6, <2>7, <2>8 DEF Inv
  <1>5. CASE HandleScrapeError /\ attempt' = 0 /\ UNCHANGED process
    <2>1. UNCHANGED <<running, output>> BY <1>5 DEF process
    <2> QED BY <1>1, <1>2, <1>3, <1>5, <2>1, ScrapeErrorInv
  <1>6. CASE output # None /\ ScrapeSucceeds /\ attempt' = 0 /\ output' = None /\ UNCHANGED running
    BY <1>1, <1>2, <1>3, <1>6, ScrapeSucceedsInv
  <1> QED BY <1>4, <1>5, <1>6 DEF GuestExecStatus

LEMMA PollPublishInv ==
  ASSUME Inv, PollPublish
  PROVE  Inv'
  <1>1. /\ pc = "publish" /\ published' = results /\ results' = None /\ pc' = "idle"
        /\ UNCHANGED guest
        /\ UNCHANGED <<running, output, faults, vm, attempt, failures, blacklisted, mappedDrive>>
    BY DEF PollPublish, process, history
  <1>2. faults \in 0..MaxFaults /\ running \in BOOLEAN BY DEF Inv, TypeOK
  <1>3. TypeOK' BY <1>1, <1>2, CollectorFacts, PollTypes
  <1>4. SnapshotInv' BY <1>1, SnapshotsKept
  <1>5. RetryInv' BY <1>1 DEF Inv, RetryInv
  <1>6. PollInv' BY <1>1 DEF Inv, PollInv
  <1>7. LabelInv' BY <1>1 DEF Inv, LabelInv
  <1> QED BY <1>3, <1>4, <1>5, <1>6, <1>7 DEF Inv

LEMMA InvStep == Inv /\ [Next]_vars => Inv'
  <1> SUFFICES ASSUME Inv, [Next]_vars PROVE Inv' OBVIOUS
  <1>1. CASE Guest BY <1>1, GuestInv
  <1>2. CASE Poll
    <2>1. ASSUME NEW found \in BOOLEAN, PollDiscover(found) PROVE Inv' BY <2>1, PollDiscoverInv
    <2>2. ASSUME NEW dialled \in BOOLEAN, NEW mapped \in BOOLEAN, ConnectVM(dialled, mapped) PROVE Inv'
      BY <2>2, ConnectVMInv
    <2>3. ASSUME NEW answered \in BOOLEAN, GuestExec(answered) PROVE Inv' BY <2>3, GuestExecInv
    <2>4. ASSUME NEW answered \in BOOLEAN, GuestExecStatus(answered) PROVE Inv'
      BY <2>4, GuestExecStatusInv
    <2>5. CASE PollPublish BY <2>5, PollPublishInv
    <2> QED BY <1>2, <2>1, <2>2, <2>3, <2>4, <2>5 DEF Poll
  <1>3. CASE UNCHANGED vars
    <2>1. UNCHANGED <<total, ticks, boot, now, agent, drive, running, output>> /\ UNCHANGED collector
      BY <1>3 DEF vars, guest, process, collector, history
    <2>2. SnapshotInv'
      <3>1. UNCHANGED guest /\ UNCHANGED vm BY <2>1 DEF guest, collector
      <3> QED BY <2>1, <3>1, SnapshotsKept
    <2>3. TypeOK BY DEF Inv
    <2> QED BY <2>1, <2>2, <2>3, GuestFrame DEF TypeOK
  <1> QED BY <1>1, <1>2, <1>3 DEF Next
-----------------------------------------------------------------------------
(* The arithmetic of ComputeMetrics. *)

LEMMA QuotientUnique ==
  ASSUME NEW K \in Nat \ {0}, NEW a \in Int, NEW b \in Int, NEW r \in Int, NEW s \in Int,
         0 <= r, r < K, 0 <= s, s < K, K * a + r = K * b + s
  PROVE  r = s
  <1>1. K * (a - b) = s - r BY SMT
  <1>2. CASE a - b >= 1
    <2>1. K * (a - b) >= K BY <1>2, SMT
    <2> QED BY <1>1, <2>1, SMT
  <1>3. CASE a - b <= -1
    <2>1. K * (a - b) <= -K BY <1>3, SMT
    <2> QED BY <1>1, <2>1, SMT
  <1>4. CASE a - b = 0
    <2>1. K * (a - b) = 0 BY <1>4, SMT
    <2> QED BY <1>1, <2>1, SMT
  <1> QED BY <1>2, <1>3, <1>4, SMT

(* A counter of K values that does not wrap adds what is counted. *)
LEMMA CounterAdds ==
  ASSUME NEW K \in Nat \ {0}, NEW p \in Nat, NEW d \in Nat, d < K - (p % K)
  PROVE  (p + d) % K = (p % K) + d
  <1> DEFINE a == p \div K
             r == p % K
             b == (p + d) \div K
             s == (p + d) % K
  <1>1. a \in Int /\ r \in Nat /\ r < K /\ p = K * a + r BY SMT
  <1>2. b \in Int /\ s \in Nat /\ s < K /\ p + d = K * b + s
    <2>1. p + d \in Nat BY SMT
    <2> HIDE DEF a, r
    <2> QED BY <2>1, SMT
  <1>3. d < K - r OBVIOUS
  <1> SUFFICES s = r + d OBVIOUS
  <1> HIDE DEF a, r, b, s
  <1>4. r + d \in Int /\ 0 <= r + d /\ r + d < K BY <1>1, <1>3, SMT
  <1>5. K * b + s = K * a + (r + d) BY <1>1, <1>2, SMT
  <1> QED BY <1>1, <1>2, <1>4, <1>5, QuotientUnique

(* uint64 subtraction is exact where the difference is a uint64. *)
LEMMA MinusExact ==
  ASSUME NEW a \in Int, NEW b \in Int, 0 <= a - b, a - b < 2^WordBits
  PROVE  Minus(a, b) = a - b
  <1> DEFINE W == 2^WordBits
  <1>1. W \in Nat \ {0} BY Constants
  <1> HIDE DEF W
  <1>2. a - b < W BY DEF W
  <1>3. (a - b) % W = a - b BY <1>1, <1>2, SMT
  <1> QED BY <1>3 DEF Minus, W

(* A queue length counter does not wrap in 64 bits. *)
LEMMA TicksFit ==
  ASSUME NEW k \in 0..MaxTicks
  PROVE  k \in Nat /\ k < 2^WordBits /\ k % 2^WordBits = k
  <1> DEFINE W == 2^WordBits
  <1>1. W \in Nat \ {0} /\ MaxTicks \in Nat /\ MaxTicks < W BY Constants
  <1> HIDE DEF W
  <1>2. k \in Nat /\ k < W BY <1>1, SMT
  <1>3. k % W = k BY <1>1, <1>2, SMT
  <1> QED BY <1>2, <1>3 DEF W

(* Two snapshots of one boot, in order: the differences are exact. *)
LEMMA IntervalExact ==
  ASSUME NEW prev \in Sample, NEW curr \in Sample, NEW disk, Counted(prev), Counted(curr),
         prev.total <= curr.total, prev.ticks <= curr.ticks,
         curr.total - prev.total < 2^OpsBits - prev.ops,
         ComputeMetrics(prev, curr, disk) # None
  PROVE  /\ ComputeMetrics(prev, curr, disk).ops = curr.total - prev.total
         /\ ComputeMetrics(prev, curr, disk).qlen =
              IF curr.total - prev.total > 0 THEN curr.ticks - prev.ticks ELSE 0
  <1> DEFINE p == prev.total
             c == curr.total
             d == c - p
             O == 2^OpsBits
             W == 2^WordBits
  <1>1. /\ p \in Nat /\ c \in Nat /\ p <= c /\ d < O - prev.ops
        /\ O \in Nat \ {0} /\ W \in Nat \ {0} /\ O <= W
    <2>1. p \in 0..MaxOps /\ c \in 0..MaxOps BY SampleFields
    <2> QED BY <2>1, Constants, SMT
  <1>2. prev.ops = p % O /\ curr.ops = c % O BY DEF Counted
  <1> HIDE DEF p, c, O, W
  <1>3. d \in Nat /\ c = p + d BY <1>1, SMT
  <1> HIDE DEF d
  <1>4. curr.ops = prev.ops + d
    <2>1. d < O - (p % O) BY <1>1, <1>2
    <2>2. (p + d) % O = (p % O) + d BY <1>1, <1>3, <2>1, CounterAdds
    <2> QED BY <1>2, <1>3, <2>2
  <1>5. Minus(curr.ops, prev.ops) = d
    <2>1. p % O \in 0..(O - 1) BY <1>1, ModRange
    <2>2. prev.ops \in Nat BY <1>1, <1>2, <2>1, SMT
    <2>3. curr.ops \in Int /\ curr.ops - prev.ops = d /\ 0 <= d /\ d < W
      BY <1>1, <1>3, <1>4, <2>2, SMT
    <2>4. 0 <= curr.ops - prev.ops /\ curr.ops - prev.ops < 2^WordBits BY <2>3 DEF W
    <2> QED BY <2>2, <2>3, <2>4, MinusExact
  <1>6. Minus(curr.qlen, prev.qlen) = curr.ticks - prev.ticks
    <2>1. prev.ticks \in 0..MaxTicks /\ curr.ticks \in 0..MaxTicks BY SampleFields
    <2>2. /\ prev.qlen = prev.ticks /\ prev.ticks \in Nat
          /\ curr.qlen = curr.ticks /\ curr.ticks \in Nat /\ curr.ticks < W
      BY <2>1, TicksFit DEF Counted, W
    <2>3. 0 <= curr.ticks - prev.ticks /\ curr.ticks - prev.ticks < W BY <1>1, <2>2, SMT
    <2>4. Minus(curr.ticks, prev.ticks) = curr.ticks - prev.ticks
      BY <2>2, <2>3, MinusExact DEF W
    <2> QED BY <2>2, <2>4
  <1>7. ComputeMetrics(prev, curr, disk) =
          [ops |-> d, qlen |-> IF d > 0 THEN curr.ticks - prev.ticks ELSE 0, disk |-> disk]
    BY <1>5, <1>6 DEF ComputeMetrics
  <1> QED BY <1>7 DEF d, c, p
-----------------------------------------------------------------------------
(* The inductive invariant of the poller. *)
THEOREM Invariance == Spec => []Inv
  BY InvInit, InvStep, PTL DEF Spec

(* Every variable keeps its type: a scrape never runs without a vmState,   *)
(* and the retries and the attempts of GuestExecWait stay in their bounds. *)
THEOREM QGATypes == Spec => []TypeOK
  <1>1. Inv => TypeOK BY DEF Inv
  <1> QED BY <1>1, Invariance, PTL

(* handleScrapeError excludes a VM exactly when MaxRetries scrapes in a    *)
(* row failed or a command was refused.                                    *)
THEOREM Excluded == Spec => []ExcludedAfterRetries
  <1>1. Inv => ExcludedAfterRetries
    <2> SUFFICES ASSUME Inv, vm # None
                 PROVE  /\ vm.stopped <=> failures >= MaxRetries \/ blacklisted
                        /\ failures <= MaxRetries
      BY DEF ExcludedAfterRetries
    <2>1. /\ failures \in 0..(MaxRetries + 1) /\ blacklisted \in BOOLEAN /\ vm.stopped \in BOOLEAN
      BY CollectorFacts
    <2>2. failures \in Nat /\ MaxRetries \in Nat BY <2>1, Constants, SMT
    <2>3. /\ vm.stopped => failures <= MaxRetries /\ (failures = MaxRetries \/ blacklisted)
          /\ ~vm.stopped => failures < MaxRetries /\ ~blacklisted
      BY DEF Inv, RetryInv
    <2>4. failures = MaxRetries => failures >= MaxRetries BY <2>2, SMT
    <2>5. failures < MaxRetries => failures <= MaxRetries /\ ~(failures >= MaxRetries) BY <2>2, SMT
    <2>6. CASE vm.stopped BY <2>3, <2>4, <2>6, Zenon
    <2>7. CASE ~vm.stopped BY <2>3, <2>5, <2>7, Zenon
    <2> QED BY <2>6, <2>7, Zenon
  <1> QED BY <1>1, Invariance, PTL

(* Between polls nothing is published for a VM that is excluded or gone.   *)
THEOREM NotReported == Spec => []ExcludedNotReported
  <1>1. Inv => ExcludedNotReported BY DEF Inv, PollInv, ExcludedNotReported
  <1> QED BY <1>1, Invariance, PTL

(* Results appear in one place: a scrape with two snapshots. *)
LEMMA ResultsFrom ==
  ASSUME Inv, [Next]_vars, results' # None, results = None
  PROVE  /\ vm # None /\ vm.prevSnapshot \in Sample /\ output \in Sample
         /\ vm.prevSnapshot # None /\ output # None
         /\ results' = ComputeMetrics(vm.prevSnapshot, output, vm.diskMap)
  <1>1. results' # results OBVIOUS
  <1>2. ~Guest
    BY <1>1 DEF Guest, GuestIO, QueueTicks, AgentChanges, ClockChanges, Reboot, DriveChanges,
                 ProcessExits, collector
  <1>3. ~HandleScrapeError BY <1>1 DEF HandleScrapeError, ScrapeError
  <1>4. \A found \in BOOLEAN : ~PollDiscover(found) BY <1>1 DEF PollDiscover
  <1>5. \A dialled, mapped \in BOOLEAN : ~ConnectVM(dialled, mapped) BY <1>1 DEF ConnectVM
  <1>6. \A answered \in BOOLEAN : ~GuestExec(answered) BY <1>1, <1>3 DEF GuestExec
  <1>7. ~PollPublish BY DEF PollPublish
  <1>8. ~UNCHANGED vars BY <1>1 DEF vars
  <1>9. PICK answered \in BOOLEAN : GuestExecStatus(answered)
    BY <1>2, <1>4, <1>5, <1>6, <1>7, <1>8 DEF Next, Poll
  <1>10. pc = "wait" /\ output # None /\ ScrapeSucceeds BY <1>1, <1>3, <1>9 DEF GuestExecStatus
  <1>11. vm # None BY <1>10 DEF Inv, PollInv
  <1>12. /\ vm.prevSnapshot # None
         /\ results' = ComputeMetrics(vm.prevSnapshot, output, vm.diskMap)
    BY <1>10 DEF ScrapeSucceeds
  <1> QED BY <1>10, <1>11, <1>12, CollectorFacts, GuestFacts

(* ComputeMetrics reports an interval between two snapshots in order, and  *)
(* within one boot and without a wrap of the operation counter exactly     *)
(* what the guest completed in it and the queue time that accumulated.     *)
THEOREM IntervalMetrics == Spec => MetricsOfInterval
  <1>1. ASSUME Inv, [Next]_vars, results' # None, results = None
        PROVE  LET prev == vm.prevSnapshot
                   done == output.total - prev.total
               IN  /\ output.ts > prev.ts
                   /\ output.boot = prev.boot /\ done < 2^OpsBits - prev.ops =>
                        /\ results'.ops = done
                        /\ results'.qlen = IF done > 0 THEN output.ticks - prev.ticks ELSE 0
    <2>1. /\ vm # None /\ vm.prevSnapshot \in Sample /\ output \in Sample
          /\ vm.prevSnapshot # None /\ output # None
          /\ results' = ComputeMetrics(vm.prevSnapshot, output, vm.diskMap)
      BY <1>1, ResultsFrom
    <2>2. ~(output.ts <= vm.prevSnapshot.ts) BY <1>1, <2>1 DEF ComputeMetrics
    <2>3. output.ts > vm.prevSnapshot.ts
      <3>1. output.ts \in 0..MaxNow /\ vm.prevSnapshot.ts \in 0..MaxNow BY <2>1, SampleFields
      <3> QED BY <2>2, <3>1, Constants, SMT
    <2>4. /\ Counted(output) /\ Counted(vm.prevSnapshot)
          /\ output.boot = vm.prevSnapshot.boot =>
               vm.prevSnapshot.total <= output.total /\ vm.prevSnapshot.ticks <= output.ticks
      BY <1>1, <2>1 DEF Inv, SnapshotInv, UpTo
    <2>5. ASSUME output.boot = vm.prevSnapshot.boot,
                 output.total - vm.prevSnapshot.total < 2^OpsBits - vm.prevSnapshot.ops
          PROVE  /\ results'.ops = output.total - vm.prevSnapshot.total
                 /\ results'.qlen = IF output.total - vm.prevSnapshot.total > 0
                                      THEN output.ticks - vm.prevSnapshot.ticks ELSE 0
      BY <1>1, <2>1, <2>4, <2>5, IntervalExact, ZenonT(30)
    <2> QED BY <2>3, <2>5, Zenon
  <1>2. Inv /\ [Next]_vars =>
          [results' # None /\ results = None =>
             LET prev == vm.prevSnapshot
                 done == output.total - prev.total
             IN  /\ output.ts > prev.ts
                 /\ output.boot = prev.boot /\ done < 2^OpsBits - prev.ops =>
                      /\ results'.ops = done
                      /\ results'.qlen = IF done > 0 THEN output.ticks - prev.ticks ELSE 0]_vars
    BY <1>1, Zenon
  <1> QED BY <1>2, Invariance, PTL DEF Spec, MetricsOfInterval

(* BuildDiskMapping, joined with what a truthful agent says, labels the    *)
(* metrics with the volume they were measured on or not at all, unless the *)
(* drive was numbered anew since connectVM.                                *)
THEOREM LabelRight == AgentTruthful => (Spec => LabelUnlessRenumbered)
  <1> SUFFICES ASSUME AgentTruthful PROVE Spec => LabelUnlessRenumbered OBVIOUS
  <1>1. ASSUME Inv, [Next]_vars, results' # None, results = None, output.volume = mappedDrive
        PROVE  results'.disk \in {output.volume, None}
    <2>1. /\ vm # None
          /\ results' = ComputeMetrics(vm.prevSnapshot, output, vm.diskMap)
      BY <1>1, ResultsFrom
    <2>2. results'.disk = vm.diskMap BY <1>1, <2>1 DEF ComputeMetrics
    <2>3. mappedDrive \in Volumes /\ vm.diskMap \in {BuildDiskMapping(mappedDrive), None}
      BY <1>1, <2>1 DEF Inv, LabelInv
    <2>4. BuildDiskMapping(mappedDrive) \in {mappedDrive, None} BY <2>3, MappingRight
    <2> QED BY <1>1, <2>2, <2>3, <2>4, Zenon
  <1>2. Inv /\ [Next]_vars =>
          [results' # None /\ results = None /\ output.volume = mappedDrive =>
             results'.disk \in {output.volume, None}]_vars
    BY <1>1, Zenon
  <1> QED BY <1>2, Invariance, PTL DEF Spec, LabelUnlessRenumbered
=============================================================================
