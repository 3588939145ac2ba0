--------------------------- MODULE DeviceResolver ---------------------------
(***************************************************************************)
(* pkg/device: the map from device numbers to pod volumes that scan builds *)
(* from the mount table of the host, the pod cache and the PVC index, and  *)
(* replaces as a whole every interval.  Meanwhile volumes are attached,    *)
(* mounted, unmounted and attached elsewhere, and the caches lag.          *)
(*                                                                         *)
(* A line of mountinfo is a pod, a volume and, for a filesystem volume,    *)
(* its device; lines that are not of kubelet volumes are left out.  The    *)
(* line of a block volume has the number of devtmpfs, and scan takes the   *)
(* device from the file the mount put there.                               *)
(***************************************************************************)
EXTENDS Integers, Sequences, Functions

CONSTANTS
    Pods,          \* pod UIDs
    Volumes,       \* persistent volumes
    BlockVolumes,  \* those with volumeMode Block, which have a device of their own;
                   \* others may share a filesystem
    Devices,       \* block devices and superblocks
    Major, Minor,  \* their numbers
    StartNodes,    \* what the exporter may find when it starts
    None,
    MaxChanges,    \* bound: changes of the node's volumes, pods and claims
    MaxFaults      \* bound: reads of mountinfo that fail

(* A block volume has its device to itself. *)
Exclusive(where) ==
    \A v \in BlockVolumes, w \in Volumes : v # w /\ where[v] # None => where[v] # where[w]

Nodes ==
    {n \in [device : [Volumes -> Devices \cup {None}], mountinfo : Seq(Pods \X Volumes),
            podStore : SUBSET Pods, bound : SUBSET Volumes] :
        /\ Exclusive(n.device)
        /\ \A m \in Range(n.mountinfo) : n.device[m[2]] # None
        /\ IsInjective(n.mountinfo)}

ASSUME ResolverAssumption ==
    /\ \A d \in Devices : Major[d] \in 0..(2^12 - 1) /\ Minor[d] \in 0..(2^20 - 1)
    /\ \A d, e \in Devices : Major[d] = Major[e] /\ Minor[d] = Minor[e] => d = e
    /\ None \notin Devices \cup Nat
    /\ StartNodes \subseteq Nodes
    /\ BlockVolumes \subseteq Volumes
    /\ MaxChanges \in Nat
    /\ MaxFaults \in Nat

VARIABLES
    (* the node *)
    device,        \* where each volume is attached
    mountinfo,     \* sequence of <<pod, volume>>, in mount order
    podStore,      \* pods the informer lists
    bound,         \* volumes for which the PVC index has a claim
    changes, faults,
    (* the Resolver *)
    devices,       \* r.devices
    pc,
    lines,         \* what is left of the mounts of this scan
    podMetas,      \* the pods of this scan
    fresh,         \* the map it builds
    (* history *)
    seen,          \* <<pod, volume, device>> that were true since the scan began
    owners         \* volumes that have been on each device

node     == <<device, mountinfo, podStore, bound, changes, owners>>
scanVars == <<pc, lines, podMetas, fresh>>
vars     == <<node, faults, devices, scanVars, seen>>

(* The number of a device in the kernel (MKDEV), which is also the key of  *)
(* the histograms, and in st_rdev, where the minor number is split.        *)
KernelDev(d) == Major[d] * 2^20 + Minor[d]

Rdev(d) == (Minor[d] % 256) + Major[d] * 256 + (Minor[d] \div 256) * 2^20

Numbers == {KernelDev(d) : d \in Devices}

(* PVCName is the claim's name when the index has it, else the volume's. *)
DeviceInfo == [pod : Pods, vol : Volumes, claim : BOOLEAN]

Mounts == Pods \X Volumes

Line == [pod : Pods, vol : Volumes, dev : Numbers \cup {None}]

ResolverTypeOK ==
    /\ device \in [Volumes -> Devices \cup {None}]
    /\ mountinfo \in Seq(Mounts)
    /\ podStore \in SUBSET Pods
    /\ bound \in SUBSET Volumes
    /\ changes \in 0..MaxChanges
    /\ faults \in 0..MaxFaults
    /\ devices \in [Numbers -> DeviceInfo \cup {None}]
    /\ pc \in {"idle", "scan", "pods", "lines"}
    /\ lines \in Seq(Line)
    /\ podMetas \in SUBSET Pods
    /\ fresh \in [Numbers -> DeviceInfo \cup {None}]
    /\ seen \in SUBSET (Pods \X Volumes \X Devices)
    /\ owners \in [Devices -> SUBSET Volumes]

Empty == [n \in Numbers |-> None]

(* The exporter starts on a node that may be in use. *)
ResolverInit ==
    /\ \E n \in StartNodes :
         /\ device = n.device
         /\ mountinfo = n.mountinfo
         /\ podStore = n.podStore
         /\ bound = n.bound
    /\ changes = 0
    /\ faults = 0
    /\ devices = Empty
    /\ pc = "scan"
    /\ lines = <<>>
    /\ podMetas = {}
    /\ fresh = Empty
    /\ seen = {}
    /\ owners = [d \in Devices |-> {v \in Volumes : device[v] = d}]
-----------------------------------------------------------------------------
(* The node. *)

Truth(mounted, where) == {<<m[1], m[2], where[m[2]]>> : m \in Range(mounted)}

Change ==
    /\ changes < MaxChanges
    /\ changes' = changes + 1
    /\ UNCHANGED <<faults, devices, scanVars>>

Attach(v, d) ==
    /\ device[v] = None
    /\ device' = [device EXCEPT ![v] = d]
    /\ Exclusive(device')
    /\ owners' = [owners EXCEPT ![d] = @ \cup {v}]
    /\ Change
    /\ UNCHANGED <<mountinfo, podStore, bound, seen>>

Detach(v) ==
    /\ device[v] # None
    /\ \A m \in Range(mountinfo) : m[2] # v
    /\ device' = [device EXCEPT ![v] = None]
    /\ Change
    /\ UNCHANGED <<mountinfo, podStore, bound, seen, owners>>

Mount(p, v) ==
    /\ device[v] # None
    /\ <<p, v>> \notin Range(mountinfo)
    /\ mountinfo' = Append(mountinfo, <<p, v>>)
    /\ seen' = IF pc \in {"pods", "lines"} THEN seen \cup Truth(mountinfo', device) ELSE seen
    /\ Change
    /\ UNCHANGED <<device, podStore, bound, owners>>

Unmount(p, v) ==
    /\ \E i \in DOMAIN mountinfo :
         /\ mountinfo[i] = <<p, v>>
         /\ mountinfo' = SubSeq(mountinfo, 1, i - 1) \o SubSeq(mountinfo, i + 1, Len(mountinfo))
    /\ Change
    /\ UNCHANGED <<device, podStore, bound, seen, owners>>

PodStoreChanges(p) ==
    /\ podStore' = IF p \in podStore THEN podStore \ {p} ELSE podStore \cup {p}
    /\ Change
    /\ UNCHANGED <<device, mountinfo, bound, seen, owners>>

(* The index learns of the claim of a volume. *)
ClaimIndexed(v) ==
    /\ v \notin bound
    /\ bound' = bound \cup {v}
    /\ Change
    /\ UNCHANGED <<device, mountinfo, podStore, seen, owners>>

NodeChanges ==
    \/ \E v \in Volumes : Detach(v) \/ ClaimIndexed(v) \/ \E d \in Devices : Attach(v, d)
    \/ \E p \in Pods, v \in Volumes : Mount(p, v) \/ Unmount(p, v)
    \/ \E p \in Pods : PodStoreChanges(p)
-----------------------------------------------------------------------------
(* Mutant: the old encoding, with one byte for the minor number. *)
MkOldDev(major, minor) == major * 2^8 + minor

(* A device number as the kernel has it. *)
MkDev(major, minor) == major * 2^20 + minor

(* Mutant: only the low byte of the minor number. *)
LowMinor(rdev) == MkDev((rdev \div 256) % 4096, rdev % 256)

(* statBlockDevice: the device number from st_rdev. *)
statBlockDevice(rdev) ==
    MkDev((rdev \div 256) % 4096, (rdev % 256) + ((rdev \div 2^20) % 4096) * 256)

(* ParseMountInfo.  An error ends the scan and leaves the map as it is. *)
ParseMountInfo ==
    /\ pc = "scan"
    /\ \/ /\ lines' = [i \in 1..Len(mountinfo) |->
                         LET v == mountinfo[i][2]
                         IN  [pod |-> mountinfo[i][1], vol |-> v,
                              dev |-> IF v \in BlockVolumes THEN None
                                      ELSE MkDev(Major[device[v]], Minor[device[v]])]]
          /\ seen' = Truth(mountinfo, device)
          /\ pc' = "pods"
          /\ UNCHANGED faults
       \/ /\ faults < MaxFaults
          /\ faults' = faults + 1
          /\ pc' = "idle"
          /\ UNCHANGED <<lines, seen>>
    /\ UNCHANGED <<node, devices, podMetas, fresh>>

(* Mutant: the map of the previous scan is the one that is filled. *)
FillsCurrentMap ==
    /\ pc = "pods"
    /\ podMetas' = podStore
    /\ fresh' = devices
    /\ pc' = "lines"
    /\ UNCHANGED <<node, faults, devices, lines, seen>>

(* podMetaMap and the new map. *)
podMetaMap ==
    /\ pc = "pods"
    /\ podMetas' = podStore
    /\ fresh' = Empty
    /\ pc' = "lines"
    /\ UNCHANGED <<node, faults, devices, lines, seen>>

(* Mutant: the device of the line, also for block volumes. *)
DeviceOfLine(line) == line.dev

(* The device number of a line.  The file of a block volume is the device  *)
(* for as long as the mount is there; afterwards stat fails or finds a     *)
(* plain file.                                                             *)
DeviceOf(line) ==
    IF line.vol \notin BlockVolumes
      THEN line.dev
      ELSE IF <<line.pod, line.vol>> \in Range(mountinfo)
        THEN statBlockDevice(Rdev(device[line.vol]))
        ELSE None

resolvePVCName(v) == v \in bound

(* One line of the mounts; a later line of the same device replaces it. *)
ScanLine ==
    LET line == Head(lines)
        dev  == DeviceOf(line)
    IN  /\ pc = "lines"
        /\ lines # <<>>
        /\ lines' = Tail(lines)
        /\ fresh' = IF dev \notin Numbers \/ line.pod \notin podMetas
                      THEN fresh
                      ELSE [fresh EXCEPT ![dev] = [pod |-> line.pod, vol |-> line.vol,
                                                   claim |-> resolvePVCName(line.vol)]]
        /\ UNCHANGED <<node, faults, devices, pc, podMetas, seen>>

(* The map is replaced under the lock. *)
ScanSwap ==
    /\ pc = "lines"
    /\ lines = <<>>
    /\ devices' = fresh
    /\ fresh' = Empty
    /\ podMetas' = {}
    /\ seen' = {}
    /\ pc' = "idle"
    /\ UNCHANGED <<node, faults, lines>>

(* Run: the ticker fires. *)
RunTick ==
    /\ pc = "idle"
    /\ pc' = "scan"
    /\ UNCHANGED <<node, faults, devices, lines, podMetas, fresh, seen>>

(* Lookup, by the number a histogram has for the device. *)
Lookup(d) == devices[KernelDev(d)]

Run == ParseMountInfo \/ podMetaMap \/ ScanLine \/ ScanSwap \/ RunTick
-----------------------------------------------------------------------------
(* A scan that ends vouches for the whole map: every entry is a pod, a     *)
(* volume and a device that belonged together at some time during this     *)
(* scan, though mounts come and go while it reads the mount table, the pod *)
(* cache and the device files one after the other, and whatever earlier    *)
(* scans found.                                                            *)
MapVouched ==
    [][devices' # devices =>
        \A d \in Devices :
            LET info == devices'[KernelDev(d)]
            IN  info # None => <<info.pod, info.vol, d>> \in seen]_vars

(* The mounts of device d, in mount order, whose pods the informer lists. *)
KnownMounts(d) == SelectSeq(mountinfo, LAMBDA m : device[m[2]] = d /\ m[1] \in podStore)

(* What the map should say of d: the last of these. *)
Current(d) ==
    LET known == KnownMounts(d)
        last  == known[Len(known)]
    IN  IF known = <<>>
          THEN None
          ELSE [pod |-> last[1], vol |-> last[2], claim |-> last[2] \in bound]

(* When the node settles the map comes to agree with it, for filesystem    *)
(* and block volumes alike, and entries of what is gone disappear, in      *)
(* spite of reads that failed.                                             *)
MapFollowsMounts ==
    <>[][FALSE]_node => <>[](\A d \in Devices : Lookup(d) = Current(d))
=============================================================================
