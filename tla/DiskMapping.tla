---------------------------- MODULE DiskMapping -----------------------------
(***************************************************************************)
(* Which volume is behind a drive of a Windows guest: BuildDiskMapping of  *)
(* pkg/qga/diskmap.go joins what the guest agent says of its drives        *)
(* (guest-get-disks) with what libvirt's domain XML says of its disks, by  *)
(* location and then by serial number.                                     *)
(***************************************************************************)
EXTENDS Integers, FiniteSets

CONSTANTS
    Disks,         \* the <disk> elements of the domain XML
    Controllers,   \* its <controller> elements that have a PCI address
    GuestDisk,     \* what guest-get-disks says of the disk behind a drive
    None           \* also an empty attribute, and an unusable PCI address

(* alias is the volume name behind "ua-", None without that prefix; bus is *)
(* the target's, and unit stands for bus, target and unit of the address.  *)
ASSUME MappingAssumption ==
    /\ \A d \in Disks : DOMAIN d = {"device", "alias", "serial", "type", "pci", "bus", "controller", "unit"}
    /\ \A c \in Controllers : DOMAIN c = {"bus", "index", "pci"}
    /\ \A c, d \in Controllers : c.bus = d.bus /\ c.index = d.index => c = d
    /\ \A v \in DOMAIN GuestDisk : DOMAIN GuestDisk[v] = {"pci", "unit", "serial"}

(* The volumes whose drives are looked at. *)
Volumes == DOMAIN GuestDisk

(* The controller an address names; index 0 when it names none. *)
ControllerOf(d) == {c \in Controllers : c.bus = d.bus /\ c.index = IF d.controller = None THEN 0 ELSE d.controller}

(* Mutant: the units of a controller are counted from one. *)
UnitsFromOne(d) ==
    IF d.type = "pci" /\ d.pci # None THEN {<<d.pci, 0>>}
    ELSE IF d.type = "drive" /\ d.bus # None THEN {<<c.pci, d.unit + 1>> : c \in ControllerOf(d)}
    ELSE {}

(* The location of a disk, if it has one: a virtio-blk disk is a PCI       *)
(* device of its own, another is a unit of its controller.                 *)
Location(d) ==
    IF d.type = "pci" /\ d.pci # None THEN {<<d.pci, 0>>}
    ELSE IF d.type = "drive" /\ d.bus # None THEN {<<c.pci, d.unit>> : c \in ControllerOf(d)}
    ELSE {}

(* The disks KubeVirt made for a volume. *)
Named == {d \in Disks : d.device = "disk" /\ d.alias # None}

Aliases == {d.alias : d \in Named}

(* What ParseDiskLocations and ParseDiskSerials have for a key: at most    *)
(* one volume, as libvirt gives out addresses once.                        *)
ParseDiskLocations(loc) == {d.alias : d \in {e \in Named : loc \in Location(e)}}

ParseDiskSerials(serial) == {d.alias : d \in {e \in Named : e.serial # None /\ e.serial = serial}}

(* BuildDiskMapping, for the drive that volume v is behind: by location,   *)
(* then by serial number, then not at all.  parseGuestGetDisks leaves out  *)
(* a drive without a PCI controller.                                       *)
BuildDiskMapping(v) ==
    LET gd       == GuestDisk[v]
        location == ParseDiskLocations(<<gd.pci, gd.unit>>)
        serial   == ParseDiskSerials(gd.serial)
    IN  IF gd.pci = None THEN None
        ELSE IF location # {} THEN CHOOSE n \in location : TRUE
        ELSE IF gd.serial # None /\ serial # {} THEN CHOOSE n \in serial : TRUE
        ELSE None

(* Where libvirt puts a disk on the guest's buses: a device at its own     *)
(* address, or the unit it is plugged into of the controller it names.     *)
PluggedAt(d, pci, unit) ==
    \/ d.type = "pci" /\ d.pci = pci /\ pci # None /\ unit = 0
    \/ /\ d.type = "drive" /\ d.bus # None /\ d.unit = unit
       /\ \E c \in Controllers : c.bus = d.bus /\ c.pci = pci /\ c.index = IF d.controller = None THEN 0 ELSE d.controller

(* What a label rests on: for a volume's drive the agent gives neither the *)
(* address nor the serial number of another volume's disk.                 *)
AgentTruthful ==
    \A v \in Volumes, d \in Named :
        \/ PluggedAt(d, GuestDisk[v].pci, GuestDisk[v].unit)
        \/ d.serial # None /\ d.serial = GuestDisk[v].serial
        => d.alias = v
=============================================================================
