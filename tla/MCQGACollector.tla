--------------------------- MODULE MCQGACollector ---------------------------
(* A disk of a SCSI controller, and a SATA disk for which the agent gives   *)
(* an address no disk has and a serial number.  The domain has also another *)
(* disk of the SCSI controller, a virtio-blk disk and a CD-ROM, and the     *)
(* drives of these are not looked at.                                       *)
EXTENDS QGACollector

Disk(alias, serial, type, pci, bus, unit) ==
    [device |-> "disk", alias |-> alias, serial |-> serial, type |-> type, pci |-> pci, bus |-> bus,
     controller |-> None, unit |-> unit]

MCDisks ==
    {Disk("scsi0", None, "drive", None, "scsi", 0), Disk("scsi1", None, "drive", None, "scsi", 1),
     Disk("sata0", "S1", "drive", None, "sata", 0), Disk("blk0", None, "pci", 7, "virtio", 0),
     [Disk("cd", "S1", "drive", None, "sata", 1) EXCEPT !.device = "cdrom"]}

MCControllers == {[bus |-> "scsi", index |-> 0, pci |-> 5], [bus |-> "sata", index |-> 0, pci |-> 6]}

MCGuestDisk ==
    [v \in {"scsi1", "sata0"} |->
        IF v = "scsi1" THEN [pci |-> 5, unit |-> 1, serial |-> None]
                       ELSE [pci |-> 0, unit |-> 0, serial |-> "S1"]]

ASSUME TruthfulAssumption == AgentTruthful
=============================================================================
