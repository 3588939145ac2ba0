----------------------------- MODULE MCExporter -----------------------------
(* Two probes for each subsystem, three for the kprobes, of which the       *)
(* second is optional.                                                      *)
EXTENDS Exporter

MCProbes == [s \in Subsystems |-> IF s = "nfs_kprobe" THEN 3 ELSE 2]

MCOptional == {<<"nfs_kprobe", 2>>}
=============================================================================
