------------------------------ MODULE MCProbes ------------------------------
(***************************************************************************)
(* The three programs on two CPUs.  They share no map, so a behaviour runs *)
(* one of them, chosen at the start.                                       *)
(*                                                                         *)
(* Block: a read, a flush and an untraced operation at one sector, a       *)
(* discard at another.  NFS: reads of two files at the same offset, a      *)
(* write at that offset.  NFS calls: a read, an open within it or after it *)
(* and an nfs4_file_open whose entry probe could not be attached, all of   *)
(* one thread, and a getattr of another thread.                            *)
(***************************************************************************)
EXTENDS BlockLatency, NFSLatency, NFSKprobe, TLC

CONSTANTS blkRead, blkFlush, blkOther, blkDiscard,
          nfsRead, nfsRead2, nfsWrite,
          callRead, callOpen, callOpen4, callGetattr,
          t1, t2

VARIABLE program

MCBlockRequests == {blkRead, blkFlush, blkOther, blkDiscard}
MCHeaders == {nfsRead, nfsRead2, nfsWrite}
MCCalls == {callRead, callOpen, callOpen4, callGetattr}
MCRequests == MCBlockRequests \cup MCHeaders \cup MCCalls

MCDev == [r \in MCRequests |-> 7]

MCSector == [r \in MCBlockRequests |-> IF r = blkDiscard THEN 1 ELSE 0]
MCRwbs == (blkRead :> "R") @@ (blkFlush :> "F") @@ (blkOther :> "N") @@ (blkDiscard :> "D")

MCCount32 == [r \in MCHeaders |-> 4096]
MCOffset == [r \in MCHeaders |-> 0]
MCNfsOp == [r \in MCHeaders |-> IF r = nfsWrite THEN 1 ELSE 0]

MCThread == [c \in MCCalls |-> IF c = callGetattr THEN t2 ELSE t1]
MCFunction == (callRead :> "nfs_file_read") @@ (callOpen :> "nfs_file_open")
                @@ (callOpen4 :> "nfs4_file_open") @@ (callGetattr :> "nfs_getattr")
MCAttached == {"nfs_file_read", "nfs_file_write", "nfs_file_open", "nfs_getattr"}

MCKeys == {<<7, 0>>, <<7, 1>>} \cup {<<7, 4096, 0, 0>>, <<7, 4096, 0, 1>>} \cup {t1, t2}
MCHistKeys == {<<7, op>> : op \in 0..3}

ASSUME ProgramsAssumption == BlockConstants /\ NFSConstants /\ KprobeConstants

MCInit ==
    /\ Init
    /\ StackInit
    /\ program \in {"block", "nfs", "nfs_kprobe"}

MCNext ==
    /\ \/ program = "block" /\ BlockNext /\ UNCHANGED stack
       \/ program = "nfs" /\ NFSNext /\ UNCHANGED stack
       \/ program = "nfs_kprobe" /\ KprobeNext
    /\ UNCHANGED program

Spec == MCInit /\ [][MCNext]_<<vars, program, stack>>

Symmetry == Permutations(CPUs) \cup Permutations(StartElems) \cup Permutations(Elems)
=============================================================================
