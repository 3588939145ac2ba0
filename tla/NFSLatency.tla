----------------------------- MODULE NFSLatency -----------------------------
(***************************************************************************)
(* bpf/nfs_latency.c: NFS reads and writes, timed from nfs_initiate_read   *)
(* and nfs_initiate_write to nfs_readpage_done and nfs_writeback_done.     *)
(* The key is filled in from the header at both ends and does not name the *)
(* file: {dev, count, offset, op}.                                         *)
(***************************************************************************)
EXTENDS LatencyPath

CONSTANTS
    Headers,         \* nfs_pgio_header's
    Count32,         \* args.count of each
    Offset,          \* args.offset
    NfsOp            \* 0 for a read, 1 for a write

nfs_fill_key(r, op) == <<Dev[r], Count32[r], Offset[r], op>>

NFSPeers(r) ==
    {s \in Headers : NfsOp[s] = NfsOp[r] /\ nfs_fill_key(s, NfsOp[s]) = nfs_fill_key(r, NfsOp[r])}

(* The headers are requests of the path, and their keys are keys. *)
NFSConstants ==
    /\ Headers \subseteq Requests
    /\ \A r \in Headers : /\ nfs_fill_key(r, NfsOp[r]) \in Keys
                          /\ <<Dev[r], NfsOp[r]>> \in HistKeys

nfs_initiate(r, op) ==
    /\ NfsOp[r] = op
    /\ request[r] = "idle"
    /\ Begins(r, NFSPeers(r))
    /\ StoreStart(nfs_fill_key(r, op), r)
    /\ UNCHANGED <<histVars, handler>>

nfs_initiate_read(r) == nfs_initiate(r, 0)

nfs_initiate_write(r) == nfs_initiate(r, 1)

(* A header in flight before the probe was attached, or whose call is sent *)
(* again without another nfs_initiate event.                               *)
nfs_resent(r) == BeginsUntimed(r, NFSPeers(r))

nfs_done(p, r, op) == NfsOp[r] = op /\ LookupStart(p, r, nfs_fill_key(r, op))

nfs_readpage_done(p, r) == nfs_done(p, r, 0)

nfs_writeback_done(p, r) == nfs_done(p, r, 1)

(* The rest of the handler, once the start is found. *)
nfs_record_latency(p) ==
    \/ ReadStart(p)
    \/ DeleteStart(p, nfs_fill_key(req[p], NfsOp[req[p]]), <<Dev[req[p]], NfsOp[req[p]]>>)
    \/ Count(p)

NFSNext ==
    \/ \E r \in Headers : nfs_initiate_read(r) \/ nfs_initiate_write(r)
    \/ \E r \in Headers : nfs_resent(r)
    \/ \E p \in CPUs, r \in Headers : nfs_readpage_done(p, r) \/ nfs_writeback_done(p, r)
    \/ \E p \in CPUs : nfs_record_latency(p)

NFSSpec == Init /\ [][NFSNext]_vars
=============================================================================
