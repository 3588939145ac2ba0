---------------------------- MODULE BlockLatency ----------------------------
(***************************************************************************)
(* bpf/block_latency.c: block requests, timed from block_rq_issue to       *)
(* block_rq_complete under the key {dev, sector}.                          *)
(***************************************************************************)
EXTENDS LatencyPath

CONSTANTS
    BlockRequests,   \* the requests of the block layer
    Sector,          \* the first sector of each
    Rwbs             \* the first character of its rwbs field

req_key(r) == <<Dev[r], Sector[r]>>

BlockPeers(r) == {s \in BlockRequests : req_key(s) = req_key(r)}

Unknown == 255

classify_op(c) == CASE c = "R" -> 0 [] c = "W" -> 1 [] c = "D" -> 2 [] c = "F" -> 3 [] OTHER -> Unknown

(* The key of the histogram, None for an operation that is not counted. *)
block_hist_key(r) ==
    IF classify_op(Rwbs[r]) = Unknown THEN None ELSE <<Dev[r], classify_op(Rwbs[r])>>

(* The requests are requests of the path, and their keys are keys. *)
BlockConstants ==
    /\ BlockRequests \subseteq Requests
    /\ \A r \in BlockRequests : req_key(r) \in Keys /\ block_hist_key(r) \in HistKeys \cup {None}

(* For a request new to the device or requeued. *)
block_rq_issue(r) ==
    /\ request[r] \in {"idle", "inflight"}
    /\ Begins(r, BlockPeers(r))
    /\ IF classify_op(Rwbs[r]) = Unknown
         THEN UNCHANGED <<startVars, reused, missed>>
         ELSE StoreStart(req_key(r), r)
    /\ UNCHANGED <<histVars, handler>>

(* What is left of a request completed in part, or a request issued before *)
(* the probe was attached.                                                 *)
block_rq_untimed(r) == BeginsUntimed(r, BlockPeers(r))

block_rq_complete(p) ==
    \/ \E r \in BlockRequests : LookupStart(p, r, req_key(r))
    \/ ReadStart(p)
    \/ DeleteStart(p, req_key(req[p]), block_hist_key(req[p]))
    \/ Count(p)

BlockNext ==
    \/ \E r \in BlockRequests : block_rq_issue(r)
    \/ \E r \in BlockRequests : block_rq_untimed(r)
    \/ \E p \in CPUs : block_rq_complete(p)

BlockSpec == Init /\ [][BlockNext]_vars
=============================================================================
