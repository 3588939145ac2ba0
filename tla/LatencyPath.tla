---------------------------- MODULE LatencyPath -----------------------------
(***************************************************************************)
(* What the three eBPF programs of bpf/ have in common.  A probe at the    *)
(* start of an operation stores a timestamp in an LRU hash; the probe at   *)
(* its end looks the timestamp up, deletes it, and adds one to a slot of   *)
(* the histogram of the device and operation, which it creates if need be. *)
(* Each call of a map helper and each read through a pointer into a map is *)
(* a step, so that the handlers of several CPUs interleave between any two *)
(* of them.  The kernel gives an element of an LRU hash that was evicted,  *)
(* replaced or deleted to another key while handlers may point to it.      *)
(*                                                                         *)
(* A timestamp is represented by the request it was taken for: a latency   *)
(* is right when the request that ends is the one whose timestamp is used. *)
(* Slots are the subject of LatencyHistogram; here a histogram is the      *)
(* number of operations it has counted.  The line numbers of this module   *)
(* are those of block_latency.c; BlockLatency, NFSLatency and NFSKprobe    *)
(* say what differs: keys, operations and when the probes fire.            *)
(***************************************************************************)
EXTENDS Integers

CONSTANTS
    CPUs,
    Requests,      \* block requests, NFS headers or calls; the kernel reuses them
    Dev,           \* the device of each
    Keys,          \* keys of the start map
    HistKeys,      \* block_hist_key, nfs_hist_key: device and operation
    StartElems,    \* elements of the start map, max_entries of them
    Elems,         \* elements of the histogram map
    None,
    MaxIssues      \* bound: operations that start

ASSUME PathAssumption ==
    /\ None \notin Requests \cup HistKeys \cup StartElems \cup Elems
    /\ MaxIssues \in Nat

VARIABLES
    request,       \* life of each request: idle, in flight, completing
    start,         \* key -> element
    stamp,         \* the timestamp in each element: the request it was taken for
    hists,         \* histogram key -> element
    count,         \* operations counted in the slots of each element
    pc,            \* where the handler of each CPU is
    req,           \* the request whose end it handles
    startp,        \* the element of the start map it is yet to read from
    tsp,           \* the timestamp it read
    hk,            \* the histogram key it filled in
    histp,         \* the histogram it points to
    reused,        \* CPUs whose startp was given to another start since they
                   \* looked it up: its timestamp may be later than their clock
    issues,        \* operations started so far
    (* history *)
    aliased,       \* requests in flight at the same time as another of their key
    missed,        \* keys whose end probe was missed since the start was stored
    recorded,      \* fetch-and-adds done for each histogram key
    lossy          \* histogram keys created by two CPUs at once, evicted, or
                   \* given an element some handler still points to

handler   == <<pc, req, startp, tsp, hk, histp>>
startVars == <<start, stamp>>
histVars  == <<hists, count, recorded, lossy>>
vars      == <<request, startVars, histVars, handler, reused, issues, aliased, missed>>

TypeOK ==
    /\ request \in [Requests -> {"idle", "inflight", "completing"}]
    /\ start \in [Keys -> StartElems \cup {None}]
    /\ stamp \in [StartElems -> Requests \cup {None}]
    /\ hists \in [HistKeys -> Elems \cup {None}]
    /\ count \in [Elems -> Nat]
    /\ pc \in [CPUs -> {"idle", "read", "readkey", "delete", "hist", "create", "relookup", "add"}]
    /\ req \in [CPUs -> Requests \cup {None}]
    /\ startp \in [CPUs -> StartElems \cup {None}]
    /\ tsp \in [CPUs -> Requests \cup {None}]
    /\ hk \in [CPUs -> HistKeys \cup {None}]
    /\ histp \in [CPUs -> Elems \cup {None}]
    /\ \A p \in CPUs : pc[p] # "idle" => req[p] # None
    /\ \A p \in CPUs : pc[p] \in {"read", "readkey"} => startp[p] # None
    /\ \A p \in CPUs : pc[p] \notin {"idle", "read"} => tsp[p] # None
    /\ \A p \in CPUs : pc[p] \in {"hist", "create", "relookup", "add"} => hk[p] # None
    /\ \A p \in CPUs : pc[p] = "add" => histp[p] # None
    /\ reused \in SUBSET CPUs
    /\ issues \in 0..MaxIssues
    /\ aliased \in SUBSET Requests
    /\ missed \in SUBSET Keys
    /\ recorded \in [HistKeys -> Nat]
    /\ lossy \in SUBSET HistKeys

Init ==
    /\ request = [r \in Requests |-> "idle"]
    /\ start = [k \in Keys |-> None]
    /\ stamp = [e \in StartElems |-> None]
    /\ hists = [h \in HistKeys |-> None]
    /\ count = [e \in Elems |-> 0]
    /\ pc = [p \in CPUs |-> "idle"]
    /\ req = [p \in CPUs |-> None]
    /\ startp = [p \in CPUs |-> None]
    /\ tsp = [p \in CPUs |-> None]
    /\ hk = [p \in CPUs |-> None]
    /\ histp = [p \in CPUs |-> None]
    /\ reused = {}
    /\ issues = 0
    /\ aliased = {}
    /\ missed = {}
    /\ recorded = [h \in HistKeys |-> 0]
    /\ lossy = {}
-----------------------------------------------------------------------------
(* What bpf_map_update_elem(BPF_ANY) may leave of an LRU hash: the kernel  *)
(* evicts entries in batches and not only from a full map, and the key     *)
(* gets an element that is in no entry then, never the one it still has.   *)
Entries(map) == {k \in DOMAIN map : map[k] # None}

Evictions(map) == SUBSET Entries(map)

Free(map, gone, elems) == elems \ {map[k] : k \in Entries(map) \ gone}

Updated(map, k, e, gone) ==
    [j \in DOMAIN map |-> IF j = k THEN e ELSE IF j \in gone THEN None ELSE map[j]]
-----------------------------------------------------------------------------
(* A request is in flight from now on; peers are the requests of its key. *)
Begins(r, peers) ==
    LET others == {s \in peers \ {r} : request[s] # "idle"}
    IN  /\ issues < MaxIssues
        /\ issues' = issues + 1
        /\ request' = [request EXCEPT ![r] = "inflight"]
        /\ aliased' = IF others = {} THEN aliased ELSE aliased \cup others \cup {r}

(* A request that no start probe saw: it was in flight before the programs *)
(* were attached, or goes on after a partial completion or a resent call.  *)
BeginsUntimed(r, peers) ==
    /\ request[r] = "idle"
    /\ Begins(r, peers)
    /\ UNCHANGED <<startVars, histVars, handler, reused, missed>>

StoreStart(k, r) ==
    /\ \E gone \in Evictions(start) : \E e \in Free(start, gone, StartElems) :
         /\ start' = Updated(start, k, e, gone)
         /\ stamp' = [stamp EXCEPT ![e] = r]
         /\ reused' = reused \cup {p \in CPUs : startp[p] = e}
    /\ missed' = missed \ {k}

(* The handler returns; the kernel may reuse the request. *)
Return(p, r) ==
    /\ pc' = [pc EXCEPT ![p] = "idle"]
    /\ req' = [req EXCEPT ![p] = None]
    /\ startp' = [startp EXCEPT ![p] = None]
    /\ tsp' = [tsp EXCEPT ![p] = None]
    /\ hk' = [hk EXCEPT ![p] = None]
    /\ histp' = [histp EXCEPT ![p] = None]
    /\ request' = [request EXCEPT ![r] = "idle"]
    /\ aliased' = aliased \ {r}
    /\ reused' = reused \ {p}

Advance(p, next) == pc' = [pc EXCEPT ![p] = next]

(* The end probe of r looks up the start.  Without one there is nothing to *)
(* measure.                                                                *)
LookupStart(p, r, k) ==
    /\ pc[p] = "idle"
    /\ request[r] = "inflight"
    /\ \/ /\ start[k] = None
          /\ Return(p, r)
       \/ /\ start[k] # None
          /\ Advance(p, "read")
          /\ req' = [req EXCEPT ![p] = r]
          /\ startp' = [startp EXCEPT ![p] = start[k]]
          /\ request' = [request EXCEPT ![r] = "completing"]
          /\ UNCHANGED <<tsp, hk, histp, aliased, reused>>
    /\ UNCHANGED <<startVars, histVars, issues, missed>>

(* The timestamp is read through the pointer, whatever became of the entry. *)
ReadStart(p) ==
    /\ pc[p] = "read"
    /\ Advance(p, "delete")
    /\ tsp' = [tsp EXCEPT ![p] = stamp[startp[p]]]
    /\ startp' = [startp EXCEPT ![p] = None]
    /\ UNCHANGED <<request, startVars, histVars, req, hk, histp, reused, issues, aliased, missed>>

(* Mutant: neither the operation nor the sign is looked at. *)
MeasuredUnknown(p, h) ==
    /\ Advance(p, "hist")
    /\ hk' = [hk EXCEPT ![p] = h]
    /\ UNCHANGED <<req, startp, tsp, histp, request, aliased, reused>>

(* Where the handler goes with the histogram key h, None for an operation  *)
(* that is not counted.  The difference to a timestamp stored after the    *)
(* clock was read is negative.                                             *)
Measured(p, h) ==
    \/ /\ h = None \/ (p \in reused /\ tsp[p] # req[p])
       /\ Return(p, req[p])
    \/ /\ h # None
       /\ Advance(p, "hist")
       /\ hk' = [hk EXCEPT ![p] = h]
       /\ UNCHANGED <<req, startp, tsp, histp, request, aliased, reused>>

(* Mutant: the start is left in the map. *)
DeleteForgotten(p, k, h) ==
    /\ pc[p] = "delete"
    /\ Measured(p, h)
    /\ UNCHANGED <<startVars, histVars, issues, missed>>

(* Deletion of the start: of whatever is in the map under the key by now. *)
DeleteStart(p, k, h) ==
    /\ pc[p] = "delete"
    /\ start' = [start EXCEPT ![k] = None]
    /\ Measured(p, h)
    /\ UNCHANGED <<stamp, histVars, issues, missed>>

(* Mutant: the histogram is created afresh for every operation. *)
HistAlwaysCreated(p) ==
    /\ pc[p] = "hist"
    /\ Advance(p, "create")
    /\ UNCHANGED <<request, startVars, histVars, req, startp, tsp, hk, histp, reused, issues, aliased, missed>>

(* First lookup of the histogram.  A CPU that misses while another one is  *)
(* about to create the same histogram will race with it.                   *)
HistLookup(p) ==
    LET h == hk[p]
    IN  /\ pc[p] = "hist"
        /\ histp' = [histp EXCEPT ![p] = hists[h]]
        /\ Advance(p, IF hists[h] = None THEN "create" ELSE "add")
        /\ lossy' = IF hists[h] = None /\ \E q \in CPUs : pc[q] = "create" /\ hk[q] = h
                      THEN lossy \cup {h} ELSE lossy
        /\ UNCHANGED <<request, startVars, hists, count, recorded, req, startp, tsp, hk>>
        /\ UNCHANGED <<reused, issues, aliased, missed>>

(* An element full of zeroes is put in the map, over one that is there. *)
HistCreate(p) ==
    /\ pc[p] = "create"
    /\ \E gone \in Evictions(hists) : \E e \in Free(hists, gone, Elems) :
         /\ hists' = Updated(hists, hk[p], e, gone)
         /\ count' = [count EXCEPT ![e] = 0]
         /\ lossy' = lossy \cup gone \cup (IF \E q \in CPUs : histp[q] = e THEN {hk[p]} ELSE {})
    /\ Advance(p, "relookup")
    /\ UNCHANGED <<request, startVars, recorded, req, startp, tsp, hk, histp, reused, issues, aliased, missed>>

(* Second lookup; the histogram may have been evicted since. *)
HistRelookup(p) ==
    /\ pc[p] = "relookup"
    /\ IF hists[hk[p]] = None
         THEN Return(p, req[p])
         ELSE /\ histp' = [histp EXCEPT ![p] = hists[hk[p]]]
              /\ Advance(p, "add")
              /\ UNCHANGED <<req, startp, tsp, hk, request, aliased, reused>>
    /\ UNCHANGED <<startVars, histVars, issues, missed>>

(* __sync_fetch_and_add on the element, in the map or not. *)
HistAdd(p) ==
    /\ pc[p] = "add"
    /\ count' = [count EXCEPT ![histp[p]] = @ + 1]
    /\ recorded' = [recorded EXCEPT ![hk[p]] = @ + 1]
    /\ Return(p, req[p])
    /\ UNCHANGED <<startVars, hists, lossy, issues, missed>>

Count(p) == HistLookup(p) \/ HistCreate(p) \/ HistRelookup(p) \/ HistAdd(p)
-----------------------------------------------------------------------------
(* The operations Collect finds counted for a histogram key. *)
Total(h) == IF hists[h] = None THEN 0 ELSE count[hists[h]]

(* A latency is measured from the start of the request that ends, whatever *)
(* is evicted, requeued, resent or reused in between, unless another       *)
(* request of the same key was in flight with it, or the element was given *)
(* to another start between the lookup and the read through the pointer.   *)
PairedUnlessAliased ==
    \A p \in CPUs \ reused : tsp[p] # None /\ req[p] \notin aliased => tsp[p] = req[p]

(* The start map holds timestamps of requests that have not ended only: no *)
(* later request can be measured from a timestamp that was left behind,    *)
(* even when requests share a key and take each other's timestamp.  Only a *)
(* missed return probe leaves one, until the thread's next call.           *)
NoStaleStart ==
    \A k \in Entries(start) \ missed : request[stamp[start[k]]] # "idle"

(* Every latency recorded is counted in the histogram that the map holds,  *)
(* unless the histogram was created by two CPUs at once, evicted, or built *)
(* in memory that a handler still points to.                               *)
NoLossWithoutRace ==
    \A h \in HistKeys \ lossy : Total(h) = recorded[h]
=============================================================================
