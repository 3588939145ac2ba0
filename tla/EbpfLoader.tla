----------------------------- MODULE EbpfLoader -----------------------------
(***************************************************************************)
(* The life of the eBPF programs: LoadAndAttach, RetryFailed and Close of  *)
(* pkg/ebpf/loader.go, the goroutines startEBPF of cmd/exporter/main.go    *)
(* starts for them, and the Collect calls that read their maps meanwhile.  *)
(*                                                                         *)
(* RetryFailed loads under Programs.mu and Collect reads under its read    *)
(* lock; Close takes no lock.  What Programs refers to (objs, links) and   *)
(* what is open in the kernel are kept apart.  A kprobe and the kretprobe  *)
(* of the same function are one probe.  LatencyHistogram and BlockLatency  *)
(* have what the programs count.  Exporter says when the steps happen.     *)
(***************************************************************************)
EXTENDS Integers, Sequences

CONSTANTS
    Scrapers,      \* HTTP requests that call Collect
    Probes,        \* number of probes of each subsystem
    Optional,      \* probes that may be missing: nfs4_file_open
    None,
    MaxFaults      \* bound: loads and attachments that fail for no lasting reason

(* In the order in which they are loaded. *)
Order == <<"block", "nfs", "nfs_kprobe">>

Subsystems == {"block", "nfs", "nfs_kprobe"}

AllProbes == {p \in Subsystems \X Nat : p[2] \in 1..Probes[p[1]]}

ASSUME LoaderAssumption ==
    /\ Probes \in [Subsystems -> Nat \ {0}]
    /\ Optional \subseteq {"nfs_kprobe"} \X Nat
    /\ None \notin Subsystems
    /\ MaxFaults \in Nat

VARIABLES
    enabled,       \* subsystems the configuration asks for
    available,     \* subsystems whose probes the kernel has
    cancelled,
    faults,
    (* the kernel *)
    kernelObjs,    \* subsystems whose programs and maps are loaded
    kernelLinks,   \* probes that are attached
    (* Programs *)
    objs,          \* subsystems with non-nil objects and maps
    links,         \* probes in p.links
    active,        \* BlockActive, NFSActive, NFSKprobeActive
    retry,         \* retryNFS, retryNFSKprobe
    closed,        \* Close has run
    (* LoadAndAttach, then RetryFailed *)
    pc, queue, loading, next,
    (* Collect *)
    scrape,        \* the subsystem whose map is read next
    gauge,         \* what kme_subsystem_active said
    exported       \* subsystems whose map was read

env      == <<enabled, available, cancelled>>
kernel   == <<kernelObjs, kernelLinks>>
programs == <<objs, links>>
flags    == <<active, retry>>
loader   == <<queue, loading, next>>
collect  == <<scrape, gauge, exported>>
loaderVars == <<env, faults, kernel, programs, flags, closed, pc, loader, collect>>

LoaderTypeOK ==
    /\ {enabled, available, kernelObjs, objs, active} \subseteq SUBSET Subsystems
    /\ {kernelLinks, links} \subseteq SUBSET AllProbes
    /\ retry \in SUBSET {"nfs", "nfs_kprobe"}
    /\ {cancelled, closed} \subseteq BOOLEAN
    /\ faults \in 0..MaxFaults
    /\ pc \in {"start", "failed", "idle", "lock", "retry", "done"}
    /\ Len(queue) <= 3 /\ \A i \in 1..Len(queue) : queue[i] \in Subsystems
    /\ loading \in Subsystems \cup {None}
    /\ loading # None => next \in 1..(Probes[loading] + 1)
    /\ scrape \in [Scrapers -> 0..4]
    /\ gauge \in [Scrapers -> SUBSET Subsystems]
    /\ exported \in [Scrapers -> SUBSET Subsystems]

(* The subsystems in S, in that order. *)
InOrder(S) ==
    LET Add(q, s) == IF s \in S THEN Append(q, s) ELSE q
    IN  Add(Add(Add(<<>>, Order[1]), Order[2]), Order[3])

LoaderInit ==
    /\ enabled \in SUBSET Subsystems
    /\ available \in SUBSET Subsystems
    /\ cancelled = FALSE
    /\ faults = 0
    /\ kernelObjs = {} /\ kernelLinks = {}
    /\ objs = {} /\ links = {}
    /\ active = {} /\ retry = {}
    /\ closed = FALSE
    /\ pc = "start"
    /\ queue = InOrder(enabled)
    /\ loading = None
    /\ next = 0
    /\ scrape = [r \in Scrapers |-> 0]
    /\ gauge = [r \in Scrapers |-> {}]
    /\ exported = [r \in Scrapers |-> {}]
-----------------------------------------------------------------------------
(* The environment: a kernel module comes or, while nothing of it is in    *)
(* use, goes; the process is told to stop.                                 *)
ModuleChanges(s) ==
    /\ s \notin kernelObjs
    /\ available' = IF s \in available THEN available \ {s} ELSE available \cup {s}
    /\ UNCHANGED <<enabled, cancelled, faults, kernel, programs, flags, closed, pc, loader, collect>>

Cancel ==
    /\ ~cancelled
    /\ cancelled' = TRUE
    /\ UNCHANGED <<enabled, available, faults, kernel, programs, flags, closed, pc, loader, collect>>

FaultUnless(well) ==
    IF well THEN UNCHANGED faults ELSE faults < MaxFaults /\ faults' = faults + 1
-----------------------------------------------------------------------------
(* Loading one subsystem. *)

ProbesOf(s) == {p \in kernelLinks : p[1] = s}

(* Mutant: block is retried as well. *)
ReturnsAny(s, ok) ==
    /\ active' = IF ok THEN active \cup {s} ELSE active
    /\ retry' = IF ok THEN retry \ {s} ELSE retry \cup {s}
    /\ queue' = Tail(queue)
    /\ loading' = None
    /\ next' = 0

(* The caller of loadBlock, loadNFS or loadNFSKprobe takes note.  Block is *)
(* not tried again.                                                        *)
LoadReturns(s, ok) ==
    /\ active' = IF ok THEN active \cup {s} ELSE active
    /\ retry' = IF ok THEN retry \ {s} ELSE retry \cup ({s} \ {"block"})
    /\ queue' = Tail(queue)
    /\ loading' = None
    /\ next' = 0

(* LoadAndAssign.  loadBlock stores the objects in Programs at once. *)
LoadObjects ==
    LET s == Head(queue)
    IN  /\ pc \in {"start", "retry"}
        /\ queue # <<>>
        /\ loading = None
        /\ \/ /\ kernelObjs' = kernelObjs \cup {s}
              /\ objs' = objs \cup ({s} \cap {"block"})
              /\ loading' = s
              /\ next' = 1
              /\ UNCHANGED <<faults, flags, queue>>
           \/ /\ FaultUnless(s \notin available)
              /\ LoadReturns(s, FALSE)
              /\ UNCHANGED <<kernelObjs, objs>>
        /\ UNCHANGED <<env, kernelLinks, links, closed, pc, collect>>

(* A probe is attached.  loadBlock appends its link to p.links at once. *)
AttachProbe ==
    /\ loading \in available
    /\ next <= Probes[loading]
    /\ kernelLinks' = kernelLinks \cup {<<loading, next>>}
    /\ links' = links \cup ({<<loading, next>>} \cap ({"block"} \X Nat))
    /\ next' = next + 1
    /\ UNCHANGED <<env, faults, kernelObjs, objs, flags, closed, pc, queue, loading, collect>>

(* An optional kprobe is not there. *)
AttachSkips ==
    /\ <<loading, next>> \in Optional
    /\ next <= Probes[loading]
    /\ next' = next + 1
    /\ UNCHANGED <<env, faults, kernel, programs, flags, closed, pc, queue, loading, collect>>

(* Mutant: the probes attached before the one that failed stay attached. *)
AttachFailsOnly ==
    /\ loading # None
    /\ next <= Probes[loading]
    /\ FaultUnless(loading \notin available)
    /\ kernelObjs' = kernelObjs \ {loading}
    /\ LoadReturns(loading, FALSE)
    /\ UNCHANGED <<env, kernelLinks, programs, closed, pc, collect>>

(* A probe cannot be attached: the links made for the subsystem and its    *)
(* objects are closed.  loadBlock does so by p.Close, which finds nothing  *)
(* else to close, and leaves Programs with pointers to what is closed.     *)
AttachFails ==
    /\ loading # None
    /\ next <= Probes[loading]
    /\ FaultUnless(loading \notin available)
    /\ kernelObjs' = kernelObjs \ {loading}
    /\ kernelLinks' = kernelLinks \ ProbesOf(loading)
    /\ LoadReturns(loading, FALSE)
    /\ UNCHANGED <<env, programs, closed, pc, collect>>

(* All probes are attached; Programs gets the objects, maps and links. *)
LoadInstalls ==
    /\ loading # None
    /\ next > Probes[loading]
    /\ objs' = objs \cup {loading}
    /\ links' = links \cup ProbesOf(loading)
    /\ LoadReturns(loading, TRUE)
    /\ UNCHANGED <<env, faults, kernel, closed, pc, collect>>
-----------------------------------------------------------------------------
(* LoadAndAttach returns an error: nothing is active and nothing retried. *)
AllFailed == enabled # {} /\ active = {} /\ retry = {}

(* startEBPF after LoadAndAttach: unless all failed the collector is       *)
(* registered and RetryFailed started, which returns at once when there is *)
(* nothing to retry.                                                       *)
StartDone ==
    /\ pc = "start"
    /\ queue = <<>>
    /\ pc' = IF AllFailed THEN "failed" ELSE IF retry = {} THEN "done" ELSE "idle"
    /\ UNCHANGED <<env, faults, kernel, programs, flags, closed, loader, collect>>

Readers == {r \in Scrapers : scrape[r] # 0}

(* RetryFailed: the ticker fires and Lock is called.  From here on new     *)
(* readers wait, as sync.RWMutex has it.                                   *)
RetryTick ==
    /\ pc = "idle"
    /\ pc' = "lock"
    /\ UNCHANGED <<env, faults, kernel, programs, flags, closed, loader, collect>>

(* Mutant: readers are not waited for. *)
LocksAnyway ==
    /\ pc = "lock"
    /\ pc' = "retry"
    /\ queue' = InOrder(retry)
    /\ UNCHANGED <<env, faults, kernel, programs, flags, closed, loading, next, collect>>

(* The readers are gone; the subsystems still missing are loaded. *)
RetryLocks ==
    /\ pc = "lock"
    /\ Readers = {}
    /\ pc' = "retry"
    /\ queue' = InOrder(retry)
    /\ UNCHANGED <<env, faults, kernel, programs, flags, closed, loading, next, collect>>

(* Mutant: the retries end with the first subsystem that loads. *)
EndsEarly ==
    /\ pc = "retry"
    /\ queue = <<>>
    /\ pc' = IF retry # {"nfs", "nfs_kprobe"} THEN "done" ELSE "idle"
    /\ UNCHANGED <<env, faults, kernel, programs, flags, closed, loader, collect>>

(* RetryFailed: the lock is released; it goes on while something is left. *)
RetryEnds ==
    /\ pc = "retry"
    /\ queue = <<>>
    /\ pc' = IF retry = {} THEN "done" ELSE "idle"
    /\ UNCHANGED <<env, faults, kernel, programs, flags, closed, loader, collect>>

RetryStops ==
    /\ pc = "idle"
    /\ cancelled
    /\ pc' = "done"
    /\ UNCHANGED <<env, faults, kernel, programs, flags, closed, loader, collect>>

Registered == pc \notin {"start", "failed"}

(* Close, by the goroutine of startEBPF that waits for the context: it     *)
(* closes what Programs refers to, whatever RetryFailed and Collect do.    *)
Close ==
    /\ Registered
    /\ cancelled
    /\ ~closed
    /\ closed' = TRUE
    /\ kernelLinks' = kernelLinks \ links
    /\ kernelObjs' = kernelObjs \ objs
    /\ UNCHANGED <<env, faults, programs, flags, pc, loader, collect>>
-----------------------------------------------------------------------------
(* Collect takes the read lock and says which subsystems are active. *)
CollectGauge(r) ==
    /\ Registered
    /\ scrape[r] = 0
    /\ pc \notin {"lock", "retry"}
    /\ scrape' = [scrape EXCEPT ![r] = 1]
    /\ gauge' = [gauge EXCEPT ![r] = active]
    /\ exported' = [exported EXCEPT ![r] = {}]
    /\ UNCHANGED <<env, faults, kernel, programs, flags, closed, pc, loader>>

(* It reads the maps that are not nil, one subsystem after the other; a    *)
(* map that is closed gives an error and nothing else.                     *)
CollectMap(r) ==
    /\ scrape[r] \in 1..3
    /\ scrape' = [scrape EXCEPT ![r] = @ + 1]
    /\ exported' = [exported EXCEPT ![r] = @ \cup ({Order[scrape[r]]} \cap objs \cap kernelObjs)]
    /\ UNCHANGED <<env, faults, kernel, programs, flags, closed, pc, loader, gauge>>

(* The lock is released, the reply sent. *)
CollectDone(r) ==
    /\ scrape[r] = 4
    /\ scrape' = [scrape EXCEPT ![r] = 0]
    /\ gauge' = [gauge EXCEPT ![r] = {}]
    /\ exported' = [exported EXCEPT ![r] = {}]
    /\ UNCHANGED <<env, faults, kernel, programs, flags, closed, pc, loader>>
-----------------------------------------------------------------------------
Load == LoadObjects \/ AttachProbe \/ AttachSkips \/ AttachFails \/ LoadInstalls

RetryStep == RetryTick \/ RetryLocks \/ RetryEnds \/ RetryStops
-----------------------------------------------------------------------------
(* Whatever attachment of whatever subsystem failed, first or on a retry,  *)
(* a subsystem is either complete, active and referred to by Programs, or  *)
(* nothing of it is left in the kernel.                                    *)
AllOrNothing ==
    ~closed => \A s \in Subsystems \ {loading} :
        IF s \in active
          THEN /\ s \in kernelObjs \cap objs
               /\ ProbesOf(s) \subseteq links
               /\ \A i \in 1..Probes[s] : <<s, i>> \in kernelLinks \cup Optional
          ELSE s \notin kernelObjs /\ ProbesOf(s) = {}

(* A reply of Collect is consistent: it has histograms of just the         *)
(* subsystems kme_subsystem_active reports, though RetryFailed may load    *)
(* one while Collect is under way, until Close has run.                    *)
ReplyConsistent ==
    \A r \in Scrapers : scrape[r] = 4 /\ ~closed => gauge[r] = exported[r]
=============================================================================
