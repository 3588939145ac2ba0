----------------------------- MODULE NFSKprobe ------------------------------
(***************************************************************************)
(* bpf/nfs_kprobe_latency.c: calls of the NFS file operations, timed from  *)
(* the entry to the return of the function.  The key is the thread, and    *)
(* the device and operation are kept with the timestamp, because a return  *)
(* probe does not see the arguments.  Calls nest; the return probe of one  *)
(* program serves all the functions.                                       *)
(***************************************************************************)
EXTENDS LatencyPath, Sequences

CONSTANTS
    Calls,
    Thread,          \* the thread that makes each call
    Function,        \* the function called
    Attached         \* functions whose entry probe could be attached

VARIABLE stack       \* thread -> its calls in progress, the innermost last

Threads == {Thread[c] : c \in Calls}

StackInit == stack = [t \in Threads |-> <<>>]

(* The op each entry probe passes to record_start. *)
OpOf(f) ==
    CASE f = "nfs_file_read" -> 0
      [] f = "nfs_file_write" -> 1
      [] f \in {"nfs_file_open", "nfs4_file_open"} -> 2
      [] f = "nfs_getattr" -> 3

(* The key of the histogram of a call. *)
nfs_hist_key(c) == <<Dev[c], OpOf(Function[c])>>

(* The calls are requests of the path, and their keys are keys. *)
KprobeConstants ==
    /\ Calls \subseteq Requests
    /\ Threads \subseteq Keys
    /\ \A c \in Calls : nfs_hist_key(c) \in HistKeys

(* A thread in a return probe makes no call. *)
Running(t) == \A c \in Calls : Thread[c] = t => request[c] # "completing"

(* The call its thread may return from. *)
Innermost(c) ==
    /\ Running(Thread[c])
    /\ stack[Thread[c]] # <<>>
    /\ stack[Thread[c]][Len(stack[Thread[c]])] = c

Leaves(c) == stack' = [stack EXCEPT ![Thread[c]] = SubSeq(@, 1, Len(@) - 1)]

(* The entry of a function, and the probe on it if there is one. *)
record_start(c) ==
    /\ request[c] = "idle"
    /\ Running(Thread[c])
    /\ Begins(c, {d \in Calls : Thread[d] = Thread[c]})
    /\ IF Function[c] \in Attached
         THEN StoreStart(Thread[c], c)
         ELSE UNCHANGED <<startVars, reused, missed>>
    /\ stack' = [stack EXCEPT ![Thread[c]] = Append(@, c)]
    /\ UNCHANGED <<histVars, handler>>

(* A function returns and no probe runs: it has none, or it was entered    *)
(* before the return probe was attached, or there were too many returns to *)
(* watch.                                                                  *)
ReturnUnseen(c) ==
    /\ Innermost(c)
    /\ request[c] = "inflight"
    /\ request' = [request EXCEPT ![c] = "idle"]
    /\ aliased' = aliased \ {c}
    /\ missed' = IF Function[c] \in Attached THEN missed \cup {Thread[c]} ELSE missed
    /\ Leaves(c)
    /\ UNCHANGED <<startVars, histVars, handler, reused, issues>>

(* Mutant: return probes on functions whose entry probe failed. *)
ReturnProbedAll(p, c) ==
    /\ Innermost(c)
    /\ LookupStart(p, c, Thread[c])
    /\ Leaves(c)

(* The loader attaches return probes where it attached the entry probe. *)
ReturnProbed(p, c) ==
    /\ Function[c] \in Attached
    /\ Innermost(c)
    /\ LookupStart(p, c, Thread[c])
    /\ Leaves(c)

(* start->ts, and then start->dev and start->op through the same pointer. *)
ReadTs(p) ==
    /\ pc[p] = "read"
    /\ Advance(p, "readkey")
    /\ tsp' = [tsp EXCEPT ![p] = stamp[startp[p]]]
    /\ UNCHANGED <<request, startVars, histVars, req, startp, hk, histp, reused, issues, aliased, missed>>

ReadKey(p) ==
    /\ pc[p] = "readkey"
    /\ Advance(p, "delete")
    /\ hk' = [hk EXCEPT ![p] = nfs_hist_key(stamp[startp[p]])]
    /\ startp' = [startp EXCEPT ![p] = None]
    /\ UNCHANGED <<request, startVars, histVars, req, tsp, histp, reused, issues, aliased, missed>>

kretprobe_nfs_vfs(p) ==
    \/ \E c \in Calls : ReturnProbed(p, c)
    \/ /\ \/ ReadTs(p)
          \/ ReadKey(p)
          \/ DeleteStart(p, Thread[req[p]], hk[p])
          \/ Count(p)
       /\ UNCHANGED stack

KprobeNext ==
    \/ \E c \in Calls : record_start(c)
    \/ \E c \in Calls : ReturnUnseen(c)
    \/ \E p \in CPUs : kretprobe_nfs_vfs(p)

KprobeSpec == Init /\ StackInit /\ [][KprobeNext]_<<vars, stack>>

(* A return is measured from the entry of the very call that returns, and  *)
(* counted as the operation of that call, also when calls nest: an inner   *)
(* call takes the place of the outer one, whose return then finds nothing  *)
(* and is lost rather than counted with a wrong latency or operation.  The *)
(* exceptions are a return that was missed since the thread's last entry   *)
(* and an element given to another thread's start under the pointer.       *)
ReturnsPaired ==
    \A p \in CPUs \ reused :
        req[p] \in Calls /\ Thread[req[p]] \notin missed =>
            /\ tsp[p] \in {req[p], None}
            /\ hk[p] \in {nfs_hist_key(req[p]), None}
=============================================================================
