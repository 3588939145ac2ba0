---------------------------- MODULE QGACollector ----------------------------
(***************************************************************************)
(* The QGA poller of pkg/qga for one VM, poll after poll: discovery and    *)
(* connectVM, the guest-exec round trip of CollectDiskCounters, the        *)
(* difference of two counter snapshots, and the retries after which        *)
(* handleScrapeError excludes the VM.  The guest does I/O, reboots, sets   *)
(* its clock and starts or stops its agent in between.                     *)
(*                                                                         *)
(* One disk and one direction of it stand for all: ComputeMetrics treats   *)
(* every drive and reads and writes alike.  How poll handles several VMs   *)
(* at a time is what QMPCollector models; the code is the same.  The label *)
(* of a drive comes from DiskMapping.                                      *)
(***************************************************************************)
EXTENDS DiskMapping

CONSTANTS
    MaxRetries,    \* --qga-retries
    MaxAttempts,   \* maxAttempts of GuestExecWait
    OpsBits,       \* width of the operation counters of Windows (32)
    WordBits,      \* width of uint64
    MaxOps,        \* bound: operations per boot
    MaxTicks,      \* bound: the queue length counter of a boot
    MaxBoots,      \* bound: reboots and replacements of the disk
    MaxNow,        \* bound: values of the guest's clock
    MaxFaults      \* bound: calls that fail though the peer could answer

ASSUME QGAAssumption ==
    /\ None \notin Volumes
    /\ {MaxRetries, MaxAttempts, OpsBits, WordBits} \subseteq Nat \ {0}
    /\ 2^OpsBits <= 2^WordBits
    /\ {MaxOps, MaxTicks, MaxBoots, MaxNow, MaxFaults} \subseteq Nat
    /\ MaxTicks < 2^WordBits
    /\ {2^OpsBits, 2^WordBits} \subseteq Nat \ {0}

(* What the guest's counters say at one moment: DiskCounters, with what    *)
(* was counted in which boot, and the volume, for reference.               *)
Sample == [ops : 0..(2^OpsBits - 1), qlen : 0..(2^WordBits - 1), ts : 0..MaxNow,
           total : 0..MaxOps, ticks : 0..MaxTicks, boot : 0..MaxBoots, volume : Volumes]

VMState == [retryCount : 0..MaxRetries, stopped : BOOLEAN, prevSnapshot : Sample \cup {None},
            diskMap : Aliases \cup {None}]

ASSUME NoneAssumption == None \notin VMState

Metrics == [ops : Nat, qlen : Nat, disk : Aliases \cup {None}]

VARIABLES
    (* the guest *)
    total,         \* operations completed in this boot
    ticks,         \* queue depth times 100 ns ticks, accumulated in this boot
    boot, now,
    agent,         \* "up", "down", or "disabled" for a blacklisted guest-exec
    drive,         \* the volume behind the drive
    running,       \* the PowerShell process runs
    output,        \* the counters it printed, once it has exited
    faults,
    (* the collector *)
    vm,            \* the vmState of the container, None when there is none
    pc, attempt,
    results,       \* what this poll found
    published,     \* c.results
    (* history *)
    failures,      \* failed scrapes since discovery or the last success,
                   \* up to one more than MaxRetries
    blacklisted,   \* a command was refused since discovery
    mappedDrive    \* the volume behind the drive when its vmState was made

guest   == <<total, ticks, boot, now, agent, drive>>
process == <<running, output>>
history == <<failures, blacklisted, mappedDrive>>
vars    == <<guest, process, faults, vm, pc, attempt, results, published, history>>

TypeOK ==
    /\ total \in 0..MaxOps
    /\ ticks \in 0..MaxTicks
    /\ boot \in 0..MaxBoots
    /\ now \in 0..MaxNow
    /\ agent \in {"up", "down", "disabled"}
    /\ drive \in Volumes
    /\ running \in BOOLEAN
    /\ output \in Sample \cup {None}
    /\ faults \in 0..MaxFaults
    /\ vm \in VMState \cup {None}
    /\ pc \in {"idle", "connect", "exec", "wait", "publish"}
    /\ pc \in {"exec", "wait"} => vm # None
    /\ attempt \in 0..(MaxAttempts - 1)
    /\ results \in Metrics \cup {None}
    /\ published \in Metrics \cup {None}
    /\ failures \in 0..(MaxRetries + 1)
    /\ blacklisted \in BOOLEAN
    /\ mappedDrive \in Volumes \cup {None}

Init ==
    /\ total = 0
    /\ ticks = 0
    /\ boot = 0
    /\ now = 0
    /\ agent \in {"up", "down", "disabled"}
    /\ drive \in Volumes
    /\ running = FALSE
    /\ output = None
    /\ faults = 0
    /\ vm = None
    /\ pc = "idle"
    /\ attempt = 0
    /\ results = None
    /\ published = None
    /\ failures = 0
    /\ blacklisted = FALSE
    /\ mappedDrive = None
-----------------------------------------------------------------------------
(* The guest. *)
collector == <<faults, vm, pc, attempt, results, published, history>>

(* An operation completes. *)
GuestIO ==
    /\ total < MaxOps
    /\ total' = total + 1
    /\ UNCHANGED <<ticks, boot, now, agent, drive, process, collector>>

(* Time passes with operations in flight.  They count in the queue length  *)
(* before they complete, and one may complete within a tick.               *)
QueueTicks ==
    /\ ticks < MaxTicks
    /\ ticks' = ticks + 1
    /\ UNCHANGED <<total, boot, now, agent, drive, process, collector>>

(* The counters start over, Windows may number its drives anew, and the    *)
(* agent is not up at once.                                                *)
Reboot(v) ==
    /\ boot < MaxBoots
    /\ boot' = boot + 1
    /\ total' = 0
    /\ ticks' = 0
    /\ drive' = v
    /\ agent' = "down"
    /\ running' = FALSE
    /\ output' = None
    /\ UNCHANGED <<now, collector>>

AgentChanges(a) ==
    /\ agent # a
    /\ agent' = a
    /\ UNCHANGED <<total, ticks, boot, now, drive, process, collector>>

(* Time passes, or the clock is set back. *)
ClockChanges(t) ==
    /\ now # t
    /\ now' = t
    /\ UNCHANGED <<total, ticks, boot, agent, drive, process, collector>>

(* The disk is unplugged, and one plugged that gets its number. *)
DriveChanges(v) ==
    /\ drive # v
    /\ boot < MaxBoots
    /\ boot' = boot + 1
    /\ total' = 0
    /\ ticks' = 0
    /\ drive' = v
    /\ UNCHANGED <<now, agent, process, collector>>

(* The process reads the counters and exits. *)
ProcessExits ==
    /\ running
    /\ running' = FALSE
    /\ output' = [ops |-> total % 2^OpsBits, qlen |-> ticks % 2^WordBits, ts |-> now,
                  total |-> total, ticks |-> ticks, boot |-> boot, volume |-> drive]
    /\ UNCHANGED <<guest, collector>>

FaultUnless(well) ==
    IF well THEN UNCHANGED faults ELSE faults < MaxFaults /\ faults' = faults + 1
-----------------------------------------------------------------------------
(* Mutant: signed subtraction. *)
MinusSigned(a, b) == a - b

(* uint64 subtraction. *)
Minus(a, b) == (a - b) % 2^WordBits

(* Mutant: the queue time is taken without looking at the operations. *)
MetricsIdle(prev, curr, disk) ==
    IF curr.ts <= prev.ts
      THEN None
      ELSE [ops |-> Minus(curr.ops, prev.ops), qlen |-> Minus(curr.qlen, prev.qlen), disk |-> disk]

(* ComputeMetrics and the labels scrapeVM adds: nothing when the clock did *)
(* not advance; without operations the latency stays zero.                 *)
ComputeMetrics(prev, curr, disk) ==
    LET ops == Minus(curr.ops, prev.ops)
    IN  IF curr.ts <= prev.ts
          THEN None
          ELSE [ops |-> ops, qlen |-> IF ops > 0 THEN Minus(curr.qlen, prev.qlen) ELSE 0,
                disk |-> disk]

(* poll: the pod is resolved.  When it is not, its state is closed and     *)
(* forgotten, and with it that the VM was excluded.                        *)
PollDiscover(found) ==
    /\ pc = "idle"
    /\ FaultUnless(found)
    /\ vm' = IF found THEN vm ELSE None
    /\ pc' = IF ~found \/ (vm # None /\ vm.stopped) THEN "publish"
             ELSE IF vm = None THEN "connect" ELSE "exec"
    /\ mappedDrive' = IF found THEN mappedDrive ELSE None
    /\ UNCHANGED <<guest, process, attempt, results, published, failures, blacklisted>>

(* connectVM.  The disk mapping needs the agent; without it there is none  *)
(* for as long as the state lives.                                         *)
ConnectVM(dialled, mapped) ==
    /\ pc = "connect"
    /\ mapped => dialled /\ agent # "down"
    /\ FaultUnless(dialled /\ (mapped \/ agent = "down"))
    /\ IF dialled
         THEN /\ vm' = [retryCount |-> 0, stopped |-> FALSE, prevSnapshot |-> None,
                        diskMap |-> IF mapped THEN BuildDiskMapping(drive) ELSE None]
              /\ failures' = 0
              /\ blacklisted' = FALSE
              /\ mappedDrive' = drive
              /\ pc' = "exec"
         ELSE pc' = "publish" /\ UNCHANGED <<vm, history>>
    /\ UNCHANGED <<guest, process, attempt, results, published>>

(* What a failed scrape leaves, for the retries counted and whether they   *)
(* are used up.                                                            *)
ScrapeError(retries, last) ==
    LET refused == agent = "disabled"
    IN  /\ vm' = IF refused
                   THEN [vm EXCEPT !.stopped = TRUE]
                   ELSE [vm EXCEPT !.retryCount = retries, !.stopped = @ \/ last]
        /\ blacklisted' = (blacklisted \/ refused)
        /\ failures' = IF failures > MaxRetries THEN failures ELSE failures + 1
        /\ pc' = "publish"
        /\ UNCHANGED <<results, mappedDrive>>

(* Mutants: one retry more is allowed; retries are not counted. *)
ErrorOneMore == ScrapeError(vm.retryCount + 1, vm.retryCount + 1 > MaxRetries)

ErrorUncounted == ScrapeError(vm.retryCount, vm.retryCount >= MaxRetries)

(* handleScrapeError: a refused command excludes the VM at once, any other *)
(* error when it makes MaxRetries in a row.                                *)
HandleScrapeError == ScrapeError(vm.retryCount + 1, vm.retryCount + 1 >= MaxRetries)

(* The rest of scrapeVM once the counters are there: the first snapshot    *)
(* gives no metrics, and every one becomes the previous one.               *)
ScrapeSucceeds ==
    /\ results' = IF vm.prevSnapshot = None THEN None
                  ELSE ComputeMetrics(vm.prevSnapshot, output, vm.diskMap)
    /\ vm' = [vm EXCEPT !.prevSnapshot = output, !.retryCount = 0]
    /\ failures' = 0
    /\ pc' = "publish"
    /\ UNCHANGED <<blacklisted, mappedDrive>>

(* GuestExec: the command is sent; its process runs once it is answered. *)
GuestExec(answered) ==
    /\ pc = "exec"
    /\ FaultUnless(answered <=> agent = "up")
    /\ IF answered
         THEN /\ agent = "up"
              /\ running' = TRUE
              /\ output' = None
              /\ pc' = "wait"
              /\ UNCHANGED <<vm, results, history>>
         ELSE HandleScrapeError /\ UNCHANGED process
    /\ UNCHANGED <<guest, attempt, published>>

(* GuestExecWait: one guest-exec-status.  A process that still runs is     *)
(* asked again, MaxAttempts times in all; one the agent does not know, or  *)
(* whose output cannot be used, is an error.  The agent forgets a process  *)
(* once it has said that it exited.                                        *)
GuestExecStatus(answered) ==
    /\ pc = "wait"
    /\ answered => agent = "up" /\ (running \/ output # None)
    /\ FaultUnless(answered <=> agent = "up" /\ (running \/ output # None))
    /\ \/ /\ answered /\ running /\ attempt < MaxAttempts - 1
          /\ attempt' = attempt + 1
          /\ UNCHANGED <<process, vm, pc, results, history>>
       \/ /\ ~answered \/ (running /\ attempt = MaxAttempts - 1)
          /\ HandleScrapeError
          /\ attempt' = 0
          /\ UNCHANGED process
       \/ /\ answered /\ output # None
          /\ ScrapeSucceeds
          /\ attempt' = 0
          /\ output' = None
          /\ UNCHANGED running
    /\ UNCHANGED <<guest, published>>

(* Mutant: an empty poll leaves the previous results. *)
PublishNonEmpty ==
    /\ pc = "publish"
    /\ published' = IF results = None THEN published ELSE results
    /\ results' = None
    /\ pc' = "idle"
    /\ UNCHANGED <<guest, process, faults, vm, attempt, history>>

(* poll after wg.Wait: what this poll found replaces what was there. *)
PollPublish ==
    /\ pc = "publish"
    /\ published' = results
    /\ results' = None
    /\ pc' = "idle"
    /\ UNCHANGED <<guest, process, faults, vm, attempt, history>>
-----------------------------------------------------------------------------
Guest ==
    \/ GuestIO
    \/ QueueTicks
    \/ \E a \in {"up", "down", "disabled"} : AgentChanges(a)
    \/ \E t \in 0..MaxNow : ClockChanges(t)
    \/ \E v \in Volumes : Reboot(v) \/ DriveChanges(v)
    \/ ProcessExits

Poll ==
    \/ \E found \in BOOLEAN : PollDiscover(found)
    \/ \E dialled, mapped \in BOOLEAN : ConnectVM(dialled, mapped)
    \/ \E answered \in BOOLEAN : GuestExec(answered) \/ GuestExecStatus(answered)
    \/ PollPublish

Next == Guest \/ Poll

Spec == Init /\ [][Next]_vars

(* The ticker fires and calls return. *)
FairSpec == Spec /\ WF_vars(Poll)
-----------------------------------------------------------------------------
(* A VM is excluded exactly when MaxRetries scrapes in a row failed or a   *)
(* command was refused: a success in between starts the count anew, and no *)
(* scrape of an excluded VM follows.                                       *)
ExcludedAfterRetries ==
    vm # None =>
        /\ vm.stopped <=> failures >= MaxRetries \/ blacklisted
        /\ failures <= MaxRetries

(* Between polls nothing is reported for a VM that is excluded or was not  *)
(* found: its last metrics do not linger.                                  *)
ExcludedNotReported ==
    pc = "idle" /\ (vm = None \/ vm.stopped) => published = None

(* Metrics are reported for the interval between two snapshots of the same *)
(* vmState, in order, and as long as the guest did not reboot and its      *)
(* operation counter did not wrap between them they are the operations of  *)
(* that interval and its queue time, whatever scrapes failed in between.   *)
(* Queue time without a completed operation is not reported.               *)
MetricsOfInterval ==
    [][results' # None /\ results = None =>
        LET prev == vm.prevSnapshot
            done == output.total - prev.total
        IN  /\ output.ts > prev.ts
            /\ output.boot = prev.boot /\ done < 2^OpsBits - prev.ops =>
                 /\ results'.ops = done
                 /\ results'.qlen = IF done > 0 THEN output.ticks - prev.ticks ELSE 0]_vars

(* Metrics carry the name of the volume they were measured on, or none, as *)
(* long as that volume was behind the drive when the mapping was made.     *)
(* With an AgentTruthful, who may leave locations and serial numbers out,  *)
(* a label is wrong only when the drive was numbered anew since.           *)
LabelUnlessRenumbered ==
    [][results' # None /\ results = None /\ output.volume = mappedDrive =>
        results'.disk \in {output.volume, None}]_vars

(* README: "VMs without a guest agent ... are automatically detected and   *)
(* excluded after a configurable number of retries".                       *)
AgentlessExcluded ==
    <>[](agent # "up") => <>[](vm # None => vm.stopped)

=============================================================================
