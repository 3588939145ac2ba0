--------------------------- MODULE ExporterProofs ---------------------------
(***************************************************************************)
(* For any number of probes, scrapes and failures: a subsystem is complete *)
(* or nothing of it is in the kernel, and what Collect replies agrees with *)
(* its gauge, though it reads one map after the other while RetryFailed    *)
(* loads programs.                                                         *)
(***************************************************************************)
EXTENDS Exporter, TLAPS

(* A step that names no prover is tried with Zenon, then with SMT. *)
USE ZenonT(20), SMTT(20)

Types ==
    /\ queue \in Seq(Subsystems)
    /\ loading \in Subsystems \cup {None}
    /\ next \in Nat
    /\ available \in SUBSET Subsystems
    /\ active \in SUBSET Subsystems
    /\ kernelObjs \in SUBSET Subsystems
    /\ scrape \in [Scrapers -> 0..4]
    /\ gauge \in [Scrapers -> SUBSET Subsystems]
    /\ exported \in [Scrapers -> SUBSET Subsystems]

(* What is still to be loaded is listed once and is not active. *)
Waiting(q) ==
    /\ \A i, j \in 1..Len(q) : q[i] = q[j] => i = j
    /\ \A i \in 1..Len(q) : q[i] \notin active

QueueInv ==
    /\ Waiting(queue)
    /\ retry \cap active = {}
    /\ retry \subseteq Subsystems

(* Loading goes on in LoadAndAttach and in RetryFailed under the lock, and *)
(* has attached the probes before the next, but for optional ones.         *)
LoadingInv ==
    /\ pc \notin {"start", "retry"} => queue = <<>> /\ loading = None
    /\ loading # None =>
         /\ queue # <<>>
         /\ loading = Head(queue)
         /\ next >= 1
         /\ ~closed => /\ loading \in kernelObjs
                       /\ \A i \in 1..(next - 1) : <<loading, i>> \in kernelLinks \cup Optional

(* While Collect holds the read lock nothing is loaded, and what it has    *)
(* read so far are the maps of the subsystems it said are active.          *)
ReadInv ==
    \A r \in Scrapers : scrape[r] # 0 =>
        /\ pc \notin {"start", "retry"}
        /\ ~closed => /\ gauge[r] = active
                      /\ \A i \in 1..3 : Order[i] \in exported[r] <=> i < scrape[r] /\ Order[i] \in active

Inv == Types /\ QueueInv /\ LoadingInv /\ AllOrNothing /\ ReadInv
-----------------------------------------------------------------------------
(* q lists subsystems in S, each at most once. *)
Lists(q, S) ==
    /\ q \in Seq(Subsystems)
    /\ \A i \in 1..Len(q) : q[i] \in S
    /\ \A i, j \in 1..Len(q) : q[i] = q[j] => i = j

(* One more subsystem of S at the end of a list of others. *)
LEMMA AppendLists ==
  ASSUME NEW S \in SUBSET Subsystems, NEW T \in SUBSET S, NEW q, Lists(q, T), NEW s \in Subsystems \ T
  PROVE  /\ s \in S => Lists(Append(q, s), T \cup {s})
         /\ s \notin S => Lists(q, T)
  BY SMT DEF Lists

(* InOrder lists each subsystem of S once. *)
LEMMA InOrderLists ==
  ASSUME NEW S \in SUBSET Subsystems
  PROVE  Lists(InOrder(S), S)
  <1> DEFINE Add(q, s) == IF s \in S THEN Append(q, s) ELSE q
             q1 == Add(<<>>, "block")
             q2 == Add(q1, "nfs")
             q3 == Add(q2, "nfs_kprobe")
  <1>1. Lists(q1, S \cap {"block"})
    <2>1. Lists(<<>>, {})
      BY SMT DEF Lists
    <2>2. CASE "block" \in S
      <3>1. Lists(Append(<<>>, "block"), {} \cup {"block"})
        BY <2>1, <2>2, AppendLists DEF Subsystems
      <3>2. {} \cup {"block"} = S \cap {"block"}
        BY <2>2
      <3> QED BY <2>2, <3>1, <3>2
    <2>3. CASE "block" \notin S
      <3>1. S \cap {"block"} = {}
        BY <2>3
      <3> QED BY <2>1, <2>3, <3>1
    <2>4. QED BY <2>2, <2>3
  <1>2. Lists(q2, S \cap {"block", "nfs"})
    <2>1. CASE "nfs" \in S
      <3> HIDE DEF q1
      <3>1. Lists(Append(q1, "nfs"), (S \cap {"block"}) \cup {"nfs"})
        BY <1>1, <2>1, AppendLists DEF Subsystems
      <3>2. (S \cap {"block"}) \cup {"nfs"} = S \cap {"block", "nfs"}
        BY <2>1
      <3> QED BY <2>1, <3>1, <3>2
    <2>2. CASE "nfs" \notin S
      <3>1. S \cap {"block"} = S \cap {"block", "nfs"}
        BY <2>2
      <3> QED BY <1>1, <2>2, <3>1
    <2>3. QED BY <2>1, <2>2
  <1>3. Lists(q3, S)
    <2>1. CASE "nfs_kprobe" \in S
      <3> HIDE DEF q2
      <3>1. Lists(Append(q2, "nfs_kprobe"), (S \cap {"block", "nfs"}) \cup {"nfs_kprobe"})
        BY <1>2, <2>1, AppendLists DEF Subsystems
      <3>2. (S \cap {"block", "nfs"}) \cup {"nfs_kprobe"} = S
        BY <2>1 DEF Subsystems
      <3> QED BY <2>1, <3>1, <3>2
    <2>2. CASE "nfs_kprobe" \notin S
      <3>1. S \cap {"block", "nfs"} = S
        BY <2>2 DEF Subsystems
      <3> QED BY <1>2, <2>2, <3>1
    <2>3. QED BY <2>1, <2>2
  <1>4. InOrder(S) = q3
    BY DEF InOrder, Order
  <1>5. QED BY <1>3, <1>4

(* Init: nothing is loaded, nothing is read. *)
LEMMA InvInit == Init => Inv
  <1> SUFFICES ASSUME Init PROVE Inv
    OBVIOUS
  <1>1. /\ enabled \in SUBSET Subsystems /\ available \in SUBSET Subsystems
        /\ queue = InOrder(enabled)
        /\ pc = "start" /\ loading = None /\ next = 0 /\ kernelObjs = {} /\ kernelLinks = {}
        /\ active = {} /\ retry = {}
        /\ scrape = [r \in Scrapers |-> 0] /\ gauge = [r \in Scrapers |-> {}]
        /\ exported = [r \in Scrapers |-> {}]
    BY DEF Init, LoaderInit
  <1>2. Types
    BY <1>1, InOrderLists, SMT DEF Types, Lists
  <1>3. QueueInv
    BY <1>1, InOrderLists DEF QueueInv, Waiting, Lists
  <1>4. LoadingInv /\ AllOrNothing /\ ReadInv
    BY <1>1 DEF LoadingInv, AllOrNothing, ReadInv, ProbesOf
  <1>5. QED BY <1>2, <1>3, <1>4 DEF Inv

(* The caller of a load function takes note and goes on to the next. *)
LEMMA ReturnsQueue ==
  ASSUME Types, QueueInv, queue # <<>>, NEW ok \in BOOLEAN, LoadReturns(Head(queue), ok)
  PROVE  /\ queue' \in Seq(Subsystems) /\ loading' = None /\ next' = 0
         /\ active' = IF ok THEN active \cup {Head(queue)} ELSE active
         /\ active' \in SUBSET Subsystems
         /\ QueueInv'
  <1> DEFINE s == Head(queue)
  <1>1. s = queue[1] /\ s \in Subsystems /\ s \notin active /\ 1 \in 1..Len(queue)
    BY SMT DEF Types, QueueInv, Waiting
  <1>2. /\ queue' \in Seq(Subsystems)
        /\ Len(queue') = Len(queue) - 1
        /\ \A i \in 1..Len(queue') : queue'[i] = queue[i + 1] /\ i + 1 \in 1..Len(queue)
    BY SMT DEF Types, LoadReturns
  <1>3. active' = IF ok THEN active \cup {s} ELSE active
    BY DEF LoadReturns
  <1>4. \A i \in 1..Len(queue') : queue'[i] \notin active \cup {s}
    <2> SUFFICES ASSUME NEW i \in 1..Len(queue') PROVE queue[i + 1] \notin active \cup {s}
      BY <1>2
    <2>1. queue[i + 1] \notin active
      BY <1>2 DEF QueueInv, Waiting
    <2>2. queue[i + 1] # queue[1]
      <3>1. i + 1 # 1 /\ i + 1 \in 1..Len(queue)
        BY <1>2, SMT
      <3> QED BY <1>1, <3>1 DEF QueueInv, Waiting
    <2> QED BY <1>1, <2>1, <2>2
  <1>5. \A i, j \in 1..Len(queue') : queue'[i] = queue'[j] => i = j
    <2> SUFFICES ASSUME NEW i \in 1..Len(queue'), NEW j \in 1..Len(queue'), queue[i + 1] = queue[j + 1]
                 PROVE  i = j
      BY <1>2
    <2>1. i + 1 = j + 1
      BY <1>2 DEF QueueInv, Waiting
    <2> QED BY <2>1, SMT
  <1>6. retry' \cap active' = {} /\ retry' \subseteq Subsystems
    BY <1>1, <1>3 DEF LoadReturns, QueueInv
  <1>7. Waiting(queue)'
    BY <1>3, <1>4, <1>5 DEF Waiting
  <1>8. QED BY <1>1, <1>2, <1>3, <1>6, <1>7 DEF LoadReturns, QueueInv, Types

(* What LoadAndAttach and RetryFailed do leaves Collect alone: it is not   *)
(* under way.                                                              *)
LEMMA NoReader ==
  ASSUME Types, ReadInv, pc \in {"start", "retry"}, UNCHANGED scrape
  PROVE  ReadInv'
  BY DEF Types, ReadInv

LEMMA LoadObjectsInv ==
  ASSUME Inv, LoadObjects
  PROVE  Inv'
  <1> DEFINE s == Head(queue)
  <1> USE DEF Inv
  <1>1. s = queue[1] /\ s \in Subsystems /\ s \notin active
    BY SMT DEF LoadObjects, Types, QueueInv, Waiting
  <1>2. ReadInv'
    BY NoReader DEF LoadObjects, collect
  <1>3. CASE loading' = s
    <2>1. /\ kernelObjs' = kernelObjs \cup {s} /\ objs \subseteq objs'
          /\ next' = 1 /\ UNCHANGED <<available, active, retry, queue, kernelLinks, links, closed, pc, scrape, gauge, exported>>
      BY <1>1, <1>3, LoaderAssumption DEF LoadObjects, LoadReturns, flags, env, collect
    <2>2. Types' /\ QueueInv'
      BY <1>1, <1>3, <2>1 DEF Types, QueueInv, Waiting
    <2>3. LoadingInv'
      BY <1>1, <1>3, <2>1, SMT DEF LoadObjects, LoadingInv
    <2>4. AllOrNothing'
      <3>1. loading = None /\ None \notin Subsystems
        BY LoaderAssumption DEF LoadObjects
      <3>2. \A x : {p \in kernelLinks' : p[1] = x} = ProbesOf(x)
        BY <2>1 DEF ProbesOf
      <3>3. ASSUME ~closed, NEW x \in Subsystems \ {s}
            PROVE  IF x \in active'
                     THEN /\ x \in kernelObjs' \cap objs'
                          /\ ProbesOf(x) \subseteq links'
                          /\ \A i \in 1..Probes[x] : <<x, i>> \in kernelLinks' \cup Optional
                     ELSE x \notin kernelObjs' /\ ProbesOf(x) = {}
        <4> HIDE DEF s
        <4>1. x \in Subsystems \ {loading}
          BY <3>1
        <4> QED BY <2>1, <3>3, <4>1 DEF AllOrNothing
      <3> HIDE DEF s
      <3> QED BY <1>3, <2>1, <3>2, <3>3 DEF AllOrNothing, ProbesOf
    <2>5. QED BY <1>2, <2>2, <2>3, <2>4
  <1>4. CASE loading' # s
    <2>1. /\ LoadReturns(s, FALSE) /\ loading = None /\ queue # <<>> /\ pc \in {"start", "retry"}
          /\ UNCHANGED <<available, kernelObjs, objs, kernelLinks, links, closed, pc, scrape, gauge, exported>>
      BY <1>4 DEF LoadObjects, env, collect
    <2>2. /\ queue' \in Seq(Subsystems) /\ loading' = None /\ next' = 0
          /\ active' = active /\ QueueInv'
      <3>1. FALSE \in BOOLEAN
        OBVIOUS
      <3> QED BY <2>1, <3>1, ReturnsQueue
    <2> Types'
      BY <2>1, <2>2 DEF Types
    <2>3. LoadingInv'
      BY <2>1, <2>2 DEF LoadingInv
    <2>4. AllOrNothing'
      BY <2>1, <2>2 DEF AllOrNothing, ProbesOf
    <2>5. QED BY <1>2, <2>2, <2>3, <2>4
  <1>5. QED BY <1>3, <1>4

(* A probe is attached, or skipped if it is optional. *)
LEMMA AttachInv ==
  ASSUME Inv, AttachProbe \/ AttachSkips
  PROVE  Inv'
  <1> USE DEF Inv
  <1>1. loading \in Subsystems /\ loading # None /\ pc \in {"start", "retry"} /\ next \in Nat \ {0}
    <2>1. CASE AttachProbe
      BY <2>1, LoaderAssumption, SMT DEF AttachProbe, Types, LoadingInv
    <2>2. CASE AttachSkips
      <3>1. loading = "nfs_kprobe"
        BY <2>2, LoaderAssumption DEF AttachSkips
      <3> QED BY <3>1, LoaderAssumption, SMT DEF Subsystems, Types, LoadingInv
    <2>3. QED BY <2>1, <2>2
  <1>2. /\ next' = next + 1
        /\ UNCHANGED <<available, active, retry, queue, loading, kernelObjs, objs, closed, pc, scrape, gauge, exported>>
    BY DEF AttachProbe, AttachSkips, env, flags, kernel, programs, collect
  <1>3. /\ kernelLinks \subseteq kernelLinks' /\ links \subseteq links'
        /\ kernelLinks' \subseteq kernelLinks \cup {<<loading, next>>}
        /\ <<loading, next>> \in kernelLinks' \cup Optional
    BY DEF AttachProbe, AttachSkips, kernel, programs
  <1>4. Types' /\ QueueInv'
    BY <1>1, <1>2, SMT DEF Types, QueueInv, Waiting
  <1>5. LoadingInv'
    <2>1. \A i \in 1..(next' - 1) : i = next \/ i \in 1..(next - 1)
      BY <1>1, <1>2, SMT
    <2> QED BY <1>1, <1>2, <1>3, <2>1, SMT DEF LoadingInv
  <1>6. AllOrNothing'
    <2>1. \A s \in Subsystems \ {loading} : ProbesOf(s)' = ProbesOf(s)
      BY <1>3, SMT DEF ProbesOf
    <2> QED BY <1>2, <1>3, <2>1 DEF AllOrNothing
  <1>7. ReadInv'
    BY <1>1, <1>2, NoReader
  <1>8. QED BY <1>4, <1>5, <1>6, <1>7

(* A probe cannot be attached: nothing of the subsystem is left. *)
LEMMA AttachFailsInv ==
  ASSUME Inv, AttachFails
  PROVE  Inv'
  <1> USE DEF Inv
  <1>1. /\ loading \in Subsystems /\ loading # None /\ pc \in {"start", "retry"}
        /\ queue # <<>> /\ loading = Head(queue)
    BY DEF AttachFails, Types, LoadingInv
  <1>2. loading \notin active
    BY <1>1, SMT DEF Types, QueueInv, Waiting
  <1>3. /\ LoadReturns(Head(queue), FALSE)
        /\ kernelObjs' = kernelObjs \ {loading} /\ kernelLinks' = kernelLinks \ ProbesOf(loading)
        /\ UNCHANGED <<available, objs, links, closed, pc, scrape, gauge, exported>>
    BY <1>1 DEF AttachFails, env, programs, collect
  <1>4. /\ queue' \in Seq(Subsystems) /\ loading' = None /\ next' = 0
        /\ active' = active /\ QueueInv'
    <2>1. FALSE \in BOOLEAN
      OBVIOUS
    <2> QED BY <1>1, <1>3, <2>1, ReturnsQueue
  <1>5. Types'
    BY <1>3, <1>4 DEF Types
  <1>6. LoadingInv'
    BY <1>1, <1>3, <1>4 DEF LoadingInv
  <1>7. AllOrNothing'
    <2>1. \A s \in Subsystems \ {loading} : ProbesOf(s)' = ProbesOf(s)
      BY <1>3 DEF ProbesOf
    <2>2. ProbesOf(loading)' = {} \/ loading' # loading
      BY <1>3, <1>4, <1>1
    <2>3. {p \in kernelLinks' : p[1] = loading} = {}
      BY <1>3 DEF ProbesOf
    <2>4. ASSUME ~closed, NEW s \in Subsystems, s = loading
          PROVE  s \notin active' /\ s \notin kernelObjs' /\ ProbesOf(s)' = {}
      BY <1>2, <1>3, <1>4, <2>3, <2>4 DEF ProbesOf
    <2>5. ASSUME ~closed, NEW s \in Subsystems \ {loading}
          PROVE  IF s \in active'
                   THEN /\ s \in kernelObjs' \cap objs'
                        /\ ProbesOf(s)' \subseteq links'
                        /\ \A i \in 1..Probes[s] : <<s, i>> \in kernelLinks' \cup Optional
                   ELSE s \notin kernelObjs' /\ ProbesOf(s)' = {}
      BY <1>3, <1>4, <2>1, <2>5 DEF AllOrNothing, ProbesOf
    <2> QED BY <1>3, <2>4, <2>5 DEF AllOrNothing
  <1>8. ReadInv'
    BY <1>1, <1>3, NoReader
  <1>9. QED BY <1>4, <1>5, <1>6, <1>7, <1>8

(* All probes are attached: the subsystem is complete and active. *)
LEMMA LoadInstallsInv ==
  ASSUME Inv, LoadInstalls
  PROVE  Inv'
  <1> USE DEF Inv
  <1>1. /\ loading \in Subsystems /\ loading # None /\ pc \in {"start", "retry"}
        /\ queue # <<>> /\ loading = Head(queue)
    BY DEF LoadInstalls, Types, LoadingInv
  <1>2. /\ LoadReturns(Head(queue), TRUE)
        /\ objs' = objs \cup {loading} /\ links' = links \cup ProbesOf(loading)
        /\ UNCHANGED <<available, kernelObjs, kernelLinks, closed, pc, scrape, gauge, exported>>
    BY <1>1 DEF LoadInstalls, env, kernel, collect
  <1>3. /\ queue' \in Seq(Subsystems) /\ loading' = None /\ next' = 0
        /\ active' = active \cup {loading} /\ active' \in SUBSET Subsystems /\ QueueInv'
    <2>1. TRUE \in BOOLEAN
      OBVIOUS
    <2> QED BY <1>1, <1>2, <2>1, ReturnsQueue
  <1>4. Types'
    BY <1>2, <1>3 DEF Types
  <1>5. LoadingInv'
    BY <1>1, <1>2, <1>3 DEF LoadingInv
  <1>6. AllOrNothing'
    <2>1. ASSUME ~closed
          PROVE  /\ loading \in kernelObjs' \cap objs'
                 /\ ProbesOf(loading) \subseteq links'
                 /\ \A i \in 1..Probes[loading] : <<loading, i>> \in kernelLinks' \cup Optional
      <3>1. \A i \in 1..Probes[loading] : i \in 1..(next - 1)
        BY <1>1, LoaderAssumption, SMT DEF LoadInstalls, Types
      <3> QED BY <1>1, <1>2, <2>1, <3>1 DEF LoadingInv
    <2>2. \A s : {p \in kernelLinks' : p[1] = s} = ProbesOf(s)
      BY <1>2 DEF ProbesOf
    <2>3. ASSUME ~closed, NEW s \in Subsystems
          PROVE  IF s \in active'
                   THEN /\ s \in kernelObjs' \cap objs'
                        /\ ProbesOf(s) \subseteq links'
                        /\ \A i \in 1..Probes[s] : <<s, i>> \in kernelLinks' \cup Optional
                   ELSE s \notin kernelObjs' /\ ProbesOf(s) = {}
      <3>1. CASE s = loading
        BY <1>3, <2>1, <2>3, <3>1
      <3>2. CASE s # loading
        BY <1>2, <1>3, <2>3, <3>2 DEF AllOrNothing
      <3> QED BY <3>1, <3>2
    <2>4. QED BY <1>2, <2>2, <2>3 DEF AllOrNothing, ProbesOf
  <1>7. ReadInv'
    BY <1>1, <1>2, NoReader
  <1>8. QED BY <1>3, <1>4, <1>5, <1>6, <1>7

(* LoadAndAttach returns; RetryFailed goes on, takes the lock when no      *)
(* Collect holds it, gives it back, or ends.                               *)
LEMMA RetryInv ==
  ASSUME Inv, StartDone \/ RetryStep
  PROVE  Inv'
  <1> USE DEF Inv
  <1>1. /\ UNCHANGED <<available, kernelObjs, kernelLinks, objs, links, active, retry, closed, loading, next,
                       scrape, gauge, exported>>
        /\ loading = None
    BY DEF StartDone, RetryStep, RetryTick, RetryLocks, RetryEnds, RetryStops, env, kernel, programs, flags,
           loader, collect, LoadingInv
  <1>2. AllOrNothing'
    BY <1>1 DEF AllOrNothing, ProbesOf
  <1>3. CASE RetryLocks
    <2>1. Lists(queue', retry) /\ Readers = {}
      BY <1>3, InOrderLists DEF RetryLocks, QueueInv
    <2>2. Types' /\ QueueInv'
      BY <1>1, <2>1 DEF Types, QueueInv, Waiting, Lists
    <2>3. LoadingInv' /\ ReadInv'
      BY <1>1, <1>3, <2>1 DEF RetryLocks, LoadingInv, ReadInv, Readers
    <2>4. QED BY <1>2, <2>2, <2>3
  <1>4. CASE ~RetryLocks
    <2>1. /\ UNCHANGED queue /\ queue = <<>>
          /\ pc' \notin {"start", "retry"}
      BY <1>4 DEF StartDone, RetryStep, RetryTick, RetryEnds, RetryStops, loader, LoadingInv
    <2>2. Types' /\ QueueInv'
      BY <1>1, <2>1, SMT DEF Types, QueueInv, Waiting
    <2>3. LoadingInv' /\ ReadInv'
      BY <1>1, <2>1 DEF LoadingInv, ReadInv
    <2>4. QED BY <1>2, <2>2, <2>3
  <1>5. QED BY <1>3, <1>4

(* Close and the end of the process. *)
LEMMA CloseInv ==
  ASSUME Inv, Close
  PROVE  Inv'
  <1> USE DEF Inv
  <1>1. /\ closed' = TRUE /\ kernelObjs' \subseteq kernelObjs
        /\ UNCHANGED <<available, active, retry, queue, loading, next, pc, scrape, gauge, exported>>
    BY DEF Close, env, flags, loader, collect
  <1>2. Types' /\ QueueInv'
    BY <1>1 DEF Types, QueueInv, Waiting
  <1>3. LoadingInv' /\ AllOrNothing' /\ ReadInv'
    BY <1>1 DEF LoadingInv, AllOrNothing, ReadInv
  <1>4. QED BY <1>2, <1>3

LEMMA ExitInv ==
  ASSUME Inv, NEW code, Exit(code)
  PROVE  Inv'
  <1> USE DEF Inv
  <1>1. /\ closed' = TRUE /\ kernelObjs' = {} /\ active' = {} /\ retry' = {} /\ pc' = "done"
        /\ queue' = <<>> /\ loading' = None /\ next' = 0 /\ available' = available
        /\ scrape' = [r \in Scrapers |-> 0]
        /\ gauge' = [r \in Scrapers |-> {}] /\ exported' = [r \in Scrapers |-> {}]
    BY DEF Exit, env
  <1>2. Types' /\ QueueInv'
    BY <1>1, SMT DEF Types, QueueInv, Waiting
  <1>3. LoadingInv' /\ AllOrNothing' /\ ReadInv'
    BY <1>1 DEF LoadingInv, AllOrNothing, ReadInv
  <1>4. QED BY <1>2, <1>3

(* A step of Collect changes what that Collect has read and nothing else. *)
LEMMA CollectInv ==
  ASSUME Inv, NEW r \in Scrapers, CollectGauge(r) \/ CollectMap(r) \/ CollectDone(r)
  PROVE  Inv'
  <1> USE DEF Inv
  <1>1. /\ UNCHANGED <<available, kernelObjs, kernelLinks, objs, links, active, retry, closed, pc, queue,
                       loading, next>>
    BY DEF CollectGauge, CollectMap, CollectDone, env, kernel, programs, flags, loader
  <1>2. QueueInv' /\ LoadingInv' /\ AllOrNothing'
    BY <1>1, SMT DEF QueueInv, Waiting, LoadingInv, AllOrNothing, ProbesOf
  <1>3. \A i \in 1..3 : Order[i] \in Subsystems
    BY SMT DEF Order, Subsystems
  <1>4. \A q \in Scrapers \ {r} : scrape'[q] = scrape[q] /\ gauge'[q] = gauge[q] /\ exported'[q] = exported[q]
    BY DEF CollectGauge, CollectMap, CollectDone, Types
  <1>5. CASE CollectGauge(r)
    <2>1. /\ scrape' = [scrape EXCEPT ![r] = 1] /\ gauge' = [gauge EXCEPT ![r] = active]
          /\ exported' = [exported EXCEPT ![r] = {}] /\ pc \notin {"start", "retry"}
      BY <1>5 DEF CollectGauge, Registered
    <2>2. Types'
      BY <1>1, <2>1, SMT DEF Types
    <2>3. scrape'[r] = 1 /\ gauge'[r] = active /\ exported'[r] = {}
      BY <2>1 DEF Types
    <2>4. ReadInv'
      BY <1>1, <1>4, <2>1, <2>3, SMT DEF ReadInv
    <2>5. QED BY <1>2, <2>2, <2>4
  <1>6. CASE CollectMap(r)
    <2> DEFINE k == scrape[r]
               read == {Order[k]} \cap objs \cap kernelObjs
    <2>1. /\ k \in 1..3 /\ scrape' = [scrape EXCEPT ![r] = k + 1] /\ gauge' = gauge
          /\ exported' = [exported EXCEPT ![r] = exported[r] \cup read]
      BY <1>6 DEF CollectMap, Types
    <2>2. Types'
      BY <1>1, <1>3, <2>1, SMT DEF Types
    <2>3. scrape'[r] = k + 1 /\ gauge'[r] = gauge[r] /\ exported'[r] = exported[r] \cup read
      BY <2>1 DEF Types
    <2>4. pc \notin {"start", "retry"} /\ loading = None
      BY <2>1, SMT DEF ReadInv, LoadingInv
    <2>5. ~closed => read = {Order[k]} \cap active
      BY <1>3, <2>1, <2>4, LoaderAssumption DEF AllOrNothing
    <2>6. ASSUME ~closed, NEW i \in 1..3
          PROVE  Order[i] \in exported'[r] <=> i < k + 1 /\ Order[i] \in active
      <3>1. Order[i] \in exported[r] <=> i < k /\ Order[i] \in active
        BY <2>1, <2>6, SMT DEF ReadInv
      <3>2. Order[i] = Order[k] <=> i = k
        BY <2>1, SMT DEF Order
      <3>3. Order[i] \in read <=> i = k /\ Order[i] \in active
        BY <2>5, <2>6, <3>2
      <3>4. i < k + 1 <=> i < k \/ i = k
        BY <2>1, SMT
      <3> HIDE DEF read, k
      <3> QED BY <2>3, <3>1, <3>3, <3>4
    <2>7. ~closed => gauge[r] = active
      BY <2>1, SMT DEF ReadInv
    <2>8. ReadInv'
      <3> HIDE DEF read, k
      <3>1. ASSUME NEW q \in Scrapers \ {r}, scrape'[q] # 0
            PROVE  /\ pc' \notin {"start", "retry"}
                   /\ ~closed' => /\ gauge'[q] = active'
                                  /\ \A i \in 1..3 : Order[i] \in exported'[q] <=> i < scrape'[q] /\ Order[i] \in active'
        BY <1>1, <1>4, <3>1 DEF ReadInv
      <3>2. /\ pc' \notin {"start", "retry"}
            /\ ~closed' => /\ gauge'[r] = active'
                           /\ \A i \in 1..3 : Order[i] \in exported'[r] <=> i < scrape'[r] /\ Order[i] \in active'
        BY <1>1, <2>3, <2>4, <2>6, <2>7
      <3> QED BY <3>1, <3>2 DEF ReadInv
    <2>9. QED BY <1>2, <2>2, <2>8
  <1>7. CASE CollectDone(r)
    <2>1. Types' /\ scrape'[r] = 0
      BY <1>1, <1>7, SMT DEF CollectDone, Types
    <2>2. ReadInv'
      BY <1>1, <1>4, <2>1 DEF ReadInv
    <2>3. QED BY <1>2, <2>1, <2>2
  <1>8. QED BY <1>5, <1>6, <1>7

(* A kernel module comes or goes, a signal comes, or main does something   *)
(* that is not about eBPF.                                                 *)
LEMMA OthersInv ==
  ASSUME Inv, (\E s \in Subsystems : ModuleChanges(s)) \/ Cancel \/ UNCHANGED loaderVars
  PROVE  Inv'
  <1> USE DEF Inv
  <1>1. /\ available' \in SUBSET Subsystems
        /\ UNCHANGED <<kernelObjs, kernelLinks, objs, links, active, retry, closed, pc, queue,
                       loading, next, scrape, gauge, exported>>
    BY DEF ModuleChanges, Cancel, loaderVars, env, kernel, programs, flags, loader, collect, Types
  <1>2. Types' /\ QueueInv' /\ LoadingInv'
    BY <1>1, SMT DEF Types, QueueInv, Waiting, LoadingInv
  <1>3. AllOrNothing' /\ ReadInv'
    BY <1>1 DEF AllOrNothing, ProbesOf, ReadInv
  <1>4. QED BY <1>2, <1>3

(* Each step of the process preserves Inv. *)
LEMMA InvStep == Inv /\ [Next]_vars => Inv'
  <1> SUFFICES ASSUME Inv, [Next]_vars PROVE Inv'
    OBVIOUS
  <1>1. CASE Load
    BY <1>1, LoadObjectsInv, AttachInv, AttachFailsInv, LoadInstallsInv DEF Load
  <1>2. CASE MainStep
    <2>1. CASE startInformers
      BY <2>1, ExitInv, OthersInv DEF startInformers, loaderVars
    <2>2. CASE \E s \in {"qmp", "qga"} : startPoller(s)
      BY <2>2, ExitInv, OthersInv DEF startPoller, loaderVars
    <2>3. CASE LoadAndAttach
      BY <1>1, <2>3 DEF LoadAndAttach
    <2>4. CASE startEBPF
      BY <2>4, RetryInv DEF startEBPF
    <2>5. CASE Listen
      BY <2>5, ExitInv, OthersInv DEF Listen, loaderVars
    <2>6. CASE ServerClosed
      BY <2>6, ExitInv DEF ServerClosed
    <2>7. QED BY <1>2, <2>1, <2>2, <2>3, <2>4, <2>5, <2>6 DEF MainStep
  <1>3. CASE Retry
    BY <1>1, <1>3, RetryInv DEF Retry
  <1>4. CASE \E r \in Scrapers : Scrape(r)
    BY <1>4, CollectInv DEF Scrape
  <1>5. CASE Up /\ Close
    BY <1>5, CloseInv
  <1>6. CASE (Up /\ \E s \in Subsystems : ModuleChanges(s)) \/ (Up /\ Cancel)
    BY <1>6, OthersInv
  <1>7. CASE Shutdown \/ UNCHANGED vars
    BY <1>7, OthersInv DEF Shutdown, vars, loaderVars
  <1>8. QED BY <1>2, <1>3, <1>4, <1>5, <1>6, <1>7 DEF Next

(* The invariant that ties the loader, the retries and the readers of the  *)
(* maps together.                                                          *)
THEOREM Invariance == Spec => []Inv
  BY InvInit, InvStep, PTL DEF Spec

(* LoadAndAttach, RetryFailed: whichever probe of whichever subsystem      *)
(* fails to attach, however often, the subsystem is complete or nothing of *)
(* it is left in the kernel.                                               *)
THEOREM LoadIsAllOrNothing == Spec => []AllOrNothing
  <1>1. Inv => AllOrNothing
    BY DEF Inv
  <1>2. QED BY <1>1, Invariance, PTL

(* Collect: a reply has histograms of just the subsystems it reports as    *)
(* active, for any number of requests and whatever RetryFailed loads.      *)
THEOREM ReplyIsConsistent == Spec => []ReplyConsistent
  <1>1. Inv => ReplyConsistent
    <2> SUFFICES ASSUME Inv, NEW r \in Scrapers, scrape[r] = 4, ~closed
                 PROVE  gauge[r] = exported[r]
      BY DEF ReplyConsistent
    <2>1. /\ gauge[r] = active
          /\ \A i \in 1..3 : Order[i] \in exported[r] <=> i < 4 /\ Order[i] \in active
      BY SMT DEF Inv, ReadInv
    <2>2. \A s \in Subsystems : \E i \in 1..3 : s = Order[i]
      BY SMT DEF Subsystems, Order
    <2>3. exported[r] \subseteq Subsystems /\ active \subseteq Subsystems
      BY DEF Inv, Types
    <2>4. \A s \in Subsystems : s \in exported[r] <=> s \in active
      BY <2>1, <2>2, SMT
    <2>5. QED BY <2>1, <2>3, <2>4
  <1>2. QED BY <1>1, Invariance, PTL
-----------------------------------------------------------------------------
(* The rest of TypeOK, which Inv does not need. *)
Starters == {"informers", "qmp", "qga", "ebpf"}

LoaderMore ==
    /\ enabled \in SUBSET Subsystems /\ objs \in SUBSET Subsystems
    /\ kernelLinks \in SUBSET AllProbes /\ links \in SUBSET AllProbes
    /\ retry \in SUBSET {"nfs", "nfs_kprobe"}
    /\ cancelled \in BOOLEAN /\ closed \in BOOLEAN
    /\ faults \in 0..MaxFaults
    /\ pc \in {"start", "failed", "idle", "lock", "retry", "done"}
    /\ loading # None => next \in 1..(Probes[loading] + 1)

MainMore ==
    /\ steps \in Seq(Starters) /\ Len(steps) <= 4
    /\ main \in {"starting", "serving", "exited"}
    /\ shutdown \in BOOLEAN
    /\ status \in {None, 0, 1}
    /\ (status = None) <=> (main # "exited")
    /\ refused \in SUBSET {"api", "qmp", "qga", "port"}

(* A list of subsystems without repetition has at most three. *)
LEMMA ListLength ==
  ASSUME NEW q \in Seq(Subsystems), \A i, j \in 1..Len(q) : q[i] = q[j] => i = j
  PROVE  Len(q) <= 3
  <1> SUFFICES ASSUME Len(q) > 3 PROVE FALSE
    BY SMT
  <1>1. 1 \in 1..Len(q) /\ 2 \in 1..Len(q) /\ 3 \in 1..Len(q) /\ 4 \in 1..Len(q) BY SMT
  <1>2. {q[1], q[2], q[3], q[4]} \subseteq {"block", "nfs", "nfs_kprobe"} BY <1>1, SMT DEF Subsystems
  <1>3. q[1] # q[2] /\ q[1] # q[3] /\ q[1] # q[4] /\ q[2] # q[3] /\ q[2] # q[4] /\ q[3] # q[4]
    BY <1>1, SMT
  <1> QED BY <1>2, <1>3

LEMMA TypesFollow == Inv /\ LoaderMore /\ MainMore => TypeOK
  <1> SUFFICES ASSUME Inv, LoaderMore, MainMore PROVE TypeOK
    OBVIOUS
  <1>1. Len(queue) <= 3 /\ \A i \in 1..Len(queue) : queue[i] \in Subsystems
    BY ListLength, SMT DEF Inv, Types, QueueInv, Waiting
  <1>2. \A i \in 1..Len(steps) : steps[i] \in Starters BY SMT DEF MainMore
  <1>3. LoaderTypeOK BY <1>1 DEF Inv, Types, LoaderMore, LoaderTypeOK
  <1> QED BY <1>2, <1>3 DEF TypeOK, MainMore, Starters

LEMMA MoreInit == Init => LoaderMore /\ MainMore
  <1> SUFFICES ASSUME Init PROVE LoaderMore /\ MainMore
    OBVIOUS
  <1>1. LoaderMore
    <2>1. faults \in 0..MaxFaults BY LoaderAssumption, SMT DEF Init, LoaderInit
    <2> QED BY <2>1 DEF Init, LoaderInit, LoaderMore
  <1>2. steps \in Seq(Starters) /\ Len(steps) <= 4
    <2>1. PICK features \in SUBSET {"qmp", "qga", "ebpf"} : steps = StartOrder(features) BY DEF Init
    <2> DEFINE Add(q, s) == IF s \in features THEN Append(q, s) ELSE q
               q1 == Add(<<"informers">>, "qmp")
               q2 == Add(q1, "qga")
    <2>2. <<"informers">> \in Seq(Starters) /\ Len(<<"informers">>) = 1 BY SMT DEF Starters
    <2>3. ASSUME NEW q \in Seq(Starters), NEW n \in Nat, Len(q) <= n, NEW s \in Starters
          PROVE  Add(q, s) \in Seq(Starters) /\ Len(Add(q, s)) <= n + 1
      BY <2>3, SMT
    <2>4. "qmp" \in Starters /\ "qga" \in Starters /\ "ebpf" \in Starters BY DEF Starters
    <2>5. steps = Add(q2, "ebpf") BY <2>1 DEF StartOrder
    <2> HIDE DEF Add
    <2>6. q1 \in Seq(Starters) /\ Len(q1) <= 2
      <3> DEFINE q0 == <<"informers">>
      <3>1. q0 \in Seq(Starters) /\ Len(q0) <= 1 BY <2>2, SMT
      <3>2. q1 = Add(q0, "qmp") OBVIOUS
      <3> HIDE DEF q0, q1
      <3> QED BY <2>3, <2>4, <3>1, <3>2, SMT
    <2> HIDE DEF q1
    <2>7. q2 \in Seq(Starters) /\ Len(q2) <= 3 BY <2>3, <2>4, <2>6, SMT
    <2> HIDE DEF q2
    <2> QED BY <2>3, <2>4, <2>5, <2>7, SMT
  <1>3. MainMore BY <1>2 DEF Init, MainMore
  <1> QED BY <1>1, <1>3

(* A step that leaves main's part alone. *)
LEMMA MainSame ==
  ASSUME MainMore, UNCHANGED mainVars
  PROVE  MainMore'
  BY DEF MainMore, mainVars

LEMMA LoaderSame ==
  ASSUME LoaderMore, UNCHANGED loaderVars
  PROVE  LoaderMore'
  BY DEF LoaderMore, loaderVars, env, kernel, programs, flags, loader

(* main has one thing less to start. *)
LEMMA StepsTail ==
  ASSUME MainMore, steps # <<>>, steps' = Tail(steps), UNCHANGED <<main, shutdown, status, refused>>
  PROVE  MainMore'
  <1>1. Tail(steps) \in Seq(Starters) /\ Len(Tail(steps)) <= 4 BY SMT DEF MainMore
  <1> QED BY <1>1 DEF MainMore

LEMMA ExitMore ==
  ASSUME LoaderMore, MainMore, NEW code \in {0, 1}, Exit(code),
         NEW what \in {"api", "qmp", "qga", "port"}, Refused(what) \/ UNCHANGED refused
  PROVE  LoaderMore' /\ MainMore'
  <1>1. LoaderMore' BY DEF Exit, LoaderMore, env
  <1>2. refused' \in SUBSET {"api", "qmp", "qga", "port"} BY DEF Refused, MainMore
  <1>3. MainMore' BY <1>2, StatusAssumption DEF Exit, MainMore
  <1> QED BY <1>1, <1>3

(* What a load returns is noted. *)
LEMMA ReturnsMore ==
  ASSUME LoaderMore, NEW s \in Subsystems, NEW ok \in BOOLEAN, LoadReturns(s, ok)
  PROVE  retry' \in SUBSET {"nfs", "nfs_kprobe"} /\ loading' = None
  BY DEF LoadReturns, LoaderMore, Subsystems

LEMMA FaultMore ==
  ASSUME LoaderMore, NEW well \in BOOLEAN, FaultUnless(well)
  PROVE  faults' \in 0..MaxFaults
  BY LoaderAssumption, SMT DEF LoaderMore, FaultUnless

LEMMA LoadMore ==
  ASSUME Inv, LoaderMore, Load
  PROVE  LoaderMore'
  <1>1. CASE LoadObjects
    <2> DEFINE s == Head(queue)
    <2>1. s \in Subsystems BY <1>1, SMT DEF LoadObjects, Inv, Types
    <2>2. objs \cup ({s} \cap {"block"}) \in SUBSET Subsystems BY DEF LoaderMore, Subsystems
    <2>3. CASE /\ objs' = objs \cup ({s} \cap {"block"})
               /\ loading' = s /\ next' = 1
               /\ UNCHANGED <<faults, flags, queue>>
      <3>1. 1 \in 1..(Probes[s] + 1) BY <2>1, LoaderAssumption, SMT
      <3> HIDE DEF s
      <3> QED BY <1>1, <2>2, <2>3, <3>1 DEF LoadObjects, LoaderMore, flags, env
    <2>4. CASE FaultUnless(s \notin available) /\ LoadReturns(s, FALSE) /\ UNCHANGED objs
      <3>1. (s \notin available) \in BOOLEAN OBVIOUS
      <3>2. faults' \in 0..MaxFaults BY <2>4, <3>1, FaultMore
      <3>3. retry' \in SUBSET {"nfs", "nfs_kprobe"} /\ loading' = None BY <2>1, <2>4, ReturnsMore
      <3> HIDE DEF s
      <3> QED BY <1>1, <2>4, <3>2, <3>3 DEF LoadObjects, LoaderMore, env
    <2> QED BY <1>1, <2>3, <2>4 DEF LoadObjects
  <1>2. ASSUME loading \in Subsystems, next <= Probes[loading]
        PROVE  /\ <<loading, next>> \in AllProbes
               /\ next + 1 \in 1..(Probes[loading] + 1)
    <2>1. Probes[loading] \in Nat /\ next \in 1..(Probes[loading] + 1)
      BY <1>2, LoaderAssumption DEF LoaderMore
    <2>2. next \in Nat /\ next \in 1..Probes[loading] /\ next + 1 \in 1..(Probes[loading] + 1)
      BY <1>2, <2>1, SMT
    <2>3. <<loading, next>>[1] = loading /\ <<loading, next>>[2] = next OBVIOUS
    <2>4. <<loading, next>> \in Subsystems \X Nat BY <1>2, <2>2
    <2> QED BY <2>2, <2>3, <2>4 DEF AllProbes
  <1>3. CASE AttachProbe
    <2>1. loading \in Subsystems BY <1>3 DEF AttachProbe, Inv, Types
    <2>2. <<loading, next>> \in AllProbes /\ next + 1 \in 1..(Probes[loading] + 1)
      BY <1>2, <1>3, <2>1 DEF AttachProbe
    <2>3. kernelLinks' \in SUBSET AllProbes /\ links' \in SUBSET AllProbes
      BY <1>3, <2>2 DEF AttachProbe, LoaderMore
    <2> QED BY <1>3, <2>2, <2>3 DEF AttachProbe, LoaderMore, env, flags
  <1>4. CASE AttachSkips
    <2>1. loading # None => loading \in Subsystems BY DEF Inv, Types
    <2>2. loading # None => next + 1 \in 1..(Probes[loading] + 1)
      BY <1>2, <1>4, <2>1 DEF AttachSkips
    <2> QED BY <1>4, <2>2 DEF AttachSkips, LoaderMore, env, flags, kernel, programs
  <1>5. CASE AttachFails
    <2>1. loading \in Subsystems BY <1>5 DEF AttachFails, Inv, Types
    <2>2. (loading \notin available) \in BOOLEAN OBVIOUS
    <2>3. faults' \in 0..MaxFaults BY <1>5, <2>2, FaultMore DEF AttachFails
    <2>4. retry' \in SUBSET {"nfs", "nfs_kprobe"} /\ loading' = None
      BY <1>5, <2>1, ReturnsMore DEF AttachFails
    <2> QED BY <1>5, <2>3, <2>4 DEF AttachFails, LoaderMore, env, programs
  <1>6. CASE LoadInstalls
    <2>1. loading \in Subsystems BY <1>6 DEF LoadInstalls, Inv, Types
    <2>2. retry' \in SUBSET {"nfs", "nfs_kprobe"} /\ loading' = None
      BY <1>6, <2>1, ReturnsMore DEF LoadInstalls
    <2>3. objs' \in SUBSET Subsystems /\ links' \in SUBSET AllProbes
      BY <1>6, <2>1 DEF LoadInstalls, ProbesOf, LoaderMore
    <2> QED BY <1>6, <2>2, <2>3 DEF LoadInstalls, LoaderMore, env, kernel
  <1> QED BY <1>1, <1>3, <1>4, <1>5, <1>6 DEF Load

(* The steps beside the loading. *)
LEMMA RestMore ==
  ASSUME LoaderMore,
         \/ \E s \in Subsystems : ModuleChanges(s)
         \/ Cancel \/ StartDone \/ RetryStep \/ Close
         \/ \E r \in Scrapers : CollectGauge(r) \/ CollectMap(r) \/ CollectDone(r)
  PROVE  LoaderMore'
  <1>1. ASSUME NEW s \in Subsystems, ModuleChanges(s) PROVE LoaderMore'
    BY <1>1 DEF ModuleChanges, LoaderMore, kernel, programs, flags, loader
  <1>2. CASE Cancel
    BY <1>2 DEF Cancel, LoaderMore, kernel, programs, flags, loader
  <1>3. CASE StartDone
    BY <1>3 DEF StartDone, LoaderMore, env, kernel, programs, flags, loader
  <1>4. CASE RetryStep
    BY <1>4 DEF RetryStep, RetryTick, RetryLocks, RetryEnds, RetryStops, LoaderMore, env, kernel, programs, flags, loader
  <1>5. CASE Close
    BY <1>5 DEF Close, LoaderMore, env, programs, flags, loader
  <1>6. ASSUME NEW r \in Scrapers, CollectGauge(r) \/ CollectMap(r) \/ CollectDone(r) PROVE LoaderMore'
    BY <1>6 DEF CollectGauge, CollectMap, CollectDone, LoaderMore, env, kernel, programs, flags, loader
  <1> QED BY <1>1, <1>2, <1>3, <1>4, <1>5, <1>6

LEMMA MoreStep == Inv /\ LoaderMore /\ MainMore /\ [Next]_vars => LoaderMore' /\ MainMore'
  <1> SUFFICES ASSUME Inv, LoaderMore, MainMore, [Next]_vars PROVE LoaderMore' /\ MainMore'
    OBVIOUS
  <1>1. ASSUME NEW code \in {0, 1}, NEW what \in {"api", "qmp", "qga", "port"}, Exit(code),
               Refused(what) \/ UNCHANGED refused
        PROVE  LoaderMore' /\ MainMore'
    BY <1>1, ExitMore
  <1>2. CASE startInformers
    BY <1>1, <1>2, LoaderSame, StepsTail DEF startInformers, Starts
  <1>3. ASSUME NEW s \in {"qmp", "qga"}, startPoller(s) PROVE LoaderMore' /\ MainMore'
    BY <1>1, <1>3, LoaderSame, StepsTail DEF startPoller, Starts
  <1>4. CASE LoadAndAttach
    BY <1>4, LoadMore, MainSame DEF LoadAndAttach
  <1>5. CASE startEBPF
    BY <1>5, RestMore, StepsTail DEF startEBPF, Starts
  <1>6. CASE Listen
    <2>1. CASE main' = "serving" /\ UNCHANGED <<loaderVars, steps, shutdown, status, refused>>
      BY <1>6, <2>1, LoaderSame DEF Listen, MainMore
    <2>2. CASE Exit(1) /\ Refused("port") BY <1>1, <2>2
    <2> QED BY <1>6, <2>1, <2>2 DEF Listen
  <1>7. CASE ServerClosed
    BY <1>1, <1>7 DEF ServerClosed
  <1>8. CASE Shutdown
    BY <1>8, LoaderSame DEF Shutdown, MainMore
  <1>9. CASE Retry
    BY <1>9, LoadMore, RestMore, MainSame DEF Retry, Up
  <1>10. ASSUME NEW r \in Scrapers, Scrape(r) PROVE LoaderMore' /\ MainMore'
    BY <1>10, RestMore, MainSame DEF Scrape, Up
  <1>11. CASE Up /\ (Cancel \/ Close \/ \E s \in Subsystems : ModuleChanges(s))
    BY <1>11, RestMore, MainSame DEF Up
  <1>12. CASE UNCHANGED vars
    BY <1>12, LoaderSame, MainSame DEF vars
  <1> QED BY <1>2, <1>3, <1>4, <1>5, <1>6, <1>7, <1>8, <1>9, <1>10, <1>11, <1>12 DEF Next, MainStep

(* The state of the process keeps its types: the loader never has more     *)
(* than three subsystems to load nor attaches a probe there is not, block  *)
(* is not among those retried, and main has an exit status just when it    *)
(* has exited.                                                             *)
THEOREM ExporterTypes == Spec => []TypeOK
  <1>1. Init => LoaderMore /\ MainMore BY MoreInit
  <1>2. Inv /\ LoaderMore /\ MainMore /\ [Next]_vars => LoaderMore' /\ MainMore' BY MoreStep
  <1>3. Inv /\ LoaderMore /\ MainMore => TypeOK BY TypesFollow
  <1> QED BY <1>1, <1>2, <1>3, Invariance, PTL DEF Spec
=============================================================================
