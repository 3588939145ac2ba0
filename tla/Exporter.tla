------------------------------ MODULE Exporter ------------------------------
(***************************************************************************)
(* The process: main of cmd/exporter/main.go starts the informers, the QMP *)
(* and QGA pollers and the eBPF programs one after the other, then serves  *)
(* /metrics until a signal makes the HTTP server shut down.  A signal may  *)
(* come at any moment of it.  The eBPF part is EbpfLoader, whose retries,  *)
(* Close and Collect run beside main; the pollers, once started, are       *)
(* QMPCollector and QGACollector.                                          *)
(***************************************************************************)
EXTENDS EbpfLoader

VARIABLES
    steps,         \* what main has still to start
    main,          \* starting, serving, exited
    shutdown,      \* srv.Shutdown has been called
    status,        \* the exit status, None before
    (* history *)
    refused        \* what could not be started: "api", "qmp", "qga", "port"

mainVars == <<steps, main, shutdown, status, refused>>
vars     == <<loaderVars, mainVars>>

ASSUME StatusAssumption == None \notin {0, 1}

(* What main starts, with these features enabled. *)
StartOrder(features) ==
    LET Add(q, s) == IF s \in features THEN Append(q, s) ELSE q
    IN  Add(Add(Add(<<"informers">>, "qmp"), "qga"), "ebpf")

TypeOK ==
    /\ LoaderTypeOK
    /\ Len(steps) <= 4 /\ \A i \in 1..Len(steps) : steps[i] \in {"informers", "qmp", "qga", "ebpf"}
    /\ main \in {"starting", "serving", "exited"}
    /\ shutdown \in BOOLEAN
    /\ status \in {None, 0, 1}
    /\ (status = None) <=> (main # "exited")
    /\ refused \in SUBSET {"api", "qmp", "qga", "port"}

Init ==
    /\ LoaderInit
    /\ \E features \in SUBSET {"qmp", "qga", "ebpf"} :
         /\ steps = StartOrder(features)
         /\ "ebpf" \notin features => enabled = {}
    /\ main = "starting"
    /\ shutdown = FALSE
    /\ status = None
    /\ refused = {}
-----------------------------------------------------------------------------
Starts(s) == main = "starting" /\ steps # <<>> /\ Head(steps) = s

(* The process ends, whatever its goroutines are doing, and its memory     *)
(* with it; the kernel closes its files, and with them the programs.       *)
Exit(code) ==
    /\ main' = "exited"
    /\ status' = code
    /\ closed' = TRUE
    /\ kernelObjs' = {} /\ kernelLinks' = {}
    /\ objs' = {} /\ links' = {} /\ active' = {} /\ retry' = {}
    /\ pc' = "done" /\ queue' = <<>> /\ loading' = None /\ next' = 0
    /\ scrape' = [r \in Scrapers |-> 0]
    /\ gauge' = [r \in Scrapers |-> {}] /\ exported' = gauge'
    /\ UNCHANGED <<env, faults, steps, shutdown>>

Refused(what) == refused' = refused \cup {what}

(* startInformers.  It waits for the caches until the context is done, and *)
(* exits when there is no cluster to talk to.                              *)
startInformers ==
    /\ Starts("informers")
    /\ \/ steps' = Tail(steps) /\ UNCHANGED <<loaderVars, main, shutdown, status, refused>>
       \/ Exit(1) /\ Refused("api")

(* startQMP and startQGA: the process exits when the socket of the         *)
(* container runtime cannot be dialled; otherwise Run is started.          *)
startPoller(s) ==
    /\ Starts(s)
    /\ \/ steps' = Tail(steps) /\ UNCHANGED <<loaderVars, main, shutdown, status, refused>>
       \/ Exit(1) /\ Refused(s)

LoadAndAttach == Starts("ebpf") /\ pc = "start" /\ Load /\ UNCHANGED mainVars

(* startEBPF after LoadAndAttach: a failure is logged. *)
startEBPF ==
    /\ Starts("ebpf")
    /\ StartDone
    /\ steps' = Tail(steps)
    /\ UNCHANGED <<main, shutdown, status, refused>>

(* The goroutine that waits for the context, which main starts last. *)
Shutdown ==
    /\ main # "exited"
    /\ steps = <<>>
    /\ cancelled
    /\ ~shutdown
    /\ shutdown' = TRUE
    /\ UNCHANGED <<loaderVars, steps, main, status, refused>>

(* ListenAndServe listens, unless Shutdown came first. *)
Listen ==
    /\ main = "starting"
    /\ steps = <<>>
    /\ ~shutdown
    /\ \/ main' = "serving" /\ UNCHANGED <<loaderVars, steps, shutdown, status, refused>>
       \/ Exit(1) /\ Refused("port")

(* Mutant: any error of ListenAndServe is fatal. *)
ServerClosedFatal ==
    /\ main # "exited"
    /\ shutdown
    /\ Exit(1)
    /\ UNCHANGED refused

(* ListenAndServe returns ErrServerClosed as soon as Shutdown is called,   *)
(* and main returns: neither the scrapes under way nor Run are waited for. *)
ServerClosed ==
    /\ main # "exited"
    /\ shutdown
    /\ Exit(0)
    /\ UNCHANGED refused

MainStep ==
    \/ startInformers
    \/ \E s \in {"qmp", "qga"} : startPoller(s)
    \/ LoadAndAttach
    \/ startEBPF
    \/ Listen
    \/ ServerClosed

(* What runs beside main: RetryFailed, Close, and Collect for requests. *)
Up == main # "exited" /\ UNCHANGED mainVars

Retry == Up /\ (RetryStep \/ (pc = "retry" /\ Load))

Scrape(r) ==
    /\ Up
    /\ \/ main = "serving" /\ CollectGauge(r)
       \/ CollectMap(r)
       \/ CollectDone(r)

Next ==
    \/ Up /\ \E s \in Subsystems : ModuleChanges(s)
    \/ Up /\ Cancel
    \/ MainStep
    \/ Shutdown
    \/ Retry
    \/ Up /\ Close
    \/ \E r \in Scrapers : Scrape(r)
    \/ main = "exited" /\ UNCHANGED vars

Spec == Init /\ [][Next]_vars

(* Calls return: the API server answers or the context is done, dialling   *)
(* the runtime has a timeout, and loading ends.  The ticker fires, the     *)
(* lock is granted, Collect comes to an end, goroutines run.               *)
FairSpec ==
    /\ Spec
    /\ WF_vars(MainStep) /\ WF_vars(Shutdown)
    /\ WF_vars(Retry /\ ~RetryStops)
    /\ \A r \in Scrapers : WF_vars(Scrape(r) /\ scrape[r] # 0)
-----------------------------------------------------------------------------
(* An NFS subsystem whose module is loaded, at last for good, becomes      *)
(* active, whatever failed before, however the other subsystems fare, and  *)
(* however often Collect holds the lock.                                   *)
EventuallyActive ==
    \A s \in {"nfs", "nfs_kprobe"} :
        <>[](s \in enabled \cap available /\ ~cancelled /\ main # "exited") => <>[](s \in active)

(* A signal ends the process, at whatever moment of the start it comes:    *)
(* Shutdown is called even when the server does not listen yet, and        *)
(* ListenAndServe then returns.  The status is an error only when          *)
(* something could not be started.                                         *)
SignalEndsProcess == cancelled ~> (main = "exited" /\ (status = 0 \/ refused # {}))

(* README: "All three subsystems are independently enabled/disabled and    *)
(* degrade gracefully if one fails to start": a subsystem that cannot be   *)
(* started does not end the process.                                       *)
DegradesGracefully == main = "exited" => refused \cap {"qmp", "qga"} = {}
=============================================================================
