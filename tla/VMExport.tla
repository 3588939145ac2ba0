------------------------------ MODULE VMExport ------------------------------
(***************************************************************************)
(* What the QMP poller promises to those who read its metrics, in terms of *)
(* VMs and without lookups, container IDs, sockets or goroutines.  A poll  *)
(* first gives up connections, then makes new ones, then loses those whose *)
(* scrape fails, and what it shows is what is connected at its end.        *)
(***************************************************************************)
CONSTANT VMs           \* the VMs that may be shown

VARIABLES
    connected,         \* VMs that are connected
    shown,             \* VMs whose metrics Collect reports
    phase              \* what the poller is doing

vars == <<connected, shown, phase>>

Init ==
    /\ connected = {}
    /\ shown = {}
    /\ phase = "resolving"

Reconcile ==
    /\ phase = "resolving"
    /\ phase' = "connecting"
    /\ connected' \in SUBSET connected
    /\ UNCHANGED shown

Connect(v) ==
    /\ phase = "connecting"
    /\ v \notin connected
    /\ connected' = connected \cup {v}
    /\ UNCHANGED <<shown, phase>>

Scrape ==
    /\ phase = "connecting"
    /\ phase' = "scraping"
    /\ UNCHANGED <<connected, shown>>

ScrapeFails(v) ==
    /\ phase = "scraping"
    /\ v \in connected
    /\ connected' = connected \ {v}
    /\ UNCHANGED <<shown, phase>>

Publish ==
    /\ phase = "scraping"
    /\ phase' = "idle"
    /\ shown' = connected
    /\ UNCHANGED connected

Poll ==
    /\ phase = "idle"
    /\ phase' = "resolving"
    /\ UNCHANGED <<connected, shown>>

Stop ==
    /\ phase = "idle"
    /\ phase' = "stopped"
    /\ connected' = {}
    /\ UNCHANGED shown

Next ==
    \/ Reconcile
    \/ \E v \in VMs : Connect(v)
    \/ Scrape
    \/ \E v \in VMs : ScrapeFails(v)
    \/ Publish
    \/ Poll
    \/ Stop

Spec == Init /\ [][Next]_vars
=============================================================================
