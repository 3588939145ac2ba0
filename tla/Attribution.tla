---------------------------- MODULE Attribution -----------------------------
(***************************************************************************)
(* The eBPF collector composed with the device resolver: Collect walks the *)
(* histograms, which the programs keep per device number, and looks up     *)
(* each device on its own while scan may replace the map.  The histograms  *)
(* are in an LRU hash that changes under the walk.  One operation stands   *)
(* for all; Collect treats them alike.                                     *)
(***************************************************************************)
EXTENDS DeviceResolver

CONSTANTS
    Allowed,         \* pods whose namespace passes namespaceAllowed
    NFSDevices,      \* device numbers that the NFS programs count
    MaxRestarts      \* bound: times a walk starts over

ASSUME RestartsAssumption == MaxRestarts \in Nat

VARIABLES
    todo,            \* devices Collect has still to visit
    pass,            \* times it has started over
    collecting,
    reply,           \* what it has sent: the device, its DeviceInfo, None for a
                     \* series of the system, and the pass
    (* history *)
    swapped          \* the map was replaced during this Collect

attrVars == <<todo, pass, collecting, reply, swapped>>
allVars  == <<vars, attrVars>>

TypeOK ==
    /\ ResolverTypeOK
    /\ todo \in SUBSET Devices
    /\ pass \in 0..MaxRestarts
    /\ {collecting, swapped} \subseteq BOOLEAN
    /\ reply \in SUBSET [dev : Devices, info : DeviceInfo \cup {None}, pass : 0..MaxRestarts]

Init ==
    /\ ResolverInit
    /\ todo = {}
    /\ pass = 0
    /\ collecting = FALSE
    /\ reply = {}
    /\ swapped = FALSE

(* The devices that may have a histogram: those attached at some time. *)
Counted == {d \in Devices : owners[d] # {}}

CollectBegins ==
    /\ ~collecting
    /\ collecting' = TRUE
    /\ todo' = Counted
    /\ UNCHANGED <<vars, pass, reply, swapped>>

(* The histogram the walk is at was evicted: iter.Next starts over.  As    *)
(* long as nothing is sent, that makes no difference.                      *)
CollectRestarts ==
    /\ collecting
    /\ reply # {}
    /\ pass < MaxRestarts
    /\ pass' = pass + 1
    /\ todo' = Counted
    /\ UNCHANGED <<vars, collecting, reply, swapped>>

(* collectBlock, collectNFS and collectNFSKprobe for one histogram: the    *)
(* series of the pod, of the system, or none.                              *)
CollectDevice(d) ==
    LET info == Lookup(d)
    IN  /\ collecting
        /\ d \in todo
        /\ todo' = todo \ {d}
        /\ reply' = IF IF info = None THEN d \in NFSDevices ELSE info.pod \notin Allowed
                      THEN reply
                      ELSE reply \cup {[dev |-> d, info |-> info, pass |-> pass]}
        /\ UNCHANGED <<vars, pass, collecting, swapped>>

(* The walk is over: at the end of the map, which may be before a device   *)
(* that had no I/O or was evicted, or after as many steps as the map may   *)
(* have entries, with an error that is logged.                             *)
CollectEnds ==
    /\ collecting
    /\ collecting' = FALSE
    /\ todo' = {}
    /\ pass' = 0
    /\ reply' = {}
    /\ swapped' = FALSE
    /\ UNCHANGED vars

Resolve ==
    /\ Run
    /\ swapped' = (swapped \/ (collecting /\ devices' # devices))
    /\ UNCHANGED <<todo, pass, collecting, reply>>

Next ==
    \/ NodeChanges /\ UNCHANGED attrVars
    \/ Resolve
    \/ CollectBegins
    \/ CollectRestarts
    \/ \E d \in Devices : CollectDevice(d)
    \/ CollectEnds

Spec == Init /\ [][Next]_allVars

(* The ticker fires and scan goes on. *)
FairSpec == Spec /\ WF_allVars(Resolve)
-----------------------------------------------------------------------------
(* The latencies in a series are those of the volume it is labelled with,  *)
(* however old the map is that Collect looked the device up in, unless     *)
(* several volumes have had the device number, one after the other or at   *)
(* the same time.                                                          *)
AttributedUnlessReused ==
    \A s \in reply :
        s.info # None => owners[s.dev] = {s.info.vol} \/ \E v, w \in owners[s.dev] : v # w

(* No series occurs twice in a reply, which would fail the scrape of the   *)
(* whole exporter, unless the walk of the histograms started over between  *)
(* the two, or the map was replaced while Collect was under way and the    *)
(* volume has been attached as several devices.                            *)
SeriesUniqueUnlessMoved ==
    \A s, t \in reply :
        s # t /\ s.info # None /\ s.info = t.info =>
            \/ s.pass # t.pass
            \/ swapped /\ \E d, e \in Devices : d # e /\ s.info.vol \in owners[d] \cap owners[e]
=============================================================================
