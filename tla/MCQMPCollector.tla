--------------------------- MODULE MCQMPCollector ---------------------------
(* TLC instances of QMPCollector: pods p1 (containers c1, then c2) and p2   *)
(* (container c3), the smallest node on which a container is replaced       *)
(* while another VM is being scraped.                                       *)
EXTENDS QMPCollector, TLC

CONSTANTS p1, p2, c1, c2, c3

MCPodOf == [c \in Containers |-> IF c \in {c1, c2} THEN p1 ELSE p2]

ConnSymmetry == Permutations(Conns)
=============================================================================
