--------------------------- MODULE MCAttribution ----------------------------
(* A filesystem volume, a block volume and two devices.  The exporter      *)
(* starts on a node where two pods share the filesystem volume, one of     *)
(* them not yet in the cache, or on one with the block volume, whose claim *)
(* is not yet in the index.  The devices are 8:0 and 8:256.                *)
EXTENDS Attribution

CONSTANTS p1, p2, fs, blk, d1, d2

MCMajor == [d \in Devices |-> 8]
MCMinor == [d \in Devices |-> IF d = d1 THEN 0 ELSE 256]

MCStartNodes ==
    {[device |-> [u \in Volumes |-> IF u = fs THEN d1 ELSE None], mountinfo |-> <<<<p1, fs>>, <<p2, fs>>>>,
      podStore |-> {p1}, bound |-> Volumes],
     [device |-> [u \in Volumes |-> IF u = blk THEN d1 ELSE None], mountinfo |-> <<<<p1, blk>>>>,
      podStore |-> {p1}, bound |-> {}]}
=============================================================================
