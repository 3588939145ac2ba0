------------------------- MODULE MCLatencyHistogram -------------------------
(* Latencies on both sides of slot edges and of bucket boundaries, below a *)
(* microsecond, at the last slot, and beyond 32 bits.                      *)
EXTENDS LatencyHistogram

MCMicros == {0, 1, 2, 3, 4, 5, 7, 8, 255, 256, 8191, 8192, 9999, 10000, 10001, 16383, 16384, 19999,
             20000, 65535, 65536, 99999, 100000, 2^25 - 1, 2^25, 2^26 - 1, 2^26}

MCLatencies ==
    [hi : {0}, lo : MCMicros, frac : {0, 999}] \cup [hi : {1, 300}, lo : {0, 5}, frac : {0}]

(* The default of --boundaries: 10 ms, 100 ms and 1 s. *)
DefaultBoundaries == <<10000, 100000, 1000000>>

MCBoundaries == <<1, 3, 8>> \o DefaultBoundaries \o <<2^25, 60000000>>
=============================================================================
