------------------------- MODULE LatencyPathProofs --------------------------
(***************************************************************************)
(* The eBPF programs, for any number of CPUs, requests and histograms and  *)
(* any size of the maps.  First what the three have in common: the types,  *)
(* and that a latency that is recorded is counted in the histogram of the  *)
(* map unless the histogram was raced for, evicted or built in memory      *)
(* still in use.  S is the set of the requests of one program.             *)
(*                                                                         *)
(* Then the two programs on tracepoints, block_latency.c and               *)
(* nfs_latency.c, which find the start of a request by a key made from the *)
(* request: a latency is measured from the start of the request that ends  *)
(* unless two requests of one key overlapped or the element of the start   *)
(* was reused before it was read, and no start outlives its request.  What *)
(* follows from the keys is shown for a set S of requests and a function K *)
(* that gives their keys.                                                  *)
(***************************************************************************)
EXTENDS BlockLatency, NFSLatency, TLAPS

(* A step that names no prover is tried with Zenon, then with SMT. *)
USE ZenonT(20), SMTT(20)

Steps == {"idle", "read", "readkey", "delete", "hist", "create", "relookup", "add"}

(* What a lookup would find: the request whose timestamp is kept for a key. *)
Started == [k \in Keys |-> IF start[k] = None THEN None ELSE stamp[start[k]]]

(* The start map and the pointers into it lead to timestamps, all of them  *)
(* of requests of the program.                                             *)
Maps(S) ==
    /\ start \in [Keys -> StartElems \cup {None}]
    /\ stamp \in [StartElems -> S \cup {None}]
    /\ startp \in [CPUs -> StartElems \cup {None}]
    /\ \A k \in Keys : start[k] # None => stamp[start[k]] # None
    /\ \A p \in CPUs : startp[p] # None => stamp[startp[p]] # None

(* The maps and the handlers of a program hold requests of the program. *)
Held(S) ==
    /\ Maps(S)
    /\ req \in [CPUs -> S \cup {None}]
    /\ tsp \in [CPUs -> S \cup {None}]

(* A handler has a request just while it runs, points to a start until it  *)
(* has read it, has a timestamp from then on, and points to a histogram    *)
(* just before it adds to it.                                              *)
Busy ==
    \A p \in CPUs :
        /\ pc[p] = "idle" <=> req[p] = None
        /\ pc[p] \in {"read", "readkey"} <=> startp[p] # None
        /\ pc[p] \in {"idle", "read"} <=> tsp[p] = None
        /\ pc[p] = "add" <=> histp[p] # None

(* No two histograms share an element. *)
Owned == \A g, h \in HistKeys : hists[g] # None /\ hists[g] = hists[h] => g = h

(* Unless a histogram lost operations, a CPU about to create it is the     *)
(* only one, and it is not there yet.                                      *)
Creating ==
    \A p \in CPUs : pc[p] = "create" /\ hk[p] \notin lossy =>
        /\ hists[hk[p]] = None
        /\ \A q \in CPUs : pc[q] = "create" /\ hk[q] = hk[p] => q = p

(* Unless a histogram lost operations, a handler that adds to it points to *)
(* the element in the map, and no handler of another histogram does.       *)
Adding ==
    \A p \in CPUs : pc[p] = "add" =>
        /\ hk[p] \notin lossy => histp[p] = hists[hk[p]]
        /\ \A h \in HistKeys \ lossy : histp[p] = hists[h] => hk[p] = h

HistInv == Owned /\ Creating /\ Adding /\ NoLossWithoutRace

(* A request whose end is handled is handled by one CPU. *)
Handled ==
    /\ \A p \in CPUs : req[p] # None => request[req[p]] = "completing"
    /\ \A p, q \in CPUs : req[p] # None /\ req[p] = req[q] => p = q

PathInv(S) == TypeOK /\ Held(S) /\ Busy /\ HistInv
-----------------------------------------------------------------------------
LEMMA PathInit ==
  ASSUME NEW S, Init
  PROVE  PathInv(S)
  <1>1. TypeOK
    <2>1. issues \in 0..MaxIssues BY PathAssumption, SMT DEF Init
    <2> QED BY <2>1 DEF Init, TypeOK, Steps
  <1>2. Held(S) /\ Busy BY DEF Init, Held, Maps, Busy
  <1>3. HistInv BY DEF Init, HistInv, Owned, Creating, Adding, NoLossWithoutRace, Total
  <1> QED BY <1>1, <1>2, <1>3 DEF PathInv

(* The invariant about histograms looks at few variables. *)
LEMMA HistFrame ==
  ASSUME HistInv, UNCHANGED histVars,
         \A p \in CPUs : \/ pc'[p] = pc[p] /\ hk'[p] = hk[p] /\ histp'[p] = histp[p]
                         \/ pc'[p] \notin {"create", "add"}
  PROVE  HistInv'
  <1>1. UNCHANGED <<hists, count, recorded, lossy>> BY DEF histVars
  <1>2. Owned' BY <1>1 DEF HistInv, Owned
  <1>3. Creating' BY <1>1 DEF HistInv, Creating
  <1>4. Adding' BY <1>1, SMT DEF HistInv, Adding
  <1>5. NoLossWithoutRace' BY <1>1 DEF HistInv, NoLossWithoutRace, Total
  <1> QED BY <1>2, <1>3, <1>4, <1>5 DEF HistInv

(* A request begins. *)
LEMMA BeginsType ==
  ASSUME TypeOK, NEW r \in Requests, NEW peers \in SUBSET Requests, Begins(r, peers)
  PROVE  /\ request' \in [Requests -> {"idle", "inflight", "completing"}]
         /\ aliased' \in SUBSET Requests
         /\ issues' \in 0..MaxIssues
  <1>1. request' = [request EXCEPT ![r] = "inflight"] /\ issues' = issues + 1 /\ issues < MaxIssues
    BY DEF Begins
  <1>2. issues' \in 0..MaxIssues BY <1>1, PathAssumption, SMT DEF TypeOK
  <1>3. aliased' \in SUBSET Requests BY DEF TypeOK, Begins
  <1> QED BY <1>1, <1>2, <1>3 DEF TypeOK

LEMMA StartedFacts ==
  ASSUME NEW S, Maps(S)
  PROVE  /\ Started \in [Keys -> S \cup {None}]
         /\ \A k \in Keys : start[k] # None => Started[k] = stamp[start[k]] /\ Started[k] # None
         /\ \A k \in Keys : start[k] = None => Started[k] = None
  BY DEF Maps, Started

(* The kernel pushes out other starts, never makes one up, and writes over *)
(* no element that is in the map or, unless it is noted, pointed to.       *)
LEMMA StoreStartShape ==
  ASSUME NEW S, PathInv(S), NEW k \in Keys, NEW r \in S, r # None, StoreStart(k, r), UNCHANGED startp
  PROVE  /\ Maps(S)'
         /\ missed' \in SUBSET Keys
         /\ reused' \in SUBSET CPUs /\ reused \subseteq reused'
         /\ \A j \in Keys : IF j = k THEN Started'[j] = r ELSE Started'[j] \in {Started[j], None}
         /\ \A p \in CPUs \ reused' : startp[p] # None => stamp'[startp[p]] = stamp[startp[p]]
  <1>1. PICK gone \in Evictions(start) : \E e \in Free(start, gone, StartElems) :
          /\ start' = Updated(start, k, e, gone)
          /\ stamp' = [stamp EXCEPT ![e] = r]
          /\ reused' = reused \cup {p \in CPUs : startp[p] = e}
    BY DEF StoreStart
  <1>2. PICK e \in Free(start, gone, StartElems) :
          /\ start' = Updated(start, k, e, gone)
          /\ stamp' = [stamp EXCEPT ![e] = r]
          /\ reused' = reused \cup {p \in CPUs : startp[p] = e}
    BY <1>1
  <1>3. Maps(S) /\ missed \in SUBSET Keys /\ reused \in SUBSET CPUs
    BY DEF PathInv, Held, TypeOK
  <1>4. DOMAIN start = Keys BY <1>3 DEF Maps
  <1>5. e \in StartElems /\ e # None /\ \A j \in Keys : start[j] # None /\ j \notin gone => start[j] # e
    BY <1>4, PathAssumption DEF Free, Entries
  <1>6. start' = [j \in Keys |-> IF j = k THEN e ELSE IF j \in gone THEN None ELSE start[j]]
    BY <1>2, <1>4 DEF Updated
  <1>7. /\ start'[k] = e
        /\ \A j \in Keys \ {k} : start'[j] = IF j \in gone THEN None ELSE start[j]
    BY <1>6
  <1>8. stamp'[e] = r /\ \A d \in StartElems \ {e} : stamp'[d] = stamp[d] BY <1>2, <1>3, <1>5 DEF Maps
  <1>9. Maps(S)'
    <2>1. start' \in [Keys -> StartElems \cup {None}] BY <1>3, <1>5, <1>6 DEF Maps
    <2>2. stamp' \in [StartElems -> S \cup {None}] BY <1>2, <1>3 DEF Maps
    <2>3. \A d \in StartElems : stamp[d] # None => stamp'[d] # None BY <1>8
    <2>4. ASSUME NEW j \in Keys, start'[j] # None PROVE stamp'[start'[j]] # None
      <3>1. CASE j = k BY <1>7, <1>8, <3>1
      <3>2. CASE j # k BY <1>3, <1>7, <2>3, <2>4, <3>2 DEF Maps
      <3> QED BY <3>1, <3>2
    <2>5. \A p \in CPUs : startp[p] # None => stamp'[startp[p]] # None BY <1>3, <2>3 DEF Maps
    <2> QED BY <1>3, <2>1, <2>2, <2>4, <2>5 DEF Maps
  <1>10. ASSUME NEW j \in Keys
         PROVE  IF j = k THEN Started'[j] = r ELSE Started'[j] \in {Started[j], None}
    <2>1. Started'[j] = IF start'[j] = None THEN None ELSE stamp'[start'[j]] BY DEF Started
    <2>2. CASE j = k BY <1>5, <1>7, <1>8, <2>1, <2>2
    <2>3. CASE j # k /\ start'[j] # None
      <3>1. start'[j] = start[j] /\ start[j] # e /\ start[j] \in StartElems
        BY <1>3, <1>5, <1>7, <2>3 DEF Maps
      <3>2. Started[j] = stamp[start[j]] BY <2>3, <3>1 DEF Started
      <3> QED BY <1>8, <2>1, <2>3, <3>1, <3>2
    <2> QED BY <2>1, <2>2, <2>3
  <1>11. \A p \in CPUs \ reused' : startp[p] # None => stamp'[startp[p]] = stamp[startp[p]]
    BY <1>2, <1>3, <1>8 DEF Maps
  <1>12. missed' \in SUBSET Keys BY <1>3 DEF StoreStart
  <1>13. reused' \in SUBSET CPUs /\ reused \subseteq reused' BY <1>2, <1>3
  <1> QED BY <1>9, <1>10, <1>11, <1>12, <1>13

(* No handler moves: a request begins or ends unseen. *)
LEMMA PathStart ==
  ASSUME NEW S, S \subseteq Requests, PathInv(S), UNCHANGED <<histVars, handler>>,
         request' \in [Requests -> {"idle", "inflight", "completing"}],
         Maps(S)', reused' \in SUBSET CPUs,
         aliased' \in SUBSET Requests, issues' \in 0..MaxIssues, missed' \in SUBSET Keys
  PROVE  PathInv(S)'
  <1>1. /\ UNCHANGED histVars
        /\ UNCHANGED <<pc, req, startp, tsp, hk, histp, hists, count, recorded, lossy>>
    BY DEF handler, histVars
  <1>2. start' \in [Keys -> StartElems \cup {None}] /\ stamp' \in [StartElems -> Requests \cup {None}]
    <2>1. S \cup {None} \subseteq Requests \cup {None} OBVIOUS
    <2> QED BY <2>1 DEF Maps
  <1>3. TypeOK' BY <1>1, <1>2 DEF PathInv, TypeOK
  <1>4. Held(S)' /\ Busy' BY <1>1 DEF PathInv, Held, Busy
  <1>5. HistInv' BY <1>1, HistFrame DEF PathInv
  <1> QED BY <1>3, <1>4, <1>5 DEF PathInv

(* A handler returns. *)
LEMMA ReturnTypes ==
  ASSUME NEW S, S \subseteq Requests, PathInv(S), NEW p \in CPUs, NEW r \in Requests, Return(p, r),
         start' \in [Keys -> StartElems \cup {None}], \A k \in Keys : start'[k] \in {start[k], None},
         UNCHANGED stamp, UNCHANGED <<issues, missed, hists, lossy>>,
         count' \in [Elems -> Nat], recorded' \in [HistKeys -> Nat]
  PROVE  /\ TypeOK' /\ Held(S)' /\ Busy'
         /\ pc'[p] = "idle"
         /\ \A q \in CPUs \ {p} : pc'[q] = pc[q] /\ hk'[q] = hk[q] /\ histp'[q] = histp[q]
  <1>1. /\ pc' = [pc EXCEPT ![p] = "idle"]
        /\ req' = [req EXCEPT ![p] = None]
        /\ startp' = [startp EXCEPT ![p] = None]
        /\ tsp' = [tsp EXCEPT ![p] = None]
        /\ hk' = [hk EXCEPT ![p] = None]
        /\ histp' = [histp EXCEPT ![p] = None]
        /\ request' = [request EXCEPT ![r] = "idle"]
        /\ aliased' = aliased \ {r} /\ reused' = reused \ {p}
    BY DEF Return
  <1>2. TypeOK' BY <1>1 DEF PathInv, TypeOK
  <1>3. Maps(S)' BY <1>1 DEF PathInv, Held, Maps
  <1>4. Held(S)' BY <1>1, <1>3 DEF PathInv, Held
  <1>5. Busy' BY <1>1 DEF PathInv, Busy, TypeOK
  <1>6. /\ pc'[p] = "idle"
        /\ \A q \in CPUs \ {p} : pc'[q] = pc[q] /\ hk'[q] = hk[q] /\ histp'[q] = histp[q]
    BY <1>1 DEF PathInv, TypeOK
  <1> QED BY <1>2, <1>4, <1>5, <1>6

(* A handler returns and the histograms stay. *)
LEMMA PathReturn ==
  ASSUME NEW S, S \subseteq Requests, PathInv(S), NEW p \in CPUs, NEW r \in Requests, Return(p, r),
         start' \in [Keys -> StartElems \cup {None}], \A k \in Keys : start'[k] \in {start[k], None},
         UNCHANGED stamp, UNCHANGED <<issues, missed>>, UNCHANGED histVars
  PROVE  PathInv(S)'
  <1>1. UNCHANGED <<hists, lossy, count, recorded>> BY DEF histVars
  <1>2. count' \in [Elems -> Nat] /\ recorded' \in [HistKeys -> Nat] BY <1>1 DEF PathInv, TypeOK
  <1>3. /\ TypeOK' /\ Held(S)' /\ Busy'
        /\ pc'[p] = "idle"
        /\ \A q \in CPUs \ {p} : pc'[q] = pc[q] /\ hk'[q] = hk[q] /\ histp'[q] = histp[q]
    BY <1>1, <1>2, ReturnTypes
  <1>4. HistInv' BY <1>3, HistFrame DEF PathInv
  <1> QED BY <1>3, <1>4 DEF PathInv

(* The end probe looks up the start. *)
LEMMA PathLookup ==
  ASSUME NEW S, S \subseteq Requests, PathInv(S), NEW p \in CPUs, NEW r \in S, NEW k \in Keys,
         LookupStart(p, r, k)
  PROVE  PathInv(S)'
  <1>1. /\ pc[p] = "idle" /\ UNCHANGED <<start, stamp, issues, missed>> /\ UNCHANGED histVars
    BY DEF LookupStart, startVars
  <1>2. Maps(S) /\ start' \in [Keys -> StartElems \cup {None}] BY <1>1 DEF PathInv, Held, Maps
  <1>3. CASE Return(p, r) BY <1>1, <1>2, <1>3, PathReturn
  <1>4. CASE /\ start[k] # None
             /\ Advance(p, "read")
             /\ req' = [req EXCEPT ![p] = r]
             /\ startp' = [startp EXCEPT ![p] = start[k]]
             /\ request' = [request EXCEPT ![r] = "completing"]
             /\ UNCHANGED <<tsp, hk, histp, aliased, reused>>
    <2>1. pc' = [pc EXCEPT ![p] = "read"] BY <1>4 DEF Advance
    <2>2. start[k] \in StartElems /\ stamp[start[k]] # None /\ r # None
      BY <1>2, <1>4, PathAssumption DEF Maps
    <2>3. UNCHANGED <<hists, count, recorded, lossy>> BY <1>1 DEF histVars
    <2>4. TypeOK' BY <1>1, <1>4, <2>1, <2>2, <2>3 DEF PathInv, TypeOK
    <2>5. Held(S)' BY <1>1, <1>2, <1>4, <2>2 DEF PathInv, Held, Maps
    <2>6. Busy' BY <1>1, <1>4, <2>1, <2>2 DEF PathInv, Busy, TypeOK
    <2>7. \A q \in CPUs : \/ pc'[q] = pc[q] /\ hk'[q] = hk[q] /\ histp'[q] = histp[q]
                          \/ pc'[q] \notin {"create", "add"}
      BY <1>4, <2>1 DEF PathInv, TypeOK
    <2>8. HistInv' BY <1>1, <2>7, HistFrame DEF PathInv
    <2> QED BY <2>4, <2>5, <2>6, <2>8 DEF PathInv
  <1> QED BY <1>3, <1>4 DEF LookupStart

(* A handler reads through its pointer, and may be done with it. *)
LEMMA PathRead ==
  ASSUME NEW S, S \subseteq Requests, PathInv(S), NEW p \in CPUs, NEW next \in {"readkey", "delete"},
         pc[p] \in {"read", "readkey"}, Advance(p, next),
         tsp' = [tsp EXCEPT ![p] = stamp[startp[p]]] \/ (pc[p] = "readkey" /\ tsp' = tsp),
         next = "delete" => startp' = [startp EXCEPT ![p] = None],
         next = "readkey" => startp' = startp,
         hk' = hk \/ \E h \in HistKeys : hk' = [hk EXCEPT ![p] = h],
         UNCHANGED <<request, startVars, histVars, req, histp, reused, issues, aliased, missed>>
  PROVE  PathInv(S)'
  <1>1. /\ pc' = [pc EXCEPT ![p] = next]
        /\ UNCHANGED <<start, stamp, request, req, histp, reused, issues, aliased, missed>>
        /\ UNCHANGED <<hists, count, recorded, lossy>> /\ UNCHANGED histVars
    BY DEF Advance, startVars, histVars
  <1>2. Maps(S) /\ TypeOK /\ Busy BY DEF PathInv, Held
  <1>3. startp[p] \in StartElems /\ stamp[startp[p]] \in S /\ stamp[startp[p]] # None
    BY <1>2 DEF Maps, Busy
  <1>4. \A q \in CPUs \ {p} : pc'[q] = pc[q] /\ startp'[q] = startp[q] /\ tsp'[q] = tsp[q] /\ hk'[q] = hk[q]
    BY <1>1, <1>2 DEF TypeOK
  <1>5. pc'[p] = next /\ tsp'[p] # None /\ (next = "delete" <=> startp'[p] = None)
    BY <1>1, <1>2, <1>3, ZenonT(60) DEF TypeOK, Busy
  <1>6. /\ tsp' \in [CPUs -> S \cup {None}] /\ tsp' \in [CPUs -> Requests \cup {None}]
        /\ startp' \in [CPUs -> StartElems \cup {None}]
        /\ hk' \in [CPUs -> HistKeys \cup {None}]
        /\ pc' \in [CPUs -> Steps]
    <2>1. tsp \in [CPUs -> S \cup {None}] BY DEF PathInv, Held
    <2>2. stamp[startp[p]] \in Requests BY <1>3
    <2>3. next \in Steps BY DEF Steps
    <2> QED BY <1>1, <1>2, <1>3, <2>1, <2>2, <2>3 DEF TypeOK, Steps
  <1>7. TypeOK'
    <2>1. /\ \A q \in CPUs : pc'[q] # "idle" => req'[q] # None
          /\ \A q \in CPUs : pc'[q] \in {"read", "readkey"} => startp'[q] # None
          /\ \A q \in CPUs : pc'[q] \notin {"idle", "read"} => tsp'[q] # None
          /\ \A q \in CPUs : pc'[q] \in {"hist", "create", "relookup", "add"} => hk'[q] # None
          /\ \A q \in CPUs : pc'[q] = "add" => histp'[q] # None
      BY <1>1, <1>2, <1>4, <1>5 DEF TypeOK
    <2> QED BY <1>1, <1>2, <1>6, <2>1, ZenonT(60) DEF TypeOK, Steps
  <1>8. Held(S)'
    <2>1. \A q \in CPUs : startp'[q] # None => stamp[startp'[q]] # None
      BY <1>2, <1>3, <1>4, <1>5 DEF Maps
    <2> QED BY <1>1, <1>2, <1>6, <2>1 DEF PathInv, Held, Maps
  <1>9. Busy' BY <1>1, <1>2, <1>4, <1>5, ZenonT(60) DEF Busy
  <1>10. HistInv' BY <1>1, <1>4, <1>5, HistFrame DEF PathInv
  <1> QED BY <1>7, <1>8, <1>9, <1>10 DEF PathInv

(* The start is deleted. *)
LEMMA PathDelete ==
  ASSUME NEW S, S \subseteq Requests, PathInv(S), NEW p \in CPUs, NEW k, NEW h \in HistKeys \cup {None},
         DeleteStart(p, k, h)
  PROVE  PathInv(S)'
  <1>1. /\ pc[p] = "delete" /\ start' = [start EXCEPT ![k] = None] /\ Measured(p, h)
        /\ UNCHANGED <<stamp, issues, missed>> /\ UNCHANGED histVars
    BY DEF DeleteStart
  <1>2. Maps(S) BY DEF PathInv, Held
  <1>3. start' \in [Keys -> StartElems \cup {None}] /\ \A j \in Keys : start'[j] \in {start[j], None}
    BY <1>1, <1>2 DEF Maps
  <1>4. req[p] \in S /\ req[p] \in Requests BY <1>1 DEF PathInv, Held, Busy
  <1>5. CASE Return(p, req[p]) BY <1>1, <1>3, <1>4, <1>5, PathReturn
  <1>6. CASE /\ h # None /\ Advance(p, "hist") /\ hk' = [hk EXCEPT ![p] = h]
             /\ UNCHANGED <<req, startp, tsp, histp, request, aliased, reused>>
    <2>1. pc' = [pc EXCEPT ![p] = "hist"] BY <1>6 DEF Advance
    <2>2. UNCHANGED <<hists, count, recorded, lossy>> BY <1>1 DEF histVars
    <2>3. TypeOK' BY <1>1, <1>3, <1>6, <2>1, <2>2 DEF PathInv, TypeOK
    <2>4. Held(S)' BY <1>1, <1>2, <1>3, <1>6 DEF PathInv, Held, Maps
    <2>5. Busy' BY <1>1, <1>6, <2>1 DEF PathInv, Busy, TypeOK
    <2>6. \A q \in CPUs : \/ pc'[q] = pc[q] /\ hk'[q] = hk[q] /\ histp'[q] = histp[q]
                          \/ pc'[q] \notin {"create", "add"}
      BY <1>6, <2>1 DEF PathInv, TypeOK
    <2>7. HistInv' BY <1>1, <2>6, HistFrame DEF PathInv
    <2> QED BY <2>3, <2>4, <2>5, <2>7 DEF PathInv
  <1> QED BY <1>1, <1>5, <1>6 DEF Measured

(* What a handler that measured holds. *)
LEMMA CountingFacts ==
  ASSUME NEW S, S \subseteq Requests, PathInv(S), NEW p \in CPUs, pc[p] \in {"hist", "create", "relookup", "add"}
  PROVE  /\ req[p] \in S /\ req[p] \in Requests /\ hk[p] \in HistKeys
         /\ hists[hk[p]] \in Elems \cup {None}
         /\ Maps(S) /\ start \in [Keys -> StartElems \cup {None}]
  BY DEF PathInv, TypeOK, Held, Maps, Busy

(* The first lookup of the histogram. *)
LEMMA PathHistLookup ==
  ASSUME NEW S, S \subseteq Requests, PathInv(S), NEW p \in CPUs, HistLookup(p)
  PROVE  PathInv(S)'
  <1> DEFINE h == hk[p]
             next == IF hists[h] = None THEN "create" ELSE "add"
  <1>1. /\ pc[p] = "hist" /\ histp' = [histp EXCEPT ![p] = hists[h]]
        /\ pc' = [pc EXCEPT ![p] = next]
        /\ lossy' = IF hists[h] = None /\ \E q \in CPUs : pc[q] = "create" /\ hk[q] = h
                      THEN lossy \cup {h} ELSE lossy
        /\ UNCHANGED <<request, start, stamp, hists, count, recorded, req, startp, tsp, hk>>
        /\ UNCHANGED <<reused, issues, aliased, missed>>
    BY DEF HistLookup, Advance, startVars
  <1>2. h \in HistKeys /\ hists[h] \in Elems \cup {None} BY <1>1, CountingFacts
  <1>3. next \in {"create", "add"} /\ (next = "add" <=> hists[h] # None) OBVIOUS
  <1>4. lossy \subseteq lossy' /\ lossy' \in SUBSET HistKeys BY <1>1, <1>2 DEF PathInv, TypeOK
  <1>5. /\ pc'[p] = next /\ histp'[p] = hists[h]
        /\ \A q \in CPUs \ {p} : pc'[q] = pc[q] /\ histp'[q] = histp[q]
    BY <1>1 DEF PathInv, TypeOK
  <1>6. TypeOK'
    <2>1. pc' \in [CPUs -> Steps]
      BY <1>1, <1>3 DEF PathInv, TypeOK, Steps
    <2>2. histp' \in [CPUs -> Elems \cup {None}] BY <1>1, <1>2 DEF PathInv, TypeOK
    <2>3. /\ \A q \in CPUs : pc'[q] # "idle" => req'[q] # None
          /\ \A q \in CPUs : pc'[q] \in {"read", "readkey"} => startp'[q] # None
          /\ \A q \in CPUs : pc'[q] \notin {"idle", "read"} => tsp'[q] # None
          /\ \A q \in CPUs : pc'[q] \in {"hist", "create", "relookup", "add"} => hk'[q] # None
          /\ \A q \in CPUs : pc'[q] = "add" => histp'[q] # None
      BY <1>1, <1>3, <1>5 DEF PathInv, TypeOK
    <2> QED BY <1>1, <1>4, <2>1, <2>2, <2>3 DEF PathInv, TypeOK
  <1>7. Held(S)' BY <1>1 DEF PathInv, Held, Maps
  <1>8. Busy' BY <1>1, <1>3, <1>5, SMT DEF PathInv, Busy
  <1>9. Owned' BY <1>1 DEF PathInv, HistInv, Owned
  <1>10. NoLossWithoutRace' BY <1>1, <1>4 DEF PathInv, HistInv, NoLossWithoutRace, Total
  <1>11. Creating'
    <2> SUFFICES ASSUME NEW q \in CPUs, pc'[q] = "create", hk[q] \notin lossy'
                 PROVE  /\ hists[hk[q]] = None
                        /\ \A o \in CPUs : pc'[o] = "create" /\ hk[o] = hk[q] => o = q
      BY <1>1 DEF Creating
    <2>1. CASE q = p
      BY <1>1, <1>3, <1>5, <2>1
    <2>2. CASE q # p
      <3>1. pc[q] = "create" /\ hk[q] \notin lossy BY <1>4, <1>5, <2>2
      <3>2. ASSUME pc'[p] = "create", hk[p] = hk[q] PROVE FALSE BY <1>1, <1>3, <1>5, <3>1, <3>2
      <3> QED BY <1>5, <2>2, <3>1, <3>2 DEF PathInv, HistInv, Creating
    <2> QED BY <2>1, <2>2
  <1>12. Adding'
    <2> SUFFICES ASSUME NEW q \in CPUs, pc'[q] = "add"
                 PROVE  /\ hk[q] \notin lossy' => histp'[q] = hists[hk[q]]
                        /\ \A g \in HistKeys \ lossy' : histp'[q] = hists[g] => hk[q] = g
      BY <1>1, SMT DEF Adding
    <2>1. CASE q = p
      BY <1>2, <1>3, <1>5, <2>1 DEF PathInv, HistInv, Owned
    <2>2. CASE q # p
      BY <1>4, <1>5, <2>2, SMT DEF PathInv, HistInv, Adding
    <2> QED BY <2>1, <2>2
  <1> QED BY <1>6, <1>7, <1>8, <1>9, <1>10, <1>11, <1>12 DEF PathInv, HistInv

(* The histogram is created: over one that is there only when CPUs raced,  *)
(* and in memory a handler points to only where that is noted.             *)
LEMMA PathHistCreate ==
  ASSUME NEW S, S \subseteq Requests, PathInv(S), NEW p \in CPUs, HistCreate(p)
  PROVE  PathInv(S)'
  <1> DEFINE h == hk[p]
  <1>0. PICK gone \in Evictions(hists) : \E e \in Free(hists, gone, Elems) :
          /\ hists' = Updated(hists, h, e, gone)
          /\ count' = [count EXCEPT ![e] = 0]
          /\ lossy' = lossy \cup gone \cup (IF \E q \in CPUs : histp[q] = e THEN {h} ELSE {})
    BY DEF HistCreate
  <1>1. PICK e \in Free(hists, gone, Elems) :
          /\ hists' = Updated(hists, h, e, gone)
          /\ count' = [count EXCEPT ![e] = 0]
          /\ lossy' = lossy \cup gone \cup (IF \E q \in CPUs : histp[q] = e THEN {h} ELSE {})
    BY <1>0
  <1>2. /\ pc[p] = "create" /\ pc' = [pc EXCEPT ![p] = "relookup"]
        /\ UNCHANGED <<request, start, stamp, recorded, req, startp, tsp, hk, histp>>
        /\ UNCHANGED <<reused, issues, aliased, missed>>
    BY DEF HistCreate, Advance, startVars
  <1>3. h \in HistKeys BY <1>2, CountingFacts
  <1>4. DOMAIN hists = HistKeys BY DEF PathInv, TypeOK
  <1>5. gone \subseteq HistKeys BY <1>4 DEF Evictions, Entries
  <1>6. e \in Elems /\ e # None /\ \A g \in HistKeys \ gone : hists[g] # e
    BY <1>4, PathAssumption DEF Free, Entries
  <1>7. /\ hists' = [j \in HistKeys |-> IF j = h THEN e ELSE IF j \in gone THEN None ELSE hists[j]]
    BY <1>1, <1>4 DEF Updated
  <1>8. hists'[h] = e /\ \A g \in HistKeys \ {h} : hists'[g] = IF g \in gone THEN None ELSE hists[g]
    BY <1>3, <1>7
  <1>9. \A g \in HistKeys : g \notin lossy' => g \notin lossy /\ g \notin gone BY <1>1
  <1>10. \A g \in HistKeys \ lossy' : g # h => hists'[g] = hists[g] BY <1>8, <1>9
  <1>11. h \notin lossy' => hists[h] = None /\ \A q \in CPUs : histp[q] # e
    BY <1>1, <1>2, <1>3, <1>9 DEF PathInv, HistInv, Creating
  <1>12. /\ pc'[p] = "relookup"
         /\ \A q \in CPUs \ {p} : pc'[q] = pc[q]
    BY <1>2 DEF PathInv, TypeOK
  <1>13. TypeOK'
    <2>1. hists' \in [HistKeys -> Elems \cup {None}] BY <1>6, <1>7 DEF PathInv, TypeOK
    <2>2. count' \in [Elems -> Nat] BY <1>1 DEF PathInv, TypeOK
    <2>3. lossy' \in SUBSET HistKeys BY <1>1, <1>3, <1>5 DEF PathInv, TypeOK
    <2>4. pc' \in [CPUs -> Steps]
      BY <1>2 DEF PathInv, TypeOK, Steps
    <2>5. /\ \A q \in CPUs : pc'[q] # "idle" => req'[q] # None
          /\ \A q \in CPUs : pc'[q] \in {"read", "readkey"} => startp'[q] # None
          /\ \A q \in CPUs : pc'[q] \notin {"idle", "read"} => tsp'[q] # None
          /\ \A q \in CPUs : pc'[q] \in {"hist", "create", "relookup", "add"} => hk'[q] # None
          /\ \A q \in CPUs : pc'[q] = "add" => histp'[q] # None
      BY <1>2, <1>12 DEF PathInv, TypeOK
    <2> QED BY <1>2, <2>1, <2>2, <2>3, <2>4, <2>5 DEF PathInv, TypeOK
  <1>14. Held(S)' BY <1>2 DEF PathInv, Held, Maps
  <1>15. Busy' BY <1>2, <1>12 DEF PathInv, Busy
  <1>16. Owned'
    <2> SUFFICES ASSUME NEW f \in HistKeys, NEW g \in HistKeys, hists'[f] # None, hists'[f] = hists'[g]
                 PROVE  f = g
      BY DEF Owned
    <2>1. CASE f # h /\ g # h BY <1>8, <2>1 DEF PathInv, HistInv, Owned
    <2>2. CASE f = h /\ g # h BY <1>6, <1>8, <2>2
    <2>3. CASE f # h /\ g = h BY <1>6, <1>8, <2>3
    <2> QED BY <2>1, <2>2, <2>3
  <1>17. Creating'
    <2> SUFFICES ASSUME NEW q \in CPUs, pc'[q] = "create", hk[q] \notin lossy'
                 PROVE  /\ hists'[hk[q]] = None
                        /\ \A o \in CPUs : pc'[o] = "create" /\ hk[o] = hk[q] => o = q
      BY <1>2 DEF Creating
    <2>1. q # p /\ pc[q] = "create" BY <1>12
    <2>2. hk[q] \in HistKeys BY <2>1, CountingFacts
    <2>3. hk[q] \notin lossy BY <1>9, <2>2
    <2>4. hk[q] # h BY <1>2, <2>1, <2>3 DEF PathInv, HistInv, Creating
    <2>5. hists'[hk[q]] = hists[hk[q]] BY <1>10, <2>2, <2>4
    <2>6. \A o \in CPUs : pc'[o] = "create" => pc[o] = "create" BY <1>12
    <2> QED BY <2>1, <2>3, <2>5, <2>6 DEF PathInv, HistInv, Creating
  <1>18. Adding'
    <2> SUFFICES ASSUME NEW q \in CPUs, pc'[q] = "add"
                 PROVE  /\ hk[q] \notin lossy' => histp[q] = hists'[hk[q]]
                        /\ \A g \in HistKeys \ lossy' : histp[q] = hists'[g] => hk[q] = g
      BY <1>2 DEF Adding
    <2>1. q # p /\ pc[q] = "add" BY <1>12
    <2>2. hk[q] \in HistKeys /\ histp[q] # None BY <2>1, CountingFacts DEF PathInv, TypeOK
    <2>3. ASSUME hk[q] \notin lossy' PROVE histp[q] = hists'[hk[q]]
      <3>1. hk[q] \notin lossy /\ histp[q] = hists[hk[q]]
        BY <1>9, <2>1, <2>2, <2>3 DEF PathInv, HistInv, Adding
      <3>2. hk[q] # h BY <1>11, <2>2, <2>3, <3>1
      <3> QED BY <1>10, <2>2, <2>3, <3>1, <3>2
    <2>4. ASSUME NEW g \in HistKeys \ lossy', histp[q] = hists'[g] PROVE hk[q] = g
      <3>1. g # h BY <1>8, <1>11, <2>4
      <3>2. g \notin lossy /\ hists'[g] = hists[g] BY <1>9, <1>10, <3>1
      <3> QED BY <2>1, <2>4, <3>2 DEF PathInv, HistInv, Adding
    <2> QED BY <2>3, <2>4
  <1>19. NoLossWithoutRace'
    <2> SUFFICES ASSUME NEW g \in HistKeys \ lossy'
                 PROVE  (IF hists'[g] = None THEN 0 ELSE count'[hists'[g]]) = recorded[g]
      BY <1>2 DEF NoLossWithoutRace, Total
    <2>1. g \notin lossy BY <1>9
    <2>2. (IF hists[g] = None THEN 0 ELSE count[hists[g]]) = recorded[g]
      BY <2>1 DEF PathInv, HistInv, NoLossWithoutRace, Total
    <2>3. CASE g = h
      <3>1. recorded[g] = 0 BY <1>11, <2>2, <2>3
      <3>2. count'[e] = 0 BY <1>1, <1>6 DEF PathInv, TypeOK
      <3> QED BY <1>6, <1>8, <2>3, <3>1, <3>2
    <2>4. CASE g # h
      <3>1. hists'[g] = hists[g] /\ hists[g] # e BY <1>6, <1>9, <1>10, <2>4
      <3>2. hists[g] # None => count'[hists[g]] = count[hists[g]] BY <1>1, <3>1 DEF PathInv, TypeOK
      <3> QED BY <2>2, <3>1, <3>2
    <2> QED BY <2>3, <2>4
  <1> QED BY <1>13, <1>14, <1>15, <1>16, <1>17, <1>18, <1>19 DEF PathInv, HistInv

(* The second lookup. *)
LEMMA PathHistRelookup ==
  ASSUME NEW S, S \subseteq Requests, PathInv(S), NEW p \in CPUs, HistRelookup(p)
  PROVE  PathInv(S)'
  <1> DEFINE h == hk[p]
  <1>1. /\ pc[p] = "relookup" /\ UNCHANGED <<start, stamp, issues, missed>> /\ UNCHANGED histVars
    BY DEF HistRelookup, startVars
  <1>2. /\ req[p] \in Requests /\ h \in HistKeys /\ hists[h] \in Elems \cup {None}
        /\ start' \in [Keys -> StartElems \cup {None}]
    BY <1>1, CountingFacts
  <1>3. CASE hists[h] = None
    <2>1. Return(p, req[p]) BY <1>3 DEF HistRelookup
    <2> QED BY <1>1, <1>2, <2>1, PathReturn
  <1>4. CASE hists[h] # None
    <2>1. /\ histp' = [histp EXCEPT ![p] = hists[h]] /\ pc' = [pc EXCEPT ![p] = "add"]
          /\ UNCHANGED <<req, startp, tsp, hk, request, aliased, reused>>
      BY <1>4 DEF HistRelookup, Advance
    <2>2. UNCHANGED <<hists, count, recorded, lossy>> BY <1>1 DEF histVars
    <2>3. /\ pc'[p] = "add" /\ histp'[p] = hists[h]
          /\ \A q \in CPUs \ {p} : pc'[q] = pc[q] /\ histp'[q] = histp[q]
      BY <2>1 DEF PathInv, TypeOK
    <2>4. TypeOK' BY <1>1, <1>2, <1>4, <2>1, <2>2 DEF PathInv, TypeOK
    <2>5. Held(S)' BY <1>1, <2>1 DEF PathInv, Held, Maps
    <2>6. Busy' BY <1>1, <1>4, <2>1, <2>3, SMT DEF PathInv, Busy
    <2>7. Owned' /\ NoLossWithoutRace' BY <2>2 DEF PathInv, HistInv, Owned, NoLossWithoutRace, Total
    <2>8. Creating'
      <3>1. Creating BY DEF PathInv, HistInv
      <3>2. \A q \in CPUs : pc'[q] \in {"create", "relookup"} => pc[q] = pc'[q] /\ q # p BY <2>3
      <3> QED BY <2>1, <2>2, <2>3, <3>1, <3>2, SMT DEF Creating
    <2>9. Adding'
      <3> SUFFICES ASSUME NEW q \in CPUs, pc'[q] = "add"
                   PROVE  /\ hk[q] \notin lossy => histp'[q] = hists[hk[q]]
                          /\ \A g \in HistKeys \ lossy : histp'[q] = hists[g] => hk[q] = g
        BY <2>1, <2>2, SMT DEF Adding
      <3>1. CASE q = p BY <1>2, <1>4, <2>3, <3>1 DEF PathInv, HistInv, Owned
      <3>2. CASE q # p BY <2>3, <3>2 DEF PathInv, HistInv, Adding
      <3> QED BY <3>1, <3>2
    <2> QED BY <2>4, <2>5, <2>6, <2>7, <2>8, <2>9 DEF PathInv, HistInv
  <1> QED BY <1>3, <1>4

(* The fetch-and-add. *)
LEMMA PathHistAdd ==
  ASSUME NEW S, S \subseteq Requests, PathInv(S), NEW p \in CPUs, HistAdd(p)
  PROVE  PathInv(S)'
  <1> DEFINE h == hk[p]
             e == histp[p]
  <1>1. /\ pc[p] = "add" /\ count' = [count EXCEPT ![e] = @ + 1]
        /\ recorded' = [recorded EXCEPT ![h] = @ + 1]
        /\ Return(p, req[p]) /\ UNCHANGED <<start, stamp, hists, lossy, issues, missed>>
    BY DEF HistAdd, startVars
  <1>2. /\ req[p] \in Requests /\ h \in HistKeys /\ start' \in [Keys -> StartElems \cup {None}]
    BY <1>1, CountingFacts
  <1>3. e \in Elems BY <1>1 DEF PathInv, TypeOK
  <1>4. count' \in [Elems -> Nat] /\ recorded' \in [HistKeys -> Nat]
    <2>1. count \in [Elems -> Nat] /\ recorded \in [HistKeys -> Nat] BY DEF PathInv, TypeOK
    <2>2. count[e] + 1 \in Nat /\ recorded[h] + 1 \in Nat BY <1>2, <1>3, <2>1, SMT
    <2>3. count' = [count EXCEPT ![e] = count[e] + 1] /\ recorded' = [recorded EXCEPT ![h] = recorded[h] + 1]
      BY <1>1
    <2> HIDE DEF e, h
    <2> QED BY <2>1, <2>2, <2>3
  <1>5. /\ TypeOK' /\ Held(S)' /\ Busy'
        /\ pc'[p] = "idle"
        /\ \A q \in CPUs \ {p} : pc'[q] = pc[q] /\ hk'[q] = hk[q] /\ histp'[q] = histp[q]
    BY <1>1, <1>2, <1>4, ReturnTypes
  <1>6. Owned' BY <1>1 DEF PathInv, HistInv, Owned
  <1>7. Creating'
    <2>1. Creating BY DEF PathInv, HistInv
    <2>2. \A q \in CPUs : pc'[q] = "create" => q # p /\ pc[q] = "create" /\ hk'[q] = hk[q] BY <1>5
    <2> QED BY <1>1, <2>1, <2>2 DEF Creating
  <1>8. Adding'
    <2>1. Adding BY DEF PathInv, HistInv
    <2>2. \A q \in CPUs : pc'[q] = "add" => q # p /\ pc[q] = "add" /\ hk'[q] = hk[q] /\ histp'[q] = histp[q]
      BY <1>5
    <2> QED BY <1>1, <2>1, <2>2, SMT DEF Adding
  <1>9. NoLossWithoutRace'
    <2> SUFFICES ASSUME NEW g \in HistKeys \ lossy
                 PROVE  (IF hists[g] = None THEN 0 ELSE count'[hists[g]]) = recorded'[g]
      BY <1>1 DEF NoLossWithoutRace, Total
    <2>1. (IF hists[g] = None THEN 0 ELSE count[hists[g]]) = recorded[g]
      BY DEF PathInv, HistInv, NoLossWithoutRace, Total
    <2>2. hists[g] \in Elems \cup {None} /\ recorded[g] \in Nat BY DEF PathInv, TypeOK
    <2>3. CASE g = h
      <3>1. hists[g] = e /\ e # None
        BY <1>1, <1>3, <2>3, PathAssumption DEF PathInv, HistInv, Adding
      <3>2. count'[e] = count[e] + 1 /\ recorded'[g] = recorded[g] + 1
        BY <1>1, <1>2, <1>3, <2>3 DEF PathInv, TypeOK
      <3> QED BY <2>1, <3>1, <3>2
    <2>4. CASE g # h
      <3>1. hists[g] # e BY <1>1, <2>4 DEF PathInv, HistInv, Adding
      <3>2. recorded'[g] = recorded[g] BY <1>1, <2>4 DEF PathInv, TypeOK
      <3>3. hists[g] # None => count'[hists[g]] = count[hists[g]]
        BY <1>1, <2>2, <3>1 DEF PathInv, TypeOK
      <3> QED BY <2>1, <3>2, <3>3
    <2> QED BY <2>3, <2>4
  <1> QED BY <1>5, <1>6, <1>7, <1>8, <1>9 DEF PathInv, HistInv

(* Every step on the histograms. *)
LEMMA PathCount ==
  ASSUME NEW S, S \subseteq Requests, PathInv(S), NEW p \in CPUs, Count(p)
  PROVE  PathInv(S)'
  BY PathHistLookup, PathHistCreate, PathHistRelookup, PathHistAdd DEF Count
-----------------------------------------------------------------------------
Keyed(S, K) == S \subseteq Requests /\ K \in [S -> Keys]

Peers(S, K, r) == {s \in S : K[s] = K[r]}

Types(S) ==
    /\ request \in [Requests -> {"idle", "inflight", "completing"}]
    /\ pc \in [CPUs -> Steps]
    /\ Held(S)
    /\ Busy

(* A start in the map is that of a request of its key which is in flight,  *)
(* or about to be deleted by the handler of that request's completion.     *)
Deleting(p, r) == req[p] = r /\ pc[p] \in {"read", "readkey", "delete"}

StartsLive(K) ==
    \A k \in Keys : Started[k] # None =>
        /\ K[Started[k]] = k
        /\ request[Started[k]] = "inflight" \/ \E p \in CPUs : Deleting(p, Started[k])

(* Requests of one key in flight together are known to be. *)
AliasesKnown(S, K) ==
    \A r, s \in S : r # s /\ K[r] = K[s] /\ request[r] # "idle" /\ request[s] # "idle" => r \in aliased

(* What a handler points to is the start of its own request, under the     *)
(* conditions of PairedUnlessAliased.                                      *)
PointsToOwn ==
    \A p \in CPUs \ reused : startp[p] # None /\ req[p] \notin aliased => stamp[startp[p]] = req[p]

PairInv(S, K) ==
    Handled /\ StartsLive(K) /\ AliasesKnown(S, K) /\ PointsToOwn /\ PairedUnlessAliased

Inv(S, K) == PathInv(S) /\ PairInv(S, K)
-----------------------------------------------------------------------------
LEMMA PathTypes ==
  ASSUME NEW S, PathInv(S)
  PROVE  Types(S)
  BY DEF PathInv, TypeOK, Types, Steps

LEMMA StartedTypes ==
  ASSUME NEW S, NEW K, Keyed(S, K), Types(S)
  PROVE  /\ Started \in [Keys -> S \cup {None}]
         /\ \A k \in Keys : Started[k] # None => Started[k] \in Requests
         /\ \A k \in Keys : start[k] # None => Started[k] = stamp[start[k]] /\ Started[k] # None
         /\ \A k \in Keys : start[k] = None => Started[k] = None
  BY StartedFacts DEF Types, Held, Keyed

(* Init: no handler runs and the map of starts is empty. *)
LEMMA InvInit ==
  ASSUME NEW S, NEW K, Keyed(S, K), Init
  PROVE  Inv(S, K)
  <1>1. PathInv(S) BY PathInit
  <1>2. Handled /\ PointsToOwn /\ PairedUnlessAliased
    BY DEF Init, Handled, PointsToOwn, PairedUnlessAliased
  <1>3. StartsLive(K) BY DEF Init, StartsLive, Started
  <1>4. AliasesKnown(S, K) BY DEF Init, AliasesKnown, Keyed
  <1> QED BY <1>1, <1>2, <1>3, <1>4 DEF Inv, PairInv

(* A request begins, and with it the overlaps it makes are known. *)
LEMMA BeginsKnown ==
  ASSUME NEW S, NEW K, Keyed(S, K), Types(S), AliasesKnown(S, K), NEW r \in S,
         Begins(r, Peers(S, K, r)), request[r] \in {"idle", "inflight"}
  PROVE  /\ aliased \subseteq aliased'
         /\ \A s \in Requests : s # r => request'[s] = request[s]
         /\ request'[r] = "inflight"
         /\ AliasesKnown(S, K)'
  <1> DEFINE others == {s \in Peers(S, K, r) \ {r} : request[s] # "idle"}
  <1>1. /\ request' = [request EXCEPT ![r] = "inflight"]
        /\ aliased' = IF others = {} THEN aliased ELSE aliased \cup others \cup {r}
    BY DEF Begins
  <1>2. r \in Requests BY DEF Keyed
  <1>3. /\ \A s \in Requests : s # r => request'[s] = request[s]
        /\ request'[r] = "inflight"
    BY <1>1, <1>2 DEF Types
  <1>4. aliased \subseteq aliased' BY <1>1
  <1>5. ASSUME NEW a \in S, NEW b \in S, a # b, K[a] = K[b], request'[a] # "idle", request'[b] # "idle"
        PROVE  a \in aliased'
    <2> a \in Requests /\ b \in Requests BY DEF Keyed
    <2>1. CASE a # r /\ b # r BY <1>3, <1>4, <1>5, <2>1 DEF AliasesKnown
    <2>2. CASE a = r
      <3>1. b \in others BY <1>3, <1>5, <2>2 DEF Peers
      <3> QED BY <1>1, <2>2, <3>1
    <2>3. CASE b = r
      <3>1. a \in others BY <1>3, <1>5, <2>3 DEF Peers
      <3> QED BY <1>1, <3>1
    <2> QED BY <2>1, <2>2, <2>3
  <1>6. AliasesKnown(S, K)' BY <1>5 DEF AliasesKnown
  <1> QED BY <1>3, <1>4, <1>6

(* What stays true when a request begins and its start, if any, is stored: *)
(* the handlers are where they were.                                       *)
LEMMA BeginsPaired ==
  ASSUME NEW S, NEW K, Keyed(S, K), Types(S), PairInv(S, K), NEW r \in S,
         Begins(r, Peers(S, K, r)), request[r] \in {"idle", "inflight"}, UNCHANGED handler,
         reused \subseteq reused',
         \A p \in CPUs \ reused' : startp[p] # None => stamp'[startp[p]] = stamp[startp[p]],
         \A k \in Keys : Started'[k] \in {Started[k], None} \/ (k = K[r] /\ Started'[k] = r)
  PROVE  PairInv(S, K)'
  <1>1. /\ aliased \subseteq aliased'
        /\ \A s \in Requests : s # r => request'[s] = request[s]
        /\ request'[r] = "inflight"
        /\ AliasesKnown(S, K)'
    BY BeginsKnown DEF PairInv
  <1>2. UNCHANGED <<pc, req, startp, tsp>> BY DEF handler
  <1>3. \A p \in CPUs : req[p] # r BY PathAssumption DEF PairInv, Handled, Types, Keyed
  <1>4. Handled' BY <1>1, <1>2, <1>3 DEF PairInv, Handled, Types, Held, Keyed
  <1>5. StartsLive(K)'
    <2> SUFFICES ASSUME NEW k \in Keys, Started'[k] # None
                 PROVE  /\ K[Started'[k]] = k
                        /\ \/ request'[Started'[k]] = "inflight"
                           \/ \E p \in CPUs : Deleting(p, Started[k])'
      BY DEF StartsLive
    <2>1. CASE Started'[k] = r /\ k = K[r] BY <1>1, <2>1
    <2>2. CASE Started'[k] = Started[k]
      <3>1. Started[k] \in Requests BY <2>2, StartedTypes
      <3>2. K[Started[k]] = k BY <2>2 DEF PairInv, StartsLive
      <3>3. CASE request[Started[k]] = "inflight" BY <1>1, <2>2, <3>1, <3>2, <3>3
      <3>4. CASE \E p \in CPUs : Deleting(p, Started[k])
        BY <1>2, <2>2, <3>2, <3>4 DEF Deleting
      <3> QED BY <2>2, <3>3, <3>4 DEF PairInv, StartsLive
    <2> QED BY <2>1, <2>2
  <1>6. PairedUnlessAliased' BY <1>1, <1>2 DEF PairInv, PairedUnlessAliased
  <1>7. PointsToOwn' BY <1>1, <1>2 DEF PairInv, PointsToOwn
  <1> QED BY <1>1, <1>4, <1>5, <1>6, <1>7 DEF PairInv

(* A handler returns, after a lookup that found nothing or at its end, and *)
(* the start of its request is not in the map.                             *)
LEMMA ReturnPaired ==
  ASSUME NEW S, NEW K, Keyed(S, K), Types(S), PairInv(S, K), NEW p \in CPUs, NEW r \in S, Return(p, r),
         req[p] = r \/ (pc[p] = "idle" /\ request[r] = "inflight"),
         UNCHANGED stamp, \A k \in Keys : Started'[k] \in {Started[k], None} /\ Started'[k] # r
  PROVE  PairInv(S, K)'
  <1>1. r \in Requests /\ r # None BY PathAssumption DEF Keyed
  <1>2. /\ pc' = [pc EXCEPT ![p] = "idle"]
        /\ req' = [req EXCEPT ![p] = None]
        /\ startp' = [startp EXCEPT ![p] = None]
        /\ tsp' = [tsp EXCEPT ![p] = None]
        /\ request' = [request EXCEPT ![r] = "idle"]
        /\ aliased' = aliased \ {r} /\ reused' = reused \ {p}
    BY DEF Return
  <1>3. \A q \in CPUs : q # p => req[q] # r BY <1>1 DEF PairInv, Handled
  <1>4. Handled' BY <1>1, <1>2, <1>3 DEF PairInv, Handled, Types, Held, Keyed
  <1>5. StartsLive(K)'
    <2> SUFFICES ASSUME NEW k \in Keys, Started'[k] # None
                 PROVE  /\ K[Started'[k]] = k
                        /\ \/ request'[Started'[k]] = "inflight"
                           \/ \E q \in CPUs : Deleting(q, Started[k])'
      BY DEF StartsLive
    <2>1. Started'[k] = Started[k] /\ Started[k] # r /\ Started[k] # None /\ Started[k] \in Requests
      BY StartedTypes
    <2>2. K[Started[k]] = k BY <2>1 DEF PairInv, StartsLive
    <2>3. CASE request[Started[k]] = "inflight" BY <1>1, <1>2, <2>1, <2>2, <2>3 DEF Types
    <2>4. CASE \E q \in CPUs : Deleting(q, Started[k])
      <3>1. PICK q \in CPUs : Deleting(q, Started[k]) BY <2>4
      <3>2. q # p BY <2>1, <3>1, PathAssumption DEF Deleting, Types, Busy
      <3> QED BY <1>2, <2>1, <2>2, <3>1, <3>2 DEF Types, Held, Deleting
    <2> QED BY <2>1, <2>3, <2>4 DEF PairInv, StartsLive
  <1>6. AliasesKnown(S, K)' BY <1>1, <1>2 DEF PairInv, AliasesKnown, Types, Keyed
  <1>7. ASSUME NEW q \in CPUs \ reused', q # p, req'[q] \notin aliased'
        PROVE  q \in CPUs \ reused /\ req[q] \notin aliased
    BY <1>2, <1>3, <1>7 DEF Types, Held
  <1>8. PairedUnlessAliased' BY <1>2, <1>7 DEF PairInv, PairedUnlessAliased, Types, Held
  <1>9. PointsToOwn' BY <1>2, <1>7 DEF PairInv, PointsToOwn, Types, Held, Maps
  <1> QED BY <1>4, <1>5, <1>6, <1>8, <1>9 DEF PairInv

(* A handler goes on to its next step and stays with its request; when it  *)
(* leaves the deletion behind, the start of its request is not in the map. *)
LEMMA AdvancePaired ==
  ASSUME NEW S, NEW K, Keyed(S, K), Types(S), PairInv(S, K), NEW p \in CPUs,
         NEW next \in {"hist", "create", "relookup", "add"},
         pc[p] # "idle", Advance(p, next), UNCHANGED <<stamp, req, startp, tsp, request, aliased, reused>>,
         \A k \in Keys : Started'[k] \in {Started[k], None},
         \A k \in Keys : Started'[k] # req[p]
  PROVE  PairInv(S, K)'
  <1>1. pc' = [pc EXCEPT ![p] = next] BY DEF Advance
  <1>2. Handled' /\ PointsToOwn' /\ PairedUnlessAliased'
    BY DEF PairInv, Handled, PointsToOwn, PairedUnlessAliased
  <1>3. StartsLive(K)'
    <2> SUFFICES ASSUME NEW k \in Keys, Started'[k] # None
                 PROVE  /\ K[Started'[k]] = k
                        /\ \/ request'[Started'[k]] = "inflight"
                           \/ \E q \in CPUs : Deleting(q, Started[k])'
      BY DEF StartsLive
    <2>1. Started'[k] = Started[k] /\ Started[k] # None OBVIOUS
    <2>2. K[Started[k]] = k BY <2>1 DEF PairInv, StartsLive
    <2>3. CASE request[Started[k]] = "inflight" BY <2>1, <2>2, <2>3
    <2>4. CASE \E q \in CPUs : Deleting(q, Started[k])
      <3>1. PICK q \in CPUs : Deleting(q, Started[k]) BY <2>4
      <3>2. q # p BY <2>1, <3>1 DEF Deleting
      <3> QED BY <1>1, <2>1, <2>2, <3>1, <3>2 DEF Types, Deleting
    <2> QED BY <2>1, <2>3, <2>4 DEF PairInv, StartsLive
  <1>4. AliasesKnown(S, K)' BY DEF PairInv, AliasesKnown
  <1> QED BY <1>2, <1>3, <1>4 DEF PairInv

(* The completion of r finds a start: its own, or that of another request  *)
(* of its key, which is then known to overlap with it.                     *)
LEMMA LookupPaired ==
  ASSUME NEW S, NEW K, Keyed(S, K), Types(S), PairInv(S, K), NEW p \in CPUs, NEW r \in S,
         LookupStart(p, r, K[r])
  PROVE  PairInv(S, K)'
  <1> DEFINE k == K[r]
  <1>1. r \in Requests /\ r # None /\ k \in Keys BY PathAssumption DEF Keyed
  <1>2. /\ pc[p] = "idle" /\ request[r] = "inflight" /\ UNCHANGED <<start, stamp>>
        /\ Started' = Started
    BY DEF LookupStart, startVars, Started
  <1>3. \A q \in CPUs : req[q] # r BY <1>1, <1>2 DEF PairInv, Handled
  <1>4. CASE start[k] = None /\ Return(p, r)
    <2>1. \A j \in Keys : Started'[j] \in {Started[j], None} /\ Started'[j] # r
      BY <1>1, <1>2, <1>4, StartedTypes DEF PairInv, StartsLive
    <2> QED BY <1>2, <1>4, <2>1, ReturnPaired
  <1>5. CASE /\ start[k] # None
             /\ Advance(p, "read")
             /\ req' = [req EXCEPT ![p] = r]
             /\ startp' = [startp EXCEPT ![p] = start[k]]
             /\ request' = [request EXCEPT ![r] = "completing"]
             /\ UNCHANGED <<tsp, hk, histp, aliased, reused>>
    <2>1. pc' = [pc EXCEPT ![p] = "read"] BY <1>5 DEF Advance
    <2>2. /\ Started[k] \in S /\ Started[k] \in Requests /\ Started[k] # None
          /\ Started[k] = stamp[start[k]]
      BY <1>1, <1>5, StartedTypes, ZenonT(60)
    <2>3. Handled' BY <1>1, <1>3, <1>5 DEF PairInv, Handled, Types, Held, Keyed
    <2>4. StartsLive(K)'
      <3> SUFFICES ASSUME NEW j \in Keys, Started[j] # None
                   PROVE  /\ K[Started[j]] = j
                          /\ \/ request'[Started[j]] = "inflight"
                             \/ \E q \in CPUs : Deleting(q, Started[j])'
        BY <1>2 DEF StartsLive
      <3>1. K[Started[j]] = j /\ Started[j] \in Requests
        BY StartedTypes DEF PairInv, StartsLive
      <3>2. CASE Started[j] = r BY <1>2, <1>5, <2>1, <3>1, <3>2 DEF Types, Held, Deleting
      <3>3. CASE Started[j] # r /\ request[Started[j]] = "inflight" BY <1>5, <3>1, <3>3 DEF Types
      <3>4. CASE \E q \in CPUs : Deleting(q, Started[j])
        <4>1. PICK q \in CPUs : Deleting(q, Started[j]) BY <3>4
        <4>2. q # p BY <1>2, <4>1 DEF Deleting
        <4> QED BY <1>2, <1>5, <2>1, <3>1, <4>1, <4>2 DEF Types, Held, Deleting
      <3> QED BY <3>2, <3>3, <3>4 DEF PairInv, StartsLive
    <2>5. AliasesKnown(S, K)' BY <1>1, <1>2, <1>5 DEF PairInv, AliasesKnown, Types, Keyed
    <2>6. Started[k] # r => r \in aliased
      <3>1. K[Started[k]] = K[r] BY <1>1, <2>2 DEF PairInv, StartsLive
      <3>2. request[Started[k]] # "idle" BY <1>1, <2>2 DEF PairInv, StartsLive, Handled, Deleting
      <3> QED BY <1>2, <2>2, <3>1, <3>2 DEF PairInv, AliasesKnown
    <2>7. tsp[p] = None BY <1>2 DEF Types, Busy
    <2>8. PairedUnlessAliased' BY <1>5, <2>7 DEF PairInv, PairedUnlessAliased, Types, Held
    <2>9. PointsToOwn' BY <1>2, <1>5, <2>2, <2>6 DEF PairInv, PointsToOwn, Types, Held, Maps
    <2> QED BY <2>3, <2>4, <2>5, <2>8, <2>9 DEF PairInv
  <1> QED BY <1>4, <1>5 DEF LookupStart

(* The handler reads the timestamp: its own request's, if it was its own   *)
(* at the lookup and the element was not reused since.                     *)
LEMMA ReadPaired ==
  ASSUME NEW S, NEW K, Keyed(S, K), Types(S), PairInv(S, K), NEW p \in CPUs, ReadStart(p)
  PROVE  PairInv(S, K)'
  <1>1. /\ pc[p] = "read" /\ pc' = [pc EXCEPT ![p] = "delete"]
        /\ tsp' = [tsp EXCEPT ![p] = stamp[startp[p]]]
        /\ startp' = [startp EXCEPT ![p] = None]
        /\ UNCHANGED <<start, stamp, req, request, aliased, reused>>
        /\ Started' = Started
    BY DEF ReadStart, Advance, startVars, Started
  <1>2. Handled' /\ AliasesKnown(S, K)' BY <1>1 DEF PairInv, Handled, AliasesKnown
  <1>3. ASSUME NEW q \in CPUs, NEW r, Deleting(q, r)
        PROVE  req'[q] = r /\ pc'[q] \in {"read", "readkey", "delete"}
    BY <1>1, <1>3 DEF Deleting, Types
  <1>4. StartsLive(K)'
    <2> SUFFICES ASSUME NEW k \in Keys, Started[k] # None
                 PROVE  /\ K[Started[k]] = k
                        /\ \/ request[Started[k]] = "inflight"
                           \/ \E q \in CPUs : req'[q] = Started[k] /\ pc'[q] \in {"read", "readkey", "delete"}
      BY <1>1 DEF StartsLive, Deleting
    <2> QED BY <1>3 DEF PairInv, StartsLive
  <1>5. startp[p] # None BY <1>1 DEF Types, Busy
  <1>6. PointsToOwn' BY <1>1 DEF PairInv, PointsToOwn, Types, Held, Maps
  <1>7. PairedUnlessAliased'
    BY <1>1, <1>5 DEF PairInv, PointsToOwn, PairedUnlessAliased, Types, Held
  <1> QED BY <1>2, <1>4, <1>6, <1>7 DEF PairInv

(* The handler deletes the start and goes on, or returns for an operation  *)
(* that is not counted.                                                    *)
LEMMA DeletePaired ==
  ASSUME NEW S, NEW K, Keyed(S, K), Types(S), PairInv(S, K), NEW p \in CPUs, NEW h,
         DeleteStart(p, K[req[p]], h)
  PROVE  PairInv(S, K)'
  <1> DEFINE k == K[req[p]]
  <1>1. start' = [start EXCEPT ![k] = None] /\ UNCHANGED stamp /\ pc[p] = "delete" BY DEF DeleteStart
  <1>2. req[p] \in S /\ req[p] # None BY <1>1, PathAssumption DEF Types, Held, Busy
  <1>3. \A j \in Keys : Started'[j] \in {Started[j], None} /\ Started'[j] # req[p]
    <2> SUFFICES ASSUME NEW j \in Keys
                 PROVE  Started'[j] \in {Started[j], None} /\ Started'[j] # req[p]
      OBVIOUS
    <2>1. CASE j = k BY <1>1, <1>2, <2>1 DEF Types, Held, Maps, Started
    <2>2. CASE j # k
      <3>1. Started'[j] = Started[j] BY <1>1, <2>2 DEF Types, Held, Maps, Started
      <3> QED BY <1>2, <2>2, <3>1 DEF PairInv, StartsLive
    <2> QED BY <2>1, <2>2
  <1>4. CASE Return(p, req[p]) BY <1>1, <1>2, <1>3, <1>4, ReturnPaired
  <1>5. CASE Advance(p, "hist") /\ UNCHANGED <<req, startp, tsp, histp, request, aliased, reused>>
    BY <1>1, <1>3, <1>5, AdvancePaired
  <1> QED BY <1>4, <1>5 DEF DeleteStart, Measured

(* The steps on the histogram leave the starts alone. *)
LEMMA CountPaired ==
  ASSUME NEW S, NEW K, Keyed(S, K), Types(S), PairInv(S, K), NEW p \in CPUs, Count(p)
  PROVE  PairInv(S, K)'
  <1>1. /\ UNCHANGED <<start, stamp>> /\ pc[p] \in {"hist", "create", "relookup", "add"}
        /\ Started' = Started
    BY DEF Count, HistLookup, HistCreate, HistRelookup, HistAdd, startVars, Started
  <1>2. req[p] \in S /\ req[p] # None BY <1>1, PathAssumption DEF Types, Held, Busy
  <1>3. \A k \in Keys : Started'[k] # req[p]
    <2> SUFFICES ASSUME NEW k \in Keys, Started[k] = req[p]
                 PROVE  FALSE
      BY <1>1
    <2>1. request[req[p]] = "completing" BY <1>2 DEF PairInv, Handled
    <2>2. PICK q \in CPUs : Deleting(q, Started[k])
      BY <1>2, <2>1 DEF PairInv, StartsLive
    <2>3. q = p BY <1>2, <2>2 DEF PairInv, Handled, Deleting
    <2> QED BY <1>1, <2>2, <2>3 DEF Deleting
  <1>4. CASE Return(p, req[p]) BY <1>1, <1>2, <1>3, <1>4, ReturnPaired
  <1>5. ASSUME NEW next \in {"create", "relookup", "add"}, Advance(p, next),
               UNCHANGED <<req, startp, tsp, request, aliased, reused>>
        PROVE  PairInv(S, K)'
    BY <1>1, <1>3, <1>5, AdvancePaired
  <1>6. CASE HistLookup(p) BY <1>5, <1>6 DEF HistLookup
  <1>7. CASE HistCreate(p) BY <1>5, <1>7 DEF HistCreate
  <1>8. CASE HistRelookup(p) BY <1>4, <1>5, <1>8 DEF HistRelookup
  <1>9. CASE HistAdd(p) BY <1>4, <1>9 DEF HistAdd
  <1> QED BY <1>6, <1>7, <1>8, <1>9 DEF Count
-----------------------------------------------------------------------------
(* The steps of such a program keep the whole invariant. *)

LEMMA BeginsInv ==
  ASSUME NEW S, NEW K, Keyed(S, K), Inv(S, K), NEW r \in S, Begins(r, Peers(S, K, r)),
         request[r] \in {"idle", "inflight"}, UNCHANGED <<histVars, handler>>,
         StoreStart(K[r], r) \/ UNCHANGED <<startVars, reused, missed>>
  PROVE  Inv(S, K)'
  <1>1. PathInv(S) /\ PairInv(S, K) /\ Types(S) /\ TypeOK BY PathTypes DEF Inv, PathInv
  <1>2. /\ r \in Requests /\ Peers(S, K, r) \in SUBSET Requests /\ S \subseteq Requests
        /\ r # None /\ K[r] \in Keys
    BY PathAssumption DEF Keyed, Peers
  <1>3. /\ request' \in [Requests -> {"idle", "inflight", "completing"}]
        /\ aliased' \in SUBSET Requests
        /\ issues' \in 0..MaxIssues
    BY <1>1, <1>2, BeginsType
  <1>4. startp' = startp BY DEF handler
  <1>5. /\ Maps(S)' /\ missed' \in SUBSET Keys
        /\ reused' \in SUBSET CPUs /\ reused \subseteq reused'
        /\ \A k \in Keys : Started'[k] \in {Started[k], None} \/ (k = K[r] /\ Started'[k] = r)
        /\ \A p \in CPUs \ reused' : startp[p] # None => stamp'[startp[p]] = stamp[startp[p]]
    <2>1. CASE StoreStart(K[r], r) BY <1>1, <1>2, <1>4, <2>1, StoreStartShape
    <2>2. CASE UNCHANGED <<startVars, reused, missed>>
      <3>1. UNCHANGED <<start, stamp, reused, missed>> BY <2>2 DEF startVars
      <3>2. Started' = Started BY <3>1 DEF Started
      <3> QED BY <1>1, <1>4, <3>1, <3>2 DEF PathInv, Held, Maps, TypeOK
    <2> QED BY <2>1, <2>2
  <1>6. PathInv(S)' BY <1>1, <1>2, <1>3, <1>5, PathStart
  <1>7. PairInv(S, K)' BY <1>1, <1>5, BeginsPaired
  <1> QED BY <1>6, <1>7 DEF Inv

LEMMA LookupInv ==
  ASSUME NEW S, NEW K, Keyed(S, K), Inv(S, K), NEW p \in CPUs, NEW r \in S, LookupStart(p, r, K[r])
  PROVE  Inv(S, K)'
  <1>1. PathInv(S) /\ PairInv(S, K) /\ Types(S) BY PathTypes DEF Inv
  <1>2. S \subseteq Requests /\ K[r] \in Keys BY DEF Keyed
  <1>3. PathInv(S)' BY <1>1, <1>2, PathLookup
  <1>4. PairInv(S, K)' BY <1>1, LookupPaired
  <1> QED BY <1>3, <1>4 DEF Inv

LEMMA ReadInv ==
  ASSUME NEW S, NEW K, Keyed(S, K), Inv(S, K), NEW p \in CPUs, ReadStart(p)
  PROVE  Inv(S, K)'
  <1>1. PathInv(S) /\ PairInv(S, K) /\ Types(S) /\ S \subseteq Requests BY PathTypes DEF Inv, Keyed
  <1>2. /\ pc[p] \in {"read", "readkey"} /\ Advance(p, "delete") /\ hk' = hk
        /\ tsp' = [tsp EXCEPT ![p] = stamp[startp[p]]]
        /\ startp' = [startp EXCEPT ![p] = None]
        /\ UNCHANGED <<request, startVars, histVars, req, histp, reused, issues, aliased, missed>>
    BY DEF ReadStart
  <1>3. PathInv(S)'
    <2>1. PICK next \in {"readkey", "delete"} : next = "delete" OBVIOUS
    <2>2. Advance(p, next) BY <1>2, <2>1
    <2>3. next # "readkey" BY <2>1
    <2> QED BY <1>1, <1>2, <2>2, <2>3, PathRead
  <1>4. PairInv(S, K)' BY <1>1, ReadPaired
  <1> QED BY <1>3, <1>4 DEF Inv

LEMMA DeleteInv ==
  ASSUME NEW S, NEW K, Keyed(S, K), Inv(S, K), NEW p \in CPUs, NEW h,
         req[p] \in S => h \in HistKeys \cup {None},
         DeleteStart(p, K[req[p]], h)
  PROVE  Inv(S, K)'
  <1>1. PathInv(S) /\ PairInv(S, K) /\ Types(S) /\ S \subseteq Requests BY PathTypes DEF Inv, Keyed
  <1>2. pc[p] = "delete" BY DEF DeleteStart
  <1>3. req[p] \in S BY <1>1, <1>2 DEF Types, Held, Busy
  <1>4. PathInv(S)' BY <1>1, <1>3, PathDelete
  <1>5. PairInv(S, K)' BY <1>1, DeletePaired
  <1> QED BY <1>4, <1>5 DEF Inv

LEMMA CountInv ==
  ASSUME NEW S, NEW K, Keyed(S, K), Inv(S, K), NEW p \in CPUs, Count(p)
  PROVE  Inv(S, K)'
  <1>1. PathInv(S) /\ PairInv(S, K) /\ Types(S) /\ S \subseteq Requests BY PathTypes DEF Inv, Keyed
  <1>2. PathInv(S)' BY <1>1, PathCount
  <1>3. PairInv(S, K)' BY <1>1, CountPaired
  <1> QED BY <1>2, <1>3 DEF Inv

LEMMA StutterInv ==
  ASSUME NEW S, NEW K, Keyed(S, K), Inv(S, K), UNCHANGED vars
  PROVE  Inv(S, K)'
  <1>1. /\ UNCHANGED <<histVars, handler>>
        /\ UNCHANGED <<request, start, stamp, pc, req, startp, tsp, reused, aliased, issues, missed>>
        /\ Started' = Started
    BY DEF vars, handler, startVars, Started
  <1>2. PathInv(S)'
    <2>1. TypeOK /\ Held(S) /\ S \subseteq Requests /\ PathInv(S) BY DEF Inv, PathInv, Keyed
    <2>2. /\ request' \in [Requests -> {"idle", "inflight", "completing"}]
          /\ Maps(S)' /\ reused' \in SUBSET CPUs
          /\ aliased' \in SUBSET Requests /\ issues' \in 0..MaxIssues /\ missed' \in SUBSET Keys
      BY <1>1, <2>1 DEF TypeOK, Held, Maps
    <2> QED BY <1>1, <2>1, <2>2, PathStart
  <1>3. Handled' /\ PointsToOwn' /\ PairedUnlessAliased'
    BY <1>1 DEF Inv, PairInv, Handled, PointsToOwn, PairedUnlessAliased
  <1>4. StartsLive(K)' BY <1>1 DEF Inv, PairInv, StartsLive, Deleting
  <1>5. AliasesKnown(S, K)' BY <1>1 DEF Inv, PairInv, AliasesKnown
  <1> QED BY <1>2, <1>3, <1>4, <1>5 DEF Inv, PairInv

(* What the invariant is for. *)
LEMMA InvSafe ==
  ASSUME NEW S, NEW K, Inv(S, K)
  PROVE  TypeOK /\ PairedUnlessAliased /\ NoStaleStart /\ NoLossWithoutRace
  <1>1. TypeOK /\ PairedUnlessAliased /\ NoLossWithoutRace BY DEF Inv, PathInv, HistInv, PairInv
  <1>2. ASSUME NEW k \in Entries(start) \ missed PROVE request[stamp[start[k]]] # "idle"
    <2>1. k \in Keys /\ start[k] # None BY <1>1 DEF Entries, TypeOK
    <2>2. Started[k] = stamp[start[k]] /\ Started[k] # None
      BY <2>1, StartedFacts DEF Inv, PathInv, Held
    <2> QED BY <2>1, <2>2 DEF Inv, PairInv, StartsLive, Handled, Deleting
  <1> QED BY <1>1, <1>2 DEF NoStaleStart
-----------------------------------------------------------------------------
(* block_latency.c *)

BlockKey == [r \in BlockRequests |-> req_key(r)]

BlockInv == Inv(BlockRequests, BlockKey)

LEMMA BlockStep ==
  ASSUME BlockConstants, BlockInv, [BlockNext]_vars
  PROVE  BlockInv'
  <1> DEFINE S == BlockRequests
             K == BlockKey
  <1>1. Keyed(S, K) BY DEF BlockConstants, Keyed, BlockKey
  <1>2. /\ \A r \in S : K[r] = req_key(r) /\ Peers(S, K, r) = BlockPeers(r)
        /\ \A r \in S : block_hist_key(r) \in HistKeys \cup {None}
    BY DEF BlockKey, Peers, BlockPeers, BlockConstants
  <1>3. Inv(S, K) BY DEF BlockInv
  <1> SUFFICES Inv(S, K)' BY DEF BlockInv
  <1> HIDE DEF S, K
  <1>4. ASSUME NEW r \in S, block_rq_issue(r) PROVE Inv(S, K)'
    <2>1. /\ Begins(r, Peers(S, K, r)) /\ request[r] \in {"idle", "inflight"}
          /\ UNCHANGED <<histVars, handler>>
          /\ StoreStart(K[r], r) \/ UNCHANGED <<startVars, reused, missed>>
      BY <1>2, <1>4 DEF block_rq_issue
    <2> QED BY <1>1, <1>3, <2>1, BeginsInv
  <1>5. ASSUME NEW r \in S, block_rq_untimed(r) PROVE Inv(S, K)'
    <2>1. /\ Begins(r, Peers(S, K, r)) /\ request[r] \in {"idle", "inflight"}
          /\ UNCHANGED <<histVars, handler>> /\ UNCHANGED <<startVars, reused, missed>>
      BY <1>2, <1>5 DEF block_rq_untimed, BeginsUntimed
    <2> QED BY <1>1, <1>3, <2>1, BeginsInv
  <1>6. ASSUME NEW p \in CPUs, NEW r \in S, LookupStart(p, r, req_key(r)) PROVE Inv(S, K)'
    BY <1>1, <1>2, <1>3, <1>6, LookupInv
  <1>7. ASSUME NEW p \in CPUs, DeleteStart(p, req_key(req[p]), block_hist_key(req[p]))
        PROVE  Inv(S, K)'
    <2>1. pc[p] = "delete" BY <1>7 DEF DeleteStart
    <2>2. req[p] \in S BY <1>3, <2>1 DEF Inv, PathInv, Held, Busy
    <2>3. DeleteStart(p, K[req[p]], block_hist_key(req[p])) BY <1>2, <1>7, <2>2
    <2> QED BY <1>1, <1>2, <1>3, <2>2, <2>3, DeleteInv
  <1>8. ASSUME NEW p \in CPUs, Count(p) PROVE Inv(S, K)' BY <1>1, <1>3, <1>8, CountInv
  <1>9. ASSUME NEW p \in CPUs, ReadStart(p) PROVE Inv(S, K)' BY <1>1, <1>3, <1>9, ReadInv
  <1>10. CASE UNCHANGED vars BY <1>1, <1>3, <1>10, StutterInv
  <1> QED BY <1>4, <1>5, <1>6, <1>7, <1>8, <1>9, <1>10 DEF BlockNext, block_rq_complete, S

(* The invariant holds for every number of CPUs and requests and any size  *)
(* of the maps of block_latency.c.                                         *)
THEOREM BlockInvariance == BlockConstants => (BlockSpec => []BlockInv)
  <1> SUFFICES ASSUME BlockConstants PROVE BlockSpec => []BlockInv
    OBVIOUS
  <1>1. Init => BlockInv
    <2>1. Keyed(BlockRequests, BlockKey) BY DEF BlockConstants, Keyed, BlockKey
    <2> QED BY <2>1, InvInit DEF BlockInv
  <1>2. BlockInv /\ [BlockNext]_vars => BlockInv' BY BlockStep
  <1> QED BY <1>1, <1>2, PTL DEF BlockSpec

(* What the invariant gives: every variable keeps its type.  A handler     *)
(* past the lookup has a request, one past the read a timestamp, and one   *)
(* that adds points to a histogram.                                        *)
THEOREM BlockTypes == BlockConstants => (BlockSpec => []TypeOK)
  <1>1. BlockInv => TypeOK BY InvSafe DEF BlockInv
  <1> QED BY <1>1, BlockInvariance, PTL

(* block_rq_complete measures from the start of the request that           *)
(* completes, whatever was evicted between its lookup and its read, unless *)
(* another request of its device and sector was in flight with it or the   *)
(* element was given to another start before it was read.                  *)
THEOREM BlockPaired == BlockConstants => (BlockSpec => []PairedUnlessAliased)
  <1>1. BlockInv => PairedUnlessAliased BY InvSafe DEF BlockInv
  <1> QED BY <1>1, BlockInvariance, PTL

(* block_start holds no start of a request that has ended, so none is ever *)
(* used for a later request.                                               *)
THEOREM BlockNotStale == BlockConstants => (BlockSpec => []NoStaleStart)
  <1>1. BlockInv => NoStaleStart BY InvSafe DEF BlockInv
  <1> QED BY <1>1, BlockInvariance, PTL

(* Every block latency recorded is counted in the histogram of the map,    *)
(* unless two CPUs created the histogram at once, it was evicted, or its   *)
(* memory was still in use.                                                *)
THEOREM BlockNoLoss == BlockConstants => (BlockSpec => []NoLossWithoutRace)
  <1>1. BlockInv => NoLossWithoutRace BY InvSafe DEF BlockInv
  <1> QED BY <1>1, BlockInvariance, PTL
-----------------------------------------------------------------------------
(* nfs_latency.c *)

NFSKey == [r \in Headers |-> nfs_fill_key(r, NfsOp[r])]

NFSInv == Inv(Headers, NFSKey)

(* The operation is part of the key. *)
LEMMA NFSKeyed ==
  ASSUME NFSConstants
  PROVE  /\ Keyed(Headers, NFSKey)
         /\ \A r \in Headers : Peers(Headers, NFSKey, r) = NFSPeers(r)
         /\ \A r \in Headers : NFSKey[r] = nfs_fill_key(r, NfsOp[r]) /\ <<Dev[r], NfsOp[r]>> \in HistKeys
  <1>1. Keyed(Headers, NFSKey) BY DEF NFSConstants, Keyed, NFSKey
  <1>2. \A r \in Headers : NFSKey[r] = nfs_fill_key(r, NfsOp[r]) /\ <<Dev[r], NfsOp[r]>> \in HistKeys
    BY DEF NFSConstants, NFSKey
  <1>3. \A r, s \in Headers : nfs_fill_key(r, NfsOp[r]) = nfs_fill_key(s, NfsOp[s]) => NfsOp[r] = NfsOp[s]
    BY DEF nfs_fill_key
  <1>4. ASSUME NEW r \in Headers PROVE Peers(Headers, NFSKey, r) = NFSPeers(r)
    BY <1>2, <1>3 DEF Peers, NFSPeers
  <1> QED BY <1>1, <1>2, <1>4

LEMMA NFSStep ==
  ASSUME NFSConstants, NFSInv, [NFSNext]_vars
  PROVE  NFSInv'
  <1> DEFINE S == Headers
             K == NFSKey
  <1>1. Keyed(S, K) BY NFSKeyed
  <1>2. /\ \A r \in S : K[r] = nfs_fill_key(r, NfsOp[r]) /\ Peers(S, K, r) = NFSPeers(r)
        /\ \A r \in S : <<Dev[r], NfsOp[r]>> \in HistKeys
    BY NFSKeyed
  <1>3. Inv(S, K) BY DEF NFSInv
  <1> SUFFICES Inv(S, K)' BY DEF NFSInv
  <1> HIDE DEF S, K
  <1>4. ASSUME NEW r \in S, NEW op, nfs_initiate(r, op) PROVE Inv(S, K)'
    <2>1. /\ Begins(r, Peers(S, K, r)) /\ request[r] \in {"idle", "inflight"}
          /\ UNCHANGED <<histVars, handler>>
          /\ StoreStart(K[r], r)
      BY <1>2, <1>4 DEF nfs_initiate
    <2> QED BY <1>1, <1>3, <2>1, BeginsInv
  <1>5. ASSUME NEW r \in S, nfs_resent(r) PROVE Inv(S, K)'
    <2>1. /\ Begins(r, Peers(S, K, r)) /\ request[r] \in {"idle", "inflight"}
          /\ UNCHANGED <<histVars, handler>> /\ UNCHANGED <<startVars, reused, missed>>
      BY <1>2, <1>5 DEF nfs_resent, BeginsUntimed
    <2> QED BY <1>1, <1>3, <2>1, BeginsInv
  <1>6. ASSUME NEW p \in CPUs, NEW r \in S, NEW op, nfs_done(p, r, op) PROVE Inv(S, K)'
    <2>1. LookupStart(p, r, K[r]) BY <1>2, <1>6 DEF nfs_done
    <2> QED BY <1>1, <1>3, <2>1, LookupInv
  <1>7. ASSUME NEW p \in CPUs,
               DeleteStart(p, nfs_fill_key(req[p], NfsOp[req[p]]), <<Dev[req[p]], NfsOp[req[p]]>>)
        PROVE  Inv(S, K)'
    <2>1. pc[p] = "delete" BY <1>7 DEF DeleteStart
    <2>2. req[p] \in S BY <1>3, <2>1 DEF Inv, PathInv, Held, Busy
    <2>3. DeleteStart(p, K[req[p]], <<Dev[req[p]], NfsOp[req[p]]>>) BY <1>2, <1>7, <2>2
    <2> QED BY <1>1, <1>2, <1>3, <2>2, <2>3, DeleteInv
  <1>8. ASSUME NEW p \in CPUs, Count(p) PROVE Inv(S, K)' BY <1>1, <1>3, <1>8, CountInv
  <1>9. ASSUME NEW p \in CPUs, ReadStart(p) PROVE Inv(S, K)' BY <1>1, <1>3, <1>9, ReadInv
  <1>10. CASE UNCHANGED vars BY <1>1, <1>3, <1>10, StutterInv
  <1> QED BY <1>4, <1>5, <1>6, <1>7, <1>8, <1>9, <1>10
        DEF NFSNext, nfs_initiate_read, nfs_initiate_write, nfs_readpage_done, nfs_writeback_done,
            nfs_record_latency, S

(* The same invariant holds of nfs_latency.c. *)
THEOREM NFSInvariance == NFSConstants => (NFSSpec => []NFSInv)
  <1> SUFFICES ASSUME NFSConstants PROVE NFSSpec => []NFSInv
    OBVIOUS
  <1>1. Init => NFSInv BY NFSKeyed, InvInit DEF NFSInv
  <1>2. NFSInv /\ [NFSNext]_vars => NFSInv' BY NFSStep
  <1> QED BY <1>1, <1>2, PTL DEF NFSSpec

(* nfs_record_latency measures from the initiation of the header that is   *)
(* done, unless another header of its device, count, offset and operation, *)
(* of whichever file, was in flight with it or the element was reused      *)
(* under the pointer; no start outlives its header; and what is recorded   *)
(* is counted unless a histogram was raced for, evicted or built in memory *)
(* still in use.                                                           *)
THEOREM NFSSafe ==
  NFSConstants => (NFSSpec => [](TypeOK /\ PairedUnlessAliased /\ NoStaleStart /\ NoLossWithoutRace))
  <1>1. NFSInv => TypeOK /\ PairedUnlessAliased /\ NoStaleStart /\ NoLossWithoutRace BY InvSafe DEF NFSInv
  <1> QED BY <1>1, NFSInvariance, PTL
=============================================================================
