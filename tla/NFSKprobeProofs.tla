-------------------------- MODULE NFSKprobeProofs ---------------------------
(***************************************************************************)
(* nfs_kprobe_latency.c, for any number of threads, CPUs and calls nested  *)
(* to any depth and any size of the maps: a return is measured from the    *)
(* entry of the call that returns, or not at all.                          *)
(***************************************************************************)
EXTENDS NFSKprobe, LatencyPathProofs

(* A step that names no prover is tried with Zenon, then with SMT. *)
USE ZenonT(20), SMTT(20)

(* The calls in progress of a thread are different and not yet returning. *)
StackInv ==
    /\ stack \in [Threads -> Seq(Calls)]
    /\ \A t \in Threads : \A i \in 1..Len(stack[t]) :
         Thread[stack[t][i]] = t /\ request[stack[t][i]] = "inflight"
    /\ \A t \in Threads : \A i, j \in 1..Len(stack[t]) : stack[t][i] = stack[t][j] => i = j

(* A thread is in one return probe at most. *)
HandlerInv ==
    /\ \A p \in CPUs : req[p] # None => request[req[p]] = "completing"
    /\ \A p, q \in CPUs : req[p] # None /\ req[q] # None /\ Thread[req[p]] = Thread[req[q]] => p = q

(* A start is that of a call with an entry probe, of the thread it is kept *)
(* for.                                                                    *)
StartsKept ==
    \A k \in Keys : Started[k] # None => Thread[Started[k]] = k /\ Function[Started[k]] \in Attached

(* Unless a return was missed, the start of a thread is that of the call   *)
(* whose return is handled, or of the innermost call with an entry probe.  *)
StartsInnermost ==
    \A t \in Threads \ missed : Started[t] # None =>
        \/ \E p \in CPUs : Deleting(p, Started[t])
        \/ \E i \in 1..Len(stack[t]) :
             /\ stack[t][i] = Started[t]
             /\ \A j \in (i + 1)..Len(stack[t]) : Function[stack[t][j]] \notin Attached

(* While a call is its thread's only one, the thread's start is its own. *)
StartsOwn ==
    \A c \in Calls : request[c] = "inflight" /\ c \notin aliased /\ Function[c] \in Attached =>
        Started[Thread[c]] \in {c, None}

(* What a handler with the call r may point to, and may have read. *)
Own(r, sp, ts, h) ==
    (sp # None => stamp[sp] = r) /\ ts \in {r, None} /\ h \in {nfs_hist_key(r), None}

HandlersPaired ==
    \A p \in CPUs \ reused :
        req[p] # None /\ (Thread[req[p]] \notin missed \/ req[p] \notin aliased) =>
            Own(req[p], startp[p], tsp[p], hk[p])

(* No histogram key is left over from an earlier return. *)
KeysRead == \A p \in CPUs : req[p] = None => hk[p] = None

KprobeInv ==
    /\ PathInv(Calls)
    /\ StackInv /\ HandlerInv /\ KeysRead
    /\ StartsKept /\ StartsInnermost /\ StartsOwn
    /\ HandlersPaired
-----------------------------------------------------------------------------
LEMMA ElementFacts ==
  ASSUME NEW X, NEW s \in Seq(X)
  PROVE  \A i \in 1..Len(s) : s[i] \in X
  BY SMT

LEMMA AppendFacts ==
  ASSUME NEW X, NEW s \in Seq(X), NEW e \in X
  PROVE  /\ Append(s, e) \in Seq(X)
         /\ Len(s) \in Nat /\ Len(Append(s, e)) = Len(s) + 1
         /\ \A i \in 1..Len(s) : Append(s, e)[i] = s[i]
         /\ Append(s, e)[Len(s) + 1] = e
  BY SMT

(* The indices of a sequence that grew by one, and those of one that is    *)
(* about to shrink.                                                        *)
LEMMA GrownIndices ==
  ASSUME NEW n \in Nat
  PROVE  /\ n + 1 \in 1..(n + 1)
         /\ \A i \in 1..(n + 1) : i \in 1..n \/ i = n + 1
         /\ \A j \in (n + 1 + 1)..(n + 1) : FALSE
         /\ \A i \in 1..n : i \in 1..(n + 1)
         /\ \A i \in 1..n : \A j \in (i + 1)..(n + 1) : (j \in (i + 1)..n /\ j \in 1..n) \/ j = n + 1
  BY SMT

LEMMA ShrunkIndices ==
  ASSUME NEW n \in Nat \ {0}
  PROVE  /\ \A i \in 1..n : i # n => n \in (i + 1)..n /\ i \in 1..(n - 1)
         /\ \A i \in 1..n : \A j \in (i + 1)..(n - 1) : j \in (i + 1)..n /\ j \in 1..(n - 1)
  BY SMT

LEMMA PrefixFacts ==
  ASSUME NEW X, NEW s \in Seq(X), NEW n \in Nat, n <= Len(s)
  PROVE  /\ SubSeq(s, 1, n) \in Seq(X)
         /\ Len(SubSeq(s, 1, n)) = n
         /\ \A i \in 1..n : SubSeq(s, 1, n)[i] = s[i]
  BY SMT

LEMMA FrontFacts ==
  ASSUME NEW X, NEW s \in Seq(X), s # <<>>
  PROVE  LET f == SubSeq(s, 1, Len(s) - 1)
         IN  /\ f \in Seq(X)
             /\ Len(s) \in Nat \ {0} /\ Len(f) = Len(s) - 1
             /\ \A i \in 1..Len(f) : f[i] = s[i]
  <1> DEFINE n == Len(s) - 1
  <1>1. Len(s) \in Nat \ {0} /\ n \in Nat /\ n <= Len(s) BY SMT
  <1> HIDE DEF n
  <1>2. /\ SubSeq(s, 1, n) \in Seq(X) /\ Len(SubSeq(s, 1, n)) = n
        /\ \A i \in 1..n : SubSeq(s, 1, n)[i] = s[i]
    BY <1>1, PrefixFacts
  <1> QED BY <1>1, <1>2, Zenon DEF n

(* What the maps and the handlers hold. *)
LEMMA KprobeFacts ==
  ASSUME KprobeConstants, PathInv(Calls)
  PROVE  /\ Calls \subseteq Requests /\ None \notin Calls
         /\ \A c \in Calls : Thread[c] \in Threads /\ Thread[c] \in Keys
         /\ request \in [Requests -> {"idle", "inflight", "completing"}]
         /\ start \in [Keys -> StartElems \cup {None}]
         /\ Started \in [Keys -> Calls \cup {None}]
         /\ \A k \in Keys : start[k] # None => Started[k] = stamp[start[k]] /\ Started[k] # None
         /\ \A k \in Keys : start[k] = None => Started[k] = None
         /\ req \in [CPUs -> Calls \cup {None}]
         /\ startp \in [CPUs -> StartElems \cup {None}]
         /\ tsp \in [CPUs -> Calls \cup {None}]
         /\ hk \in [CPUs -> HistKeys \cup {None}]
         /\ pc \in [CPUs -> Steps]
         /\ \A p \in CPUs : pc[p] = "idle" <=> req[p] = None
         /\ \A p \in CPUs : pc[p] \in {"read", "readkey"} => startp[p] # None
         /\ \A p \in CPUs : pc[p] \in {"idle", "read"} => tsp[p] = None
         /\ \A p \in CPUs : tsp[p] # None => req[p] # None
  <1>1. Calls \subseteq Requests /\ None \notin Calls BY PathAssumption DEF KprobeConstants
  <1>2. \A c \in Calls : Thread[c] \in Threads /\ Thread[c] \in Keys BY DEF KprobeConstants, Threads
  <1>3. /\ Started \in [Keys -> Calls \cup {None}]
        /\ \A k \in Keys : start[k] # None => Started[k] = stamp[start[k]] /\ Started[k] # None
        /\ \A k \in Keys : start[k] = None => Started[k] = None
    BY StartedFacts DEF PathInv, Held
  <1>4. TypeOK /\ Held(Calls) /\ Maps(Calls) /\ Busy BY DEF PathInv, Held
  <1>5. pc \in [CPUs -> Steps] BY <1>4 DEF TypeOK, Steps
  <1> QED BY <1>1, <1>2, <1>3, <1>4, <1>5 DEF TypeOK, Held, Maps, Busy

LEMMA KprobeInit ==
  ASSUME KprobeConstants, Init, StackInit
  PROVE  KprobeInv
  <1>1. PathInv(Calls) BY PathInit
  <1>2. StackInv BY SMT DEF StackInit, StackInv
  <1>3. HandlerInv /\ KeysRead BY DEF Init, HandlerInv, KeysRead
  <1>4. HandlersPaired BY DEF Init, HandlersPaired
  <1>5. \A k \in Keys : Started[k] = None BY DEF Init, Started
  <1>6. StartsKept /\ StartsInnermost BY <1>5 DEF StartsKept, StartsInnermost, KprobeConstants
  <1>7. StartsOwn BY <1>1, <1>5, KprobeFacts DEF StartsOwn
  <1> QED BY <1>1, <1>2, <1>3, <1>4, <1>6, <1>7 DEF KprobeInv

LEMMA KprobeStutter ==
  ASSUME KprobeConstants, KprobeInv, UNCHANGED <<vars, stack>>
  PROVE  KprobeInv'
  <1>1. /\ UNCHANGED <<histVars, handler>>
        /\ UNCHANGED <<request, start, stamp, pc, req, startp, tsp, hk, reused>>
        /\ UNCHANGED <<aliased, issues, missed, stack>>
        /\ Started' = Started
    BY DEF vars, handler, startVars, Started
  <1>2. PathInv(Calls)'
    <2>1. TypeOK /\ Held(Calls) /\ Calls \subseteq Requests /\ PathInv(Calls)
      BY DEF KprobeInv, PathInv, KprobeConstants
    <2>2. /\ request' \in [Requests -> {"idle", "inflight", "completing"}]
          /\ Maps(Calls)' /\ reused' \in SUBSET CPUs
          /\ aliased' \in SUBSET Requests /\ issues' \in 0..MaxIssues /\ missed' \in SUBSET Keys
      BY <1>1, <2>1 DEF TypeOK, Held, Maps
    <2> QED BY <1>1, <2>1, <2>2, PathStart
  <1>3. StackInv'
    <2>1. StackInv BY DEF KprobeInv
    <2> QED BY <1>1, <2>1, SMT DEF StackInv
  <1>4. HandlerInv' /\ KeysRead' BY <1>1 DEF KprobeInv, HandlerInv, KeysRead
  <1>5. StartsKept' /\ StartsOwn' BY <1>1 DEF KprobeInv, StartsKept, StartsOwn
  <1>6. StartsInnermost' BY <1>1, SMT DEF KprobeInv, StartsInnermost, Deleting
  <1>7. HandlersPaired' BY <1>1 DEF KprobeInv, HandlersPaired, Own
  <1> QED BY <1>2, <1>3, <1>4, <1>5, <1>6, <1>7 DEF KprobeInv

(* A handler that has a call goes on or returns: the calls in progress are *)
(* as they were.                                                           *)
LEMMA HandlerMoves ==
  ASSUME KprobeConstants, KprobeInv, PathInv(Calls)', NEW p \in CPUs, NEW r \in Calls, req[p] = r,
         UNCHANGED <<stack, missed>>,
         UNCHANGED stamp,
         \A q \in CPUs \ {p} : pc'[q] = pc[q] /\ req'[q] = req[q] /\ startp'[q] = startp[q]
                               /\ tsp'[q] = tsp[q] /\ hk'[q] = hk[q],
         \/ /\ req'[p] = None /\ hk'[p] = None /\ reused' = reused \ {p}
            /\ request' = [request EXCEPT ![r] = "idle"] /\ aliased' = aliased \ {r}
         \/ /\ req'[p] = r /\ UNCHANGED <<reused, request, aliased>>
            /\ Own(r, startp[p], tsp[p], hk[p]) => Own(r, startp'[p], tsp'[p], hk'[p]),
         \A k \in Keys : Started'[k] \in {Started[k], None},
         \/ req'[p] = r /\ pc'[p] \in {"read", "readkey", "delete"}
         \/ Deleting(p, r) => \A k \in Keys : Started'[k] # r
  PROVE  KprobeInv'
  <1>0. /\ Calls \subseteq Requests /\ None \notin Calls
        /\ \A c \in Calls : Thread[c] \in Threads /\ Thread[c] \in Keys
        /\ request \in [Requests -> {"idle", "inflight", "completing"}]
        /\ req \in [CPUs -> Calls \cup {None}] /\ Started \in [Keys -> Calls \cup {None}]
    BY KprobeFacts DEF KprobeInv
  <1>1. request[r] = "completing" /\ \A q \in CPUs \ {p} : req[q] # r
    BY <1>0 DEF KprobeInv, HandlerInv
  <1>2. /\ \A c \in Calls \ {r} : request'[c] = request[c] /\ (c \in aliased' <=> c \in aliased)
        /\ request'[r] # "inflight"
    BY <1>0, <1>1
  <1>3. StackInv'
    <2>1. \A t \in Threads : \A i \in 1..Len(stack[t]) :
            /\ stack[t][i] \in Calls /\ stack[t][i] # r
            /\ Thread[stack[t][i]] = t /\ request'[stack[t][i]] = "inflight"
      BY <1>1, <1>2, SMT DEF KprobeInv, StackInv
    <2> QED BY <2>1, SMT DEF KprobeInv, StackInv
  <1>4. HandlerInv'
    <2>1. \A q \in CPUs : req'[q] # None => req'[q] = req[q] BY <1>0
    <2>2. \A q \in CPUs : req'[q] # None => request'[req'[q]] = "completing"
      BY <1>0, <1>1, <1>2, <2>1, SMT DEF KprobeInv, HandlerInv
    <2> QED BY <2>1, <2>2, SMT DEF KprobeInv, HandlerInv
  <1>5. StartsKept' BY DEF KprobeInv, StartsKept
  <1>6. StartsInnermost'
    <2> SUFFICES ASSUME NEW t \in Threads \ missed, Started'[t] # None
                 PROVE  \/ \E q \in CPUs : req'[q] = Started'[t] /\ pc'[q] \in {"read", "readkey", "delete"}
                        \/ \E i \in 1..Len(stack[t]) :
                             /\ stack[t][i] = Started'[t]
                             /\ \A j \in (i + 1)..Len(stack[t]) : Function[stack[t][j]] \notin Attached
      BY DEF StartsInnermost, Deleting
    <2>1. t \in Keys /\ Started'[t] = Started[t] /\ Started[t] # None BY DEF KprobeConstants
    <2>2. CASE \E q \in CPUs : Deleting(q, Started[t])
      <3>1. PICK q \in CPUs : Deleting(q, Started[t]) BY <2>2
      <3>2. CASE q # p BY <2>1, <3>1, <3>2 DEF Deleting
      <3>3. CASE q = p BY <2>1, <3>1, <3>3 DEF Deleting
      <3> QED BY <3>2, <3>3
    <2> QED BY <2>1, <2>2 DEF KprobeInv, StartsInnermost
  <1>7. StartsOwn'
    <2> SUFFICES ASSUME NEW c \in Calls, request'[c] = "inflight", c \notin aliased', Function[c] \in Attached
                 PROVE  Started'[Thread[c]] \in {c, None}
      BY DEF StartsOwn
    <2>1. c # r /\ request[c] = "inflight" /\ c \notin aliased BY <1>2
    <2> QED BY <1>0, <2>1 DEF KprobeInv, StartsOwn
  <1>8. HandlersPaired'
    <2> SUFFICES ASSUME NEW q \in CPUs \ reused', req'[q] # None,
                        Thread[req'[q]] \notin missed \/ req'[q] \notin aliased'
                 PROVE  Own(req'[q], startp'[q], tsp'[q], hk'[q])
      BY DEF HandlersPaired, Own
    <2>1. CASE q = p BY <2>1 DEF KprobeInv, HandlersPaired
    <2>2. CASE q # p
      <3>1. req[q] \in Calls \ {r} BY <1>0, <1>1, <2>2
      <3> QED BY <1>2, <2>2, <3>1 DEF KprobeInv, HandlersPaired
    <2> QED BY <2>1, <2>2
  <1>9. KeysRead' BY <1>0 DEF KprobeInv, KeysRead
  <1> QED BY <1>3, <1>4, <1>5, <1>6, <1>7, <1>8, <1>9 DEF KprobeInv

(* A handler reads through its pointer; what it points to is its own if it *)
(* is not among the exceptions.                                            *)
LEMMA KprobeRead ==
  ASSUME KprobeConstants, KprobeInv, NEW p \in CPUs, UNCHANGED stack, ReadTs(p) \/ ReadKey(p)
  PROVE  KprobeInv'
  <1> DEFINE r == req[p]
  <1>0. /\ PathInv(Calls) /\ Calls \subseteq Requests /\ None \notin Calls
        /\ stamp \in [StartElems -> Calls \cup {None}]
        /\ req \in [CPUs -> Calls \cup {None}] /\ startp \in [CPUs -> StartElems \cup {None}]
        /\ tsp \in [CPUs -> Calls \cup {None}] /\ hk \in [CPUs -> HistKeys \cup {None}]
        /\ pc \in [CPUs -> Steps]
        /\ \A q \in CPUs : pc[q] = "idle" <=> req[q] = None
        /\ \A q \in CPUs : startp[q] # None => stamp[startp[q]] # None
        /\ \A q \in CPUs : pc[q] \in {"read", "readkey"} => startp[q] # None
    BY KprobeFacts DEF KprobeInv, PathInv, Held, Maps
  <1>1. /\ pc[p] \in {"read", "readkey"} /\ UNCHANGED <<request, startVars, histVars, req, histp>>
        /\ UNCHANGED <<reused, issues, aliased, missed>> /\ UNCHANGED <<start, stamp>>
        /\ Started' = Started
    BY DEF ReadTs, ReadKey, startVars, Started
  <1>2. /\ r \in Calls /\ startp[p] \in StartElems /\ startp[p] # None
        /\ stamp[startp[p]] \in Calls
    BY <1>0, <1>1
  <1>3. ASSUME NEW next \in {"readkey", "delete"}, Advance(p, next),
               tsp' = [tsp EXCEPT ![p] = stamp[startp[p]]] \/ (pc[p] = "readkey" /\ tsp' = tsp),
               next = "delete" => startp' = [startp EXCEPT ![p] = None],
               next = "readkey" => startp' = startp,
               hk' = hk \/ hk' = [hk EXCEPT ![p] = nfs_hist_key(stamp[startp[p]])]
        PROVE  KprobeInv'
    <2>1. nfs_hist_key(stamp[startp[p]]) \in HistKeys BY <1>2 DEF KprobeConstants
    <2>2. PathInv(Calls)' BY <1>0, <1>1, <1>3, <2>1, PathRead
    <2>3. /\ pc'[p] = next
          /\ \A q \in CPUs \ {p} : pc'[q] = pc[q] /\ req'[q] = req[q] /\ startp'[q] = startp[q]
                                /\ tsp'[q] = tsp[q] /\ hk'[q] = hk[q]
      BY <1>0, <1>1, <1>3 DEF Advance
    <2>4. /\ startp'[p] \in {startp[p], None} /\ tsp'[p] \in {tsp[p], stamp[startp[p]]}
          /\ hk'[p] \in {hk[p], nfs_hist_key(stamp[startp[p]])}
      BY <1>0, <1>3
    <2>5. Own(r, startp[p], tsp[p], hk[p]) => Own(r, startp'[p], tsp'[p], hk'[p])
      BY <1>2, <2>4 DEF Own
    <2> QED BY <1>1, <1>2, <2>2, <2>3, <2>5, HandlerMoves
  <1>4. CASE ReadTs(p)
    <2>1. PICK next \in {"readkey", "delete"} : next = "readkey" OBVIOUS
    <2>2. Advance(p, next) BY <1>4, <2>1 DEF ReadTs
    <2>3. next # "delete" BY <2>1
    <2> QED BY <1>3, <1>4, <2>2, <2>3 DEF ReadTs
  <1>5. CASE ReadKey(p)
    <2>1. PICK next \in {"readkey", "delete"} : next = "delete" OBVIOUS
    <2>2. Advance(p, next) BY <1>5, <2>1 DEF ReadKey
    <2>3. next # "readkey" BY <2>1
    <2> QED BY <1>3, <1>5, <2>2, <2>3 DEF ReadKey
  <1> QED BY <1>4, <1>5

LEMMA KprobeReturn ==
  ASSUME KprobeConstants, KprobeInv, PathInv(Calls)', NEW p \in CPUs, req[p] \in Calls, Return(p, req[p]),
         UNCHANGED <<stack, missed, stamp>>,
         \A k \in Keys : Started'[k] \in {Started[k], None},
         Deleting(p, req[p]) => \A k \in Keys : Started'[k] # req[p]
  PROVE  KprobeInv'
  <1> DEFINE r == req[p]
  <1>0. /\ req \in [CPUs -> Calls \cup {None}] /\ startp \in [CPUs -> StartElems \cup {None}]
        /\ tsp \in [CPUs -> Calls \cup {None}] /\ hk \in [CPUs -> HistKeys \cup {None}]
        /\ pc \in [CPUs -> Steps]
    BY KprobeFacts DEF KprobeInv
  <1>1. /\ pc' = [pc EXCEPT ![p] = "idle"] /\ req' = [req EXCEPT ![p] = None]
        /\ startp' = [startp EXCEPT ![p] = None] /\ tsp' = [tsp EXCEPT ![p] = None]
        /\ hk' = [hk EXCEPT ![p] = None] /\ reused' = reused \ {p}
        /\ request' = [request EXCEPT ![r] = "idle"] /\ aliased' = aliased \ {r}
    BY DEF Return
  <1>2. /\ req'[p] = None /\ hk'[p] = None
        /\ \A q \in CPUs \ {p} : pc'[q] = pc[q] /\ req'[q] = req[q] /\ startp'[q] = startp[q]
                              /\ tsp'[q] = tsp[q] /\ hk'[q] = hk[q]
    BY <1>0, <1>1
  <1> QED BY <1>1, <1>2, HandlerMoves

LEMMA KprobeDelete ==
  ASSUME KprobeConstants, KprobeInv, NEW p \in CPUs, UNCHANGED stack,
         DeleteStart(p, Thread[req[p]], hk[p])
  PROVE  KprobeInv'
  <1> DEFINE r == req[p]
             k == Thread[r]
  <1>0. /\ PathInv(Calls) /\ Calls \subseteq Requests /\ None \notin Calls
        /\ \A c \in Calls : Thread[c] \in Threads /\ Thread[c] \in Keys
        /\ start \in [Keys -> StartElems \cup {None}]
        /\ req \in [CPUs -> Calls \cup {None}] /\ hk \in [CPUs -> HistKeys \cup {None}]
        /\ pc \in [CPUs -> Steps]
        /\ \A q \in CPUs : pc[q] = "idle" <=> req[q] = None
    BY KprobeFacts DEF KprobeInv
  <1>1. /\ pc[p] = "delete" /\ start' = [start EXCEPT ![k] = None] /\ Measured(p, hk[p])
        /\ UNCHANGED <<stamp, missed>>
    BY DEF DeleteStart
  <1>2. r \in Calls /\ k \in Keys /\ hk[p] \in HistKeys \cup {None} BY <1>0, <1>1
  <1>3. PathInv(Calls)' BY <1>0, <1>2, PathDelete
  <1>4. \A j \in Keys : Started'[j] \in {Started[j], None} /\ Started'[j] # r
    <2> SUFFICES ASSUME NEW j \in Keys PROVE Started'[j] \in {Started[j], None} /\ Started'[j] # r OBVIOUS
    <2>1. CASE j = k BY <1>0, <1>1, <1>2, <2>1 DEF Started
    <2>2. CASE j # k
      <3>1. Started'[j] = Started[j] BY <1>0, <1>1, <2>2 DEF Started
      <3> QED BY <1>0, <1>2, <2>2, <3>1 DEF KprobeInv, StartsKept
    <2> QED BY <2>1, <2>2
  <1>5. CASE Return(p, r)
    <2> HIDE DEF k
    <2> QED BY <1>1, <1>2, <1>3, <1>4, <1>5, KprobeReturn
  <1>6. CASE /\ Advance(p, "hist") /\ hk' = [hk EXCEPT ![p] = hk[p]]
             /\ UNCHANGED <<req, startp, tsp, histp, request, aliased, reused>>
    <2>1. \A q \in CPUs \ {p} : pc'[q] = pc[q] /\ req'[q] = req[q] /\ startp'[q] = startp[q]
                                /\ tsp'[q] = tsp[q] /\ hk'[q] = hk[q]
      BY <1>0, <1>6 DEF Advance
    <2>2. hk'[p] = hk[p] /\ req'[p] = r BY <1>0, <1>6
    <2>3. Own(r, startp[p], tsp[p], hk[p]) => Own(r, startp'[p], tsp'[p], hk'[p]) BY <1>6, <2>2
    <2> HIDE DEF k
    <2> QED BY <1>1, <1>2, <1>3, <1>4, <1>6, <2>1, <2>2, <2>3, HandlerMoves
  <1> QED BY <1>1, <1>5, <1>6 DEF Measured

LEMMA KprobeCount ==
  ASSUME KprobeConstants, KprobeInv, NEW p \in CPUs, UNCHANGED stack, Count(p)
  PROVE  KprobeInv'
  <1>0. /\ PathInv(Calls) /\ Calls \subseteq Requests /\ None \notin Calls
        /\ req \in [CPUs -> Calls \cup {None}] /\ pc \in [CPUs -> Steps]
        /\ \A q \in CPUs : pc[q] = "idle" <=> req[q] = None
    BY KprobeFacts DEF KprobeInv
  <1>1. /\ UNCHANGED <<start, stamp, missed>> /\ pc[p] \in {"hist", "create", "relookup", "add"}
        /\ Started' = Started
    BY DEF Count, HistLookup, HistCreate, HistRelookup, HistAdd, startVars, Started
  <1>2. req[p] \in Calls /\ ~ Deleting(p, req[p]) BY <1>0, <1>1 DEF Deleting
  <1>3. PathInv(Calls)' BY <1>0, PathCount
  <1>4. CASE Return(p, req[p]) BY <1>1, <1>2, <1>3, <1>4, KprobeReturn
  <1>5. ASSUME NEW next \in {"create", "relookup", "add"}, Advance(p, next),
               UNCHANGED <<req, startp, tsp, hk, request, aliased, reused>>
        PROVE  KprobeInv'
    <2>1. \A q \in CPUs \ {p} : pc'[q] = pc[q] BY <1>0, <1>5 DEF Advance
    <2> QED BY <1>1, <1>2, <1>3, <1>5, <2>1, HandlerMoves
  <1>6. CASE HistLookup(p) BY <1>5, <1>6 DEF HistLookup
  <1>7. CASE HistCreate(p) BY <1>5, <1>7 DEF HistCreate
  <1>8. CASE HistRelookup(p) BY <1>4, <1>5, <1>8 DEF HistRelookup
  <1>9. CASE HistAdd(p) BY <1>4, <1>9 DEF HistAdd
  <1> QED BY <1>6, <1>7, <1>8, <1>9 DEF Count

(* While a thread runs, none of its returns is handled. *)
LEMMA NoHandler ==
  ASSUME KprobeConstants, KprobeInv, NEW c \in Calls, Running(Thread[c]), NEW p \in CPUs, req[p] # None
  PROVE  req[p] \in Calls /\ Thread[req[p]] # Thread[c]
  <1>1. req[p] \in Calls BY KprobeFacts, ZenonT(60) DEF KprobeInv
  <1>2. request[req[p]] = "completing" BY DEF KprobeInv, HandlerInv
  <1> QED BY <1>1, <1>2 DEF Running

(* The call a thread returns from is the last of its stack, which then     *)
(* ends before it.                                                         *)
LEMMA LeavesFacts ==
  ASSUME KprobeConstants, KprobeInv, NEW c \in Calls, Innermost(c), Leaves(c)
  PROVE  LET t == Thread[c]
             n == Len(stack[t])
         IN  /\ t \in Threads /\ n \in Nat \ {0} /\ stack[t][n] = c
             /\ stack' \in [Threads -> Seq(Calls)]
             /\ Len(stack'[t]) = n - 1 /\ \A i \in 1..(n - 1) : stack'[t][i] = stack[t][i]
             /\ \A u \in Threads \ {t} : stack'[u] = stack[u]
             /\ \A u \in Threads : \A i \in 1..Len(stack'[u]) :
                  i \in 1..Len(stack[u]) /\ stack'[u][i] = stack[u][i] /\ stack[u][i] # c
  <1> DEFINE t == Thread[c]
             s == stack[t]
             n == Len(s)
             f == SubSeq(s, 1, n - 1)
  <1>1. t \in Threads /\ stack \in [Threads -> Seq(Calls)]
    BY KprobeFacts DEF KprobeInv, StackInv
  <1>2. s \in Seq(Calls) /\ s # <<>> /\ s[n] = c BY <1>1 DEF Innermost
  <1>3. stack' = [stack EXCEPT ![t] = f] BY DEF Leaves
  <1>4. f \in Seq(Calls) /\ n \in Nat \ {0} /\ Len(f) = n - 1 /\ \A i \in 1..Len(f) : f[i] = s[i]
    BY <1>2, FrontFacts
  <1> HIDE DEF f
  <1>5. stack' \in [Threads -> Seq(Calls)] /\ stack'[t] = f /\ \A u \in Threads \ {t} : stack'[u] = stack[u]
    BY <1>1, <1>3, <1>4
  <1>6. ASSUME NEW u \in Threads, NEW i \in 1..Len(stack'[u])
        PROVE  i \in 1..Len(stack[u]) /\ stack'[u][i] = stack[u][i] /\ stack[u][i] # c
    <2>1. CASE u = t
      <3>1. i \in 1..(n - 1) /\ i \in 1..n /\ n \in 1..n /\ i # n BY <1>4, <1>5, <1>6, <2>1, SMT
      <3>2. s[i] # s[n] BY <1>1, <3>1 DEF KprobeInv, StackInv
      <3> QED BY <1>2, <1>4, <1>5, <2>1, <3>1, <3>2
    <2>2. CASE u # t
      <3>1. stack'[u] = stack[u] /\ i \in 1..Len(stack[u]) BY <1>5, <1>6, <2>2
      <3>2. Thread[stack[u][i]] = u BY <3>1 DEF KprobeInv, StackInv
      <3> QED BY <2>2, <3>1, <3>2
    <2> QED BY <2>1, <2>2
  <1>7. \A i \in 1..(n - 1) : stack'[t][i] = stack[t][i] BY <1>4, <1>5
  <1> QED BY <1>1, <1>2, <1>4, <1>5, <1>6, <1>7

(* What is left of a stack stays in order. *)
LEMMA LeavesStack ==
  ASSUME KprobeConstants, KprobeInv, NEW c \in Calls, Innermost(c), Leaves(c),
         \A d \in Calls \ {c} : request'[d] = request[d]
  PROVE  StackInv'
  <1>1. /\ stack' \in [Threads -> Seq(Calls)]
        /\ \A u \in Threads : \A i \in 1..Len(stack'[u]) :
             i \in 1..Len(stack[u]) /\ stack'[u][i] = stack[u][i] /\ stack[u][i] # c
    BY LeavesFacts
  <1>2. ASSUME NEW u \in Threads, NEW i \in 1..Len(stack'[u])
        PROVE  Thread[stack'[u][i]] = u /\ request'[stack'[u][i]] = "inflight"
    <2>1. i \in 1..Len(stack[u]) /\ stack'[u][i] = stack[u][i] /\ stack[u][i] # c BY <1>1, <1>2
    <2>2. stack[u][i] \in Calls BY <2>1, SMT DEF KprobeInv, StackInv
    <2>3. Thread[stack[u][i]] = u /\ request[stack[u][i]] = "inflight" BY <2>1 DEF KprobeInv, StackInv
    <2> QED BY <2>1, <2>2, <2>3
  <1>3. ASSUME NEW u \in Threads, NEW i \in 1..Len(stack'[u]), NEW j \in 1..Len(stack'[u]),
               stack'[u][i] = stack'[u][j]
        PROVE  i = j
    <2>1. /\ i \in 1..Len(stack[u]) /\ stack'[u][i] = stack[u][i]
          /\ j \in 1..Len(stack[u]) /\ stack'[u][j] = stack[u][j]
      BY <1>1, <1>3
    <2>2. \A k, l \in 1..Len(stack[u]) : stack[u][k] = stack[u][l] => k = l BY DEF KprobeInv, StackInv
    <2> QED BY <1>3, <2>1, <2>2
  <1> QED BY <1>1, <1>2, <1>3 DEF StackInv

(* The entry of a function, with a probe or not. *)
LEMMA RecordStartInv ==
  ASSUME KprobeConstants, KprobeInv, NEW c \in Calls, record_start(c)
  PROVE  KprobeInv'
  <1> DEFINE t == Thread[c]
             n == Len(stack[t])
             peers == {d \in Calls : Thread[d] = t}
             others == {s \in peers \ {c} : request[s] # "idle"}
  <1>0. /\ PathInv(Calls) /\ TypeOK /\ Calls \subseteq Requests /\ None \notin Calls
        /\ \A d \in Calls : Thread[d] \in Threads /\ Thread[d] \in Keys
        /\ request \in [Requests -> {"idle", "inflight", "completing"}]
        /\ Started \in [Keys -> Calls \cup {None}]
        /\ req \in [CPUs -> Calls \cup {None}]
        /\ missed \in SUBSET Keys /\ Threads \subseteq Keys
    BY KprobeFacts, Zenon DEF KprobeInv, PathInv, TypeOK, KprobeConstants
  <1>1. /\ request[c] = "idle" /\ Running(t) /\ Begins(c, peers)
        /\ stack' = [stack EXCEPT ![t] = Append(@, c)]
        /\ UNCHANGED <<histVars, handler>> /\ UNCHANGED <<pc, req, startp, tsp, hk>>
    BY Zenon DEF record_start, handler
  <1>2. /\ request' = [request EXCEPT ![c] = "inflight"]
        /\ aliased' = IF others = {} THEN aliased ELSE aliased \cup others \cup {c}
    BY <1>1 DEF Begins
  <1>3. /\ request'[c] = "inflight" /\ \A d \in Calls \ {c} : request'[d] = request[d]
        /\ aliased \subseteq aliased' /\ others \subseteq aliased'
    BY <1>0, <1>2
  <1>4. /\ Maps(Calls)' /\ reused' \in SUBSET CPUs /\ reused \subseteq reused'
        /\ \A p \in CPUs \ reused' : startp[p] # None => stamp'[startp[p]] = stamp[startp[p]]
        /\ missed' \in SUBSET Keys
        /\ \A k \in Keys \ {t} : Started'[k] \in {Started[k], None} /\ (k \in missed' <=> k \in missed)
        /\ Function[c] \in Attached => Started'[t] = c
        /\ Function[c] \notin Attached => Started'[t] = Started[t] /\ missed' = missed
    <2>1. CASE Function[c] \in Attached
      <3>1. StoreStart(t, c) BY <2>1 DEF record_start
      <3>2. missed' = missed \ {t} BY <3>1 DEF StoreStart
      <3>3. /\ Maps(Calls)' /\ missed' \in SUBSET Keys
            /\ reused' \in SUBSET CPUs /\ reused \subseteq reused'
            /\ \A p \in CPUs \ reused' : startp[p] # None => stamp'[startp[p]] = stamp[startp[p]]
            /\ \A j \in Keys : IF j = t THEN Started'[j] = c ELSE Started'[j] \in {Started[j], None}
        BY <1>0, <1>1, <3>1, StoreStartShape
      <3> QED BY <1>0, <2>1, <3>2, <3>3
    <2>2. CASE Function[c] \notin Attached
      <3>1. UNCHANGED <<start, stamp, reused, missed>> BY <2>2 DEF record_start, startVars
      <3>2. Started' = Started BY <3>1 DEF Started
      <3>3. Maps(Calls)' BY <1>0, <1>1, <3>1 DEF PathInv, Held, Maps
      <3>4. reused' \in SUBSET CPUs BY <1>0, <3>1 DEF TypeOK
      <3> QED BY <1>0, <2>2, <3>1, <3>2, <3>3, <3>4
    <2> QED BY <2>1, <2>2
  <1>5. PathInv(Calls)'
    <2>1. c \in Requests /\ peers \in SUBSET Requests BY <1>0
    <2>2. /\ request' \in [Requests -> {"idle", "inflight", "completing"}]
          /\ aliased' \in SUBSET Requests /\ issues' \in 0..MaxIssues
      BY <1>0, <1>1, <2>1, BeginsType
    <2> QED BY <1>0, <1>1, <1>4, <2>2, PathStart
  <1> HIDE DEF others, peers
  <1>6. t \in Threads /\ stack \in [Threads -> Seq(Calls)] /\ stack[t] \in Seq(Calls)
    BY <1>0 DEF KprobeInv, StackInv
  <1>7. /\ Append(stack[t], c) \in Seq(Calls) /\ n \in Nat /\ Len(Append(stack[t], c)) = n + 1
        /\ \A i \in 1..n : Append(stack[t], c)[i] = stack[t][i]
        /\ Append(stack[t], c)[n + 1] = c
    BY <1>6, AppendFacts, SMTT(20)
  <1>8. /\ stack' \in [Threads -> Seq(Calls)]
        /\ Len(stack'[t]) = n + 1 /\ stack'[t][n + 1] = c
        /\ \A i \in 1..n : stack'[t][i] = stack[t][i]
        /\ \A u \in Threads \ {t} : stack'[u] = stack[u]
    BY <1>1, <1>6, <1>7
  <1>9. StackInv'
    <2>1. \A u \in Threads : \A i \in 1..Len(stack[u]) :
            /\ stack[u][i] \in Calls /\ stack[u][i] # c
            /\ Thread[stack[u][i]] = u /\ request'[stack[u][i]] = "inflight"
      <3> SUFFICES ASSUME NEW u \in Threads, NEW i \in 1..Len(stack[u])
                   PROVE  /\ stack[u][i] \in Calls /\ stack[u][i] # c
                          /\ Thread[stack[u][i]] = u /\ request'[stack[u][i]] = "inflight"
        OBVIOUS
      <3>1. stack[u] \in Seq(Calls) BY <1>6
      <3>2. stack[u][i] \in Calls BY <3>1, ElementFacts
      <3>3. Thread[stack[u][i]] = u /\ request[stack[u][i]] = "inflight" BY DEF KprobeInv, StackInv
      <3> QED BY <1>1, <1>3, <3>2, <3>3
    <2>2. \A u \in Threads : \A i, j \in 1..Len(stack[u]) : stack[u][i] = stack[u][j] => i = j
      BY DEF KprobeInv, StackInv
    <2>3. \A u \in Threads : \A i \in 1..Len(stack'[u]) :
            \/ i \in 1..Len(stack[u]) /\ stack'[u][i] = stack[u][i]
            \/ u = t /\ i = n + 1 /\ stack'[u][i] = c
      <3> SUFFICES ASSUME NEW u \in Threads, NEW i \in 1..Len(stack'[u])
                   PROVE  \/ i \in 1..Len(stack[u]) /\ stack'[u][i] = stack[u][i]
                          \/ u = t /\ i = n + 1 /\ stack'[u][i] = c
        OBVIOUS
      <3>1. CASE u = t
        <4>1. i \in 1..n \/ i = n + 1 BY <1>7, <1>8, <3>1, GrownIndices
        <4> QED BY <1>8, <3>1, <4>1
      <3>2. CASE u # t BY <1>8, <3>2
      <3> QED BY <3>1, <3>2
    <2>4. ASSUME NEW u \in Threads, NEW i \in 1..Len(stack'[u])
          PROVE  Thread[stack'[u][i]] = u /\ request'[stack'[u][i]] = "inflight"
      <3>1. CASE i \in 1..Len(stack[u]) /\ stack'[u][i] = stack[u][i] BY <2>1, <3>1, SMT
      <3>2. CASE u = t /\ stack'[u][i] = c BY <1>3, <3>2
      <3> QED BY <2>3, <3>1, <3>2
    <2>5. ASSUME NEW u \in Threads, NEW i \in 1..Len(stack'[u]), NEW j \in 1..Len(stack'[u]),
                 stack'[u][i] = stack'[u][j]
          PROVE  i = j
      <3> DEFINE Old(k) == k \in 1..Len(stack[u]) /\ stack'[u][k] = stack[u][k]
      <3> DEFINE New(k) == k = n + 1 /\ stack'[u][k] = c
      <3>1. (Old(i) \/ New(i)) /\ (Old(j) \/ New(j)) BY <2>3
      <3>2. CASE Old(i) /\ Old(j)
        <4>1. stack[u][i] = stack[u][j] BY <2>5, <3>2
        <4> QED BY <2>2, <3>2, <4>1
      <3>3. ASSUME NEW k, Old(k) PROVE stack'[u][k] # c BY <2>1, <3>3, SMT
      <3>4. ~(Old(i) /\ New(j)) /\ ~(New(i) /\ Old(j)) BY <2>5, <3>3
      <3>5. CASE New(i) /\ New(j) BY <3>5
      <3> QED BY <3>1, <3>2, <3>4, <3>5
    <2> QED BY <1>8, <2>4, <2>5 DEF StackInv
  <1>10. \A p \in CPUs : req[p] # None => req[p] \in Calls /\ req[p] # c /\ Thread[req[p]] # t
    BY <1>1, NoHandler
  <1>11. HandlerInv' BY <1>1, <1>3, <1>10 DEF KprobeInv, HandlerInv
  <1>12. StartsKept' BY <1>0, <1>4 DEF KprobeInv, StartsKept
  <1>13. StartsInnermost'
    <2> SUFFICES ASSUME NEW u \in Threads \ missed', Started'[u] # None
                 PROVE  \/ \E p \in CPUs : Deleting(p, Started'[u])
                        \/ \E i \in 1..Len(stack'[u]) :
                             /\ stack'[u][i] = Started'[u]
                             /\ \A j \in (i + 1)..Len(stack'[u]) : Function[stack'[u][j]] \notin Attached
      BY <1>1, SMTT(20) DEF StartsInnermost, Deleting
    <2>1. CASE u # t
      <3>1. u \in Keys /\ u \notin missed /\ Started'[u] = Started[u] /\ stack'[u] = stack[u]
        BY <1>0, <1>4, <1>8, <2>1
      <3> QED BY <3>1 DEF KprobeInv, StartsInnermost
    <2>2. CASE u = t /\ Function[c] \in Attached
      <3>1. Started'[u] = c BY <1>4, <2>2
      <3>2. stack'[u][n + 1] = c /\ Len(stack'[u]) = n + 1 BY <1>8, <2>2
      <3>3. n + 1 \in 1..(n + 1) /\ \A j \in (n + 1 + 1)..(n + 1) : FALSE BY <1>7, GrownIndices
      <3> QED BY <3>1, <3>2, <3>3
    <2>3. CASE u = t /\ Function[c] \notin Attached
      <3>1. u \notin missed /\ Started'[u] = Started[u] BY <1>4, <2>3
      <3>2. CASE \E p \in CPUs : Deleting(p, Started[u]) BY <3>1, <3>2
      <3>3. CASE \E i \in 1..Len(stack[u]) :
                   /\ stack[u][i] = Started[u]
                   /\ \A j \in (i + 1)..Len(stack[u]) : Function[stack[u][j]] \notin Attached
        <4>1. PICK i \in 1..n : /\ stack[t][i] = Started[t]
                                /\ \A j \in (i + 1)..n : Function[stack[t][j]] \notin Attached
          BY <2>3, <3>3
        <4>2. i \in 1..(n + 1) /\ \A j \in (i + 1)..(n + 1) : (j \in (i + 1)..n /\ j \in 1..n) \/ j = n + 1
          BY <1>7, GrownIndices
        <4>3. \A j \in (i + 1)..(n + 1) : Function[stack'[t][j]] \notin Attached
          BY <1>8, <2>3, <4>1, <4>2
        <4> QED BY <1>8, <2>3, <3>1, <4>1, <4>2, <4>3, ZenonT(30)
      <3> QED BY <3>1, <3>2, <3>3 DEF KprobeInv, StartsInnermost
    <2> QED BY <2>1, <2>2, <2>3
  <1>14. StartsOwn'
    <2> SUFFICES ASSUME NEW d \in Calls, request'[d] = "inflight", d \notin aliased', Function[d] \in Attached
                 PROVE  Started'[Thread[d]] \in {d, None}
      BY DEF StartsOwn
    <2>1. CASE d = c BY <1>4, <2>1
    <2>2. CASE d # c
      <3>1. request[d] = "inflight" /\ d \notin aliased /\ d \notin others BY <1>3, <2>2
      <3>2. Thread[d] # t BY <2>2, <3>1 DEF others, peers
      <3>3. Started[Thread[d]] \in {d, None} BY <3>1 DEF KprobeInv, StartsOwn
      <3> QED BY <1>0, <1>4, <3>2, <3>3
    <2> QED BY <2>1, <2>2
  <1>15. HandlersPaired'
    <2> SUFFICES ASSUME NEW p \in CPUs \ reused', req[p] # None,
                        Thread[req[p]] \notin missed' \/ req[p] \notin aliased'
                 PROVE  /\ startp[p] # None => stamp'[startp[p]] = req[p]
                        /\ tsp[p] \in {req[p], None} /\ hk[p] \in {nfs_hist_key(req[p]), None}
      BY <1>1 DEF HandlersPaired, Own
    <2>1. Thread[req[p]] \in Keys \ {t} BY <1>0, <1>10
    <2>2. Thread[req[p]] \notin missed \/ req[p] \notin aliased BY <1>3, <1>4, <2>1
    <2>3. Own(req[p], startp[p], tsp[p], hk[p]) BY <1>4, <2>2 DEF KprobeInv, HandlersPaired
    <2> QED BY <1>4, <2>3 DEF Own
  <1>16. KeysRead' BY <1>1 DEF KprobeInv, KeysRead
  <1> QED BY <1>5, <1>9, <1>11, <1>12, <1>13, <1>14, <1>15, <1>16 DEF KprobeInv

(* A return no probe runs on. *)
LEMMA ReturnUnseenInv ==
  ASSUME KprobeConstants, KprobeInv, NEW c \in Calls, ReturnUnseen(c)
  PROVE  KprobeInv'
  <1> DEFINE t == Thread[c]
             n == Len(stack[t])
  <1>0. /\ PathInv(Calls) /\ TypeOK /\ Calls \subseteq Requests /\ None \notin Calls
        /\ \A d \in Calls : Thread[d] \in Threads /\ Thread[d] \in Keys
        /\ request \in [Requests -> {"idle", "inflight", "completing"}]
        /\ Started \in [Keys -> Calls \cup {None}]
        /\ req \in [CPUs -> Calls \cup {None}]
        /\ \A p \in CPUs : tsp[p] # None => req[p] # None
        /\ aliased \in SUBSET Requests /\ issues \in 0..MaxIssues
        /\ missed \in SUBSET Keys /\ Threads \subseteq Keys
    BY KprobeFacts, Zenon DEF KprobeInv, PathInv, TypeOK, KprobeConstants
  <1>1. /\ Innermost(c) /\ Leaves(c) /\ Running(t) /\ request[c] = "inflight"
        /\ request' = [request EXCEPT ![c] = "idle"]
        /\ aliased' = aliased \ {c}
        /\ missed' = IF Function[c] \in Attached THEN missed \cup {t} ELSE missed
        /\ UNCHANGED <<histVars, handler, reused, issues>> /\ UNCHANGED <<pc, req, startp, tsp, hk>>
        /\ UNCHANGED <<start, stamp>> /\ Started' = Started
    BY Zenon DEF ReturnUnseen, Innermost, handler, startVars, Started
  <1>2. /\ request'[c] = "idle" /\ \A d \in Calls \ {c} : request'[d] = request[d]
        /\ \A d \in Calls \ {c} : d \in aliased' <=> d \in aliased
        /\ missed \subseteq missed' /\ missed' \in SUBSET Keys
        /\ Function[c] \in Attached => t \in missed'
    BY <1>0, <1>1
  <1>3. PathInv(Calls)'
    <2>1. /\ request' \in [Requests -> {"idle", "inflight", "completing"}]
          /\ aliased' \in SUBSET Requests
      BY <1>0, <1>1, Zenon
    <2>2. Maps(Calls)' /\ reused' \in SUBSET CPUs BY <1>0, <1>1 DEF PathInv, Held, Maps, TypeOK
    <2> QED BY <1>0, <1>1, <1>2, <2>1, <2>2, PathStart, Zenon
  <1>4. StackInv' BY <1>1, <1>2, LeavesStack, Zenon
  <1>5. \A p \in CPUs : req[p] # None => req[p] \in Calls /\ req[p] # c
    BY <1>1, NoHandler, Zenon
  <1>6. HandlerInv' BY <1>1, <1>2, <1>5 DEF KprobeInv, HandlerInv
  <1>7. StartsKept' BY <1>1 DEF KprobeInv, StartsKept
  <1>8. StartsInnermost'
    <2> SUFFICES ASSUME NEW u \in Threads \ missed', Started[u] # None
                 PROVE  \/ \E p \in CPUs : Deleting(p, Started[u])
                        \/ \E i \in 1..Len(stack'[u]) :
                             /\ stack'[u][i] = Started[u]
                             /\ \A j \in (i + 1)..Len(stack'[u]) : Function[stack'[u][j]] \notin Attached
      BY <1>1, Zenon DEF StartsInnermost, Deleting
    <2>1. /\ t \in Threads /\ n \in Nat \ {0} /\ stack[t][n] = c
          /\ Len(stack'[t]) = n - 1 /\ \A i \in 1..(n - 1) : stack'[t][i] = stack[t][i]
          /\ \A v \in Threads \ {t} : stack'[v] = stack[v]
      BY <1>1, LeavesFacts
    <2>2. u \in Keys /\ u \notin missed /\ (u = t => Function[c] \notin Attached) BY <1>0, <1>2
    <2>3. CASE \E p \in CPUs : Deleting(p, Started[u]) BY <2>3
    <2>4. CASE \E i \in 1..Len(stack[u]) :
                 /\ stack[u][i] = Started[u]
                 /\ \A j \in (i + 1)..Len(stack[u]) : Function[stack[u][j]] \notin Attached
      <3>1. CASE u # t BY <2>1, <2>4, <3>1
      <3>2. CASE u = t
        <4>1. PICK i \in 1..n : /\ stack[t][i] = Started[t]
                                /\ \A j \in (i + 1)..n : Function[stack[t][j]] \notin Attached
          BY <2>4, <3>2
        <4>2. Function[Started[t]] \in Attached BY <2>2, <3>2 DEF KprobeInv, StartsKept
        <4>3. i # n BY <2>1, <2>2, <3>2, <4>1, <4>2
        <4>4. i \in 1..(n - 1) /\ \A j \in (i + 1)..(n - 1) : j \in (i + 1)..n /\ j \in 1..(n - 1)
          BY <2>1, <4>3, ShrunkIndices
        <4>5. \A j \in (i + 1)..(n - 1) : Function[stack'[t][j]] \notin Attached
          BY <2>1, <4>1, <4>4
        <4> HIDE DEF t, n
        <4> QED BY <2>1, <3>2, <4>1, <4>4, <4>5
      <3> QED BY <3>1, <3>2
    <2> QED BY <2>2, <2>3, <2>4 DEF KprobeInv, StartsInnermost
  <1>9. StartsOwn'
    <2> SUFFICES ASSUME NEW d \in Calls, request'[d] = "inflight", d \notin aliased', Function[d] \in Attached
                 PROVE  Started[Thread[d]] \in {d, None}
      BY <1>1 DEF StartsOwn
    <2>1. d # c /\ request[d] = "inflight" /\ d \notin aliased BY <1>2
    <2> QED BY <2>1 DEF KprobeInv, StartsOwn
  <1>10. HandlersPaired'
    <2> SUFFICES ASSUME NEW p \in CPUs \ reused, req[p] # None,
                        Thread[req[p]] \notin missed' \/ req[p] \notin aliased'
                 PROVE  Own(req[p], startp[p], tsp[p], hk[p])
      BY <1>1 DEF HandlersPaired, Own
    <2>1. Thread[req[p]] \notin missed \/ req[p] \notin aliased BY <1>2, <1>5
    <2> QED BY <2>1 DEF KprobeInv, HandlersPaired
  <1>11. KeysRead' BY <1>1 DEF KprobeInv, KeysRead
  <1> QED BY <1>3, <1>4, <1>6, <1>7, <1>8, <1>9, <1>10, <1>11 DEF KprobeInv

(* A return probe looks up the start of its thread.  What it finds is that *)
(* of the call that returns, unless a return was missed or calls overlap.  *)
LEMMA LookupOwn ==
  ASSUME KprobeConstants, KprobeInv, NEW p \in CPUs, NEW c \in Calls, ReturnProbed(p, c),
         Started[Thread[c]] # None
  PROVE  /\ Thread[c] \notin missed => Started[Thread[c]] = c
         /\ c \notin aliased => Started[Thread[c]] = c
  <1> DEFINE t == Thread[c]
             n == Len(stack[t])
  <1>1. Innermost(c) /\ Leaves(c) /\ Running(t) /\ request[c] = "inflight" /\ Function[c] \in Attached
    BY DEF ReturnProbed, Innermost, LookupStart
  <1>2. CASE t \notin missed
    <2>1. t \in Threads /\ n \in Nat \ {0} /\ stack[t][n] = c BY <1>1, LeavesFacts
    <2>2. Started[t] \in Calls
      <3>1. Started \in [Keys -> Calls \cup {None}] /\ t \in Keys BY KprobeFacts DEF KprobeInv
      <3> QED BY <3>1
    <2>3. Thread[Started[t]] = t BY <2>1 DEF KprobeInv, StartsKept, KprobeConstants
    <2>4. ~ \E q \in CPUs : Deleting(q, Started[t])
      <3>1. \A q \in CPUs : req[q] # None => Thread[req[q]] # t BY <1>1, NoHandler
      <3> QED BY <2>2, <2>3, <3>1, KprobeFacts DEF KprobeInv, Deleting
    <2>5. PICK i \in 1..n : /\ stack[t][i] = Started[t]
                            /\ \A j \in (i + 1)..n : Function[stack[t][j]] \notin Attached
      BY <1>2, <2>1, <2>4 DEF KprobeInv, StartsInnermost
    <2>6. i = n
      <3>1. i # n => n \in (i + 1)..n BY <2>1, ShrunkIndices
      <3> QED BY <1>1, <2>1, <2>5, <3>1
    <2> HIDE DEF n
    <2> QED BY <2>1, <2>5, <2>6
  <1>3. CASE c \notin aliased BY <1>1, <1>3 DEF KprobeInv, StartsOwn
  <1> QED BY <1>2, <1>3

LEMMA ReturnProbedInv ==
  ASSUME KprobeConstants, KprobeInv, NEW p \in CPUs, NEW c \in Calls, ReturnProbed(p, c)
  PROVE  KprobeInv'
  <1> DEFINE t == Thread[c]
             n == Len(stack[t])
  <1>0. /\ PathInv(Calls) /\ Calls \subseteq Requests /\ None \notin Calls
        /\ \A d \in Calls : Thread[d] \in Threads /\ Thread[d] \in Keys
        /\ request \in [Requests -> {"idle", "inflight", "completing"}]
        /\ Started \in [Keys -> Calls \cup {None}]
        /\ start[t] # None => Started[t] = stamp[start[t]] /\ Started[t] # None
        /\ start[t] = None => Started[t] = None
        /\ pc \in [CPUs -> Steps] /\ startp \in [CPUs -> StartElems \cup {None}]
        /\ req \in [CPUs -> Calls \cup {None}] /\ tsp \in [CPUs -> Calls \cup {None}]
        /\ hk \in [CPUs -> HistKeys \cup {None}]
        /\ \A q \in CPUs : pc[q] \in {"idle", "read"} => tsp[q] = None
        /\ \A q \in CPUs : pc[q] = "idle" <=> req[q] = None
        /\ Threads \subseteq Keys
    BY KprobeFacts DEF KprobeInv, KprobeConstants
  <1>1. /\ Innermost(c) /\ Leaves(c) /\ Running(t) /\ request[c] = "inflight"
        /\ Function[c] \in Attached /\ LookupStart(p, c, t) /\ pc[p] = "idle"
        /\ UNCHANGED <<start, stamp, missed>> /\ Started' = Started
    BY DEF ReturnProbed, Innermost, LookupStart, startVars, Started
  <1>2. PathInv(Calls)' BY <1>0, <1>1, PathLookup, Zenon
  <1>3. \/ /\ start[t] = None
           /\ pc' = [pc EXCEPT ![p] = "idle"] /\ req' = [req EXCEPT ![p] = None]
           /\ startp' = [startp EXCEPT ![p] = None] /\ tsp' = [tsp EXCEPT ![p] = None]
           /\ hk' = [hk EXCEPT ![p] = None] /\ reused' = reused \ {p}
           /\ request' = [request EXCEPT ![c] = "idle"] /\ aliased' = aliased \ {c}
        \/ /\ start[t] # None
           /\ pc' = [pc EXCEPT ![p] = "read"] /\ req' = [req EXCEPT ![p] = c]
           /\ startp' = [startp EXCEPT ![p] = start[t]]
           /\ request' = [request EXCEPT ![c] = "completing"] /\ UNCHANGED <<tsp, hk, aliased, reused>>
    BY <1>1, Zenon DEF LookupStart, Return, Advance
  <1>4. /\ \A d \in Calls \ {c} : request'[d] = request[d] /\ (d \in aliased' <=> d \in aliased)
        /\ \A q \in CPUs \ {p} : pc'[q] = pc[q] /\ req'[q] = req[q] /\ startp'[q] = startp[q]
                              /\ tsp'[q] = tsp[q] /\ hk'[q] = hk[q] /\ (q \in reused' <=> q \in reused)
        /\ request'[c] # "inflight"
        /\ \/ Started[t] = None /\ req'[p] = None /\ hk'[p] = None
           \/ /\ Started[t] # None /\ pc'[p] = "read" /\ req'[p] = c
              /\ stamp[startp'[p]] = Started[t] /\ tsp'[p] = None /\ hk'[p] = hk[p]
              /\ request'[c] = "completing" /\ UNCHANGED aliased
    <2>1. CASE start[t] = None
      <3>1. Started[t] = None /\ req'[p] = None /\ hk'[p] = None BY <1>0, <1>3, <2>1
      <3> QED BY <1>0, <1>3, <2>1, <3>1
    <2>2. CASE start[t] # None
      <3>1. /\ Started[t] # None /\ pc'[p] = "read" /\ req'[p] = c
            /\ stamp[startp'[p]] = Started[t] /\ tsp'[p] = None /\ hk'[p] = hk[p]
            /\ request'[c] = "completing" /\ UNCHANGED aliased
        BY <1>0, <1>1, <1>3, <2>2
      <3> QED BY <1>0, <1>3, <2>2, <3>1, ZenonT(60)
    <2> QED BY <2>1, <2>2
  <1>5. StackInv' BY <1>1, <1>4, LeavesStack, Zenon
  <1>6. \A q \in CPUs : req[q] # None => req[q] \in Calls /\ req[q] # c /\ Thread[req[q]] # t
    BY <1>1, NoHandler, Zenon
  <1>7. /\ Started[t] # None /\ t \notin missed => Started[t] = c
        /\ Started[t] # None /\ c \notin aliased => Started[t] = c
    BY LookupOwn
  <1>8. HandlerInv'
    <2>1. \A q \in CPUs : req'[q] # None =>
            \/ q = p /\ req'[q] = c /\ request'[c] = "completing"
            \/ q # p /\ req'[q] = req[q] /\ req[q] # None
      BY <1>4
    <2>2. /\ \A q \in CPUs : req[q] # None => request[req[q]] = "completing"
          /\ \A q, r \in CPUs : req[q] # None /\ req[r] # None /\ Thread[req[q]] = Thread[req[r]] => q = r
      BY DEF KprobeInv, HandlerInv
    <2>3. \A d \in Calls \ {c} : request'[d] = request[d] BY <1>4
    <2> HIDE DEF t, n
    <2>4. ASSUME NEW q \in CPUs, req'[q] # None PROVE request'[req'[q]] = "completing"
      BY <1>6, <2>1, <2>2, <2>3, <2>4
    <2>5. ASSUME NEW q \in CPUs, NEW r \in CPUs, req'[q] # None, req'[r] # None,
                 Thread[req'[q]] = Thread[req'[r]]
          PROVE  q = r
      BY <1>6, <2>1, <2>2, <2>5 DEF t
    <2> QED BY <2>4, <2>5 DEF HandlerInv
  <1>9. StartsKept' BY <1>1, Zenon DEF KprobeInv, StartsKept
  <1>10. StartsInnermost'
    <2> SUFFICES ASSUME NEW u \in Threads \ missed, Started[u] # None
                 PROVE  \/ \E q \in CPUs : req'[q] = Started[u] /\ pc'[q] \in {"read", "readkey", "delete"}
                        \/ \E i \in 1..Len(stack'[u]) :
                             /\ stack'[u][i] = Started[u]
                             /\ \A j \in (i + 1)..Len(stack'[u]) : Function[stack'[u][j]] \notin Attached
      BY <1>1 DEF StartsInnermost, Deleting
    <2>1. CASE u = t BY <1>4, <1>7, <2>1, Zenon
    <2>2. CASE u # t
      <3>1. stack'[u] = stack[u]
        <4>1. \A v \in Threads \ {t} : stack'[v] = stack[v] BY <1>1, LeavesFacts, Zenon
        <4> QED BY <2>2, <4>1
      <3>2. CASE \E q \in CPUs : Deleting(q, Started[u])
        <4>1. PICK q \in CPUs : Deleting(q, Started[u]) BY <3>2
        <4>2. q # p BY <1>1, <4>1, Zenon DEF Deleting
        <4> QED BY <1>4, <4>1, <4>2, Zenon DEF Deleting
      <3> QED BY <3>1, <3>2, Zenon DEF KprobeInv, StartsInnermost
    <2> QED BY <2>1, <2>2
  <1>11. StartsOwn'
    <2> SUFFICES ASSUME NEW d \in Calls, request'[d] = "inflight", d \notin aliased', Function[d] \in Attached
                 PROVE  Started[Thread[d]] \in {d, None}
      BY <1>1 DEF StartsOwn
    <2>1. d # c /\ request[d] = "inflight" /\ d \notin aliased BY <1>4
    <2> QED BY <2>1, Zenon DEF KprobeInv, StartsOwn
  <1>12. HandlersPaired'
    <2> SUFFICES ASSUME NEW q \in CPUs \ reused', req'[q] # None,
                        Thread[req'[q]] \notin missed \/ req'[q] \notin aliased'
                 PROVE  Own(req'[q], startp'[q], tsp'[q], hk'[q])
      BY <1>1 DEF HandlersPaired, Own
    <2>1. CASE q = p
      <3>1. hk[p] = None BY <1>0, <1>1 DEF KprobeInv, KeysRead
      <3> QED BY <1>4, <1>7, <2>1, <3>1 DEF Own
    <2>2. CASE q # p
      <3>1. req[q] \in Calls \ {c} BY <1>4, <1>6, <2>2
      <3>2. Thread[req[q]] \notin missed \/ req[q] \notin aliased BY <1>4, <2>2, <3>1
      <3> QED BY <1>4, <2>2, <3>1, <3>2 DEF KprobeInv, HandlersPaired
    <2> QED BY <2>1, <2>2
  <1>13. KeysRead' BY <1>0, <1>4 DEF KprobeInv, KeysRead
  <1> QED BY <1>2, <1>5, <1>8, <1>9, <1>10, <1>11, <1>12, <1>13 DEF KprobeInv

LEMMA KprobeStep ==
  ASSUME KprobeConstants, KprobeInv, [KprobeNext]_<<vars, stack>>
  PROVE  KprobeInv'
  <1>1. ASSUME NEW c \in Calls, record_start(c) PROVE KprobeInv' BY <1>1, RecordStartInv
  <1>2. ASSUME NEW c \in Calls, ReturnUnseen(c) PROVE KprobeInv' BY <1>2, ReturnUnseenInv
  <1>3. ASSUME NEW p \in CPUs, NEW c \in Calls, ReturnProbed(p, c) PROVE KprobeInv' BY <1>3, ReturnProbedInv
  <1>4. ASSUME NEW p \in CPUs, DeleteStart(p, Thread[req[p]], hk[p]), UNCHANGED stack
        PROVE  KprobeInv'
    BY <1>4, KprobeDelete
  <1>5. ASSUME NEW p \in CPUs, Count(p), UNCHANGED stack PROVE KprobeInv' BY <1>5, KprobeCount
  <1>6. ASSUME NEW p \in CPUs, ReadTs(p) \/ ReadKey(p), UNCHANGED stack PROVE KprobeInv'
    BY <1>6, KprobeRead
  <1>7. CASE UNCHANGED <<vars, stack>> BY <1>7, KprobeStutter
  <1> QED BY <1>1, <1>2, <1>3, <1>4, <1>5, <1>6, <1>7 DEF KprobeNext, kretprobe_nfs_vfs

(* The invariant of nfs_kprobe_latency.c holds in every reachable state,   *)
(* whatever calls nest, whichever probes could be attached and whichever   *)
(* returns are missed.                                                     *)
THEOREM KprobeInvariance == KprobeConstants => (KprobeSpec => []KprobeInv)
  <1> SUFFICES ASSUME KprobeConstants PROVE KprobeSpec => []KprobeInv
    OBVIOUS
  <1>1. Init /\ StackInit => KprobeInv BY KprobeInit
  <1>2. KprobeInv /\ [KprobeNext]_<<vars, stack>> => KprobeInv' BY KprobeStep
  <1> QED BY <1>1, <1>2, PTL DEF KprobeSpec

(* kretprobe_nfs_vfs measures from the entry of the very call that         *)
(* returns, and counts it as that call's operation, whatever calls nest    *)
(* and whatever is evicted between its lookup and its two reads, unless a  *)
(* return of the thread was missed since its last entry or the element was *)
(* given to another start before it was read.                              *)
THEOREM KprobeReturnsPaired == KprobeConstants => (KprobeSpec => []ReturnsPaired)
  <1> SUFFICES ASSUME KprobeConstants PROVE KprobeSpec => []ReturnsPaired
    OBVIOUS
  <1>1. KprobeInv => ReturnsPaired
    <2> SUFFICES ASSUME KprobeInv, NEW p \in CPUs \ reused, req[p] \in Calls, Thread[req[p]] \notin missed
                 PROVE  tsp[p] \in {req[p], None} /\ hk[p] \in {nfs_hist_key(req[p]), None}
      BY DEF ReturnsPaired
    <2>1. req[p] # None BY PathAssumption DEF KprobeConstants
    <2> QED BY <2>1 DEF KprobeInv, HandlersPaired, Own
  <1> QED BY <1>1, KprobeInvariance, PTL

(* The rest of what the tracepoint programs guarantee holds of the kprobes *)
(* too: a call that was its thread's only one is measured from its own     *)
(* entry even after a missed return, unless the element was reused under   *)
(* the pointer; no start outlives its call unless a return was missed; and *)
(* what is recorded is counted unless a histogram was raced for, evicted   *)
(* or built in memory still in use.                                        *)
THEOREM KprobeSafe ==
  KprobeConstants => (KprobeSpec => [](TypeOK /\ PairedUnlessAliased /\ NoStaleStart /\ NoLossWithoutRace))
  <1> SUFFICES ASSUME KprobeConstants
               PROVE  KprobeSpec => [](TypeOK /\ PairedUnlessAliased /\ NoStaleStart /\ NoLossWithoutRace)
    OBVIOUS
  <1>1. KprobeInv => TypeOK /\ PairedUnlessAliased
    <2> SUFFICES ASSUME KprobeInv PROVE TypeOK /\ PairedUnlessAliased OBVIOUS
    <2>1. TypeOK BY DEF KprobeInv, PathInv
    <2>2. ASSUME NEW p \in CPUs \ reused, tsp[p] # None, req[p] \notin aliased PROVE tsp[p] = req[p]
      <3>1. req[p] # None BY <2>2, KprobeFacts DEF KprobeInv
      <3> QED BY <2>2, <3>1 DEF KprobeInv, HandlersPaired, Own
    <2> QED BY <2>1, <2>2 DEF PairedUnlessAliased
  <1>2. KprobeInv => NoStaleStart
    <2> SUFFICES ASSUME KprobeInv, NEW k \in Keys \ missed, start[k] # None
                 PROVE  request[stamp[start[k]]] # "idle"
      BY <1>1 DEF NoStaleStart, Entries, TypeOK
    <2>1. Started[k] \in Calls /\ Started[k] # None /\ stamp[start[k]] = Started[k]
      BY KprobeFacts, ZenonT(60) DEF KprobeInv
    <2>2. k \in Threads \ missed BY <2>1 DEF KprobeInv, StartsKept, Threads
    <2>3. CASE \E p \in CPUs : req[p] = Started[k] BY <2>1, <2>3 DEF KprobeInv, HandlerInv
    <2>4. CASE \E i \in 1..Len(stack[k]) : stack[k][i] = Started[k]
      <3>1. PICK i \in 1..Len(stack[k]) : stack[k][i] = Started[k] BY <2>4
      <3>2. request[stack[k][i]] = "inflight" BY <2>2 DEF KprobeInv, StackInv
      <3> QED BY <2>1, <3>1, <3>2
    <2> QED BY <2>1, <2>2, <2>3, <2>4 DEF KprobeInv, StartsInnermost, Deleting
  <1>3. KprobeInv => NoLossWithoutRace BY DEF KprobeInv, PathInv, HistInv
  <1> QED BY <1>1, <1>2, <1>3, KprobeInvariance, PTL
=============================================================================
