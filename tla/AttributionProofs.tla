------------------------- MODULE AttributionProofs --------------------------
(***************************************************************************)
(* Proofs about the device resolver and the eBPF collector that looks up   *)
(* its map: what the map says was true while it was built, no two devices  *)
(* of it have the same label, and so the series of a reply are labelled    *)
(* rightly and differ, but for the cases the properties name.              *)
(***************************************************************************)
EXTENDS Attribution, TLAPS, SequenceTheorems

(* A step that names no prover is tried with Zenon, then with SMT. *)
USE ZenonT(20), SMTT(20)

(* A mounted volume is attached, a mount is in the table once, and every   *)
(* volume that is or was seen on a device is among its owners.             *)
NodeInv ==
    /\ IsInjective(mountinfo)
    /\ \A i \in DOMAIN mountinfo : device[mountinfo[i][2]] # None
    /\ \A v \in Volumes : device[v] # None => v \in owners[device[v]]
    /\ \A p \in Pods, v \in Volumes, d \in Devices : <<p, v, d>> \in seen => v \in owners[d]

(* Every entry of a map is about a volume and a device seen together. *)
Vouched(map) ==
    \A d \in Devices :
        map[KernelDev(d)] # None => <<map[KernelDev(d)].pod, map[KernelDev(d)].vol, d>> \in seen

(* A map has a pod and volume for one device at most. *)
SameMount(a, b) == a.pod = b.pod /\ a.vol = b.vol

Distinct(map) ==
    \A d, e \in Devices :
        /\ map[KernelDev(d)] # None
        /\ map[KernelDev(e)] # None
        /\ SameMount(map[KernelDev(d)], map[KernelDev(e)])
        => d = e

(* What is mounted during a scan has been seen, and so has what the lines  *)
(* say that are left; no two lines have the same pod and volume.           *)
LinesInv ==
    pc \in {"pods", "lines"} =>
        /\ \A i \in DOMAIN mountinfo :
             <<mountinfo[i][1], mountinfo[i][2], device[mountinfo[i][2]]>> \in seen
        /\ \A i \in 1..Len(lines) :
             lines[i].vol \notin BlockVolumes =>
                 \E d \in Devices : lines[i].dev = KernelDev(d) /\ <<lines[i].pod, lines[i].vol, d>> \in seen
        /\ \A i, j \in 1..Len(lines) : SameMount(lines[i], lines[j]) => i = j

(* The new map so far, and that its entries are not of lines to come. *)
FreshInv ==
    pc = "lines" =>
        /\ Vouched(fresh)
        /\ Distinct(fresh)
        /\ \A d \in Devices, i \in 1..Len(lines) :
             fresh[KernelDev(d)] # None => ~SameMount(fresh[KernelDev(d)], lines[i])

(* The map in use. *)
MapInv ==
    /\ Distinct(devices)
    /\ \A d \in Devices : devices[KernelDev(d)] # None => devices[KernelDev(d)].vol \in owners[d]

(* The reply so far. *)
ReplyInv ==
    /\ \A s \in reply : s.info # None => s.info.vol \in owners[s.dev]
    /\ ~collecting => reply = {}
    /\ ~swapped => \A s \in reply : s.info = devices[KernelDev(s.dev)]

Inv == TypeOK /\ NodeInv /\ LinesInv /\ FreshInv /\ MapInv /\ ReplyInv
-----------------------------------------------------------------------------
(* Device numbers. *)

(* A number has one quotient and one remainder. *)
LEMMA QuotientUnique ==
  ASSUME NEW K \in Nat \ {0}, NEW a \in Nat, NEW b \in 0..(K - 1),
         NEW c \in Nat, NEW d \in 0..(K - 1), a * K + b = c * K + d
  PROVE  a = c /\ b = d
  <1>1. ASSUME NEW x \in Nat, NEW y \in Nat, x < y PROVE x * K + K <= y * K
    <2>1. PICK z \in Nat : y = x + 1 + z BY <1>1, SMT
    <2>2. y * K = x * K + K + z * K BY <2>1, SMT
    <2>3. z * K >= 0 BY SMT
    <2> QED BY <2>2, <2>3, SMT
  <1>2. a * K \in Int /\ c * K \in Int BY SMT
  <1>3. ~(a < c) BY <1>1, <1>2, SMT
  <1>4. ~(c < a) BY <1>1, <1>2, SMT
  <1> QED BY <1>3, <1>4, SMT

(* \div and % take apart what a shift and an addition put together. *)
LEMMA DivMod ==
  ASSUME NEW K \in Nat \ {0}, NEW a \in Nat, NEW b \in 0..(K - 1)
  PROVE  (a * K + b) \div K = a /\ (a * K + b) % K = b
  <1> DEFINE n == a * K + b
  <1>1. n \in Nat BY SMT
  <1>2. n \div K \in Nat /\ n % K \in 0..(K - 1) /\ n = (n \div K) * K + (n % K) BY <1>1, SMT
  <1> QED BY <1>2, QuotientUnique, SMT

(* The numbers of a device. *)
LEMMA NumberRange ==
  ASSUME NEW d \in Devices
  PROVE  Major[d] \in Nat /\ Major[d] < 2^12 /\ Minor[d] \in Nat /\ Minor[d] < 2^20
  <1>1. 2^20 \in Nat /\ 2^12 \in Nat BY SMT
  <1>2. Major[d] \in 0..(2^12 - 1) /\ Minor[d] \in 0..(2^20 - 1) BY ResolverAssumption, SMT
  <1> QED BY <1>1, <1>2, SMT

(* The devices have different numbers. *)
LEMMA KernelDevUnique ==
  ASSUME NEW d \in Devices, NEW e \in Devices, KernelDev(d) = KernelDev(e)
  PROVE  d = e
  <1> DEFINE K == 2^20
  <1>1. K \in Nat \ {0} BY SMT
  <1>2. Major[d] * K + Minor[d] = Major[e] * K + Minor[e] BY DEF KernelDev
  <1>3. Minor[d] < K /\ Minor[e] < K BY NumberRange
  <1> HIDE DEF K
  <1>4. /\ Major[d] \in Nat /\ Major[e] \in Nat
        /\ Minor[d] \in 0..(K - 1) /\ Minor[e] \in 0..(K - 1)
    BY NumberRange, <1>1, <1>3, SMT
  <1>5. Major[d] = Major[e] /\ Minor[d] = Minor[e] BY <1>1, <1>2, <1>4, QuotientUnique
  <1>6. \A x, y \in Devices : Major[x] = Major[y] /\ Minor[x] = Minor[y] => x = y
    BY ResolverAssumption
  <1> QED BY <1>5, <1>6

(* st_rdev, of a minor number b in two parts around a major number a, is   *)
(* taken apart by shifts and masks.                                        *)
LEMMA RdevParts ==
  \A B, C \in Nat \ {0} : \A a, b, n \in Nat :
      a < C /\ b < C * B /\ n = (b % B) + a * B + (b \div B) * (C * B) =>
          /\ (n \div B) % C = a
          /\ (n % B) + ((n \div (C * B)) % C) * B = b
  <1> TAKE B, C \in Nat \ {0}
  <1> TAKE a, b, n \in Nat
  <1> HAVE a < C /\ b < C * B /\ n = (b % B) + a * B + (b \div B) * (C * B)
  <1> DEFINE M == C * B
  <1> DEFINE q == b \div B
             r == b % B
  <1>0. M \in Nat /\ a \in 0..(C - 1) BY SMT
  <1>1. q \in Nat /\ r \in 0..(B - 1) /\ b = q * B + r BY <1>0, SMT
  <1>2. n = r + a * B + q * M BY SMT
  <1> HIDE DEF q, r
  <1>3. q < C
    <2>1. SUFFICES ASSUME q >= C PROVE FALSE BY <1>1, SMT
    <2>2. PICK k \in Nat : q = C + k BY <2>1, <1>1, SMT
    <2>3. q * B = C * B + k * B /\ k * B >= 0 BY <2>2, SMT
    <2> QED BY <2>3, <1>0, <1>1, SMT
  <1>4. q * M = (q * C) * B /\ (q * C + a) * B = (q * C) * B + a * B BY <1>1, SMT
  <1>5. q * C + a \in Nat BY <1>1, SMT
  <1>6. n \div B = q * C + a /\ n % B = r
    <2>1. q * M \in Int /\ a * B \in Int /\ r \in Int BY <1>0, <1>1, SMT
    <2>3. n = (q * C + a) * B + r BY <2>1, <1>2, <1>4, SMT
    <2>2. ((q * C + a) * B + r) \div B = q * C + a /\ ((q * C + a) * B + r) % B = r
      BY <1>1, <1>5, DivMod
    <2> QED BY <2>2, <2>3
  <1>7. (q * C + a) % C = a BY <1>0, <1>1, DivMod
  <1>8. a * B + r \in 0..(M - 1)
    <2>1. PICK k \in Nat : C = a + 1 + k BY SMT
    <2>2. C * B = a * B + B + k * B /\ k * B >= 0 BY <2>1, SMT
    <2>3. a * B \in Nat BY SMT
    <2> QED BY <2>2, <2>3, <1>0, <1>1, SMT
  <1>9. M \in Nat \ {0} /\ n = q * M + (a * B + r)
    <2>1. M \in Nat \ {0} BY <1>0, <1>8, SMT
    <2>2. q * M \in Int /\ a * B \in Int /\ r \in Int BY <1>0, <1>1, SMT
    <2> QED BY <2>1, <2>2, <1>2, SMT
  <1>10. n \div M = q
    <2>1. (q * M + (a * B + r)) \div M = q BY <1>1, <1>8, <1>9, DivMod
    <2> QED BY <2>1, <1>9
  <1>11. q % C = q BY <1>1, <1>3, SMT
  <1>12. (n % B) + ((n \div M) % C) * B = r + q * B BY <1>6, <1>10, <1>11
  <1>13. r + q * B = b BY <1>1, SMT
  <1> QED BY <1>6, <1>7, <1>12, <1>13

(* statBlockDevice undoes the encoding of st_rdev: the number it computes  *)
(* from the device file is the one the kernel and the histograms have.     *)
LEMMA StatRoundTrip ==
  ASSUME NEW d \in Devices
  PROVE  statBlockDevice(Rdev(d)) = KernelDev(d)
  <1> DEFINE n == Rdev(d)
             B == 256
             C == 4096
             M == 2^20
             a == Major[d]
             b == Minor[d]
  <1>1. B \in Nat \ {0} /\ C \in Nat \ {0} /\ M = C * B /\ C = 2^12 BY SMT
  <1>2. n = (b % B) + a * B + (b \div B) * M BY SMT DEF Rdev
  <1>3. a \in Nat /\ b \in Nat /\ a < C /\ b < M BY NumberRange, <1>1, SMT
  <1>4. statBlockDevice(n) = MkDev((n \div B) % C, (n % B) + ((n \div M) % C) * B)
    BY SMT DEF statBlockDevice
  <1> HIDE DEF n, B, C, M, a, b
  <1>5. M \in Nat BY <1>1, SMT
  <1>6. n \in Nat BY <1>1, <1>2, <1>3, <1>5, SMT
  <1>7. /\ (n \div B) % C = a
        /\ (n % B) + ((n \div M) % C) * B = b
    <2>1. a < C /\ b < C * B /\ n = (b % B) + a * B + (b \div B) * (C * B)
      BY <1>1, <1>2, <1>3, Zenon
    <2>2. \A x, y, z \in Nat :
              x < C /\ y < C * B /\ z = (y % B) + x * B + (y \div B) * (C * B) =>
                  /\ (z \div B) % C = x
                  /\ (z % B) + ((z \div (C * B)) % C) * B = y
      BY <1>1, RdevParts, ZenonT(30)
    <2>3. /\ (n \div B) % C = a
          /\ (n % B) + ((n \div (C * B)) % C) * B = b
      BY <2>1, <2>2, <1>3, <1>6, Zenon
    <2> QED BY <2>3, <1>1, Zenon
  <1>8. statBlockDevice(n) = MkDev(a, b) BY <1>4, <1>7
  <1>9. MkDev(a, b) = KernelDev(d) BY DEF MkDev, KernelDev, a, b
  <1> QED BY <1>8, <1>9 DEF n

(* A device number is a number, and not None. *)
LEMMA NumbersNotNone == None \notin Numbers /\ \A d \in Devices : KernelDev(d) \in Numbers
  <1>1. ASSUME NEW d \in Devices PROVE KernelDev(d) \in Nat
    <2>1. Major[d] \in Nat /\ Minor[d] \in Nat BY NumberRange, SMT
    <2> QED BY <2>1, NumberRange, SMT DEF KernelDev
  <1>2. None \notin Nat BY ResolverAssumption
  <1> QED BY <1>1, <1>2, Zenon DEF Numbers
-----------------------------------------------------------------------------
(* The mount table. *)

(* Positions after the one that is removed. *)
LEMMA ShiftFacts ==
  ASSUME NEW l \in Nat, NEW i \in 1..l, NEW j \in 1..(l - 1), ~(j < i)
  PROVE  /\ ~(j <= i - 1) /\ j - (i - 1) \in 1..(l - i)
         /\ i + (j - (i - 1)) = j + 1 /\ j + 1 \in 1..l
  BY SMT

(* Removing a line keeps the others, each once. *)
LEMMA RemovalKeepsDistinct ==
  ASSUME NEW S, NEW s \in Seq(S), NEW i \in 1..Len(s), IsInjective(s)
  PROVE  LET t == SubSeq(s, 1, i - 1) \o SubSeq(s, i + 1, Len(s))
         IN  /\ t \in Seq(S)
             /\ IsInjective(t)
             /\ \A j \in DOMAIN t : \E k \in DOMAIN s : t[j] = s[k]
  <1> DEFINE a == SubSeq(s, 1, i - 1)
             b == SubSeq(s, i + 1, Len(s))
             t == a \o b
             at(j) == IF j < i THEN j ELSE j + 1
  <1>1. Len(s) \in Nat /\ DOMAIN s = 1..Len(s) /\ i \in Int BY LenProperties, SMT
  <1>2. \A j \in 1..Len(s) : s[j] \in S BY ElementOfSeq
  <1>3. /\ a \in Seq(S) /\ Len(a) = i - 1
        /\ \A j \in 1..(i - 1) : a[j] = s[j]
    <2>1. \A j \in 1..(i - 1) : s[j] \in S BY <1>1, <1>2, SMT
    <2>2. /\ a \in Seq(S)
          /\ Len(a) = IF 1 <= i - 1 THEN i - 1 - 1 + 1 ELSE 0
          /\ \A j \in 1..(i - 1 - 1 + 1) : a[j] = s[1 + j - 1]
      BY <2>1, <1>1, SubSeqProperties, SMT
    <2>3. Len(a) = i - 1 BY <2>2, <1>1, SMT
    <2>4. ASSUME NEW j \in 1..(i - 1) PROVE a[j] = s[j]
      <3>1. j \in 1..(i - 1 - 1 + 1) /\ 1 + j - 1 = j BY <1>1, SMT
      <3> QED BY <3>1, <2>2
    <2> QED BY <2>2, <2>3, <2>4
  <1>4. /\ b \in Seq(S) /\ Len(b) = Len(s) - i
        /\ \A j \in 1..(Len(s) - i) : b[j] = s[i + j]
    <2>1. \A j \in (i + 1)..Len(s) : s[j] \in S BY <1>1, <1>2, SMT
    <2>2. /\ b \in Seq(S)
          /\ Len(b) = IF i + 1 <= Len(s) THEN Len(s) - (i + 1) + 1 ELSE 0
          /\ \A j \in 1..(Len(s) - (i + 1) + 1) : b[j] = s[(i + 1) + j - 1]
      BY <2>1, <1>1, SubSeqProperties, SMT
    <2>3. Len(b) = Len(s) - i
      <3> HIDE DEF b
      <3>1. CASE i + 1 <= Len(s) BY <3>1, <2>2, <1>1, SMT
      <3>2. CASE ~(i + 1 <= Len(s))
        <4>1. Len(b) = 0 BY <3>2, <2>2, Zenon
        <4>2. \A l \in Nat : \A k \in 1..l : ~(k + 1 <= l) => l - k = 0 BY SMT
        <4>3. Len(s) - i = 0 BY <4>2, <3>2, <1>1, Zenon
        <4> QED BY <4>1, <4>3
      <3> QED BY <3>1, <3>2
    <2>4. ASSUME NEW j \in 1..(Len(s) - i) PROVE b[j] = s[i + j]
      <3>1. j \in 1..(Len(s) - (i + 1) + 1) /\ (i + 1) + j - 1 = i + j BY <1>1, SMT
      <3> QED BY <3>1, <2>2
    <2> QED BY <2>2, <2>3, <2>4
  <1>5. t = a \o b OBVIOUS
  <1> HIDE DEF a, b, t
  <1>6. /\ t \in Seq(S) /\ Len(t) = Len(a) + Len(b)
        /\ \A j \in 1..(Len(a) + Len(b)) : t[j] = IF j <= Len(a) THEN a[j] ELSE b[j - Len(a)]
    BY <1>3, <1>4, <1>5, ConcatProperties
  <1>7. DOMAIN t = 1..(Len(s) - 1)
    <2>1. Len(t) = Len(s) - 1 BY <1>1, <1>3, <1>4, <1>6, SMT
    <2> QED BY <2>1, <1>6, LenProperties
  <1>8. ASSUME NEW j \in DOMAIN t PROVE at(j) \in DOMAIN s /\ t[j] = s[at(j)]
    <2>1. j \in 1..(Len(a) + Len(b)) /\ j \in Int BY <1>1, <1>3, <1>4, <1>7, SMT
    <2>2. CASE j < i
      <3>1. j <= Len(a) /\ j \in 1..(i - 1) /\ j \in DOMAIN s BY <2>1, <2>2, <1>1, <1>3, <1>4, <1>7, SMT
      <3> QED BY <3>1, <2>1, <2>2, <1>3, <1>6
    <2>3. CASE ~(j < i)
      <3>1. /\ ~(j <= Len(a)) /\ j - Len(a) \in 1..(Len(s) - i)
            /\ i + (j - Len(a)) = j + 1 /\ j + 1 \in DOMAIN s
        <4>1. Len(a) = i - 1 /\ j \in 1..(Len(s) - 1) BY <1>3, <1>7
        <4>2. /\ ~(j <= i - 1) /\ j - (i - 1) \in 1..(Len(s) - i)
              /\ i + (j - (i - 1)) = j + 1 /\ j + 1 \in 1..Len(s)
          BY <4>1, <2>3, <1>1, ShiftFacts, Zenon
        <4> QED BY <4>1, <4>2, <1>1, Zenon
      <3>2. t[j] = b[j - Len(a)] BY <3>1, <2>1, <1>6
      <3>3. b[j - Len(a)] = s[j + 1] BY <3>1, <1>4
      <3> QED BY <3>1, <3>2, <3>3, <2>3
    <2> QED BY <2>2, <2>3
  <1>9. ASSUME NEW j \in DOMAIN t, NEW k \in DOMAIN t, t[j] = t[k] PROVE j = k
    <2>1. at(j) = at(k) BY <1>8, <1>9 DEF IsInjective
    <2>2. j \in Int /\ k \in Int BY <1>1, <1>7, SMT
    <2> QED BY <2>1, <2>2, <1>1, SMT
  <1>10. IsInjective(t) BY <1>9 DEF IsInjective
  <1>11. \A j \in DOMAIN t : \E k \in DOMAIN s : t[j] = s[k]
    <2> HIDE DEF at
    <2> QED BY <1>8
  <1> QED BY <1>6, <1>10, <1>11 DEF a, b, t

(* Appending a line that is not there keeps them different. *)
LEMMA AppendKeepsDistinct ==
  ASSUME NEW S, NEW s \in Seq(S), NEW e \in S, IsInjective(s), e \notin Range(s)
  PROVE  /\ Append(s, e) \in Seq(S)
         /\ IsInjective(Append(s, e))
         /\ \A j \in DOMAIN Append(s, e) :
              Append(s, e)[j] = e \/ \E k \in DOMAIN s : Append(s, e)[j] = s[k]
  <1> DEFINE t == Append(s, e)
  <1>1. Len(s) \in Nat /\ DOMAIN s = 1..Len(s) BY LenProperties
  <1>2. /\ t \in Seq(S) /\ Len(t) = Len(s) + 1
        /\ \A j \in 1..Len(s) : t[j] = s[j]
        /\ t[Len(s) + 1] = e
    BY AppendProperties, SMT
  <1> HIDE DEF t
  <1>3. DOMAIN t = 1..(Len(s) + 1) BY <1>2, LenProperties
  <1>4. \A j \in DOMAIN t : j \in DOMAIN s \/ j = Len(s) + 1 BY <1>1, <1>3, SMT
  <1>5. \A j \in DOMAIN s : s[j] # e BY DEF Range
  <1>6. ASSUME NEW j \in DOMAIN t, NEW k \in DOMAIN t, t[j] = t[k] PROVE j = k
    <2>1. CASE j \in DOMAIN s /\ k \in DOMAIN s BY <2>1, <1>1, <1>2, <1>6 DEF IsInjective
    <2>2. CASE j = Len(s) + 1 /\ k \in DOMAIN s BY <2>2, <1>1, <1>2, <1>5, <1>6
    <2>3. CASE k = Len(s) + 1 /\ j \in DOMAIN s BY <2>3, <1>1, <1>2, <1>5, <1>6
    <2> QED BY <2>1, <2>2, <2>3, <1>4
  <1>7. IsInjective(t) BY <1>6 DEF IsInjective
  <1>8. \A j \in DOMAIN t : t[j] = e \/ \E k \in DOMAIN s : t[j] = s[k] BY <1>1, <1>2, <1>4
  <1> QED BY <1>2, <1>7, <1>8 DEF t
-----------------------------------------------------------------------------
(* The invariant holds when the exporter starts. *)
LEMMA InvInit == Init => Inv
  <1> SUFFICES ASSUME Init PROVE Inv OBVIOUS
  <1>1. PICK n \in StartNodes :
          device = n.device /\ mountinfo = n.mountinfo /\ podStore = n.podStore /\ bound = n.bound
    BY DEF Init, ResolverInit
  <1>2. n \in Nodes BY ResolverAssumption
  <1>3. /\ device \in [Volumes -> Devices \cup {None}]
        /\ mountinfo \in Seq(Mounts)
        /\ podStore \in SUBSET Pods
        /\ bound \in SUBSET Volumes
        /\ \A m \in Range(mountinfo) : device[m[2]] # None
        /\ IsInjective(mountinfo)
    BY <1>1, <1>2 DEF Nodes, Mounts
  <1>4. /\ changes = 0 /\ faults = 0 /\ devices = Empty /\ pc = "scan" /\ lines = <<>>
        /\ podMetas = {} /\ fresh = Empty /\ seen = {}
        /\ owners = [d \in Devices |-> {v \in Volumes : device[v] = d}]
        /\ todo = {} /\ pass = 0 /\ collecting = FALSE /\ reply = {} /\ swapped = FALSE
    BY DEF Init, ResolverInit
  <1>5. Empty \in [Numbers -> DeviceInfo \cup {None}] BY DEF Empty
  <1>6. lines \in Seq(Line) BY <1>4, EmptySeq
  <1>7. changes \in 0..MaxChanges /\ faults \in 0..MaxFaults /\ pass \in 0..MaxRestarts
    BY <1>4, ResolverAssumption, RestartsAssumption, SMT
  <1>8. owners \in [Devices -> SUBSET Volumes] BY <1>4
  <1>9. TypeOK BY <1>3, <1>4, <1>5, <1>6, <1>7, <1>8 DEF TypeOK, ResolverTypeOK
  <1>10. NodeInv
    <2>1. \A i \in DOMAIN mountinfo : device[mountinfo[i][2]] # None BY <1>3 DEF Range
    <2>2. \A v \in Volumes : device[v] # None => v \in owners[device[v]] BY <1>3, <1>4
    <2> QED BY <2>1, <2>2, <1>3, <1>4 DEF NodeInv
  <1>11. LinesInv /\ FreshInv BY <1>4 DEF LinesInv, FreshInv
  <1>12. \A d \in Devices : devices[KernelDev(d)] = None BY <1>4, NumbersNotNone DEF Empty
  <1>13. MapInv BY <1>12 DEF MapInv, Distinct
  <1>14. ReplyInv BY <1>4 DEF ReplyInv
  <1> QED BY <1>9, <1>10, <1>11, <1>13, <1>14 DEF Inv

(* What a scan has found, the map and the reply stay right when volumes    *)
(* get owners and mounts are seen.                                         *)
LEMMA NodeFrame ==
  ASSUME Inv, UNCHANGED <<devices, scanVars, attrVars>>,
         \A d \in Devices : owners[d] \subseteq owners'[d],
         seen \subseteq seen',
         pc \in {"pods", "lines"} =>
             \A i \in DOMAIN mountinfo' :
                 <<mountinfo'[i][1], mountinfo'[i][2], device'[mountinfo'[i][2]]>> \in seen'
  PROVE  LinesInv' /\ FreshInv' /\ MapInv' /\ ReplyInv'
  <1>1. /\ UNCHANGED <<devices, pc, lines, podMetas, fresh, todo, pass, collecting, reply, swapped>>
    BY DEF scanVars, attrVars
  <1>2. LinesInv' BY <1>1 DEF Inv, LinesInv
  <1>3. FreshInv'
    <2>1. Vouched(fresh) => Vouched(fresh)' BY <1>1 DEF Vouched
    <2>2. Distinct(fresh) => Distinct(fresh)' BY <1>1 DEF Distinct
    <2> QED BY <2>1, <2>2, <1>1 DEF Inv, FreshInv
  <1>4. MapInv'
    <2>1. Distinct(devices) => Distinct(devices)' BY <1>1 DEF Distinct
    <2> QED BY <2>1, <1>1 DEF Inv, MapInv
  <1>5. ReplyInv'
    <2>1. \A s \in reply : s.dev \in Devices BY DEF Inv, TypeOK
    <2> QED BY <2>1, <1>1 DEF Inv, ReplyInv
  <1> QED BY <1>2, <1>3, <1>4, <1>5

(* What the invariant says of the node, and of the mounts. *)
LEMMA NodeFacts ==
  ASSUME Inv
  PROVE  /\ device \in [Volumes -> Devices \cup {None}]
         /\ mountinfo \in Seq(Mounts)
         /\ podStore \in SUBSET Pods
         /\ bound \in SUBSET Volumes
         /\ changes \in 0..MaxChanges
         /\ seen \in SUBSET (Pods \X Volumes \X Devices)
         /\ owners \in [Devices -> SUBSET Volumes]
  BY DEF Inv, TypeOK, ResolverTypeOK

LEMMA MountFacts ==
  ASSUME Inv
  PROVE  /\ Len(mountinfo) \in Nat /\ DOMAIN mountinfo = 1..Len(mountinfo)
         /\ \A i \in DOMAIN mountinfo :
              /\ mountinfo[i] = <<mountinfo[i][1], mountinfo[i][2]>>
              /\ mountinfo[i][1] \in Pods
              /\ mountinfo[i][2] \in Volumes
              /\ device[mountinfo[i][2]] \in Devices
              /\ device[mountinfo[i][2]] # None
  <1>1. mountinfo \in Seq(Mounts) /\ device \in [Volumes -> Devices \cup {None}] BY NodeFacts
  <1>2. Len(mountinfo) \in Nat /\ DOMAIN mountinfo = 1..Len(mountinfo) BY <1>1, LenProperties
  <1>3. \A i \in DOMAIN mountinfo : mountinfo[i] \in Mounts BY <1>1, <1>2, ElementOfSeq
  <1>4. \A i \in DOMAIN mountinfo : /\ mountinfo[i] = <<mountinfo[i][1], mountinfo[i][2]>>
                                    /\ mountinfo[i][1] \in Pods
                                    /\ mountinfo[i][2] \in Volumes
    BY <1>3, SMT DEF Mounts
  <1>5. \A i \in DOMAIN mountinfo : device[mountinfo[i][2]] # None BY DEF Inv, NodeInv
  <1>6. \A v \in Volumes : device[v] # None => device[v] \in Devices BY <1>1
  <1> QED BY <1>2, <1>4, <1>5, <1>6

(* The type of the rest when a change of the node leaves it alone. *)
LEMMA NodeTypes ==
  ASSUME Inv, Change, UNCHANGED attrVars,
         device' \in [Volumes -> Devices \cup {None}],
         mountinfo' \in Seq(Mounts),
         podStore' \in SUBSET Pods,
         bound' \in SUBSET Volumes,
         seen' \in SUBSET (Pods \X Volumes \X Devices),
         owners' \in [Devices -> SUBSET Volumes]
  PROVE  TypeOK'
  <1>1. UNCHANGED <<faults, devices, pc, lines, podMetas, fresh, todo, pass, collecting, reply, swapped>>
    BY DEF Change, scanVars, attrVars
  <1>2. changes' \in 0..MaxChanges
    <2>1. changes \in 0..MaxChanges /\ changes < MaxChanges /\ changes' = changes + 1
      BY NodeFacts DEF Change
    <2> QED BY <2>1, ResolverAssumption, SMT
  <1> QED BY <1>1, <1>2 DEF Inv, TypeOK, ResolverTypeOK

(* Attach: the device gets an owner more. *)
LEMMA AttachInv ==
  ASSUME Inv, NEW v \in Volumes, NEW d \in Devices, Attach(v, d), UNCHANGED attrVars
  PROVE  Inv'
  <1>0. /\ device \in [Volumes -> Devices \cup {None}] /\ owners \in [Devices -> SUBSET Volumes]
        /\ mountinfo \in Seq(Mounts) /\ podStore \in SUBSET Pods /\ bound \in SUBSET Volumes
        /\ seen \in SUBSET (Pods \X Volumes \X Devices)
    BY NodeFacts
  <1>1. /\ device[v] = None /\ device' = [device EXCEPT ![v] = d]
        /\ owners' = [owners EXCEPT ![d] = @ \cup {v}]
        /\ Change /\ UNCHANGED <<mountinfo, podStore, bound, seen>>
    BY DEF Attach
  <1>2. TypeOK'
    <2>1. device' \in [Volumes -> Devices \cup {None}] BY <1>0, <1>1
    <2>2. owners' \in [Devices -> SUBSET Volumes] BY <1>0, <1>1
    <2> QED BY <2>1, <2>2, <1>0, <1>1, NodeTypes
  <1>3. \A e \in Devices : owners[e] \subseteq owners'[e] BY <1>0, <1>1
  <1>4. \A w \in Volumes : device[w] # None => w # v /\ device'[w] = device[w] BY <1>0, <1>1
  <1>5. NodeInv'
    <2>1. IsInjective(mountinfo') BY <1>1 DEF Inv, NodeInv
    <2>2. \A i \in DOMAIN mountinfo' : device'[mountinfo'[i][2]] # None
      BY <1>1, <1>4, MountFacts
    <2>3. \A w \in Volumes : device'[w] # None => w \in owners'[device'[w]]
      <3> SUFFICES ASSUME NEW w \in Volumes, device'[w] # None PROVE w \in owners'[device'[w]]
        OBVIOUS
      <3>1. CASE w = v BY <3>1, <1>0, <1>1
      <3>2. CASE w # v
        <4>1. device'[w] = device[w] /\ device[w] \in Devices BY <3>2, <1>0, <1>1
        <4>2. w \in owners[device[w]] BY <4>1 DEF Inv, NodeInv
        <4> QED BY <4>1, <4>2, <1>3
      <3> QED BY <3>1, <3>2
    <2>4. \A p \in Pods, w \in Volumes, e \in Devices : <<p, w, e>> \in seen' => w \in owners'[e]
      BY <1>1, <1>3 DEF Inv, NodeInv
    <2> QED BY <2>1, <2>2, <2>3, <2>4 DEF NodeInv
  <1>6. pc \in {"pods", "lines"} =>
          \A i \in DOMAIN mountinfo' :
              <<mountinfo'[i][1], mountinfo'[i][2], device'[mountinfo'[i][2]]>> \in seen'
    BY <1>1, <1>4, MountFacts, SMT DEF Inv, LinesInv
  <1>7. UNCHANGED <<devices, scanVars>> BY <1>1 DEF Change
  <1>8. seen \subseteq seen' BY <1>1
  <1>9. LinesInv' /\ FreshInv' /\ MapInv' /\ ReplyInv' BY <1>3, <1>6, <1>7, <1>8, NodeFrame
  <1> QED BY <1>2, <1>5, <1>9 DEF Inv

(* Detach, of a volume that is not mounted. *)
LEMMA DetachInv ==
  ASSUME Inv, NEW v \in Volumes, Detach(v), UNCHANGED attrVars
  PROVE  Inv'
  <1>0. /\ device \in [Volumes -> Devices \cup {None}] /\ owners \in [Devices -> SUBSET Volumes]
        /\ mountinfo \in Seq(Mounts) /\ podStore \in SUBSET Pods /\ bound \in SUBSET Volumes
        /\ seen \in SUBSET (Pods \X Volumes \X Devices)
    BY NodeFacts
  <1>1. /\ \A m \in Range(mountinfo) : m[2] # v
        /\ device' = [device EXCEPT ![v] = None]
        /\ Change /\ UNCHANGED <<mountinfo, podStore, bound, seen, owners>>
    BY DEF Detach
  <1>2. TypeOK'
    <2>1. device' \in [Volumes -> Devices \cup {None}] BY <1>0, <1>1
    <2> QED BY <2>1, <1>0, <1>1, NodeTypes
  <1>3. \A i \in DOMAIN mountinfo : device'[mountinfo[i][2]] = device[mountinfo[i][2]]
    <2>1. \A i \in DOMAIN mountinfo : mountinfo[i][2] # v BY <1>1 DEF Range
    <2> QED BY <2>1, <1>0, <1>1, MountFacts
  <1>4. NodeInv'
    <2>1. \A w \in Volumes : device'[w] # None => device'[w] = device[w] BY <1>0, <1>1
    <2>2. \A i \in DOMAIN mountinfo' : device'[mountinfo'[i][2]] # None BY <1>1, <1>3, MountFacts
    <2>3. \A w \in Volumes : device'[w] # None => w \in owners'[device'[w]]
      BY <2>1, <1>1 DEF Inv, NodeInv
    <2> QED BY <2>2, <2>3, <1>1 DEF Inv, NodeInv
  <1>5. pc \in {"pods", "lines"} =>
          \A i \in DOMAIN mountinfo' :
              <<mountinfo'[i][1], mountinfo'[i][2], device'[mountinfo'[i][2]]>> \in seen'
    BY <1>1, <1>3, SMT DEF Inv, LinesInv
  <1>6. UNCHANGED <<devices, scanVars>> BY <1>1 DEF Change
  <1>7. seen \subseteq seen' /\ \A e \in Devices : owners[e] \subseteq owners'[e] BY <1>1
  <1>8. LinesInv' /\ FreshInv' /\ MapInv' /\ ReplyInv' BY <1>5, <1>6, <1>7, NodeFrame
  <1> QED BY <1>2, <1>4, <1>8 DEF Inv

(* Mount: during a scan the mount is seen. *)
LEMMA MountInv ==
  ASSUME Inv, NEW p \in Pods, NEW v \in Volumes, Mount(p, v), UNCHANGED attrVars
  PROVE  Inv'
  <1>0. /\ device \in [Volumes -> Devices \cup {None}] /\ owners \in [Devices -> SUBSET Volumes]
        /\ mountinfo \in Seq(Mounts) /\ podStore \in SUBSET Pods /\ bound \in SUBSET Volumes
        /\ seen \in SUBSET (Pods \X Volumes \X Devices)
    BY NodeFacts
  <1>1. /\ device[v] # None /\ <<p, v>> \notin Range(mountinfo)
        /\ mountinfo' = Append(mountinfo, <<p, v>>)
        /\ seen' = IF pc \in {"pods", "lines"} THEN seen \cup Truth(mountinfo', device) ELSE seen
        /\ Change /\ UNCHANGED <<device, podStore, bound, owners>>
    BY DEF Mount
  <1>2. /\ mountinfo' \in Seq(Mounts) /\ IsInjective(mountinfo')
        /\ \A j \in DOMAIN mountinfo' :
             mountinfo'[j] = <<p, v>> \/ \E k \in DOMAIN mountinfo : mountinfo'[j] = mountinfo[k]
    <2>1. <<p, v>> \in Mounts BY DEF Mounts
    <2>2. IsInjective(mountinfo) BY DEF Inv, NodeInv
    <2> QED BY <2>1, <2>2, <1>0, <1>1, AppendKeepsDistinct, SMT
  <1>3. \A j \in DOMAIN mountinfo' : /\ mountinfo'[j][1] \in Pods
                                     /\ mountinfo'[j][2] \in Volumes
                                     /\ device[mountinfo'[j][2]] # None
    <2> SUFFICES ASSUME NEW j \in DOMAIN mountinfo'
                 PROVE  /\ mountinfo'[j][1] \in Pods
                        /\ mountinfo'[j][2] \in Volumes
                        /\ device[mountinfo'[j][2]] # None
      OBVIOUS
    <2>1. CASE mountinfo'[j] = <<p, v>> BY <2>1, <1>1, SMT
    <2>2. ASSUME NEW k \in DOMAIN mountinfo, mountinfo'[j] = mountinfo[k]
          PROVE  /\ mountinfo[k][1] \in Pods
                 /\ mountinfo[k][2] \in Volumes
                 /\ device[mountinfo[k][2]] # None
      BY MountFacts
    <2> QED BY <2>1, <2>2, <1>2
  <1>4. \A p2 \in Pods, w \in Volumes, e \in Devices :
          <<p2, w, e>> \in Truth(mountinfo', device) => w \in owners[e]
    <2> SUFFICES ASSUME NEW p2 \in Pods, NEW w \in Volumes, NEW e \in Devices,
                        <<p2, w, e>> \in Truth(mountinfo', device)
                 PROVE  w \in owners[e]
      OBVIOUS
    <2>1. PICK j \in DOMAIN mountinfo' :
            <<p2, w, e>> = <<mountinfo'[j][1], mountinfo'[j][2], device[mountinfo'[j][2]]>>
      BY DEF Truth, Range
    <2>2. w = mountinfo'[j][2] /\ e = device[w] BY <2>1
    <2>3. device[w] # None BY <2>2, <1>3
    <2> QED BY <2>2, <2>3 DEF Inv, NodeInv
  <1>5. Truth(mountinfo', device) \in SUBSET (Pods \X Volumes \X Devices)
    <2>1. ASSUME NEW j \in DOMAIN mountinfo'
          PROVE  <<mountinfo'[j][1], mountinfo'[j][2], device[mountinfo'[j][2]]>>
                    \in Pods \X Volumes \X Devices
      <3>1. device[mountinfo'[j][2]] \in Devices BY <1>0, <1>3
      <3> QED BY <3>1, <1>3
    <2>2. ASSUME NEW m \in Range(mountinfo')
          PROVE  <<m[1], m[2], device[m[2]]>> \in Pods \X Volumes \X Devices
      <3>1. PICK j \in DOMAIN mountinfo' : m = mountinfo'[j] BY DEF Range
      <3> QED BY <3>1, <2>1
    <2> QED BY <2>2, Zenon DEF Truth
  <1>6. seen \subseteq seen' /\ seen' \in SUBSET (Pods \X Volumes \X Devices)
    BY <1>0, <1>1, <1>5, Zenon
  <1>7. TypeOK' BY <1>0, <1>1, <1>2, <1>6, NodeTypes
  <1>8. NodeInv'
    <2>1. \A p2 \in Pods, w \in Volumes, e \in Devices : <<p2, w, e>> \in seen' => w \in owners'[e]
      BY <1>1, <1>4 DEF Inv, NodeInv
    <2> QED BY <2>1, <1>1, <1>2, <1>3 DEF Inv, NodeInv
  <1>9. pc \in {"pods", "lines"} =>
          \A i \in DOMAIN mountinfo' :
              <<mountinfo'[i][1], mountinfo'[i][2], device'[mountinfo'[i][2]]>> \in seen'
    <2> SUFFICES ASSUME pc \in {"pods", "lines"}, NEW i \in DOMAIN mountinfo'
                 PROVE  <<mountinfo'[i][1], mountinfo'[i][2], device'[mountinfo'[i][2]]>> \in seen'
      OBVIOUS
    <2>1. mountinfo'[i] \in Range(mountinfo') BY DEF Range
    <2>2. <<mountinfo'[i][1], mountinfo'[i][2], device[mountinfo'[i][2]]>> \in Truth(mountinfo', device)
      BY <2>1, Zenon DEF Truth
    <2>3. Truth(mountinfo', device) \subseteq seen' BY <1>1
    <2>4. device' = device BY <1>1
    <2> QED BY <2>2, <2>3, <2>4
  <1>10. UNCHANGED <<devices, scanVars>> /\ \A e \in Devices : owners[e] \subseteq owners'[e]
    BY <1>1 DEF Change
  <1>11. LinesInv' /\ FreshInv' /\ MapInv' /\ ReplyInv' BY <1>6, <1>9, <1>10, NodeFrame
  <1> QED BY <1>7, <1>8, <1>11 DEF Inv

(* Unmount. *)
LEMMA UnmountInv ==
  ASSUME Inv, NEW p \in Pods, NEW v \in Volumes, Unmount(p, v), UNCHANGED attrVars
  PROVE  Inv'
  <1>0. /\ device \in [Volumes -> Devices \cup {None}] /\ owners \in [Devices -> SUBSET Volumes]
        /\ mountinfo \in Seq(Mounts) /\ podStore \in SUBSET Pods /\ bound \in SUBSET Volumes
        /\ seen \in SUBSET (Pods \X Volumes \X Devices)
    BY NodeFacts
  <1>1. /\ Change /\ UNCHANGED <<device, podStore, bound, seen, owners>> BY DEF Unmount
  <1>2. PICK i \in DOMAIN mountinfo : mountinfo' = SubSeq(mountinfo, 1, i - 1) \o SubSeq(mountinfo, i + 1, Len(mountinfo))
    BY DEF Unmount
  <1>3. /\ mountinfo' \in Seq(Mounts) /\ IsInjective(mountinfo')
        /\ \A j \in DOMAIN mountinfo' : \E k \in DOMAIN mountinfo : mountinfo'[j] = mountinfo[k]
    <2>1. i \in 1..Len(mountinfo) BY MountFacts
    <2>2. IsInjective(mountinfo) BY DEF Inv, NodeInv
    <2> QED BY <2>1, <2>2, <1>0, <1>2, RemovalKeepsDistinct
  <1>4. TypeOK' BY <1>0, <1>1, <1>3, NodeTypes
  <1>5. NodeInv'
    <2>1. \A j \in DOMAIN mountinfo' : device'[mountinfo'[j][2]] # None
      BY <1>1, <1>3, MountFacts
    <2> QED BY <2>1, <1>1, <1>3 DEF Inv, NodeInv
  <1>6. pc \in {"pods", "lines"} =>
          \A j \in DOMAIN mountinfo' :
              <<mountinfo'[j][1], mountinfo'[j][2], device'[mountinfo'[j][2]]>> \in seen'
    BY <1>1, <1>3 DEF Inv, LinesInv
  <1>7. UNCHANGED <<devices, scanVars>> BY <1>1 DEF Change
  <1>8. seen \subseteq seen' /\ \A e \in Devices : owners[e] \subseteq owners'[e] BY <1>1
  <1>9. LinesInv' /\ FreshInv' /\ MapInv' /\ ReplyInv' BY <1>6, <1>7, <1>8, NodeFrame
  <1> QED BY <1>4, <1>5, <1>9 DEF Inv

(* The pod cache and the index of claims change. *)
LEMMA CachesInv ==
  ASSUME Inv, Change, UNCHANGED <<device, mountinfo, seen, owners>>, UNCHANGED attrVars,
         podStore' \in SUBSET Pods, bound' \in SUBSET Volumes
  PROVE  Inv'
  <1>0. /\ device \in [Volumes -> Devices \cup {None}] /\ owners \in [Devices -> SUBSET Volumes]
        /\ mountinfo \in Seq(Mounts) /\ podStore \in SUBSET Pods /\ bound \in SUBSET Volumes
        /\ seen \in SUBSET (Pods \X Volumes \X Devices)
    BY NodeFacts
  <1>1. TypeOK' BY <1>0, NodeTypes
  <1>2. NodeInv' BY DEF Inv, NodeInv
  <1>3. pc \in {"pods", "lines"} =>
          \A j \in DOMAIN mountinfo' :
              <<mountinfo'[j][1], mountinfo'[j][2], device'[mountinfo'[j][2]]>> \in seen'
    BY DEF Inv, LinesInv
  <1>4. UNCHANGED <<devices, scanVars>> BY DEF Change
  <1>5. seen \subseteq seen' /\ \A e \in Devices : owners[e] \subseteq owners'[e] OBVIOUS
  <1>6. LinesInv' /\ FreshInv' /\ MapInv' /\ ReplyInv' BY <1>3, <1>4, <1>5, NodeFrame
  <1> QED BY <1>1, <1>2, <1>6 DEF Inv

(* Every change of the node. *)
LEMMA NodeChangesInv ==
  ASSUME Inv, NodeChanges, UNCHANGED attrVars
  PROVE  Inv'
  <1>1. ASSUME NEW v \in Volumes, Detach(v) PROVE Inv' BY <1>1, DetachInv
  <1>2. ASSUME NEW v \in Volumes, ClaimIndexed(v) PROVE Inv'
    BY <1>2, NodeFacts, CachesInv DEF ClaimIndexed
  <1>3. ASSUME NEW v \in Volumes, NEW d \in Devices, Attach(v, d) PROVE Inv' BY <1>3, AttachInv
  <1>4. ASSUME NEW p \in Pods, NEW v \in Volumes, Mount(p, v) PROVE Inv' BY <1>4, MountInv
  <1>5. ASSUME NEW p \in Pods, NEW v \in Volumes, Unmount(p, v) PROVE Inv' BY <1>5, UnmountInv
  <1>6. ASSUME NEW p \in Pods, PodStoreChanges(p) PROVE Inv'
    BY <1>6, NodeFacts, CachesInv DEF PodStoreChanges
  <1> QED BY <1>1, <1>2, <1>3, <1>4, <1>5, <1>6 DEF NodeChanges
-----------------------------------------------------------------------------
(* The resolver. *)

(* What the invariant says of the resolver. *)
LEMMA ResolverFacts ==
  ASSUME Inv
  PROVE  /\ faults \in 0..MaxFaults
         /\ devices \in [Numbers -> DeviceInfo \cup {None}]
         /\ lines \in Seq(Line)
         /\ podMetas \in SUBSET Pods
         /\ fresh \in [Numbers -> DeviceInfo \cup {None}]
         /\ seen \in SUBSET (Pods \X Volumes \X Devices)
         /\ todo \in SUBSET Devices /\ pass \in 0..MaxRestarts
         /\ reply \in SUBSET [dev : Devices, info : DeviceInfo \cup {None}, pass : 0..MaxRestarts]
         /\ {collecting, swapped} \subseteq BOOLEAN
  BY DEF Inv, TypeOK, ResolverTypeOK

(* The types when a step of the scan leaves the node alone. *)
LEMMA ScanTypes ==
  ASSUME Inv, UNCHANGED node, UNCHANGED <<todo, pass, collecting, reply>>, swapped' \in BOOLEAN,
         faults' \in 0..MaxFaults,
         devices' \in [Numbers -> DeviceInfo \cup {None}],
         pc' \in {"idle", "scan", "pods", "lines"},
         lines' \in Seq(Line),
         podMetas' \in SUBSET Pods,
         fresh' \in [Numbers -> DeviceInfo \cup {None}],
         seen' \in SUBSET (Pods \X Volumes \X Devices)
  PROVE  TypeOK'
  <1>1. UNCHANGED <<device, mountinfo, podStore, bound, changes, owners>> BY DEF node
  <1> QED BY <1>1 DEF Inv, TypeOK, ResolverTypeOK

(* Steps that leave the map alone keep what is said of it and the reply. *)
LEMMA MapFrame ==
  ASSUME Inv, UNCHANGED <<node, devices>>, UNCHANGED <<todo, pass, collecting, reply, swapped>>
  PROVE  MapInv' /\ ReplyInv'
  <1>1. UNCHANGED owners BY DEF node
  <1>2. Distinct(devices) => Distinct(devices)' BY DEF Distinct
  <1> QED BY <1>1, <1>2 DEF Inv, MapInv, ReplyInv

LEMMA ResolveKeepsSwapped ==
  ASSUME Inv, Resolve, UNCHANGED devices
  PROVE  UNCHANGED <<todo, pass, collecting, reply, swapped>>
  BY ResolverFacts DEF Resolve

(* ParseMountInfo: the lines are those of the mounts there are. *)
LEMMA ParseMountInfoInv ==
  ASSUME Inv, ParseMountInfo, Resolve
  PROVE  Inv'
  <1> DEFINE LineOf(i) ==
               LET v == mountinfo[i][2]
               IN  [pod |-> mountinfo[i][1], vol |-> v,
                    dev |-> IF v \in BlockVolumes THEN None
                            ELSE MkDev(Major[device[v]], Minor[device[v]])]
  <1>0. /\ faults \in 0..MaxFaults /\ devices \in [Numbers -> DeviceInfo \cup {None}]
        /\ lines \in Seq(Line) /\ podMetas \in SUBSET Pods
        /\ fresh \in [Numbers -> DeviceInfo \cup {None}]
        /\ seen \in SUBSET (Pods \X Volumes \X Devices)
        /\ {collecting, swapped} \subseteq BOOLEAN
    BY ResolverFacts
  <1>1. /\ pc = "scan" /\ UNCHANGED <<node, devices, podMetas, fresh>> BY DEF ParseMountInfo
  <1>2. UNCHANGED <<device, mountinfo, podStore, bound, changes, owners>> BY <1>1 DEF node
  <1>3. UNCHANGED <<todo, pass, collecting, reply, swapped>> BY <1>1, ResolveKeepsSwapped
  <1>4. MapInv' /\ ReplyInv' BY <1>1, <1>3, MapFrame
  <1>5. CASE /\ lines' = [i \in 1..Len(mountinfo) |-> LineOf(i)]
             /\ seen' = Truth(mountinfo, device) /\ pc' = "pods" /\ UNCHANGED faults
    <2>1. DOMAIN mountinfo = 1..Len(mountinfo) /\ Len(mountinfo) \in Nat BY MountFacts
    <2>2. ASSUME NEW i \in 1..Len(mountinfo)
          PROVE  /\ mountinfo[i][1] \in Pods
                 /\ mountinfo[i][2] \in Volumes
                 /\ device[mountinfo[i][2]] \in Devices
                 /\ <<mountinfo[i][1], mountinfo[i][2], device[mountinfo[i][2]]>> \in seen'
      <3>1. /\ device[mountinfo[i][2]] \in Devices
            /\ mountinfo[i][1] \in Pods /\ mountinfo[i][2] \in Volumes
        BY <2>1, MountFacts
      <3>2. mountinfo[i] \in Range(mountinfo) BY <2>1 DEF Range
      <3>3. <<mountinfo[i][1], mountinfo[i][2], device[mountinfo[i][2]]>> \in Truth(mountinfo, device)
        BY <3>2, Zenon DEF Truth
      <3> QED BY <3>1, <3>3, <2>1, <1>5
    <2>3. \A d \in Devices : MkDev(Major[d], Minor[d]) = KernelDev(d) BY DEF MkDev, KernelDev
    <2>4. ASSUME NEW i \in 1..Len(mountinfo)
          PROVE  /\ LineOf(i) \in Line
                 /\ LineOf(i).pod = mountinfo[i][1] /\ LineOf(i).vol = mountinfo[i][2]
                 /\ LineOf(i).vol \notin BlockVolumes =>
                      LineOf(i).dev = KernelDev(device[mountinfo[i][2]])
      <3> DEFINE v == mountinfo[i][2]
                 n == IF v \in BlockVolumes THEN None ELSE MkDev(Major[device[v]], Minor[device[v]])
      <3>1. LineOf(i) = [pod |-> mountinfo[i][1], vol |-> v, dev |-> n] OBVIOUS
      <3>2. v \notin BlockVolumes => n = KernelDev(device[v]) BY <2>2, <2>3
      <3>3. n \in Numbers \cup {None}
        <4>1. CASE v \in BlockVolumes BY <4>1
        <4>2. CASE v \notin BlockVolumes
          <5>1. KernelDev(device[v]) \in Numbers BY <2>2, NumbersNotNone
          <5> QED BY <5>1, <4>2, <3>2, Zenon
        <4> QED BY <4>1, <4>2
      <3>4. v = mountinfo[i][2] OBVIOUS
      <3> HIDE DEF n, v, LineOf
      <3>5. LineOf(i) \in Line
        <4>1. v \in Volumes /\ mountinfo[i][1] \in Pods BY <3>4, <2>2
        <4> QED BY <4>1, <3>1, <3>3, SMT DEF Line
      <3>6. LineOf(i).pod = mountinfo[i][1] /\ LineOf(i).vol = v /\ LineOf(i).dev = n BY <3>1, SMT
      <3> QED BY <3>2, <3>4, <3>5, <3>6
    <2> HIDE DEF LineOf
    <2>5. /\ lines' \in Seq(Line) /\ Len(lines') = Len(mountinfo)
          /\ \A i \in 1..Len(mountinfo) : lines'[i] = LineOf(i)
      <3>1. lines' \in [1..Len(mountinfo) -> Line] BY <2>4, <1>5
      <3>2. lines' \in Seq(Line)
        <4>1. [1..Len(mountinfo) -> Line] \in {[1..n -> Line] : n \in Nat} BY <2>1
        <4> QED BY <4>1, <3>1, SeqDef
      <3>3. DOMAIN lines' = 1..Len(mountinfo) BY <1>5
      <3>4. Len(lines') = Len(mountinfo)
        <4>1. Len(lines') \in Nat /\ 1..Len(lines') = 1..Len(mountinfo) BY <3>2, <3>3, LenProperties
        <4> QED BY <4>1, <2>1, SMT
      <3> QED BY <3>2, <3>4, <1>5
    <2>6. seen' \in SUBSET (Pods \X Volumes \X Devices) 
      <3>1. ASSUME NEW m \in Range(mountinfo)
            PROVE  <<m[1], m[2], device[m[2]]>> \in Pods \X Volumes \X Devices
        <4>1. PICK i \in 1..Len(mountinfo) : m = mountinfo[i] BY <2>1 DEF Range
        <4> QED BY <4>1, <2>2
      <3>2. Truth(mountinfo, device) \in SUBSET (Pods \X Volumes \X Devices) BY <3>1, Zenon DEF Truth
      <3> QED BY <3>2, <1>5
    <2>7. TypeOK'
      <3>1. swapped' \in BOOLEAN /\ faults' \in 0..MaxFaults /\ podMetas' \in SUBSET Pods
        BY <1>0, <1>1, <1>3, <1>5
      <3>2. /\ devices' \in [Numbers -> DeviceInfo \cup {None}]
            /\ fresh' \in [Numbers -> DeviceInfo \cup {None}]
        BY <1>0, <1>1
      <3>3. pc' \in {"idle", "scan", "pods", "lines"} BY <1>5
      <3> QED BY <3>1, <3>2, <3>3, <2>5, <2>6, <1>1, <1>3, ScanTypes
    <2>8. NodeInv'
      <3>1. ASSUME NEW p \in Pods, NEW w \in Volumes, NEW e \in Devices, <<p, w, e>> \in seen'
            PROVE  w \in owners'[e]
        <4>1. PICK j \in DOMAIN mountinfo :
                <<p, w, e>> = <<mountinfo[j][1], mountinfo[j][2], device[mountinfo[j][2]]>>
          BY <3>1, <1>5 DEF Truth, Range
        <4>2. w = mountinfo[j][2] /\ e = device[w] BY <4>1
        <4>3. device[w] # None BY <4>2 DEF Inv, NodeInv
        <4> QED BY <4>2, <4>3, <1>2 DEF Inv, NodeInv
      <3> QED BY <3>1, <1>2 DEF Inv, NodeInv
    <2>9. LinesInv'
      <3>1. \A i \in DOMAIN mountinfo' :
              <<mountinfo'[i][1], mountinfo'[i][2], device'[mountinfo'[i][2]]>> \in seen'
        BY <1>2, <2>1, <2>2
      <3>2. ASSUME NEW i \in 1..Len(lines'), lines'[i].vol \notin BlockVolumes
            PROVE  \E d \in Devices :
                      lines'[i].dev = KernelDev(d) /\ <<lines'[i].pod, lines'[i].vol, d>> \in seen'
        <4> DEFINE d == device[mountinfo[i][2]]
        <4>1. i \in 1..Len(mountinfo) /\ lines'[i] = LineOf(i) BY <2>5
        <4>2. lines'[i].dev = KernelDev(d) /\ <<lines'[i].pod, lines'[i].vol, d>> \in seen'
          BY <4>1, <2>2, <2>4, <3>2
        <4>3. d \in Devices BY <4>1, <2>2
        <4> HIDE DEF d
        <4> QED BY <4>2, <4>3
      <3>3. ASSUME NEW i \in 1..Len(lines'), NEW j \in 1..Len(lines'), SameMount(lines'[i], lines'[j])
            PROVE  i = j
        <4>1. mountinfo[i][1] = mountinfo[j][1] /\ mountinfo[i][2] = mountinfo[j][2]
          BY <2>4, <2>5, <3>3 DEF SameMount
        <4>2. mountinfo[i] = mountinfo[j] BY <4>1, <2>1, <2>5, MountFacts
        <4> QED BY <4>2, <2>1, <2>5 DEF Inv, NodeInv, IsInjective
      <3> QED BY <3>1, <3>2, <3>3 DEF LinesInv
    <2>10. FreshInv' BY <1>5 DEF FreshInv
    <2> QED BY <2>7, <2>8, <2>9, <2>10, <1>4 DEF Inv
  <1>6. CASE /\ faults < MaxFaults /\ faults' = faults + 1 /\ pc' = "idle" /\ UNCHANGED <<lines, seen>>
    <2>1. faults' \in 0..MaxFaults
      <3>1. MaxFaults \in Nat BY ResolverAssumption
      <3> QED BY <3>1, <1>0, <1>6, SMT
    <2>2. TypeOK'
      <3>1. swapped' \in BOOLEAN /\ podMetas' \in SUBSET Pods BY <1>0, <1>1, <1>3
      <3>2. /\ devices' \in [Numbers -> DeviceInfo \cup {None}]
            /\ fresh' \in [Numbers -> DeviceInfo \cup {None}]
        BY <1>0, <1>1
      <3>3. lines' \in Seq(Line) /\ seen' \in SUBSET (Pods \X Volumes \X Devices) BY <1>0, <1>6
      <3>4. pc' \in {"idle", "scan", "pods", "lines"} BY <1>6
      <3> QED BY <3>1, <3>2, <3>3, <3>4, <2>1, <1>1, <1>3, ScanTypes
    <2>3. NodeInv' BY <1>2, <1>6 DEF Inv, NodeInv
    <2>4. LinesInv' /\ FreshInv' BY <1>6 DEF LinesInv, FreshInv
    <2> QED BY <2>2, <2>3, <2>4, <1>4 DEF Inv
  <1> QED BY <1>5, <1>6 DEF ParseMountInfo

(* podMetaMap: an empty map is filled. *)
LEMMA PodMetaMapInv ==
  ASSUME Inv, podMetaMap, Resolve
  PROVE  Inv'
  <1>0. /\ faults \in 0..MaxFaults /\ devices \in [Numbers -> DeviceInfo \cup {None}]
        /\ lines \in Seq(Line) /\ podMetas \in SUBSET Pods
        /\ fresh \in [Numbers -> DeviceInfo \cup {None}]
        /\ seen \in SUBSET (Pods \X Volumes \X Devices)
        /\ {collecting, swapped} \subseteq BOOLEAN
    BY ResolverFacts
  <1>1. /\ pc = "pods" /\ podMetas' = podStore /\ fresh' = Empty /\ pc' = "lines"
        /\ UNCHANGED <<node, faults, devices, lines, seen>>
    BY DEF podMetaMap
  <1>2. UNCHANGED <<device, mountinfo, podStore, bound, changes, owners>> BY <1>1 DEF node
  <1>3. UNCHANGED <<todo, pass, collecting, reply, swapped>> BY <1>1, ResolveKeepsSwapped
  <1>4. MapInv' /\ ReplyInv' BY <1>1, <1>3, MapFrame
  <1>5. Empty \in [Numbers -> DeviceInfo \cup {None}] BY DEF Empty
  <1>6. TypeOK'
    <2>1. podMetas' \in SUBSET Pods BY <1>1, NodeFacts
    <2>2. swapped' \in BOOLEAN /\ faults' \in 0..MaxFaults BY <1>0, <1>1, <1>3
    <2>3. /\ devices' \in [Numbers -> DeviceInfo \cup {None}]
          /\ fresh' \in [Numbers -> DeviceInfo \cup {None}]
      BY <1>0, <1>1, <1>5
    <2>4. lines' \in Seq(Line) /\ seen' \in SUBSET (Pods \X Volumes \X Devices) BY <1>0, <1>1
    <2>5. pc' \in {"idle", "scan", "pods", "lines"} BY <1>1
    <2> QED BY <2>1, <2>2, <2>3, <2>4, <2>5, <1>1, <1>3, ScanTypes
  <1>7. NodeInv' BY <1>1, <1>2 DEF Inv, NodeInv
  <1>8. LinesInv' BY <1>1, <1>2 DEF Inv, LinesInv
  <1>9. \A d \in Devices : fresh'[KernelDev(d)] = None BY <1>1, NumbersNotNone DEF Empty
  <1>10. FreshInv' BY <1>9 DEF FreshInv, Vouched, Distinct
  <1> QED BY <1>4, <1>6, <1>7, <1>8, <1>10 DEF Inv

(* The first of the lines, and the others. *)
LEMMA FirstLine ==
  ASSUME Inv, lines # <<>>
  PROVE  /\ Head(lines) = lines[1] /\ 1 \in 1..Len(lines) /\ Head(lines) \in Line
         /\ Tail(lines) \in Seq(Line)
         /\ \A i \in 1..Len(Tail(lines)) :
              i \in Int /\ Tail(lines)[i] = lines[i + 1] /\ i + 1 \in 1..Len(lines) /\ i + 1 # 1
  <1>1. lines \in Seq(Line) BY ResolverFacts
  <1>2. /\ Head(lines) \in Line /\ Tail(lines) \in Seq(Line) /\ Len(Tail(lines)) = Len(lines) - 1
        /\ \A i \in 1..Len(Tail(lines)) : Tail(lines)[i] = lines[i + 1]
    BY <1>1, HeadTailProperties
  <1>3. Len(lines) \in Nat \ {0} BY <1>1, EmptySeq
  <1>4. Head(lines) = lines[1] BY <1>1, SMT
  <1> DEFINE L == Len(lines)
             t == Tail(lines)
  <1>5. Len(t) = L - 1 /\ L \in Nat \ {0} BY <1>2, <1>3
  <1> HIDE DEF L, t
  <1>6. 1 \in 1..L /\ \A i \in 1..Len(t) : i \in Int /\ i + 1 \in 1..L /\ i + 1 # 1 BY <1>5, SMT
  <1> QED BY <1>2, <1>4, <1>6 DEF L, t

(* The device a line is taken to be about has been seen with its pod and   *)
(* volume: for a filesystem volume when the line was read, for a block     *)
(* volume now, as the volume cannot have left its device while mounted.    *)
LEMMA DeviceOfSeen ==
  ASSUME Inv, pc = "lines", lines # <<>>, DeviceOf(Head(lines)) \in Numbers
  PROVE  \E d \in Devices : /\ DeviceOf(Head(lines)) = KernelDev(d)
                            /\ <<Head(lines).pod, Head(lines).vol, d>> \in seen
  <1> DEFINE line == Head(lines)
  <1>1. line = lines[1] /\ 1 \in 1..Len(lines) BY FirstLine
  <1> HIDE DEF line
  <1>2. line = Head(lines) BY DEF line
  <1>3. CASE line.vol \notin BlockVolumes
    <2>1. DeviceOf(line) = line.dev BY <1>3 DEF DeviceOf
    <2>2. \E d \in Devices : line.dev = KernelDev(d) /\ <<line.pod, line.vol, d>> \in seen
      BY <1>1, <1>3 DEF Inv, LinesInv
    <2> QED BY <2>1, <2>2, <1>2
  <1>4. CASE line.vol \in BlockVolumes /\ <<line.pod, line.vol>> \in Range(mountinfo)
    <2>1. DeviceOf(line) = statBlockDevice(Rdev(device[line.vol])) BY <1>4 DEF DeviceOf
    <2>2. PICK i \in DOMAIN mountinfo : mountinfo[i] = <<line.pod, line.vol>> BY <1>4 DEF Range
    <2>3. mountinfo[i][1] = line.pod /\ mountinfo[i][2] = line.vol
      <3> DEFINE a == line.pod
                 b == line.vol
      <3> HIDE DEF a, b
      <3>1. mountinfo[i] = <<a, b>> BY <2>2 DEF a, b
      <3>2. mountinfo[i][1] = a /\ mountinfo[i][2] = b BY <3>1, SMT
      <3> QED BY <3>2 DEF a, b
    <2>4. device[line.vol] \in Devices BY <2>3, MountFacts
    <2>5. <<line.pod, line.vol, device[line.vol]>> \in seen BY <2>3 DEF Inv, LinesInv
    <2>6. DeviceOf(line) = KernelDev(device[line.vol]) BY <2>1, <2>4, StatRoundTrip
    <2> QED BY <2>4, <2>5, <2>6, <1>2
  <1>5. CASE line.vol \in BlockVolumes /\ <<line.pod, line.vol>> \notin Range(mountinfo)
    <2>1. DeviceOf(line) = None BY <1>5 DEF DeviceOf
    <2> QED BY <2>1, <1>2, NumbersNotNone
  <1> QED BY <1>3, <1>4, <1>5

(* ScanLine: an entry more, of a line that is not looked at again. *)
LEMMA ScanLineInv ==
  ASSUME Inv, ScanLine, Resolve
  PROVE  Inv'
  <1> DEFINE line == Head(lines)
             dev  == DeviceOf(line)
             info == [pod |-> line.pod, vol |-> line.vol, claim |-> resolvePVCName(line.vol)]
  <1>0. /\ faults \in 0..MaxFaults /\ devices \in [Numbers -> DeviceInfo \cup {None}]
        /\ lines \in Seq(Line) /\ podMetas \in SUBSET Pods
        /\ fresh \in [Numbers -> DeviceInfo \cup {None}]
        /\ seen \in SUBSET (Pods \X Volumes \X Devices)
        /\ {collecting, swapped} \subseteq BOOLEAN
    BY ResolverFacts
  <1>1. /\ pc = "lines" /\ lines # <<>> /\ lines' = Tail(lines)
        /\ fresh' = IF dev \notin Numbers \/ line.pod \notin podMetas
                      THEN fresh ELSE [fresh EXCEPT ![dev] = info]
        /\ UNCHANGED <<node, faults, devices, pc, podMetas, seen>>
    BY DEF ScanLine
  <1>2. UNCHANGED <<device, mountinfo, podStore, bound, changes, owners>> BY <1>1 DEF node
  <1>3. UNCHANGED <<todo, pass, collecting, reply, swapped>> BY <1>1, ResolveKeepsSwapped
  <1>4. MapInv' /\ ReplyInv' BY <1>1, <1>3, MapFrame
  <1>5. /\ line = lines[1] /\ 1 \in 1..Len(lines) /\ line \in Line
        /\ lines' \in Seq(Line)
        /\ \A i \in 1..Len(lines') : lines'[i] = lines[i + 1]
    BY <1>1, FirstLine
  <1>6. \A i \in 1..Len(lines') : i \in Int /\ i + 1 \in 1..Len(lines) /\ i + 1 # 1
    BY <1>1, FirstLine
  <1>7. info \in DeviceInfo /\ SameMount(info, line)
    <2> DEFINE c == resolvePVCName(line.vol)
    <2>1. c \in BOOLEAN BY SMT DEF resolvePVCName
    <2> HIDE DEF c
    <2>2. line.pod \in Pods /\ line.vol \in Volumes BY <1>5 DEF Line
    <2>3. info = [pod |-> line.pod, vol |-> line.vol, claim |-> c] BY DEF c
    <2> HIDE DEF info
    <2>4. info \in DeviceInfo BY <2>1, <2>2, <2>3 DEF DeviceInfo
    <2> QED BY <2>3, <2>4 DEF SameMount
  <1>8. \/ fresh' = fresh
        \/ /\ fresh' = [fresh EXCEPT ![dev] = info]
           /\ \E d \in Devices : dev = KernelDev(d) /\ <<line.pod, line.vol, d>> \in seen
    BY <1>1, DeviceOfSeen
  <1>9. info.pod = line.pod /\ info.vol = line.vol OBVIOUS
  <1> HIDE DEF line, dev, info
  <1>10. fresh' \in [Numbers -> DeviceInfo \cup {None}] BY <1>0, <1>7, <1>8
  <1>11. TypeOK' 
    <2>1. pc' \in {"idle", "scan", "pods", "lines"} BY <1>1
    <2>2. swapped' \in BOOLEAN /\ faults' \in 0..MaxFaults /\ podMetas' \in SUBSET Pods
      BY <1>0, <1>1, <1>3
    <2>3. devices' \in [Numbers -> DeviceInfo \cup {None}] BY <1>0, <1>1
    <2>4. seen' \in SUBSET (Pods \X Volumes \X Devices) BY <1>0, <1>1
    <2> QED BY <2>1, <2>2, <2>3, <2>4, <1>1, <1>3, <1>5, <1>10, ScanTypes
  <1>12. NodeInv' BY <1>1, <1>2 DEF Inv, NodeInv
  <1>13. LinesInv'
    <2>1. pc \in {"pods", "lines"} BY <1>1
    <2>2. ASSUME NEW i \in 1..Len(lines'), lines'[i].vol \notin BlockVolumes
          PROVE  \E d \in Devices :
                    lines'[i].dev = KernelDev(d) /\ <<lines'[i].pod, lines'[i].vol, d>> \in seen'
      <3>1. i + 1 \in 1..Len(lines) /\ lines'[i] = lines[i + 1] BY <1>5, <1>6
      <3>2. \E d \in Devices :
              lines[i + 1].dev = KernelDev(d) /\ <<lines[i + 1].pod, lines[i + 1].vol, d>> \in seen
        BY <3>1, <2>1, <2>2 DEF Inv, LinesInv
      <3> QED BY <3>1, <3>2, <1>1
    <2>3. ASSUME NEW i \in 1..Len(lines'), NEW j \in 1..Len(lines'), SameMount(lines'[i], lines'[j])
          PROVE  i = j
      <3>1. i + 1 = j + 1 BY <2>1, <2>3, <1>5, <1>6 DEF Inv, LinesInv
      <3>2. i \in Int /\ j \in Int BY <1>6
      <3> DEFINE k == i + 1 = j + 1 => i = j
      <3>3. k BY <3>2, SMT
      <3> QED BY <3>1, <3>3
    <2>4. \A i \in DOMAIN mountinfo' :
            <<mountinfo'[i][1], mountinfo'[i][2], device'[mountinfo'[i][2]]>> \in seen'
      BY <2>1, <1>1, <1>2 DEF Inv, LinesInv
    <2> QED BY <2>2, <2>3, <2>4 DEF LinesInv
  <1>14. FreshInv'
    <2>1. Vouched(fresh) /\ Distinct(fresh) BY <1>1 DEF Inv, FreshInv
    <2>2. \A d \in Devices, i \in 1..Len(lines) :
            fresh[KernelDev(d)] # None => ~SameMount(fresh[KernelDev(d)], lines[i])
      BY <1>1 DEF Inv, FreshInv
    <2>3. CASE fresh' = fresh
      <3>1. Vouched(fresh)' BY <2>1, <2>3, <1>1 DEF Vouched
      <3>2. Distinct(fresh)' BY <2>1, <2>3 DEF Distinct
      <3> QED BY <3>1, <3>2, <2>2, <2>3, <1>5, <1>6 DEF FreshInv
    <2>4. ASSUME fresh' = [fresh EXCEPT ![dev] = info],
                 NEW d \in Devices, dev = KernelDev(d), <<line.pod, line.vol, d>> \in seen
          PROVE  FreshInv'
      <3>1. fresh'[KernelDev(d)] = info BY <2>4, <1>0, NumbersNotNone
      <3>2. ASSUME NEW e \in Devices, e # d PROVE fresh'[KernelDev(e)] = fresh[KernelDev(e)]
        BY <2>4, <3>2, <1>0, KernelDevUnique, NumbersNotNone
      <3>3. Vouched(fresh)'
        <4> SUFFICES ASSUME NEW e \in Devices, fresh'[KernelDev(e)] # None
                     PROVE  <<fresh'[KernelDev(e)].pod, fresh'[KernelDev(e)].vol, e>> \in seen'
          BY DEF Vouched
        <4>1. CASE e = d BY <4>1, <3>1, <2>4, <1>1, <1>9
        <4>2. CASE e # d
          <5>1. fresh'[KernelDev(e)] = fresh[KernelDev(e)] BY <4>2, <3>2
          <5>2. <<fresh[KernelDev(e)].pod, fresh[KernelDev(e)].vol, e>> \in seen
            BY <5>1, <2>1 DEF Vouched
          <5> QED BY <5>1, <5>2, <1>1, SMT
        <4> QED BY <4>1, <4>2
      <3>4. ASSUME NEW e \in Devices, e # d, fresh[KernelDev(e)] # None
            PROVE  ~SameMount(fresh[KernelDev(e)], info) /\ ~SameMount(info, fresh[KernelDev(e)])
        BY <2>2, <3>4, <1>5, <1>7 DEF SameMount
      <3>5. Distinct(fresh)'
        <4> SUFFICES ASSUME NEW e \in Devices, NEW f \in Devices,
                            fresh'[KernelDev(e)] # None, fresh'[KernelDev(f)] # None,
                            SameMount(fresh'[KernelDev(e)], fresh'[KernelDev(f)])
                     PROVE  e = f
          BY DEF Distinct
        <4>1. CASE e = d /\ f # d BY <4>1, <3>1, <3>2, <3>4
        <4>2. CASE e # d /\ f = d BY <4>2, <3>1, <3>2, <3>4
        <4>3. CASE e # d /\ f # d BY <4>3, <3>2, <2>1 DEF Distinct
        <4> QED BY <4>1, <4>2, <4>3
      <3>6. ASSUME NEW e \in Devices, NEW i \in 1..Len(lines'), fresh'[KernelDev(e)] # None
            PROVE  ~SameMount(fresh'[KernelDev(e)], lines'[i])
        <4>1. i + 1 \in 1..Len(lines) /\ i + 1 # 1 /\ lines'[i] = lines[i + 1] BY <1>5, <1>6
        <4>2. CASE e = d
          <5>1. ~SameMount(line, lines[i + 1]) BY <4>1, <1>1, <1>5 DEF Inv, LinesInv
          <5> QED BY <5>1, <4>1, <4>2, <3>1, <1>7 DEF SameMount
        <4>3. CASE e # d BY <4>1, <4>3, <3>2, <3>6, <2>2
        <4> QED BY <4>2, <4>3
      <3> QED BY <3>3, <3>5, <3>6 DEF FreshInv
    <2> QED BY <2>3, <2>4, <1>8
  <1> QED BY <1>4, <1>11, <1>12, <1>13, <1>14 DEF Inv

(* ScanSwap: the map in use is the new one.  A Collect under way notices   *)
(* when that makes a difference.                                           *)
LEMMA ScanSwapInv ==
  ASSUME Inv, ScanSwap, Resolve
  PROVE  Inv'
  <1>0. /\ faults \in 0..MaxFaults /\ devices \in [Numbers -> DeviceInfo \cup {None}]
        /\ lines \in Seq(Line) /\ podMetas \in SUBSET Pods
        /\ fresh \in [Numbers -> DeviceInfo \cup {None}]
        /\ seen \in SUBSET (Pods \X Volumes \X Devices)
        /\ {collecting, swapped} \subseteq BOOLEAN
    BY ResolverFacts
  <1>1. /\ pc = "lines" /\ devices' = fresh /\ fresh' = Empty /\ podMetas' = {} /\ seen' = {}
        /\ pc' = "idle" /\ UNCHANGED <<node, faults, lines>>
    BY DEF ScanSwap
  <1>2. UNCHANGED <<device, mountinfo, podStore, bound, changes, owners>> BY <1>1 DEF node
  <1>3. /\ swapped' = (swapped \/ (collecting /\ devices' # devices))
        /\ UNCHANGED <<todo, pass, collecting, reply>>
    BY DEF Resolve
  <1>4. Empty \in [Numbers -> DeviceInfo \cup {None}] BY DEF Empty
  <1>5. swapped' \in BOOLEAN BY <1>3, Zenon
  <1>6. TypeOK'
    <2>1. faults' \in 0..MaxFaults /\ podMetas' \in SUBSET Pods BY <1>0, <1>1
    <2>2. /\ devices' \in [Numbers -> DeviceInfo \cup {None}]
          /\ fresh' \in [Numbers -> DeviceInfo \cup {None}]
      BY <1>0, <1>1, <1>4
    <2>3. lines' \in Seq(Line) /\ seen' \in SUBSET (Pods \X Volumes \X Devices) BY <1>0, <1>1
    <2>4. pc' \in {"idle", "scan", "pods", "lines"} BY <1>1
    <2> QED BY <2>1, <2>2, <2>3, <2>4, <1>1, <1>3, <1>5, ScanTypes
  <1>7. NodeInv' BY <1>1, <1>2 DEF Inv, NodeInv
  <1>8. LinesInv' /\ FreshInv' BY <1>1 DEF LinesInv, FreshInv
  <1>9. MapInv'
    <2>1. Vouched(fresh) /\ Distinct(fresh) BY <1>1 DEF Inv, FreshInv
    <2>2. Distinct(devices)' BY <2>1, <1>1 DEF Distinct
    <2>3. ASSUME NEW d \in Devices, fresh[KernelDev(d)] # None
          PROVE  fresh[KernelDev(d)].vol \in owners[d]
      <3>1. fresh[KernelDev(d)] \in DeviceInfo BY <2>3, <1>0, NumbersNotNone
      <3>2. fresh[KernelDev(d)].pod \in Pods /\ fresh[KernelDev(d)].vol \in Volumes
        BY <3>1 DEF DeviceInfo
      <3> QED BY <3>2, <2>1, <2>3 DEF Vouched, Inv, NodeInv
    <2> QED BY <2>2, <2>3, <1>1, <1>2 DEF MapInv
  <1>10. ReplyInv'
    <2>1. ~swapped' => reply = {} \/ (~swapped /\ devices' = devices)
      BY <1>3 DEF Inv, ReplyInv
    <2> QED BY <2>1, <1>2, <1>3 DEF Inv, ReplyInv
  <1> QED BY <1>6, <1>7, <1>8, <1>9, <1>10 DEF Inv

(* RunTick. *)
LEMMA RunTickInv ==
  ASSUME Inv, RunTick, Resolve
  PROVE  Inv'
  <1>0. /\ faults \in 0..MaxFaults /\ devices \in [Numbers -> DeviceInfo \cup {None}]
        /\ lines \in Seq(Line) /\ podMetas \in SUBSET Pods
        /\ fresh \in [Numbers -> DeviceInfo \cup {None}]
        /\ seen \in SUBSET (Pods \X Volumes \X Devices)
        /\ {collecting, swapped} \subseteq BOOLEAN
    BY ResolverFacts
  <1>1. /\ pc' = "scan" /\ UNCHANGED <<node, faults, devices, lines, podMetas, fresh, seen>>
    BY DEF RunTick
  <1>2. UNCHANGED <<device, mountinfo, podStore, bound, changes, owners>> BY <1>1 DEF node
  <1>3. UNCHANGED <<todo, pass, collecting, reply, swapped>> BY <1>1, ResolveKeepsSwapped
  <1>4. MapInv' /\ ReplyInv' BY <1>1, <1>3, MapFrame
  <1>5. TypeOK'
    <2>1. swapped' \in BOOLEAN /\ faults' \in 0..MaxFaults /\ podMetas' \in SUBSET Pods
      BY <1>0, <1>1, <1>3
    <2>2. /\ devices' \in [Numbers -> DeviceInfo \cup {None}]
          /\ fresh' \in [Numbers -> DeviceInfo \cup {None}]
      BY <1>0, <1>1
    <2>3. lines' \in Seq(Line) /\ seen' \in SUBSET (Pods \X Volumes \X Devices) BY <1>0, <1>1
    <2>4. pc' \in {"idle", "scan", "pods", "lines"} BY <1>1
    <2> QED BY <2>1, <2>2, <2>3, <2>4, <1>1, <1>3, ScanTypes
  <1>6. NodeInv' BY <1>1, <1>2 DEF Inv, NodeInv
  <1>7. LinesInv' /\ FreshInv' BY <1>1 DEF LinesInv, FreshInv
  <1> QED BY <1>4, <1>5, <1>6, <1>7 DEF Inv

LEMMA ResolveInv ==
  ASSUME Inv, Resolve
  PROVE  Inv'
  BY ParseMountInfoInv, PodMetaMapInv, ScanLineInv, ScanSwapInv, RunTickInv DEF Resolve, Run
-----------------------------------------------------------------------------
(* Collect leaves the node and the resolver alone. *)
LEMMA CollectFrame ==
  ASSUME Inv, UNCHANGED vars
  PROVE  /\ ResolverTypeOK' /\ NodeInv' /\ LinesInv' /\ FreshInv' /\ MapInv'
         /\ UNCHANGED <<owners, devices>>
  <1>1. UNCHANGED <<device, mountinfo, podStore, bound, changes, owners, faults, devices, pc, lines,
                    podMetas, fresh, seen>>
    BY DEF vars, node, scanVars
  <1>2. ResolverTypeOK' BY <1>1 DEF Inv, TypeOK, ResolverTypeOK
  <1>3. NodeInv' BY <1>1 DEF Inv, NodeInv
  <1>4. LinesInv' BY <1>1 DEF Inv, LinesInv
  <1>5. Vouched(fresh) => Vouched(fresh)' BY <1>1 DEF Vouched
  <1>6. (Distinct(fresh) => Distinct(fresh)') /\ (Distinct(devices) => Distinct(devices)')
    BY <1>1 DEF Distinct
  <1>7. FreshInv' BY <1>1, <1>5, <1>6 DEF Inv, FreshInv
  <1>8. MapInv' BY <1>1, <1>6 DEF Inv, MapInv
  <1> QED BY <1>1, <1>2, <1>3, <1>4, <1>7, <1>8

LEMMA CollectInv ==
  ASSUME Inv, CollectBegins \/ CollectRestarts \/ CollectEnds \/ \E d \in Devices : CollectDevice(d)
  PROVE  Inv'
  <1>0. /\ todo \in SUBSET Devices /\ pass \in 0..MaxRestarts /\ {collecting, swapped} \subseteq BOOLEAN
        /\ reply \in SUBSET [dev : Devices, info : DeviceInfo \cup {None}, pass : 0..MaxRestarts]
        /\ devices \in [Numbers -> DeviceInfo \cup {None}]
    BY ResolverFacts
  <1>1. UNCHANGED vars BY DEF CollectBegins, CollectRestarts, CollectEnds, CollectDevice
  <1>2. /\ ResolverTypeOK' /\ NodeInv' /\ LinesInv' /\ FreshInv' /\ MapInv'
        /\ UNCHANGED <<owners, devices>>
    BY <1>1, CollectFrame
  <1>3. CASE CollectBegins
    <2>1. TypeOK' BY <1>0, <1>2, <1>3 DEF CollectBegins, TypeOK, Counted
    <2>2. ReplyInv' BY <1>2, <1>3 DEF CollectBegins, Inv, ReplyInv
    <2> QED BY <2>1, <2>2, <1>2 DEF Inv
  <1>4. CASE CollectEnds
    <2>0. 0 \in 0..MaxRestarts BY RestartsAssumption, SMT
    <2>1. TypeOK' BY <1>0, <1>2, <1>4, <2>0 DEF CollectEnds, TypeOK
    <2>2. ReplyInv' BY <1>4 DEF CollectEnds, ReplyInv
    <2> QED BY <2>1, <2>2, <1>2 DEF Inv
  <1>5. ASSUME NEW d \in Devices, CollectDevice(d) PROVE Inv'
    <2> DEFINE s == [dev |-> d, info |-> Lookup(d), pass |-> pass]
    <2>1. /\ collecting /\ todo' = todo \ {d} /\ UNCHANGED <<pass, collecting, swapped>>
          /\ reply' = reply \/ reply' = reply \cup {s}
      BY <1>5 DEF CollectDevice
    <2>2. s.dev = d /\ s.info = devices[KernelDev(d)] BY DEF Lookup
    <2>3. s \in [dev : Devices, info : DeviceInfo \cup {None}, pass : 0..MaxRestarts]
      BY <1>0, NumbersNotNone DEF Lookup
    <2> HIDE DEF s
    <2>4. TypeOK' BY <2>1, <2>3, <1>0, <1>2 DEF TypeOK
    <2>5. s.info # None => s.info.vol \in owners[s.dev] BY <2>2 DEF Inv, MapInv
    <2>6. ReplyInv' BY <2>1, <2>2, <2>5, <1>2 DEF Inv, ReplyInv
    <2> QED BY <2>4, <2>6, <1>2 DEF Inv
  <1>6. CASE CollectRestarts
    <2>1. pass' \in 0..MaxRestarts BY <1>0, <1>6, RestartsAssumption, SMT DEF CollectRestarts
    <2>2. TypeOK' BY <1>0, <1>2, <1>6, <2>1 DEF CollectRestarts, TypeOK, Counted
    <2>3. ReplyInv' BY <1>2, <1>6 DEF CollectRestarts, Inv, ReplyInv
    <2> QED BY <2>2, <2>3, <1>2 DEF Inv
  <1> QED BY <1>3, <1>4, <1>5, <1>6

(* Every step keeps the invariant. *)
LEMMA InvStep == Inv /\ [Next]_allVars => Inv'
  <1> SUFFICES ASSUME Inv, [Next]_allVars PROVE Inv' OBVIOUS
  <1>1. CASE NodeChanges /\ UNCHANGED attrVars BY <1>1, NodeChangesInv
  <1>2. CASE Resolve BY <1>2, ResolveInv
  <1>3. CASE CollectBegins \/ CollectRestarts \/ CollectEnds \/ \E d \in Devices : CollectDevice(d)
    BY <1>3, CollectInv
  <1>4. CASE UNCHANGED allVars
    <2>1. UNCHANGED vars /\ UNCHANGED <<todo, pass, collecting, reply, swapped>>
      BY <1>4 DEF allVars, attrVars
    <2>2. /\ ResolverTypeOK' /\ NodeInv' /\ LinesInv' /\ FreshInv' /\ MapInv'
          /\ UNCHANGED <<owners, devices>>
      BY <2>1, CollectFrame
    <2>3. TypeOK' BY <2>1, <2>2 DEF Inv, TypeOK
    <2>4. ReplyInv' BY <2>1, <2>2 DEF Inv, ReplyInv
    <2> QED BY <2>2, <2>3, <2>4 DEF Inv
  <1> QED BY <1>1, <1>2, <1>3, <1>4 DEF Next
-----------------------------------------------------------------------------
(* The inductive invariant holds in every reachable state. *)
THEOREM Invariance == Spec => []Inv
  <1>1. Inv /\ [Next]_allVars => Inv' BY InvStep
  <1> QED BY <1>1, InvInit, PTL DEF Spec

(* The map, the scan and the reply have their types whatever the node, the *)
(* ticker and Collect do in between.                                       *)
THEOREM AttributionTypes == Spec => []TypeOK
  <1>1. Inv => TypeOK BY DEF Inv
  <1> QED BY <1>1, Invariance, PTL

(* The latencies Collect reports for a volume are those of its device,     *)
(* unless several volumes have had the device number, for any number of    *)
(* pods, volumes and devices and however late scan is.                     *)
THEOREM Attributed == Spec => []AttributedUnlessReused
  <1>1. Inv => AttributedUnlessReused
    <2> SUFFICES ASSUME Inv, NEW s \in reply, s.info # None,
                        \A v, w \in owners[s.dev] : v = w
                 PROVE  owners[s.dev] = {s.info.vol}
      BY DEF AttributedUnlessReused
    <2>1. s.info.vol \in owners[s.dev] BY DEF Inv, ReplyInv
    <2> QED BY <2>1
  <1> QED BY <1>1, Invariance, PTL

(* A reply has no series twice, unless the walk of the histograms started  *)
(* over in between, or the map was replaced during Collect and the volume  *)
(* has had several devices: no two entries of a map have the same pod and  *)
(* volume.                                                                 *)
THEOREM SeriesUnique == Spec => []SeriesUniqueUnlessMoved
  <1>1. Inv => SeriesUniqueUnlessMoved
    <2> SUFFICES ASSUME Inv, NEW s \in reply, NEW t \in reply, s # t, s.info # None, s.info = t.info,
                        s.pass = t.pass
                 PROVE  /\ swapped
                        /\ \E d, e \in Devices : d # e /\ s.info.vol \in owners[d] \cap owners[e]
      BY DEF SeriesUniqueUnlessMoved
    <2>1. s.dev \in Devices /\ t.dev \in Devices /\ s.dev # t.dev BY ResolverFacts, SMT
    <2>2. s.info.vol \in owners[s.dev] /\ t.info.vol \in owners[t.dev] BY DEF Inv, ReplyInv
    <2>3. \E d, e \in Devices : d # e /\ s.info.vol \in owners[d] \cap owners[e] BY <2>1, <2>2
    <2>4. swapped
      <3>1. SUFFICES ASSUME ~swapped PROVE FALSE OBVIOUS
      <3>2. s.info = devices[KernelDev(s.dev)] /\ t.info = devices[KernelDev(t.dev)]
        BY <3>1 DEF Inv, ReplyInv
      <3>3. SameMount(s.info, t.info) BY DEF SameMount
      <3> QED BY <3>2, <3>3, <2>1 DEF Inv, MapInv, Distinct
    <2> QED BY <2>3, <2>4
  <1> QED BY <1>1, Invariance, PTL

(* When scan replaces the map, every entry of the new one is a pod, a      *)
(* volume and a device that belonged together at some time during this     *)
(* very scan.                                                              *)
THEOREM ScanVouchesForMap == Spec => MapVouched
  <1> DEFINE A == devices' # devices =>
                    \A d \in Devices :
                        LET info == devices'[KernelDev(d)]
                        IN  info # None => <<info.pod, info.vol, d>> \in seen
  <1>1. Inv /\ [Next]_allVars => [A]_vars
    <2> SUFFICES ASSUME Inv, [Next]_allVars, devices' # devices
                 PROVE  A
      OBVIOUS
    <2>1. ~(UNCHANGED <<vars, attrVars>>) /\ ~(UNCHANGED vars) BY DEF vars
    <2>2. ~NodeChanges
      BY DEF NodeChanges, Detach, ClaimIndexed, Attach, Mount, Unmount, PodStoreChanges, Change
    <2>3. Resolve BY <2>1, <2>2 DEF Next, CollectBegins, CollectRestarts, CollectEnds, CollectDevice, allVars
    <2>4. ScanSwap BY <2>3 DEF Resolve, Run, ParseMountInfo, podMetaMap, ScanLine, RunTick
    <2>5. devices' = fresh /\ Vouched(fresh) BY <2>4 DEF ScanSwap, Inv, FreshInv
    <2> QED BY <2>5 DEF Vouched
  <1> HIDE DEF A
  <1>2. Spec => [][A]_vars BY <1>1, Invariance, PTL DEF Spec
  <1> QED BY <1>2 DEF A, MapVouched
=============================================================================
