------------------------ MODULE TrafficCacheProofs ------------------------
(***************************************************************************)
(* Proofs about the traffic cache, for any number of peers, samplers and   *)
(* savers, any period and any size of the ring.                            *)
(*                                                                         *)
(* The invariants are three.  InWindow ties the ring, the file and the     *)
(* snapshots to the clock; SavedBefore orders file, snapshot and ring by   *)
(* age; Accounted counts what was booked, what a sample in progress will   *)
(* book and what the next one will find.  They rest on arithmetic of the   *)
(* ring (a slot serves each period of a window at most once) and on what   *)
(* a sum over the ring becomes when one slot changes.                      *)
(***************************************************************************)
EXTENDS TrafficCache, Integers, NaturalsInduction, WellFoundedInduction, TLAPS

-----------------------------------------------------------------------------
(* Shapes.                                                                 *)

Rings == [Slots -> Slot]

History == [Periods -> [Peers -> Nat]]

Snapshots == [ring: Rings, hasDelta: {TRUE}, booked: History]

(* A sample that has been stamped has a time, and one that has been read   *)
(* has counters.                                                           *)
SampleTyped ==
    \A s \in Samplers :
        /\ sample[s].pc \in {"read", "book"} => sample[s].at \in 1 .. MaxNow
        /\ sample[s].pc = "book" => sample[s].peers \in Counters

Typed == TypeOK /\ SampleTyped

-----------------------------------------------------------------------------
(* The ring and the clock.                                                 *)

(* In period c: no slot holds a period to come, and each holds one of its  *)
(* own; within the window a period has its volume in its slot, or none.    *)
Follows(r, bk, c) ==
    /\ \A i \in Slots : r[i].bid <= c /\ (IdxFor(r[i].bid) = i \/ r[i].bid = 0)
    /\ \A b \in Periods : r[IdxFor(b)].bid = b => r[IdxFor(b)].vol = bk[b]
    /\ \A b \in Periods :
          bk[b] = Nobody \/ r[IdxFor(b)].bid = b \/ c >= b + MaxBaseBuckets

(* A sample is booked while its slot is its own.                           *)
SampleInWindow ==
    \A s \in Samplers :
        sample[s].pc \in {"read", "book"} =>
            /\ sample[s].at <= now
            /\ Bid(now) < Bid(sample[s].at) + MaxBaseBuckets

InWindow ==
    /\ SampleInWindow
    /\ Follows(ring, booked, Bid(now))
    /\ disk # None => Follows(disk.ring, disk.booked, Bid(now))
    /\ \A s \in Savers :
          saving[s] # None => Follows(saving[s].snap.ring, saving[s].snap.booked, Bid(now))

-----------------------------------------------------------------------------
(* The file, the snapshots and the ring.                                   *)

(* Every slot of r has at least what it has in q, or a later period.       *)
Newer(r, q) ==
    \A i \in Slots :
        \/ r[i].bid > q[i].bid
        \/ r[i].bid = q[i].bid /\ \A p \in Peers : r[i].vol[p] >= q[i].vol[p]

(* The saver whose snapshot is the last one.                               *)
Latest(s) == saving[s] # None /\ ~saving[s].met

SavedBefore ==
    overlapped.save \/
    /\ disk # None => Newer(ring, disk.ring)
    /\ \A s \in Savers : Latest(s) => Newer(ring, saving[s].snap.ring)
    /\ \A s \in Savers : Latest(s) /\ disk # None => Newer(saving[s].snap.ring, disk.ring)
    /\ \A r, s \in Savers : Latest(r) /\ Latest(s) => r = s

-----------------------------------------------------------------------------
(* What was booked, what is being booked, and what will be.                *)

(* The bytes of p from the counters of one sample to those of another.     *)
Gain(from, to, p) ==
    IF from[p] = None \/ to[p] = None THEN 0 ELSE IF to[p] < from[p] THEN 0 ELSE to[p] - from[p]

GainSincePrevious(to, p) == IF prev = None THEN 0 ELSE Gain(prev.peers, to, p)

(* The sample whose counters are the last that were read.                  *)
Fresh(s) == sample[s].pc = "book" /\ ~sample[s].met

Accounted ==
    overlapped.sample \/
    /\ \A p \in Peers :
          Total(VolumesOf(ring, p)) + GainSincePrevious(kernel, p) <= sent[p]
    /\ \A s \in Samplers, p \in Peers : Fresh(s) =>
          Total(VolumesOf(ring, p)) + GainSincePrevious(sample[s].peers, p)
             + Gain(sample[s].peers, kernel, p) <= sent[p]
    /\ \A r, s \in Samplers : Fresh(r) /\ Fresh(s) => r = s
    /\ \A p \in Peers : disk # None => Total(VolumesOf(disk.ring, p)) <= sent[p]
    /\ \A s \in Savers, p \in Peers :
          saving[s] # None => Total(VolumesOf(saving[s].snap.ring, p)) <= sent[p]


-----------------------------------------------------------------------------
(* Arithmetic of the ring.                                                 *)

(* Every natural number has a quotient and a remainder in range.           *)
LEMMA DivMod ==
    ASSUME NEW a \in Nat, NEW n \in Nat \ {0}
    PROVE  /\ a \div n \in Nat
           /\ a % n \in 0 .. (n - 1)
           /\ a = n * (a \div n) + (a % n)
OBVIOUS

(* A multiple of n that is less than n is none.                            *)
LEMMA SmallMultiple ==
    ASSUME NEW n \in Nat \ {0}, NEW k \in Int, n * k < n, 0 <= n * k
    PROVE  k = 0
<1>1. CASE k >= 1
  <2>1. n * k >= n
    BY <1>1
  <2> QED
    BY <2>1
<1>2. CASE k <= -1
  <2>1. n * k <= -n
    BY <1>2
  <2> QED
    BY <2>1
<1> QED
  BY <1>1, <1>2

(* Two periods of one window of the ring that share a slot are the same.   *)
LEMMA SlotIsOwn ==
    ASSUME NEW a \in Nat, NEW b \in Nat, NEW n \in Nat \ {0},
           a % n = b % n, a <= b, b < a + n
    PROVE  a = b
<1>1. PICK x \in Nat : x = a \div n
  BY DivMod
<1>2. PICK y \in Nat : y = b \div n
  BY DivMod
<1>3. a = n * x + (a % n) /\ b = n * y + (b % n)
  BY <1>1, <1>2, DivMod
<1>4. a % n \in Nat /\ b % n \in Nat
  BY DivMod
<1>5. n * (y - x) = b - a
  BY <1>3, <1>4
<1>6. y - x = 0
  BY <1>5, SmallMultiple
<1> QED
  BY <1>5, <1>6

(* Periods follow the clock.                                               *)
LEMMA QuotientsGrow ==
    ASSUME NEW a \in Nat, NEW b \in Nat, NEW n \in Nat \ {0}, a <= b
    PROVE  a \div n <= b \div n
OBVIOUS

LEMMA Facts ==
    /\ BucketMs \in Nat \ {0} /\ MaxBaseBuckets \in Nat \ {0}
    /\ MaxNow \in Nat \ {0} /\ MaxBytes \in Nat
    /\ Bid(MaxNow) \in Nat
    /\ Ticker \in Samplers /\ Warmers \subseteq Samplers
<1>1. BucketMs \in Nat \ {0} /\ MaxBaseBuckets \in Nat \ {0}
      /\ MaxNow \in Nat \ {0} /\ MaxBytes \in Nat
  BY CacheAssumption
<1>2. Bid(MaxNow) \in Nat
  BY <1>1, DivMod DEF Bid
<1> QED
  BY <1>1, <1>2 DEF Samplers

(* The period of a time of the behaviour is one of the periods.            *)
LEMMA BidRange ==
    ASSUME NEW t \in 0 .. MaxNow
    PROVE  Bid(t) \in Periods
<1>1. Bid(t) \in Nat
  BY Facts, DivMod DEF Bid
<1>2. Bid(t) <= Bid(MaxNow)
  BY Facts, QuotientsGrow DEF Bid
<1> QED
  BY <1>1, <1>2, Facts DEF Periods

LEMMA SlotRange ==
    ASSUME NEW b \in Nat
    PROVE  IdxFor(b) \in Slots
BY Facts, DivMod DEF IdxFor, Slots

-----------------------------------------------------------------------------
(* The sum over the ring.                                                  *)

(* u adds up vol as far as m.                                              *)
Adds(u, vol, m) ==
    /\ u \in [0 .. m -> Nat]
    /\ u[0] = 0
    /\ \A n \in 1 .. m : u[n] = u[n - 1] + vol[n - 1]

(* A set of numbers that is not empty has a least one.                     *)
LEMMA LeastNumber ==
    ASSUME NEW S \in SUBSET Nat, S # {}
    PROVE  \E x \in S : \A y \in S : x <= y
<1>1. PICK x \in S : \A y \in S : ~(<<y, x>> \in OpToRel(<, Nat))
  BY NatLessThanWellFounded, WFMin
<1>2. \A y \in S : ~(y < x)
  BY <1>1 DEF OpToRel
<1> QED
  BY <1>2

(* The sums of a sequence of volumes exist.                                *)
LEMMA SumsExist ==
    ASSUME NEW m \in Nat, NEW vol \in [0 .. (m - 1) -> Nat]
    PROVE  \E u : Adds(u, vol, m)
<1> DEFINE Bad == {k \in 0 .. m : ~ \E u : Adds(u, vol, k)}
<1>1. SUFFICES ASSUME Bad # {} PROVE FALSE
  <2>1. m \in 0 .. m
    OBVIOUS
  <2> QED
    BY <2>1
<1>2. Bad \in SUBSET Nat
  OBVIOUS
<1>3. PICK k \in Bad : \A j \in Bad : k <= j
  <2> HIDE DEF Bad
  <2> QED
    BY <1>1, <1>2, LeastNumber
<1>4. k # 0
  <2>1. Adds([n \in 0 .. 0 |-> 0], vol, 0)
    BY DEF Adds
  <2> QED
    BY <1>3, <2>1
<1>5. k - 1 \in 0 .. m /\ k \in 1 .. m /\ ~(k <= k - 1)
  BY <1>3, <1>4
<1>6. PICK u : Adds(u, vol, k - 1)
  BY <1>3, <1>5
<1> DEFINE w == [n \in 0 .. k |-> IF n = k THEN u[k - 1] + vol[k - 1] ELSE u[n]]
<1>7. \A n \in 0 .. k : n # k => n \in 0 .. (k - 1)
  BY <1>5
<1>8. k - 1 \in 0 .. (k - 1) /\ k - 1 \in 0 .. (m - 1)
  BY <1>5
<1>9. u[k - 1] + vol[k - 1] \in Nat
  BY <1>6, <1>8 DEF Adds
<1>10. w \in [0 .. k -> Nat]
  BY <1>6, <1>7, <1>9 DEF Adds
<1>11. w[0] = 0
  BY <1>5, <1>6 DEF Adds
<1>12. \A n \in 1 .. k : w[n] = w[n - 1] + vol[n - 1]
  <2> SUFFICES ASSUME NEW n \in 1 .. k PROVE w[n] = w[n - 1] + vol[n - 1]
    OBVIOUS
  <2>1. n \in 0 .. k /\ n - 1 \in 0 .. k /\ n - 1 # k
    BY <1>5
  <2>2. w[n - 1] = u[n - 1]
    BY <2>1
  <2>3. CASE n = k
    BY <2>1, <2>2, <2>3
  <2>4. CASE n # k
    <3>1. n \in 1 .. (k - 1)
      BY <2>4, <1>5
    <3> QED
      BY <1>6, <2>1, <2>2, <2>4, <3>1 DEF Adds
  <2> QED
    BY <2>3, <2>4
<1>13. Adds(w, vol, k)
  BY <1>10, <1>11, <1>12 DEF Adds
<1> QED
  BY <1>3, <1>13

(* What Total adds up.                                                     *)
LEMMA TotalAdds ==
    ASSUME NEW vol \in [Slots -> Nat]
    PROVE  \E u : Adds(u, vol, MaxBaseBuckets) /\ Total(vol) = u[MaxBaseBuckets]
<1> DEFINE Sums(u) == u = [n \in 0 .. MaxBaseBuckets |->
                             IF n = 0 THEN 0 ELSE u[n - 1] + vol[n - 1]]
<1>1. PICK v : Adds(v, vol, MaxBaseBuckets)
  BY SumsExist, Facts DEF Slots
<1>2. Sums(v)
  <2>1. \A n \in 0 .. MaxBaseBuckets : n # 0 => n \in 1 .. MaxBaseBuckets
    BY Facts
  <2>2. \A n \in 0 .. MaxBaseBuckets : v[n] = IF n = 0 THEN 0 ELSE v[n - 1] + vol[n - 1]
    BY <1>1, <2>1 DEF Adds
  <2> QED
    BY <1>1, <2>2 DEF Adds
<1> DEFINE u == CHOOSE f : Sums(f)
<1>3. Sums(u)
  BY <1>2
<1>4. Total(vol) = u[MaxBaseBuckets]
  BY DEF Total
<1> HIDE DEF u
<1>5. DOMAIN u = 0 .. MaxBaseBuckets
  BY <1>3
<1>6. \A n \in 0 .. MaxBaseBuckets : u[n] = IF n = 0 THEN 0 ELSE u[n - 1] + vol[n - 1]
  BY <1>3
<1> DEFINE Bad == {n \in 0 .. MaxBaseBuckets : u[n] # v[n]}
<1>7. Bad = {}
  <2> SUFFICES ASSUME Bad # {} PROVE FALSE
    OBVIOUS
  <2>1. Bad \in SUBSET Nat
    OBVIOUS
  <2>2. PICK k \in Bad : \A j \in Bad : k <= j
    <3> HIDE DEF Bad
    <3> QED
      BY <2>1, LeastNumber
  <2>3. k # 0
    BY <2>2, <1>1, <1>6, Facts DEF Adds
  <2>4. k - 1 \in 0 .. MaxBaseBuckets /\ k \in 1 .. MaxBaseBuckets /\ ~(k <= k - 1)
    BY <2>2, <2>3, Facts
  <2>5. u[k - 1] = v[k - 1]
    BY <2>2, <2>4
  <2> QED
    BY <1>1, <1>6, <2>2, <2>3, <2>4, <2>5 DEF Adds
<1>8. MaxBaseBuckets \in 0 .. MaxBaseBuckets
  BY Facts
<1>9. u[MaxBaseBuckets] = v[MaxBaseBuckets]
  BY <1>7, <1>8
<1> QED
  BY <1>1, <1>4, <1>9

LEMMA TotalNat ==
    ASSUME NEW vol \in [Slots -> Nat]
    PROVE  Total(vol) \in Nat
<1>1. PICK u : Adds(u, vol, MaxBaseBuckets) /\ Total(vol) = u[MaxBaseBuckets]
  BY TotalAdds
<1> QED
  BY <1>1, Facts DEF Adds

(* When one slot gains at most d and no other gains anything, the sum      *)
(* gains at most d.                                                        *)
LEMMA TotalGains ==
    ASSUME NEW vol \in [Slots -> Nat], NEW w \in [Slots -> Nat],
           NEW k \in Slots, NEW d \in Nat,
           w[k] <= vol[k] + d,
           \A i \in Slots \ {k} : w[i] = vol[i]
    PROVE  Total(w) <= Total(vol) + d
<1>1. PICK u : Adds(u, vol, MaxBaseBuckets) /\ Total(vol) = u[MaxBaseBuckets]
  BY TotalAdds
<1>2. PICK x : Adds(x, w, MaxBaseBuckets) /\ Total(w) = x[MaxBaseBuckets]
  BY TotalAdds
<1> DEFINE Room(n) == u[n] + (IF n > k THEN d ELSE 0)
           Bad == {n \in 0 .. MaxBaseBuckets : x[n] > Room(n)}
<1>3. k \in 0 .. (MaxBaseBuckets - 1) /\ k \in Nat
  BY Facts DEF Slots
<1>4. Bad = {}
  <2> SUFFICES ASSUME Bad # {} PROVE FALSE
    OBVIOUS
  <2>1. Bad \in SUBSET Nat
    OBVIOUS
  <2>2. PICK n \in Bad : \A j \in Bad : n <= j
    <3> HIDE DEF Bad
    <3> QED
      BY <2>1, LeastNumber
  <2>3. n # 0
    BY <2>2, <1>1, <1>2, <1>3, Facts DEF Adds
  <2>4. n - 1 \in 0 .. MaxBaseBuckets /\ n \in 1 .. MaxBaseBuckets /\ ~(n <= n - 1)
        /\ n - 1 \in Slots /\ n \in 0 .. MaxBaseBuckets
    BY <2>2, <2>3, Facts DEF Slots
  <2>5. n - 1 \notin Bad
    BY <2>2, <2>4
  <2>6. /\ x[n] \in Nat /\ x[n - 1] \in Nat /\ u[n] \in Nat /\ u[n - 1] \in Nat
        /\ w[n - 1] \in Nat /\ vol[n - 1] \in Nat
    BY <1>1, <1>2, <2>4 DEF Adds
  <2>7. x[n - 1] <= Room(n - 1)
    BY <2>4, <2>5, <2>6, <1>3
  <2>8. x[n] = x[n - 1] + w[n - 1] /\ u[n] = u[n - 1] + vol[n - 1]
    BY <1>1, <1>2, <2>4 DEF Adds
  <2>9. x[n] > Room(n)
    BY <2>2
  <2>10. CASE n - 1 = k
    BY <2>4, <2>6, <2>7, <2>8, <2>9, <2>10, <1>3
  <2>11. CASE n - 1 # k
    <3>1. w[n - 1] = vol[n - 1]
      BY <2>4, <2>11
    <3>2. n > k <=> n - 1 > k
      BY <2>4, <2>11, <1>3
    <3> QED
      BY <2>6, <2>7, <2>8, <2>9, <3>1, <3>2
  <2> QED
    BY <2>10, <2>11
<1>5. MaxBaseBuckets \in 0 .. MaxBaseBuckets /\ MaxBaseBuckets > k
  BY Facts, <1>3
<1>6. x[MaxBaseBuckets] \in Nat /\ u[MaxBaseBuckets] \in Nat
  BY <1>1, <1>2, <1>5 DEF Adds
<1> QED
  BY <1>1, <1>2, <1>4, <1>5, <1>6

(* An empty ring holds no bytes.                                           *)
LEMMA TotalOfNothing ==
    ASSUME NEW vol \in [Slots -> Nat], \A i \in Slots : vol[i] = 0
    PROVE  Total(vol) = 0
<1>1. PICK u : Adds(u, vol, MaxBaseBuckets) /\ Total(vol) = u[MaxBaseBuckets]
  BY TotalAdds
<1> DEFINE Bad == {n \in 0 .. MaxBaseBuckets : u[n] # 0}
<1>2. Bad = {}
  <2> SUFFICES ASSUME Bad # {} PROVE FALSE
    OBVIOUS
  <2>1. Bad \in SUBSET Nat
    OBVIOUS
  <2>2. PICK n \in Bad : \A j \in Bad : n <= j
    <3> HIDE DEF Bad
    <3> QED
      BY <2>1, LeastNumber
  <2>3. n # 0
    BY <2>2, <1>1 DEF Adds
  <2>4. n - 1 \in 0 .. MaxBaseBuckets /\ n \in 1 .. MaxBaseBuckets /\ ~(n <= n - 1)
        /\ n - 1 \in Slots
    BY <2>2, <2>3, Facts DEF Slots
  <2>5. u[n - 1] = 0 /\ vol[n - 1] = 0
    BY <2>2, <2>4
  <2>6. u[n] = u[n - 1] + vol[n - 1]
    BY <1>1, <2>4 DEF Adds
  <2> QED
    BY <2>2, <2>5, <2>6
<1>3. MaxBaseBuckets \in 0 .. MaxBaseBuckets
  BY Facts
<1> QED
  BY <1>1, <1>2, <1>3

-----------------------------------------------------------------------------
(* The shapes.                                                             *)

Sample == [pc: {"idle", "stamp", "read", "book"}, left: 0 .. 2,
           at: 0 .. MaxNow, peers: Counters \cup {None}, met: BOOLEAN]

Save == [snap: Snapshots, met: BOOLEAN]

LEMMA IdleTyped == Idle \in Sample /\ Idle.pc = "idle"
BY Facts DEF Idle, Sample

LEMMA NobodyTyped == Nobody \in [Peers -> Nat]
BY DEF Nobody

LEMMA EmptyTyped == EmptyRing \in Rings /\ NoHistory \in History
<1>1. [bid |-> 0, vol |-> Nobody] \in Slot
  BY NobodyTyped DEF Slot
<1>2. EmptyRing \in Rings
  BY <1>1 DEF EmptyRing, Rings
<1> QED
  BY <1>2, NobodyTyped DEF NoHistory, History

(* Every field of a sample in progress, for an action that changes one.    *)
LEMMA SampleFields ==
    ASSUME TypeOK
    PROVE  /\ sample \in [Samplers -> Sample]
           /\ \A s \in Samplers : sample[s] \in Sample
BY DEF TypeOK, Sample

LEMMA SaveFields ==
    ASSUME TypeOK
    PROVE  /\ saving \in [Savers -> {None} \cup Save]
           /\ disk \in {None} \cup Snapshots
           /\ ring \in Rings
           /\ booked \in History
BY DEF TypeOK, Save, Snapshots, Rings, History

(* The shapes of Typed, put together.                                      *)
LEMMA TypedFrom ==
    ASSUME now' \in 1 .. MaxNow,
           kernel' \in Counters,
           sent' \in [Peers -> 0 .. MaxBytes],
           ring' \in Rings,
           prev' \in {None} \cup [at: 1 .. MaxNow, peers: Counters],
           hasDelta' \in BOOLEAN,
           sample' \in [Samplers -> Sample],
           disk' \in {None} \cup Snapshots,
           saving' \in [Savers -> {None} \cup Save],
           booked' \in History,
           overlapped' \in [sample: BOOLEAN, save: BOOLEAN],
           SampleTyped'
    PROVE  Typed'
BY DEF Typed, TypeOK, Sample, Save, Snapshots, Rings, History

(* What is left of a sample is a sample.                                   *)
LEMMA AfterTyped ==
    ASSUME TypeOK, NEW s \in Samplers
    PROVE  After(s) \in Sample /\ After(s).pc \in {"idle", "stamp"}
<1>1. sample[s] \in Sample
  BY SampleFields
<1>2. sample[s].left \in 0 .. 2 /\ sample[s].at \in 0 .. MaxNow
  BY <1>1 DEF Sample
<1>3. CASE sample[s].left > 1
  <2>1. sample[s].left - 1 \in 0 .. 2
    BY <1>2, <1>3
  <2>2. After(s) = [pc |-> "stamp", left |-> sample[s].left - 1, at |-> sample[s].at,
                    peers |-> None, met |-> FALSE]
    BY <1>3 DEF After, Idle
  <2> QED
    BY <1>2, <2>1, <2>2 DEF Sample
<1>4. CASE ~(sample[s].left > 1)
  BY <1>4, IdleTyped DEF After
<1> QED
  BY <1>3, <1>4

(* What a sample adds is a number of bytes for each peer.                  *)
LEMMA VolumeTyped ==
    ASSUME Typed, NEW s \in Samplers, sample[s].pc = "book", prev # None
    PROVE  /\ Volume(sample[s]) \in [Peers -> Nat]
           /\ \A p \in Peers :
                 Volume(sample[s])[p] = Gain(prev.peers, sample[s].peers, p)
<1>1. sample[s].peers \in Counters /\ prev.peers \in Counters
  BY DEF Typed, SampleTyped, TypeOK
<1>2. ASSUME NEW p \in Peers
      PROVE  /\ Volume(sample[s])[p] = Gain(prev.peers, sample[s].peers, p)
             /\ Gain(prev.peers, sample[s].peers, p) \in Nat
  <2> DEFINE a == sample[s].peers[p]
             b == prev.peers[p]
  <2>1. a \in Nat \cup {None} /\ b \in Nat \cup {None}
    BY <1>1 DEF Counters
  <2>2. Volume(sample[s])[p] = IF None \in {a, b} \/ a < b THEN 0 ELSE a - b
    BY DEF Volume
  <2>3. Gain(prev.peers, sample[s].peers, p) =
          IF b = None \/ a = None THEN 0 ELSE IF a < b THEN 0 ELSE a - b
    BY DEF Gain
  <2> HIDE DEF a, b
  <2>4. CASE a = None \/ b = None
    BY <2>2, <2>3, <2>4
  <2>5. CASE a # None /\ b # None
    <3>1. a \in Nat /\ b \in Nat
      BY <2>1, <2>5
    <3> QED
      BY <2>2, <2>3, <2>5, <3>1
  <2> QED
    BY <2>4, <2>5
<1>3. Volume(sample[s]) = [p \in Peers |-> Volume(sample[s])[p]]
  BY DEF Volume
<1> QED
  BY <1>2, <1>3

LEMMA InitTyped == Init => Typed
<1> SUFFICES ASSUME Init PROVE Typed
  OBVIOUS
<1>1. now \in 1 .. MaxNow
  BY Facts DEF Init
<1>2. kernel \in Counters /\ sent \in [Peers -> 0 .. MaxBytes]
  BY Facts DEF Init, Counters, Nobody
<1>3. ring \in Rings /\ booked \in History
  BY EmptyTyped DEF Init
<1>4. /\ prev \in {None} \cup [at: 1 .. MaxNow, peers: Counters]
      /\ hasDelta \in BOOLEAN
      /\ disk \in {None} \cup Snapshots
      /\ saving \in [Savers -> {None} \cup Save]
      /\ overlapped \in [sample: BOOLEAN, save: BOOLEAN]
  BY DEF Init
<1>5. sample \in [Samplers -> Sample]
  BY IdleTyped DEF Init
<1>6. SampleTyped
  BY IdleTyped DEF Init, SampleTyped
<1>7. TypeOK
  BY <1>1, <1>2, <1>3, <1>4, <1>5
     DEF TypeOK, Sample, Save, Snapshots, Rings, History
<1> QED
  BY <1>6, <1>7 DEF Typed


(* Each variable's shape, by name.                                         *)
LEMMA Fields ==
    ASSUME Typed
    PROVE  /\ now \in 1 .. MaxNow
           /\ kernel \in Counters
           /\ sent \in [Peers -> 0 .. MaxBytes]
           /\ ring \in Rings
           /\ prev \in {None} \cup [at: 1 .. MaxNow, peers: Counters]
           /\ hasDelta \in BOOLEAN
           /\ sample \in [Samplers -> Sample]
           /\ disk \in {None} \cup Snapshots
           /\ saving \in [Savers -> {None} \cup Save]
           /\ booked \in History
           /\ overlapped \in [sample: BOOLEAN, save: BOOLEAN]
           /\ SampleTyped
BY DEF Typed, TypeOK, Sample, Save, Snapshots, Rings, History

(* A ring in which the slot of period b holds slot with vol added, and a   *)
(* history in which vol is booked in b.                                    *)
PutSlot(r, b, slot, vol) ==
    [r EXCEPT ![IdxFor(b)] = [bid |-> slot.bid, vol |-> [p \in Peers |-> slot.vol[p] + vol[p]]]]

AddTo(bk, b, vol) == [bk EXCEPT ![b] = [p \in Peers |-> bk[b][p] + vol[p]]]

LEMMA BookedTyped ==
    ASSUME NEW r \in Rings, NEW bk \in History, NEW b \in Periods,
           NEW slot \in Slot, NEW vol \in [Peers -> Nat]
    PROVE  /\ PutSlot(r, b, slot, vol) \in Rings
           /\ AddTo(bk, b, vol) \in History
<1>1. [p \in Peers |-> slot.vol[p] + vol[p]] \in [Peers -> Nat]
  BY DEF Slot
<1>2. [bid |-> slot.bid, vol |-> [p \in Peers |-> slot.vol[p] + vol[p]]] \in Slot
  BY <1>1 DEF Slot
<1>3. bk[b] \in [Peers -> Nat]
  BY DEF History
<1>4. [p \in Peers |-> bk[b][p] + vol[p]] \in [Peers -> Nat]
  BY <1>3
<1> QED
  BY <1>2, <1>4 DEF Rings, History, PutSlot, AddTo

LEMMA SlotForTyped ==
    ASSUME TypeOK, NEW b \in Periods
    PROVE  /\ SlotFor(b) \in Slot
           /\ SlotFor(b).bid = b
           /\ b \in Nat /\ IdxFor(b) \in Slots
<1>1. b \in Nat
  BY Facts DEF Periods
<1>2. IdxFor(b) \in Slots
  BY <1>1, SlotRange
<1>3. ring[IdxFor(b)] \in Slot
  BY <1>2 DEF TypeOK
<1> QED
  BY <1>1, <1>2, <1>3, NobodyTyped DEF SlotFor, Slot

(* Booking a sample, in the terms of the proofs.                           *)
Books(s) ==
    LET b == Bid(sample[s].at)
        vol == Volume(sample[s])
    IN  /\ ring' = PutSlot(ring, b, SlotFor(b), vol)
        /\ booked' = AddTo(booked, b, vol)
        /\ hasDelta' = TRUE

LEMMA BookCases ==
    ASSUME Typed, NEW s \in Samplers, Book(s)
    PROVE  /\ sample[s].pc = "book"
           /\ sample[s].at \in 1 .. MaxNow
           /\ sample[s].peers \in Counters
           /\ Bid(sample[s].at) \in Periods
           /\ prev' = [at |-> sample[s].at, peers |-> sample[s].peers]
           /\ sample' = [sample EXCEPT ![s] = After(s)]
           /\ overlapped' = [overlapped EXCEPT !.sample = @ \/ sample[s].met]
           /\ UNCHANGED <<now, kernel, sent, disk, saving>>
           /\ \/ prev # None /\ sample[s].at > prev.at /\ Books(s)
              \/ UNCHANGED <<ring, booked, hasDelta>>
<1>1. sample[s].pc = "book"
  BY DEF Book
<1>2. sample[s].at \in 1 .. MaxNow /\ sample[s].peers \in Counters
  BY <1>1 DEF Typed, SampleTyped
<1>3. Bid(sample[s].at) \in Periods
  <2>1. PICK t \in 1 .. MaxNow : t = sample[s].at
    BY <1>2
  <2> QED
    BY <2>1, BidRange, Facts
<1>4. SlotFor(Bid(sample[s].at)).bid = Bid(sample[s].at)
  BY <1>3, SlotForTyped DEF Typed
<1>5. CASE prev # None /\ sample[s].at > prev.at
  <2> DEFINE b == Bid(sample[s].at)
             vol == Volume(sample[s])
  <2>1. /\ ring' = [ring EXCEPT ![IdxFor(SlotFor(b).bid)] =
                      [SlotFor(b) EXCEPT !.vol = [p \in Peers |-> @[p] + vol[p]]]]
        /\ booked' = [booked EXCEPT ![SlotFor(b).bid] = [p \in Peers |-> @[p] + vol[p]]]
        /\ hasDelta' = TRUE
    BY <1>5 DEF Book
  <2>2. SlotFor(b) \in Slot /\ SlotFor(b).bid = b
    BY <1>3, <1>4, SlotForTyped DEF Typed
  <2>3. [SlotFor(b) EXCEPT !.vol = [p \in Peers |-> @[p] + vol[p]]] =
          [bid |-> SlotFor(b).bid, vol |-> [p \in Peers |-> SlotFor(b).vol[p] + vol[p]]]
    BY <2>2 DEF Slot
  <2>4. ring' = PutSlot(ring, b, SlotFor(b), vol)
    BY <2>1, <2>2, <2>3 DEF PutSlot
  <2>5. booked' = AddTo(booked, b, vol)
    BY <2>1, <2>2 DEF AddTo
  <2>6. Books(s)
    BY <2>1, <2>4, <2>5 DEF Books
  <2> QED
    BY <1>1, <1>2, <1>3, <1>5, <2>6 DEF Book, Previous
<1>6. CASE ~(prev # None /\ sample[s].at > prev.at)
  BY <1>1, <1>2, <1>3, <1>6 DEF Book, Previous
<1> QED
  BY <1>5, <1>6

LEMMA BooksTyped ==
    ASSUME Typed, NEW s \in Samplers, Book(s)
    PROVE  ring' \in Rings /\ booked' \in History /\ hasDelta' \in BOOLEAN
<1>1. PICK b \in Periods : b = Bid(sample[s].at)
  BY BookCases
<1>2. SlotFor(b) \in Slot
  BY SlotForTyped DEF Typed
<1>3. ring \in Rings /\ booked \in History /\ hasDelta \in BOOLEAN
  BY Fields
<1>4. CASE prev # None /\ sample[s].at > prev.at /\ Books(s)
  <2>1. Volume(sample[s]) \in [Peers -> Nat]
    BY <1>4, BookCases, VolumeTyped
  <2>2. PICK vol \in [Peers -> Nat] : vol = Volume(sample[s])
    BY <2>1
  <2>3. PICK slot \in Slot : slot = SlotFor(b)
    BY <1>2
  <2>4. ring' = PutSlot(ring, b, slot, vol) /\ booked' = AddTo(booked, b, vol)
    BY <1>1, <1>4, <2>2, <2>3 DEF Books
  <2>5. ring' \in Rings /\ booked' \in History
    BY <1>3, <2>4, BookedTyped
  <2> QED
    BY <1>4, <2>5 DEF Books
<1>5. CASE UNCHANGED <<ring, booked, hasDelta>>
  BY <1>3, <1>5
<1> QED
  BY <1>4, <1>5, BookCases

(* The steps keep the shapes.                                              *)
LEMMA SamplesTyped ==
    ASSUME Typed, NEW s \in Samplers,
           WarmUp(s) \/ Stamp(s) \/ ReadTotalsFromKernel(s) \/ Book(s)
    PROVE  sample' \in [Samplers -> Sample] /\ SampleTyped'
<1>1. /\ sample \in [Samplers -> Sample] /\ SampleTyped
      /\ now \in 1 .. MaxNow /\ kernel \in Counters
  BY Fields
<1>2. ASSUME NEW r \in Sample, sample' = [sample EXCEPT ![s] = r],
             r.pc \in {"read", "book"} => r.at \in 1 .. MaxNow,
             r.pc = "book" => r.peers \in Counters
      PROVE  sample' \in [Samplers -> Sample] /\ SampleTyped'
  BY <1>1, <1>2 DEF SampleTyped
<1>3. sample[s] \in Sample
  BY <1>1
<1>4. After(s) \in Sample /\ After(s).pc \in {"idle", "stamp"}
  BY AfterTyped DEF Typed
<1>5. PICK r0 \in Sample : r0 = After(s)
  BY <1>4
<1>6. CASE sample' = [sample EXCEPT ![s] = After(s)]
  BY <1>2, <1>4, <1>5, <1>6
<1>7. CASE WarmUp(s)
  <2>1. PICK r : r = [Idle EXCEPT !.pc = "read", !.left = 2, !.at = now]
    OBVIOUS
  <2>2. r \in Sample /\ r.pc = "read" /\ r.at \in 1 .. MaxNow
    <3>1. r = [pc |-> "read", left |-> 2, at |-> now, peers |-> None, met |-> FALSE]
      BY <2>1 DEF Idle
    <3>2. now \in 0 .. MaxNow
      BY <1>1, Facts
    <3> QED
      BY <3>1, <3>2, <1>1 DEF Sample
  <2>3. sample' = [sample EXCEPT ![s] = r]
    BY <1>7, <2>1 DEF WarmUp
  <2> QED
    BY <1>2, <2>2, <2>3
<1>8. CASE Stamp(s)
  <2>1. PICK r : r = [sample[s] EXCEPT !.pc = "read", !.at = now]
    OBVIOUS
  <2>2. r \in Sample /\ r.pc = "read" /\ r.at \in 1 .. MaxNow
    <3>1. now \in 0 .. MaxNow
      BY <1>1, Facts
    <3>2. r.pc = "read" /\ r.at = now
      BY <2>1, <1>3 DEF Sample
    <3> QED
      BY <2>1, <3>1, <3>2, <1>1, <1>3 DEF Sample
  <2>3. sample' = [sample EXCEPT ![s] = r]
    BY <1>8, <2>1, <1>1, <1>3 DEF Stamp, Sample
  <2> QED
    BY <1>2, <2>2, <2>3
<1>9. CASE /\ sample[s].pc = "read"
           /\ sample' = [r \in Samplers |->
                IF r = s THEN [sample[s] EXCEPT !.pc = "book", !.peers = kernel, !.met = FALSE]
                ELSE [sample[r] EXCEPT !.met = @ \/ sample[r].pc = "book"]]
  <2>1. ASSUME NEW r \in Samplers
        PROVE  /\ sample'[r] \in Sample
               /\ sample'[r].pc \in {"read", "book"} => sample'[r].at \in 1 .. MaxNow
               /\ sample'[r].pc = "book" => sample'[r].peers \in Counters
    <3>1. CASE r = s
      <4>1. sample'[r] = [sample[s] EXCEPT !.pc = "book", !.peers = kernel, !.met = FALSE]
        BY <1>9, <3>1
      <4>2. sample[s].at \in 1 .. MaxNow
        BY <1>1, <1>9 DEF SampleTyped
      <4> QED
        BY <4>1, <4>2, <1>1, <1>3 DEF Sample
    <3>2. CASE r # s
      <4>1. PICK m : m = (sample[r].met \/ sample[r].pc = "book")
        OBVIOUS
      <4>2. m \in BOOLEAN
        BY <4>1
      <4>3. sample'[r] = [sample[r] EXCEPT !.met = m]
        BY <1>9, <3>2, <4>1
      <4>4. sample[r] \in Sample
        BY <1>1
      <4> QED
        BY <4>2, <4>3, <4>4, <1>1 DEF Sample, SampleTyped
    <3> QED
      BY <3>1, <3>2
  <2>2. sample' = [r \in Samplers |-> sample'[r]]
    BY <1>9
  <2> QED
    BY <2>1, <2>2 DEF SampleTyped
<1> QED
  BY <1>6, <1>7, <1>8, <1>9 DEF ReadTotalsFromKernel, Book

LEMMA SaversTyped ==
    ASSUME Typed, NEW s \in Savers, TakeSnapshot(s) \/ SaveTrafficCacheSnapshot(s)
    PROVE  /\ disk' \in {None} \cup Snapshots
           /\ saving' \in [Savers -> {None} \cup Save]
           /\ overlapped' \in [sample: BOOLEAN, save: BOOLEAN]
<1>1. /\ saving \in [Savers -> {None} \cup Save]
      /\ disk \in {None} \cup Snapshots
      /\ ring \in Rings /\ booked \in History
      /\ overlapped \in [sample: BOOLEAN, save: BOOLEAN]
      /\ hasDelta \in BOOLEAN
  BY Fields
<1>2. CASE TakeSnapshot(s)
  <2>1. Snapshot \in Snapshots
    BY <1>1, <1>2 DEF TakeSnapshot, Snapshot, Snapshots
  <2>2. [snap |-> Snapshot, met |-> FALSE] \in Save
    BY <2>1 DEF Save
  <2>3. ASSUME NEW r \in Savers, saving[r] # None
        PROVE  [saving[r] EXCEPT !.met = TRUE] \in Save
    BY <1>1, <2>3 DEF Save
  <2> QED
    BY <1>1, <1>2, <2>2, <2>3 DEF TakeSnapshot
<1>3. CASE SaveTrafficCacheSnapshot(s)
  <2>1. saving[s] \in Save
    BY <1>1, <1>3 DEF SaveTrafficCacheSnapshot
  <2>2. PICK m : m = (overlapped.save \/ saving[s].met)
    OBVIOUS
  <2>3. m \in BOOLEAN /\ overlapped' = [overlapped EXCEPT !.save = m]
    BY <1>3, <2>2 DEF SaveTrafficCacheSnapshot
  <2>4. overlapped' \in [sample: BOOLEAN, save: BOOLEAN]
    BY <1>1, <2>3
  <2> QED
    BY <1>1, <1>3, <2>1, <2>4 DEF SaveTrafficCacheSnapshot, Save
<1> QED
  BY <1>2, <1>3

(* TypeOK holds in every reachable state, with the times and the counters  *)
(* of the samples: the volumes that getPeerDiff adds are never negative,   *)
(* and the period of a sample is one the history has.                      *)
LEMMA TypedStep == Typed /\ [Next]_vars => Typed'
<1> SUFFICES ASSUME Typed, [Next]_vars PROVE Typed'
  OBVIOUS
<1>1. /\ now \in 1 .. MaxNow
      /\ kernel \in Counters
      /\ sent \in [Peers -> 0 .. MaxBytes]
      /\ ring \in Rings
      /\ prev \in {None} \cup [at: 1 .. MaxNow, peers: Counters]
      /\ hasDelta \in BOOLEAN
      /\ sample \in [Samplers -> Sample]
      /\ disk \in {None} \cup Snapshots
      /\ saving \in [Savers -> {None} \cup Save]
      /\ booked \in History
      /\ overlapped \in [sample: BOOLEAN, save: BOOLEAN]
      /\ SampleTyped
  BY Fields
<1>2. CASE Tick
  <2>1. now' \in 1 .. MaxNow
    BY <1>1, <1>2, Facts DEF Tick
  <2>2. UNCHANGED <<kernel, sent, ring, prev, hasDelta, sample, disk, saving, booked, overlapped>>
    BY <1>2 DEF Tick
  <2>3. SampleTyped'
    BY <1>1, <2>2 DEF SampleTyped
  <2> QED
    BY <1>1, <2>1, <2>2, <2>3, TypedFrom
<1>3. ASSUME NEW p \in Peers, Transfer(p) PROVE Typed'
  <2>1. kernel' \in Counters /\ sent' \in [Peers -> 0 .. MaxBytes]
    <3>1. kernel[p] \in Nat /\ sent[p] \in 0 .. MaxBytes /\ sent[p] < MaxBytes
      BY <1>1, <1>3 DEF Transfer, Counters
    <3>2. kernel[p] + 1 \in Nat /\ sent[p] + 1 \in 0 .. MaxBytes
      BY <3>1, Facts
    <3> QED
      BY <1>1, <1>3, <3>2 DEF Transfer, Counters
  <2>2. UNCHANGED <<now, ring, prev, hasDelta, sample, disk, saving, booked, overlapped>>
    BY <1>3 DEF Transfer
  <2>3. SampleTyped'
    BY <1>1, <2>2 DEF SampleTyped
  <2> QED
    BY <1>1, <2>1, <2>2, <2>3, TypedFrom
<1>4. ASSUME NEW p \in Peers, ResetCounter(p) PROVE Typed'
  <2>1. kernel' \in Counters
    BY <1>1, <1>4 DEF ResetCounter, Counters
  <2>2. UNCHANGED <<now, sent, ring, prev, hasDelta, sample, disk, saving, booked, overlapped>>
    BY <1>4 DEF ResetCounter
  <2>3. SampleTyped'
    BY <1>1, <2>2 DEF SampleTyped
  <2> QED
    BY <1>1, <2>1, <2>2, <2>3, TypedFrom
<1>5. ASSUME NEW s \in Samplers, WarmUp(s) \/ Stamp(s) \/ ReadTotalsFromKernel(s)
      PROVE  Typed'
  <2>1. UNCHANGED <<now, kernel, sent, ring, prev, hasDelta, disk, saving, booked, overlapped>>
    BY <1>5 DEF WarmUp, Stamp, ReadTotalsFromKernel
  <2>2. sample' \in [Samplers -> Sample] /\ SampleTyped'
    BY <1>5, SamplesTyped
  <2> QED
    BY <1>1, <2>1, <2>2, TypedFrom
<1>6. ASSUME NEW s \in Samplers, Book(s) PROVE Typed'
  <2>1. sample' \in [Samplers -> Sample] /\ SampleTyped'
    BY <1>6, SamplesTyped
  <2>2. ring' \in Rings /\ booked' \in History /\ hasDelta' \in BOOLEAN
    BY <1>6, BooksTyped
  <2>3. prev' \in [at: 1 .. MaxNow, peers: Counters]
    BY <1>6, BookCases
  <2>4. overlapped' \in [sample: BOOLEAN, save: BOOLEAN]
    <3>1. PICK m : m = (overlapped.sample \/ sample[s].met)
      OBVIOUS
    <3>2. m \in BOOLEAN /\ overlapped' = [overlapped EXCEPT !.sample = m]
      BY <1>6, <3>1 DEF Book
    <3> QED
      BY <1>1, <3>2
  <2>5. UNCHANGED <<now, kernel, sent, disk, saving>>
    BY <1>6 DEF Book
  <2> QED
    BY <1>1, <2>1, <2>2, <2>3, <2>4, <2>5, TypedFrom
<1>7. ASSUME NEW s \in Savers, TakeSnapshot(s) \/ SaveTrafficCacheSnapshot(s)
      PROVE  Typed'
  <2>1. UNCHANGED <<now, kernel, sent, ring, prev, hasDelta, sample, booked>>
    BY <1>7 DEF TakeSnapshot, SaveTrafficCacheSnapshot
  <2>2. /\ disk' \in {None} \cup Snapshots
        /\ saving' \in [Savers -> {None} \cup Save]
        /\ overlapped' \in [sample: BOOLEAN, save: BOOLEAN]
    BY <1>7, SaversTyped
  <2>3. SampleTyped'
    BY <1>1, <2>1 DEF SampleTyped
  <2> QED
    BY <1>1, <2>1, <2>2, <2>3, TypedFrom
<1>8. CASE Restart
  <2>1. ring' \in Rings /\ booked' \in History /\ hasDelta' \in BOOLEAN
    BY <1>1, <1>8, EmptyTyped DEF Restart, ApplySnapshot, Snapshots
  <2>2. /\ UNCHANGED <<now, kernel, sent, disk, overlapped>>
        /\ prev' = None
        /\ sample' = [s \in Samplers |-> Idle]
        /\ saving' = [s \in Savers |-> None]
    BY <1>8 DEF Restart
  <2>3. sample' \in [Samplers -> Sample] /\ SampleTyped'
    BY <2>2, IdleTyped DEF SampleTyped
  <2>4. saving' \in [Savers -> {None} \cup Save]
    BY <2>2
  <2> QED
    BY <1>1, <2>1, <2>2, <2>3, <2>4, TypedFrom
<1>9. CASE UNCHANGED vars
  BY <1>1, <1>9, TypedFrom DEF vars, SampleTyped
<1> QED
  BY <1>2, <1>3, <1>4, <1>5, <1>6, <1>7, <1>8, <1>9 DEF Next

THEOREM TypeCorrect == Spec => []TypeOK
<1>1. Typed => TypeOK
  BY DEF Typed
<1> QED
  BY <1>1, InitTyped, TypedStep, PTL DEF Spec

-----------------------------------------------------------------------------
(* The ring and the clock.                                                 *)

(* The slot that a ring offers for a period.                               *)
Offered(r, b) ==
    IF r[IdxFor(b)].bid = b THEN r[IdxFor(b)] ELSE [bid |-> b, vol |-> Nobody]

LEMMA OfferedTyped ==
    ASSUME NEW r \in Rings, NEW b \in Periods
    PROVE  /\ Offered(r, b) \in Slot
           /\ Offered(r, b).bid = b
           /\ b \in Nat /\ IdxFor(b) \in Slots
           /\ r[IdxFor(b)] \in Slot
<1>1. b \in Nat
  BY Facts DEF Periods
<1>2. IdxFor(b) \in Slots
  BY <1>1, SlotRange
<1>3. r[IdxFor(b)] \in Slot
  BY <1>2 DEF Rings
<1> QED
  BY <1>1, <1>2, <1>3, NobodyTyped DEF Offered, Slot

(* Time only makes room.                                                   *)
LEMMA FollowsLater ==
    ASSUME NEW r \in Rings, NEW bk \in History, NEW c \in Nat, NEW d \in Nat,
           c <= d, Follows(r, bk, c)
    PROVE  Follows(r, bk, d)
<1>1. ASSUME NEW i \in Slots
      PROVE  r[i].bid <= d
  <2>1. r[i].bid \in Nat
    BY DEF Rings, Slot
  <2> QED
    BY <2>1 DEF Follows
<1>2. ASSUME NEW b \in Periods, c >= b + MaxBaseBuckets
      PROVE  d >= b + MaxBaseBuckets
  BY <1>2, Facts DEF Periods
<1> QED
  BY <1>1, <1>2 DEF Follows

(* A period of the window either has its slot or finds an older one there. *)
LEMMA OlderInSlot ==
    ASSUME NEW r \in Rings, NEW bk \in History, NEW c \in Nat, NEW b \in Periods,
           b <= c, c < b + MaxBaseBuckets, Follows(r, bk, c),
           r[IdxFor(b)].bid # b
    PROVE  r[IdxFor(b)].bid < b
<1>1. PICK i \in Slots : i = IdxFor(b)
  BY OfferedTyped
<1>2. PICK d \in Nat : d = r[i].bid
  BY DEF Rings, Slot
<1>3. b \in Nat
  BY OfferedTyped
<1>4. d <= c /\ (IdxFor(d) = IdxFor(b) \/ d = 0)
  BY <1>1, <1>2 DEF Follows
<1>5. CASE d = 0
  BY <1>1, <1>2, <1>3, <1>5
<1>6. CASE IdxFor(d) = IdxFor(b)
  <2>1. d % MaxBaseBuckets = b % MaxBaseBuckets
    BY <1>6 DEF IdxFor
  <2>2. CASE b <= d
    <3>1. d < b + MaxBaseBuckets
      BY <1>3, <1>4, Facts
    <3>2. b = d
      BY <2>1, <2>2, <3>1, <1>3, Facts, SlotIsOwn
    <3> QED
      BY <1>1, <1>2, <3>2
  <2> QED
    BY <2>2, <1>1, <1>2, <1>3
<1> QED
  BY <1>4, <1>5, <1>6

(* A volume that is booked within the window goes where it belongs, and no *)
(* period of the window is displaced.                                      *)
LEMMA FollowsBooked ==
    ASSUME NEW r \in Rings, NEW bk \in History, NEW c \in Nat, NEW b \in Periods,
           NEW vol \in [Peers -> Nat],
           b <= c, c < b + MaxBaseBuckets, Follows(r, bk, c)
    PROVE  Follows(PutSlot(r, b, Offered(r, b), vol), AddTo(bk, b, vol), c)
<1> DEFINE slot == Offered(r, b)
           q == PutSlot(r, b, slot, vol)
           hk == AddTo(bk, b, vol)
<1>1. /\ slot \in Slot /\ slot.bid = b
      /\ b \in Nat /\ IdxFor(b) \in Slots /\ r[IdxFor(b)] \in Slot
  BY OfferedTyped
<1>2. q[IdxFor(b)] = [bid |-> b, vol |-> [p \in Peers |-> slot.vol[p] + vol[p]]]
  BY <1>1 DEF PutSlot, Rings
<1>3. \A i \in Slots \ {IdxFor(b)} : q[i] = r[i]
  BY DEF PutSlot, Rings
<1>4. hk[b] = [p \in Peers |-> bk[b][p] + vol[p]]
  BY DEF AddTo, History
<1>5. \A d \in Periods \ {b} : hk[d] = bk[d]
  BY DEF AddTo, History
<1>6. bk[b] = slot.vol
  <2>1. CASE r[IdxFor(b)].bid = b
    BY <2>1 DEF Offered, Follows
  <2>2. CASE r[IdxFor(b)].bid # b
    <3>1. ~(c >= b + MaxBaseBuckets)
      BY <1>1, Facts
    <3>2. bk[b] = Nobody
      BY <2>2, <3>1 DEF Follows
    <3> QED
      BY <2>2, <3>2 DEF Offered
  <2> QED
    BY <2>1, <2>2
<1> HIDE DEF slot, q, hk
<1>7. ASSUME NEW i \in Slots
      PROVE  q[i].bid <= c /\ (IdxFor(q[i].bid) = i \/ q[i].bid = 0)
  <2>1. CASE i = IdxFor(b)
    BY <1>2, <2>1
  <2>2. CASE i # IdxFor(b)
    BY <1>3, <2>2 DEF Follows
  <2> QED
    BY <2>1, <2>2
<1>8. ASSUME NEW d \in Periods, q[IdxFor(d)].bid = d
      PROVE  q[IdxFor(d)].vol = hk[d]
  <2>1. CASE IdxFor(d) = IdxFor(b)
    <3>1. d = b
      BY <1>2, <1>8, <2>1
    <3> QED
      BY <1>2, <1>4, <1>6, <3>1
  <2>2. CASE IdxFor(d) # IdxFor(b)
    <3>1. IdxFor(d) \in Slots /\ d # b
      BY <2>2, OfferedTyped
    <3> QED
      BY <1>3, <1>5, <1>8, <2>2, <3>1 DEF Follows
  <2> QED
    BY <2>1, <2>2
<1>9. ASSUME NEW d \in Periods
      PROVE  hk[d] = Nobody \/ q[IdxFor(d)].bid = d \/ c >= d + MaxBaseBuckets
  <2>1. CASE IdxFor(d) # IdxFor(b)
    <3>1. IdxFor(d) \in Slots /\ d # b
      BY <2>1, OfferedTyped
    <3> QED
      BY <1>3, <1>5, <2>1, <3>1 DEF Follows
  <2>2. CASE d = b
    BY <1>2, <2>2
  <2>3. CASE IdxFor(d) = IdxFor(b) /\ d # b
    <3>1. hk[d] = bk[d]
      BY <1>5, <2>3
    <3>2. CASE r[IdxFor(d)].bid = d
      <4>1. d < b
        BY <2>3, <3>2, OlderInSlot
      <4>2. d \in Nat
        BY OfferedTyped
      <4>3. d % MaxBaseBuckets = b % MaxBaseBuckets
        BY <2>3 DEF IdxFor
      <4>4. ~(b < d + MaxBaseBuckets)
        <5>1. d <= b
          BY <4>1, <4>2, <1>1
        <5> QED
          BY <2>3, <4>2, <4>3, <5>1, <1>1, Facts, SlotIsOwn
      <4> QED
        BY <4>2, <4>4, <1>1, Facts
    <3>3. CASE r[IdxFor(d)].bid # d
      BY <3>1, <3>3 DEF Follows
    <3> QED
      BY <3>2, <3>3
  <2> QED
    BY <2>1, <2>2, <2>3
<1>10. Follows(q, hk, c)
  BY <1>7, <1>8, <1>9 DEF Follows
<1> QED
  BY <1>10 DEF slot, q, hk

LEMMA FollowsEmpty ==
    ASSUME NEW c \in Nat
    PROVE  Follows(EmptyRing, NoHistory, c)
<1>1. \A i \in Slots : EmptyRing[i].bid = 0 /\ EmptyRing[i].vol = Nobody
  BY DEF EmptyRing
<1>2. \A b \in Periods : NoHistory[b] = Nobody /\ IdxFor(b) \in Slots
  BY EmptyTyped, OfferedTyped DEF NoHistory
<1> QED
  BY <1>1, <1>2 DEF Follows

LEMMA InitInWindow == Init => InWindow
<1> SUFFICES ASSUME Init PROVE InWindow
  OBVIOUS
<1>1. Bid(now) \in Nat
  BY Facts, BidRange DEF Init, Periods
<1>2. SampleInWindow
  BY IdleTyped DEF Init, SampleInWindow
<1> QED
  BY <1>1, <1>2, FollowsEmpty DEF Init, InWindow

(* Times that the samplers are given are the clock's.                      *)
LEMMA SamplesInWindow ==
    ASSUME Typed, SampleInWindow, NEW s \in Samplers,
           WarmUp(s) \/ Stamp(s) \/ ReadTotalsFromKernel(s) \/ Book(s)
    PROVE  SampleInWindow'
<1>1. /\ sample \in [Samplers -> Sample] /\ now \in 1 .. MaxNow /\ now' = now
  BY Fields DEF WarmUp, Stamp, ReadTotalsFromKernel, Book
<1>2. Bid(now) \in Nat /\ now <= now /\ Bid(now) < Bid(now) + MaxBaseBuckets
  BY <1>1, BidRange, Facts DEF Periods
<1>3. sample[s] \in Sample
  BY <1>1
<1>4. After(s).pc \in {"idle", "stamp"}
  BY AfterTyped DEF Typed
<1>5. ASSUME NEW r, sample' = [sample EXCEPT ![s] = r],
             r.pc \in {"read", "book"} => r.at = now
      PROVE  SampleInWindow'
  BY <1>1, <1>2, <1>5 DEF SampleInWindow
<1>6. CASE sample' = [sample EXCEPT ![s] = After(s)]
  <2>1. PICK r : r = After(s)
    OBVIOUS
  <2> QED
    BY <1>4, <1>5, <1>6, <2>1
<1>7. CASE WarmUp(s)
  <2>1. PICK r : r = [Idle EXCEPT !.pc = "read", !.left = 2, !.at = now]
    OBVIOUS
  <2>2. r.at = now
    BY <2>1 DEF Idle
  <2> QED
    BY <1>5, <1>7, <2>1, <2>2 DEF WarmUp
<1>8. CASE Stamp(s)
  <2>1. PICK r : r = [sample[s] EXCEPT !.pc = "read", !.at = now]
    OBVIOUS
  <2>2. r.at = now
    BY <2>1, <1>3 DEF Sample
  <2>3. sample' = [sample EXCEPT ![s] = r]
    BY <1>8, <2>1, <1>1, <1>3 DEF Stamp, Sample
  <2> QED
    BY <1>5, <2>2, <2>3
<1>9. CASE /\ sample[s].pc = "read"
           /\ sample' = [r \in Samplers |->
                IF r = s THEN [sample[s] EXCEPT !.pc = "book", !.peers = kernel, !.met = FALSE]
                ELSE [sample[r] EXCEPT !.met = @ \/ sample[r].pc = "book"]]
  <2>1. ASSUME NEW r \in Samplers
        PROVE  /\ sample'[r].at = sample[r].at
               /\ sample'[r].pc \in {"read", "book"} => sample[r].pc \in {"read", "book"}
    <3>1. CASE r = s
      BY <1>3, <1>9, <3>1 DEF Sample
    <3>2. CASE r # s
      <4>1. sample'[r] = [sample[r] EXCEPT !.met = @ \/ sample[r].pc = "book"]
        BY <1>9, <3>2
      <4>2. sample[r] \in Sample
        BY <1>1
      <4> QED
        BY <4>1, <4>2 DEF Sample
    <3> QED
      BY <3>1, <3>2
  <2> QED
    BY <1>1, <2>1 DEF SampleInWindow
<1> QED
  BY <1>6, <1>7, <1>8, <1>9 DEF ReadTotalsFromKernel, Book

(* Booking leaves the ring in step with the clock.                         *)
LEMMA BookInWindow ==
    ASSUME Typed, InWindow, NEW s \in Samplers, Book(s)
    PROVE  Follows(ring', booked', Bid(now))
<1>1. PICK r \in Rings : r = ring
  BY Fields
<1>2. PICK bk \in History : bk = booked
  BY Fields
<1>3. PICK c \in Nat : c = Bid(now)
  BY Fields, BidRange, Facts DEF Periods
<1>4. PICK b \in Periods : b = Bid(sample[s].at)
  BY BookCases
<1>5. Follows(r, bk, c)
  BY <1>1, <1>2, <1>3 DEF InWindow
<1>6. CASE prev # None /\ sample[s].at > prev.at /\ Books(s)
  <2>1. PICK vol \in [Peers -> Nat] : vol = Volume(sample[s])
    BY <1>6, BookCases, VolumeTyped
  <2>2. SlotFor(b) = Offered(r, b)
    BY <1>1 DEF SlotFor, Offered
  <2>3. /\ ring' = PutSlot(r, b, Offered(r, b), vol)
        /\ booked' = AddTo(bk, b, vol)
    BY <1>1, <1>2, <1>4, <1>6, <2>1, <2>2 DEF Books
  <2>4. sample[s].at <= now /\ c < b + MaxBaseBuckets
    BY <1>3, <1>4, BookCases DEF InWindow, SampleInWindow
  <2>5. b <= c
    <3>1. PICK t \in Nat : t = sample[s].at
      BY BookCases
    <3>2. PICK n \in Nat : n = now
      BY Fields
    <3>3. t <= n
      BY <2>4, <3>1, <3>2
    <3> QED
      BY <1>3, <1>4, <3>1, <3>2, <3>3, Facts, QuotientsGrow DEF Bid
  <2> QED
    BY <1>3, <1>5, <2>3, <2>4, <2>5, FollowsBooked
<1>7. CASE UNCHANGED <<ring, booked, hasDelta>>
  BY <1>1, <1>2, <1>3, <1>5, <1>7
<1> QED
  BY <1>6, <1>7, BookCases

LEMMA InWindowStep == Typed /\ InWindow /\ [Next]_vars => InWindow'
<1> SUFFICES ASSUME Typed, InWindow, [Next]_vars PROVE InWindow'
  OBVIOUS
<1>1. /\ now \in 1 .. MaxNow
      /\ ring \in Rings /\ booked \in History
      /\ disk \in {None} \cup Snapshots
      /\ saving \in [Savers -> {None} \cup Save]
  BY Fields
<1>2. PICK c \in Nat : c = Bid(now)
  BY <1>1, BidRange, Facts DEF Periods
<1>3. /\ SampleInWindow
      /\ Follows(ring, booked, c)
      /\ disk # None => Follows(disk.ring, disk.booked, c)
      /\ \A s \in Savers :
            saving[s] # None => Follows(saving[s].snap.ring, saving[s].snap.booked, c)
  BY <1>2 DEF InWindow
<1>4. CASE Tick
  <2>1. now' = now + 1 /\ now' \in 1 .. MaxNow
    BY <1>1, <1>4, Facts DEF Tick
  <2>2. PICK d \in Nat : d = Bid(now')
    BY <2>1, BidRange, Facts DEF Periods
  <2>3. c <= d
    <3>1. PICK n \in Nat : n = now
      BY <1>1
    <3> QED
      BY <1>2, <2>1, <2>2, <3>1, Facts, QuotientsGrow DEF Bid
  <2>4. SampleInWindow'
    <3>1. ASSUME NEW s \in Samplers, sample[s].pc \in {"read", "book"}
          PROVE  sample[s].at <= now' /\ Bid(now') < Bid(sample[s].at) + MaxBaseBuckets
      <4>1. sample[s].at <= now /\ sample[s].at \in 1 .. MaxNow
        BY <1>3, <3>1 DEF SampleInWindow, Typed, SampleTyped
      <4>2. Bid(now + 1) < Bid(sample[s].at) + MaxBaseBuckets
        BY <1>4, <3>1 DEF Tick
      <4> QED
        BY <1>1, <2>1, <4>1, <4>2
    <3> QED
      BY <1>4, <3>1 DEF Tick, SampleInWindow
  <2>5. Follows(ring, booked, d)
    BY <1>1, <1>3, <2>3, FollowsLater
  <2>6. disk # None => Follows(disk.ring, disk.booked, d)
    BY <1>1, <1>3, <2>3, FollowsLater DEF Snapshots
  <2>7. ASSUME NEW s \in Savers, saving[s] # None
        PROVE  Follows(saving[s].snap.ring, saving[s].snap.booked, d)
    <3>1. saving[s].snap \in Snapshots
      BY <1>1, <2>7 DEF Save
    <3> QED
      BY <1>3, <2>3, <2>7, <3>1, FollowsLater DEF Snapshots
  <2>8. UNCHANGED <<ring, booked, disk, saving>>
    BY <1>4 DEF Tick
  <2> QED
    BY <2>2, <2>4, <2>5, <2>6, <2>7, <2>8 DEF InWindow
<1>5. ASSUME NEW p \in Peers, Transfer(p) \/ ResetCounter(p) PROVE InWindow'
  <2>1. UNCHANGED <<now, ring, booked, disk, saving, sample>>
    BY <1>5 DEF Transfer, ResetCounter
  <2> QED
    BY <2>1 DEF InWindow, SampleInWindow
<1>6. ASSUME NEW s \in Samplers, WarmUp(s) \/ Stamp(s) \/ ReadTotalsFromKernel(s)
      PROVE  InWindow'
  <2>1. UNCHANGED <<now, ring, booked, disk, saving>>
    BY <1>6 DEF WarmUp, Stamp, ReadTotalsFromKernel
  <2>2. SampleInWindow'
    BY <1>3, <1>6, SamplesInWindow
  <2> QED
    BY <1>2, <1>3, <2>1, <2>2 DEF InWindow
<1>7. ASSUME NEW s \in Samplers, Book(s) PROVE InWindow'
  <2>1. UNCHANGED <<now, disk, saving>>
    BY <1>7 DEF Book
  <2>2. SampleInWindow'
    BY <1>3, <1>7, SamplesInWindow
  <2>3. Follows(ring', booked', Bid(now))
    BY <1>7, BookInWindow
  <2> QED
    BY <1>2, <1>3, <2>1, <2>2, <2>3 DEF InWindow
<1>8. ASSUME NEW s \in Savers, TakeSnapshot(s) PROVE InWindow'
  <2>1. UNCHANGED <<now, ring, booked, disk, sample>>
    BY <1>8 DEF TakeSnapshot
  <2>2. ASSUME NEW r \in Savers, saving'[r] # None
        PROVE  Follows(saving'[r].snap.ring, saving'[r].snap.booked, c)
    <3>1. CASE r = s
      <4>1. saving'[r] = [snap |-> Snapshot, met |-> FALSE]
        BY <1>8, <3>1 DEF TakeSnapshot
      <4> QED
        BY <1>3, <4>1 DEF Snapshot
    <3>2. CASE r # s
      <4>1. saving[r] # None /\ saving'[r] = [saving[r] EXCEPT !.met = TRUE]
        BY <1>8, <2>2, <3>2 DEF TakeSnapshot
      <4>2. saving[r] \in Save
        BY <1>1, <4>1
      <4> QED
        BY <1>3, <4>1, <4>2 DEF Save
    <3> QED
      BY <3>1, <3>2
  <2>3. SampleInWindow'
    BY <1>3, <2>1 DEF SampleInWindow
  <2> QED
    BY <1>2, <1>3, <2>1, <2>2, <2>3 DEF InWindow
<1>9. ASSUME NEW s \in Savers, SaveTrafficCacheSnapshot(s) PROVE InWindow'
  <2>1. /\ UNCHANGED <<now, ring, booked, sample>>
        /\ disk' = saving[s].snap
        /\ saving' = [saving EXCEPT ![s] = None]
        /\ saving[s] # None
    BY <1>9 DEF SaveTrafficCacheSnapshot
  <2>2. SampleInWindow'
    BY <1>3, <2>1 DEF SampleInWindow
  <2>3. \A r \in Savers : saving'[r] # None => saving'[r] = saving[r]
    BY <1>1, <2>1
  <2> QED
    BY <1>2, <1>3, <2>1, <2>2, <2>3 DEF InWindow
<1>10. CASE Restart
  <2>1. /\ UNCHANGED <<now, disk>>
        /\ sample' = [s \in Samplers |-> Idle]
        /\ saving' = [s \in Savers |-> None]
    BY <1>10 DEF Restart
  <2>2. SampleInWindow'
    BY <2>1, IdleTyped DEF SampleInWindow
  <2>3. Follows(ring', booked', c)
    BY <1>3, <1>10, FollowsEmpty DEF Restart, ApplySnapshot
  <2> QED
    BY <1>2, <1>3, <2>1, <2>2, <2>3 DEF InWindow
<1>11. CASE UNCHANGED vars
  BY <1>11 DEF InWindow, SampleInWindow, vars
<1> QED
  BY <1>4, <1>5, <1>6, <1>7, <1>8, <1>9, <1>10, <1>11 DEF Next

(* PageShowsBooked holds in every reachable state: buildSeries shows for   *)
(* each period of the window what was booked in it, over any number of     *)
(* turns of the ring, overlapping samples, saves and restarts.             *)
THEOREM PageIsRight == Spec => []PageShowsBooked
<1>1. Typed /\ InWindow => PageShowsBooked
  <2> SUFFICES ASSUME Typed, InWindow, NEW b \in Periods,
                      b <= Bid(now), Bid(now) < b + MaxBaseBuckets
               PROVE  BucketVolume(b) = booked[b]
    BY DEF PageShowsBooked
  <2>1. Bid(now) \in Nat /\ b \in Nat
    BY Fields, BidRange, OfferedTyped, Facts DEF Periods
  <2>2. ~(Bid(now) >= b + MaxBaseBuckets)
    BY <2>1, Facts
  <2> QED
    BY <2>2 DEF InWindow, Follows, BucketVolume
<1> QED
  BY <1>1, InitTyped, TypedStep, InitInWindow, InWindowStep, PTL DEF Spec

-----------------------------------------------------------------------------
(* The file, the snapshots and the ring.                                   *)

LEMMA NewerSelf ==
    ASSUME NEW r \in Rings
    PROVE  Newer(r, r)
<1>1. ASSUME NEW i \in Slots, NEW p \in Peers
      PROVE  r[i].vol[p] >= r[i].vol[p]
  <2>1. r[i].vol[p] \in Nat
    BY DEF Rings, Slot
  <2> QED
    BY <2>1
<1> QED
  BY <1>1 DEF Newer

LEMMA NewerThrough ==
    ASSUME NEW q \in Rings, NEW r \in Rings, NEW s \in Rings, Newer(s, r), Newer(r, q)
    PROVE  Newer(s, q)
<1>1. \A i \in Slots : s[i].bid \in Nat /\ r[i].bid \in Nat /\ q[i].bid \in Nat
  BY DEF Rings, Slot
<1>2. \A i \in Slots : s[i].bid >= r[i].bid /\ r[i].bid >= q[i].bid
  BY <1>1 DEF Newer
<1>3. ASSUME NEW i \in Slots, s[i].bid = r[i].bid, r[i].bid = q[i].bid, NEW p \in Peers
      PROVE  s[i].vol[p] >= q[i].vol[p]
  <2>1. s[i].vol[p] \in Nat /\ r[i].vol[p] \in Nat /\ q[i].vol[p] \in Nat
    BY DEF Rings, Slot
  <2>2. s[i].vol[p] >= r[i].vol[p] /\ r[i].vol[p] >= q[i].vol[p]
    BY <1>1, <1>3 DEF Newer
  <2> QED
    BY <2>1, <2>2
<1>4. ASSUME NEW i \in Slots
      PROVE  \/ s[i].bid > q[i].bid
             \/ s[i].bid = r[i].bid /\ r[i].bid = q[i].bid
  BY <1>1, <1>2
<1> QED
  BY <1>3, <1>4 DEF Newer

(* A sample booked within the window only adds to the ring.                *)
LEMMA NewerBooked ==
    ASSUME NEW r \in Rings, NEW bk \in History, NEW c \in Nat, NEW b \in Periods,
           NEW vol \in [Peers -> Nat],
           b <= c, c < b + MaxBaseBuckets, Follows(r, bk, c)
    PROVE  Newer(PutSlot(r, b, Offered(r, b), vol), r)
<1> DEFINE q == PutSlot(r, b, Offered(r, b), vol)
           k == IdxFor(b)
<1>1. /\ Offered(r, b) \in Slot /\ Offered(r, b).bid = b
      /\ b \in Nat /\ k \in Slots /\ r[k] \in Slot
  BY OfferedTyped
<1>2. /\ q[k].bid = b
      /\ q[k].vol = [p \in Peers |-> Offered(r, b).vol[p] + vol[p]]
  BY <1>1 DEF PutSlot, Rings
<1>3. \A i \in Slots \ {k} : q[i] = r[i]
  BY DEF PutSlot, Rings
<1> HIDE DEF q
<1>4. ASSUME NEW i \in Slots, i # k, NEW p \in Peers
      PROVE  q[i].bid = r[i].bid /\ q[i].vol[p] >= r[i].vol[p]
  <2>1. r[i].vol[p] \in Nat
    BY DEF Rings, Slot
  <2> QED
    BY <1>3, <1>4, <2>1
<1>5. CASE r[k].bid # b
  <2>1. r[k].bid < b /\ r[k].bid \in Nat
    BY <1>1, <1>5, OlderInSlot DEF Slot
  <2>2. q[k].bid > r[k].bid
    BY <1>1, <1>2, <2>1
  <2>3. \A i \in Slots : i # k => q[i] = r[i]
    BY <1>3
  <2> QED
    BY <1>4, <2>2, <2>3 DEF Newer, q
<1>6. CASE r[k].bid = b
  <2>1. Offered(r, b) = r[k]
    BY <1>6 DEF Offered
  <2>2. ASSUME NEW p \in Peers PROVE q[k].vol[p] >= r[k].vol[p]
    <3>1. r[k].vol[p] \in Nat /\ vol[p] \in Nat
      BY <1>1 DEF Slot
    <3>2. q[k].vol[p] = r[k].vol[p] + vol[p]
      BY <1>2, <2>1
    <3> QED
      BY <3>1, <3>2
  <2>3. \A i \in Slots : i # k => q[i] = r[i]
    BY <1>3
  <2> QED
    BY <1>2, <1>4, <1>6, <2>2, <2>3 DEF Newer, q
<1> QED
  BY <1>5, <1>6

(* Booking only adds to the ring.                                          *)
LEMMA BookNewer ==
    ASSUME Typed, InWindow, NEW s \in Samplers, Book(s)
    PROVE  Newer(ring', ring)
<1>1. PICK r \in Rings : r = ring
  BY Fields
<1>2. PICK bk \in History : bk = booked
  BY Fields
<1>3. PICK c \in Nat : c = Bid(now)
  BY Fields, BidRange, Facts DEF Periods
<1>4. PICK b \in Periods : b = Bid(sample[s].at)
  BY BookCases
<1>5. Follows(r, bk, c)
  BY <1>1, <1>2, <1>3 DEF InWindow
<1>6. CASE prev # None /\ sample[s].at > prev.at /\ Books(s)
  <2>1. PICK vol \in [Peers -> Nat] : vol = Volume(sample[s])
    BY <1>6, BookCases, VolumeTyped
  <2>2. SlotFor(b) = Offered(r, b)
    BY <1>1 DEF SlotFor, Offered
  <2>3. ring' = PutSlot(r, b, Offered(r, b), vol)
    BY <1>1, <1>4, <1>6, <2>1, <2>2 DEF Books
  <2>4. sample[s].at <= now /\ c < b + MaxBaseBuckets
    BY <1>3, <1>4, BookCases DEF InWindow, SampleInWindow
  <2>5. b <= c
    <3>1. PICK t \in Nat : t = sample[s].at
      BY BookCases
    <3>2. PICK n \in Nat : n = now
      BY Fields
    <3>3. t <= n
      BY <2>4, <3>1, <3>2
    <3> QED
      BY <1>3, <1>4, <3>1, <3>2, <3>3, Facts, QuotientsGrow DEF Bid
  <2> QED
    BY <1>1, <1>5, <2>3, <2>4, <2>5, NewerBooked
<1>7. CASE UNCHANGED <<ring, booked, hasDelta>>
  <2>1. Newer(r, r)
    BY NewerSelf
  <2> QED
    BY <1>1, <1>7, <2>1
<1> QED
  BY <1>6, <1>7, BookCases

LEMMA InitSavedBefore == Init => SavedBefore
BY DEF Init, SavedBefore, Latest

LEMMA SavedBeforeStep == Typed /\ InWindow /\ SavedBefore /\ [Next]_vars => SavedBefore'
<1> SUFFICES ASSUME Typed, InWindow, SavedBefore, [Next]_vars, ~overlapped'.save
             PROVE  /\ (disk # None => Newer(ring, disk.ring))'
                    /\ \A s \in Savers : (Latest(s) => Newer(ring, saving[s].snap.ring))'
                    /\ \A s \in Savers :
                          (Latest(s) /\ disk # None => Newer(saving[s].snap.ring, disk.ring))'
                    /\ \A r, s \in Savers : (Latest(r) /\ Latest(s) => r = s)'
  BY DEF SavedBefore
<1>1. /\ ring \in Rings
      /\ disk \in {None} \cup Snapshots
      /\ saving \in [Savers -> {None} \cup Save]
      /\ overlapped \in [sample: BOOLEAN, save: BOOLEAN]
  BY Fields
<1>2. ~overlapped.save
  <2>1. CASE overlapped'.save = overlapped.save
    BY <2>1
  <2>2. ASSUME NEW s \in Samplers, Book(s) PROVE ~overlapped.save
    BY <1>1, <2>2 DEF Book
  <2>3. ASSUME NEW s \in Savers, SaveTrafficCacheSnapshot(s) PROVE ~overlapped.save
    BY <1>1, <2>3 DEF SaveTrafficCacheSnapshot
  <2>4. CASE overlapped' = overlapped
    BY <2>4
  <2> QED
    BY <2>2, <2>3, <2>4
       DEF Next, vars, Tick, Transfer, ResetCounter, WarmUp, Stamp, ReadTotalsFromKernel,
           TakeSnapshot, Restart
<1>3. /\ disk # None => Newer(ring, disk.ring)
      /\ \A s \in Savers : Latest(s) => Newer(ring, saving[s].snap.ring)
      /\ \A s \in Savers : Latest(s) /\ disk # None => Newer(saving[s].snap.ring, disk.ring)
      /\ \A r, s \in Savers : Latest(r) /\ Latest(s) => r = s
  BY <1>2 DEF SavedBefore
<1>4. /\ disk # None => disk.ring \in Rings
      /\ \A s \in Savers : saving[s] # None => saving[s].snap.ring \in Rings
  BY <1>1 DEF Snapshots, Save
<1>5. CASE UNCHANGED <<ring, disk, saving>>
  BY <1>3, <1>5 DEF Latest
<1>6. ASSUME NEW s \in Samplers, Book(s)
      PROVE  /\ (disk # None => Newer(ring, disk.ring))'
             /\ \A r \in Savers : (Latest(r) => Newer(ring, saving[r].snap.ring))'
             /\ \A r \in Savers :
                   (Latest(r) /\ disk # None => Newer(saving[r].snap.ring, disk.ring))'
             /\ \A q, r \in Savers : (Latest(q) /\ Latest(r) => q = r)'
  <2>1. UNCHANGED <<disk, saving>>
    BY <1>6 DEF Book
  <2>2. Newer(ring', ring) /\ ring' \in Rings
    BY <1>6, BookNewer, BooksTyped
  <2>3. PICK r0 \in Rings, r1 \in Rings : r0 = ring /\ r1 = ring'
    BY <1>1, <2>2
  <2>4. \A q \in Rings : Newer(r0, q) => Newer(r1, q)
    BY <2>2, <2>3, NewerThrough
  <2> QED
    BY <1>3, <1>4, <2>1, <2>3, <2>4 DEF Latest
<1>7. ASSUME NEW s \in Savers, TakeSnapshot(s)
      PROVE  /\ (disk # None => Newer(ring, disk.ring))'
             /\ \A r \in Savers : (Latest(r) => Newer(ring, saving[r].snap.ring))'
             /\ \A r \in Savers :
                   (Latest(r) /\ disk # None => Newer(saving[r].snap.ring, disk.ring))'
             /\ \A q, r \in Savers : (Latest(q) /\ Latest(r) => q = r)'
  <2>1. UNCHANGED <<disk, ring>>
    BY <1>7 DEF TakeSnapshot
  <2>2. ASSUME NEW r \in Savers, Latest(r)' PROVE r = s
    <3>1. SUFFICES ASSUME r # s PROVE FALSE
      OBVIOUS
    <3>2. saving[r] # None /\ saving'[r] = [saving[r] EXCEPT !.met = TRUE]
      BY <1>7, <2>2, <3>1 DEF TakeSnapshot, Latest
    <3>3. saving[r] \in Save
      BY <1>1, <3>2
    <3> QED
      BY <2>2, <3>2, <3>3 DEF Latest, Save
  <2>3. saving'[s].snap.ring = ring
    BY <1>7 DEF TakeSnapshot, Snapshot
  <2>4. Newer(ring, ring)
    <3>1. PICK r0 \in Rings : r0 = ring
      BY <1>1
    <3> QED
      BY <3>1, NewerSelf
  <2> QED
    BY <1>3, <2>1, <2>2, <2>3, <2>4
<1>8. ASSUME NEW s \in Savers, SaveTrafficCacheSnapshot(s)
      PROVE  /\ (disk # None => Newer(ring, disk.ring))'
             /\ \A r \in Savers : (Latest(r) => Newer(ring, saving[r].snap.ring))'
             /\ \A r \in Savers :
                   (Latest(r) /\ disk # None => Newer(saving[r].snap.ring, disk.ring))'
             /\ \A q, r \in Savers : (Latest(q) /\ Latest(r) => q = r)'
  <2>1. /\ ring' = ring /\ disk' = saving[s].snap
        /\ saving' = [saving EXCEPT ![s] = None]
        /\ saving[s] # None
    BY <1>8 DEF SaveTrafficCacheSnapshot
  <2>2. Latest(s)
    <3>1. ~saving[s].met
      BY <1>1, <1>8 DEF SaveTrafficCacheSnapshot
    <3> QED
      BY <2>1, <3>1 DEF Latest
  <2>3. \A r \in Savers : ~Latest(r)'
    <3>1. ASSUME NEW r \in Savers, Latest(r)' PROVE FALSE
      <4>1. r # s /\ saving'[r] = saving[r]
        BY <1>1, <2>1, <3>1 DEF Latest
      <4>2. Latest(r)
        BY <3>1, <4>1 DEF Latest
      <4> QED
        BY <1>3, <2>2, <4>1, <4>2
    <3> QED
      BY <3>1
  <2> QED
    BY <1>3, <2>1, <2>2, <2>3
<1>9. CASE Restart
  <2>1. disk' = disk /\ saving' = [s \in Savers |-> None]
    BY <1>9 DEF Restart
  <2>2. \A s \in Savers : ~Latest(s)'
    BY <2>1 DEF Latest
  <2>3. ASSUME disk # None PROVE Newer(ring', disk.ring)
    <3>1. PICK r0 \in Rings : r0 = disk.ring
      BY <1>4, <2>3
    <3>2. ring' = r0
      BY <1>9, <2>3, <3>1 DEF Restart, ApplySnapshot
    <3> QED
      BY <3>1, <3>2, NewerSelf
  <2> QED
    BY <2>1, <2>2, <2>3
<1> QED
  BY <1>5, <1>6, <1>7, <1>8, <1>9
     DEF Next, vars, Tick, Transfer, ResetCounter, WarmUp, Stamp, ReadTotalsFromKernel

(* SavesMoveForward holds of every behaviour: what a save puts on disk is  *)
(* at least what it finds there, slot by slot, across restarts that load   *)
(* the file, unless FlushTrafficCacheSnapshot overlapped another save.     *)
THEOREM FileMovesForward == Spec => SavesMoveForward
<1> DEFINE Forward ==
        \A i \in Slots :
            \/ disk = None
            \/ overlapped'.save
            \/ disk'.ring[i].bid > disk.ring[i].bid
            \/ /\ disk'.ring[i].bid = disk.ring[i].bid
               /\ \A p \in Peers : disk'.ring[i].vol[p] >= disk.ring[i].vol[p]
<1>1. Typed /\ SavedBefore /\ [Next]_vars => [Forward]_disk
  <2> SUFFICES ASSUME Typed, SavedBefore, Next, disk' # disk, disk # None, ~overlapped'.save
               PROVE  Newer(disk'.ring, disk.ring)
    BY DEF Newer, vars
  <2>1. PICK s \in Savers : SaveTrafficCacheSnapshot(s)
    BY DEF Next, Tick, Transfer, ResetCounter, WarmUp, Stamp, ReadTotalsFromKernel, Book,
           TakeSnapshot, Restart
  <2>2. overlapped \in [sample: BOOLEAN, save: BOOLEAN]
    BY Fields
  <2>3. ~overlapped.save /\ Latest(s)
    BY <2>1, <2>2 DEF SaveTrafficCacheSnapshot, Latest
  <2> QED
    BY <2>1, <2>3 DEF SaveTrafficCacheSnapshot, SavedBefore
<1>2. Init => Typed /\ InWindow /\ SavedBefore
  BY InitTyped, InitInWindow, InitSavedBefore
<1>3. Typed /\ InWindow /\ SavedBefore /\ [Next]_vars => (Typed /\ InWindow /\ SavedBefore)'
  BY TypedStep, InWindowStep, SavedBeforeStep
<1>4. Spec => [][Forward]_disk
  BY <1>1, <1>2, <1>3, PTL DEF Spec
<1> QED
  BY <1>4 DEF SavesMoveForward

-----------------------------------------------------------------------------
(* What was booked, and what is to be.                                     *)

LEMMA GainNat ==
    ASSUME NEW f \in Counters, NEW t \in Counters, NEW p \in Peers
    PROVE  /\ Gain(f, t, p) \in Nat
           /\ Gain(f, f, p) = 0
           /\ t[p] \in {0, None} => Gain(f, t, p) = 0
<1>1. PICK a \in Nat \cup {None} : a = f[p]
  BY DEF Counters
<1>2. PICK b \in Nat \cup {None} : b = t[p]
  BY DEF Counters
<1>3. /\ Gain(f, t, p) = IF a = None \/ b = None THEN 0 ELSE IF b < a THEN 0 ELSE b - a
      /\ Gain(f, f, p) = IF a = None THEN 0 ELSE IF a < a THEN 0 ELSE a - a
  BY <1>1, <1>2 DEF Gain
<1>4. CASE a = None \/ b = None
  <2>1. CASE a = None
    BY <1>3, <2>1
  <2>2. CASE a # None
    <3>1. a \in Nat
      BY <2>2
    <3> QED
      BY <1>3, <1>4, <2>2, <3>1
  <2> QED
    BY <2>1, <2>2
<1>5. CASE a # None /\ b # None
  <2>1. a \in Nat /\ b \in Nat
    BY <1>5
  <2>2. CASE b = 0
    BY <1>2, <1>3, <1>5, <2>1, <2>2
  <2>3. CASE b # 0
    BY <1>2, <1>3, <1>5, <2>1, <2>3
  <2> QED
    BY <2>2, <2>3
<1> QED
  BY <1>4, <1>5

(* A byte transferred is at most a byte more to be booked.                 *)
LEMMA GainGrows ==
    ASSUME NEW f \in Counters, NEW t \in Counters, NEW u \in Counters, NEW p \in Peers,
           t[p] # None, u[p] = t[p] + 1
    PROVE  Gain(f, u, p) <= Gain(f, t, p) + 1
<1>1. PICK a \in Nat \cup {None} : a = f[p]
  BY DEF Counters
<1>2. PICK b \in Nat : b = t[p]
  BY DEF Counters
<1>3. CASE a = None \/ u[p] = None
  <2>1. Gain(f, u, p) = 0
    BY <1>1, <1>3 DEF Gain
  <2> QED
    BY <2>1, GainNat
<1>4. CASE a # None /\ u[p] # None
  <2>1. a \in Nat /\ u[p] = b + 1
    BY <1>2, <1>4
  <2>2. Gain(f, u, p) = IF b + 1 < a THEN 0 ELSE b + 1 - a
    BY <1>1, <1>4, <2>1 DEF Gain
  <2>3. Gain(f, t, p) = IF b < a THEN 0 ELSE b - a
    BY <1>1, <1>2, <1>4 DEF Gain
  <2> QED
    BY <2>1, <2>2, <2>3
<1> QED
  BY <1>3, <1>4

LEMMA VolumesTyped ==
    ASSUME NEW r \in Rings, NEW p \in Peers
    PROVE  /\ VolumesOf(r, p) \in [Slots -> Nat]
           /\ \A i \in Slots : VolumesOf(r, p)[i] = r[i].vol[p]
           /\ Total(VolumesOf(r, p)) \in Nat
<1>1. \A i \in Slots : r[i].vol[p] \in Nat
  BY DEF Rings, Slot
<1>2. VolumesOf(r, p) \in [Slots -> Nat]
  BY <1>1 DEF VolumesOf
<1> QED
  BY <1>2, TotalNat DEF VolumesOf

(* What a sample adds to the ring is at most its volume: a slot that comes *)
(* round again loses what it held.                                         *)
LEMMA PutSlotTotal ==
    ASSUME NEW r \in Rings, NEW b \in Periods, NEW vol \in [Peers -> Nat], NEW p \in Peers
    PROVE  Total(VolumesOf(PutSlot(r, b, Offered(r, b), vol), p))
             <= Total(VolumesOf(r, p)) + vol[p]
<1> DEFINE q == PutSlot(r, b, Offered(r, b), vol)
           k == IdxFor(b)
<1>1. /\ Offered(r, b) \in Slot /\ k \in Slots /\ r[k] \in Slot
  BY OfferedTyped
<1>2. q \in Rings
  BY <1>1, BookedTyped, EmptyTyped
<1>3. q[k].vol[p] = Offered(r, b).vol[p] + vol[p]
  BY <1>1 DEF PutSlot, Rings
<1>4. \A i \in Slots \ {k} : q[i] = r[i]
  BY DEF PutSlot, Rings
<1>5. Offered(r, b).vol[p] \in Nat /\ r[k].vol[p] \in Nat /\ vol[p] \in Nat
  BY <1>1 DEF Slot
<1>6. Offered(r, b).vol[p] = r[k].vol[p] \/ Offered(r, b).vol[p] = 0
  BY DEF Offered, Nobody
<1> HIDE DEF q, k
<1>7. VolumesOf(q, p)[k] <= VolumesOf(r, p)[k] + vol[p]
  BY <1>1, <1>2, <1>3, <1>5, <1>6, VolumesTyped
<1>8. \A i \in Slots \ {k} : VolumesOf(q, p)[i] = VolumesOf(r, p)[i]
  BY <1>2, <1>4, VolumesTyped
<1>9. Total(VolumesOf(q, p)) <= Total(VolumesOf(r, p)) + vol[p]
  <2>1. PICK x \in [Slots -> Nat] : x = VolumesOf(r, p)
    BY VolumesTyped
  <2>2. PICK y \in [Slots -> Nat] : y = VolumesOf(q, p)
    BY <1>2, VolumesTyped
  <2> QED
    BY <1>1, <1>5, <1>7, <1>8, <2>1, <2>2, TotalGains
<1> QED
  BY <1>9 DEF q

LEMMA EmptyTotal ==
    ASSUME NEW p \in Peers
    PROVE  Total(VolumesOf(EmptyRing, p)) = 0
<1>1. \A i \in Slots : EmptyRing[i].vol[p] = 0
  BY DEF EmptyRing, Nobody
<1> QED
  BY <1>1, EmptyTyped, VolumesTyped, TotalOfNothing

LEMMA SinceNat ==
    ASSUME Typed, NEW t \in Counters, NEW p \in Peers
    PROVE  /\ GainSincePrevious(t, p) \in Nat
           /\ t[p] \in {0, None} => GainSincePrevious(t, p) = 0
<1>1. CASE prev = None
  BY <1>1 DEF GainSincePrevious
<1>2. CASE prev # None
  <2>1. prev.peers \in Counters
    BY <1>2, Fields
  <2>2. PICK f \in Counters : f = prev.peers
    BY <2>1
  <2>3. GainSincePrevious(t, p) = Gain(f, t, p)
    BY <1>2, <2>2 DEF GainSincePrevious
  <2> QED
    BY <2>3, GainNat
<1> QED
  BY <1>1, <1>2

LEMMA SinceGrows ==
    ASSUME Typed, NEW t \in Counters, NEW u \in Counters, NEW p \in Peers,
           t[p] # None, u[p] = t[p] + 1
    PROVE  GainSincePrevious(u, p) <= GainSincePrevious(t, p) + 1
<1>1. CASE prev = None
  BY <1>1 DEF GainSincePrevious
<1>2. CASE prev # None
  <2>1. prev.peers \in Counters
    BY <1>2, Fields
  <2>2. PICK f \in Counters : f = prev.peers
    BY <2>1
  <2>3. GainSincePrevious(t, p) = Gain(f, t, p) /\ GainSincePrevious(u, p) = Gain(f, u, p)
    BY <1>2, <2>2 DEF GainSincePrevious
  <2> QED
    BY <2>3, GainGrows
<1> QED
  BY <1>1, <1>2

LEMMA InitAccounted == Init => Accounted
<1> SUFFICES ASSUME Init PROVE Accounted
  OBVIOUS
<1>1. ASSUME NEW p \in Peers
      PROVE  Total(VolumesOf(ring, p)) + GainSincePrevious(kernel, p) <= sent[p]
  <2>1. Total(VolumesOf(ring, p)) = 0
    BY EmptyTotal DEF Init
  <2>2. GainSincePrevious(kernel, p) = 0 /\ sent[p] = 0
    BY DEF Init, GainSincePrevious, Nobody
  <2> QED
    BY <2>1, <2>2
<1>2. \A s \in Samplers : ~Fresh(s)
  BY IdleTyped DEF Init, Fresh
<1> QED
  BY <1>1, <1>2 DEF Init, Accounted

(* Numbers that the parts of Accounted compare.                            *)
LEMMA AccountNumbers ==
    ASSUME Typed, NEW p \in Peers
    PROVE  /\ sent[p] \in Nat
           /\ Total(VolumesOf(ring, p)) \in Nat
           /\ disk # None => Total(VolumesOf(disk.ring, p)) \in Nat
           /\ \A s \in Savers :
                 saving[s] # None => Total(VolumesOf(saving[s].snap.ring, p)) \in Nat
           /\ GainSincePrevious(kernel, p) \in Nat
           /\ \A s \in Samplers : sample[s].pc = "book" =>
                 /\ sample[s].peers \in Counters
                 /\ GainSincePrevious(sample[s].peers, p) \in Nat
                 /\ Gain(sample[s].peers, kernel, p) \in Nat
<1>1. /\ sent[p] \in Nat
      /\ ring \in Rings
      /\ kernel \in Counters
      /\ disk # None => disk.ring \in Rings
      /\ \A s \in Savers : saving[s] # None => saving[s].snap.ring \in Rings
      /\ \A s \in Samplers : sample[s].pc = "book" => sample[s].peers \in Counters
  <2>1. /\ sent \in [Peers -> 0 .. MaxBytes]
        /\ ring \in Rings
        /\ kernel \in Counters
        /\ disk \in {None} \cup Snapshots
        /\ saving \in [Savers -> {None} \cup Save]
        /\ SampleTyped
    BY Fields
  <2>2. disk # None => disk.ring \in Rings
    BY <2>1 DEF Snapshots
  <2>3. \A s \in Savers : saving[s] # None => saving[s].snap.ring \in Rings
    BY <2>1 DEF Snapshots, Save
  <2>4. sent[p] \in Nat
    BY <2>1, Facts
  <2> QED
    BY <2>1, <2>2, <2>3, <2>4 DEF SampleTyped
<1>2. PICK k \in Counters : k = kernel
  BY <1>1
<1>3. \A r \in Rings : Total(VolumesOf(r, p)) \in Nat
  BY VolumesTyped
<1>4. \A t \in Counters : GainSincePrevious(t, p) \in Nat /\ Gain(t, k, p) \in Nat
  BY SinceNat, GainNat
<1> QED
  BY <1>1, <1>2, <1>3, <1>4

(* What is said of the volumes alone.                                      *)
Restorable ==
    /\ \A p \in Peers : disk # None => Total(VolumesOf(disk.ring, p)) <= sent[p]
    /\ \A s \in Savers, p \in Peers :
          saving[s] # None => Total(VolumesOf(saving[s].snap.ring, p)) <= sent[p]

Counted ==
    /\ \A p \in Peers :
          Total(VolumesOf(ring, p)) + GainSincePrevious(kernel, p) <= sent[p]
    /\ \A s \in Samplers, p \in Peers : Fresh(s) =>
          Total(VolumesOf(ring, p)) + GainSincePrevious(sample[s].peers, p)
             + Gain(sample[s].peers, kernel, p) <= sent[p]
    /\ \A r, s \in Samplers : Fresh(r) /\ Fresh(s) => r = s

LEMMA AccountedParts == Accounted <=> (overlapped.sample \/ (Counted /\ Restorable))
BY DEF Accounted, Counted, Restorable

LEMMA TransferAccounted ==
    ASSUME Typed, Counted, Restorable, NEW q \in Peers, Transfer(q), Typed'
    PROVE  Counted' /\ Restorable'
<1>1. /\ UNCHANGED <<now, ring, prev, hasDelta, sample, disk, saving, booked, overlapped>>
      /\ kernel[q] # None
      /\ kernel' = [kernel EXCEPT ![q] = @ + 1]
      /\ sent' = [sent EXCEPT ![q] = @ + 1]
      /\ kernel \in Counters /\ kernel' \in Counters
  <2>1. kernel \in Counters /\ kernel' \in Counters
    BY DEF Typed, TypeOK
  <2> QED
    BY <2>1 DEF Transfer
<1>2. PICK k \in Counters, l \in Counters : k = kernel /\ l = kernel'
  BY <1>1
<1>3. k[q] # None /\ l[q] = k[q] + 1 /\ \A p \in Peers \ {q} : l[p] = k[p]
  BY <1>1, <1>2 DEF Counters
<1>4. \A p \in Peers : sent[p] \in Nat /\ sent'[p] = IF p = q THEN sent[p] + 1 ELSE sent[p]
  BY <1>1, Fields, Facts
<1>5. Restorable'
  BY <1>1, <1>4, AccountNumbers DEF Restorable
<1>6. ASSUME NEW p \in Peers
      PROVE  /\ GainSincePrevious(l, p) <= GainSincePrevious(k, p) + (sent'[p] - sent[p])
             /\ \A t \in Counters : Gain(t, l, p) <= Gain(t, k, p) + (sent'[p] - sent[p])
             /\ GainSincePrevious(l, p) \in Nat /\ GainSincePrevious(k, p) \in Nat
             /\ \A t \in Counters : Gain(t, l, p) \in Nat /\ Gain(t, k, p) \in Nat
  <2>1. /\ GainSincePrevious(l, p) \in Nat /\ GainSincePrevious(k, p) \in Nat
        /\ \A t \in Counters : Gain(t, l, p) \in Nat /\ Gain(t, k, p) \in Nat
    BY SinceNat, GainNat
  <2>2. CASE p = q
    <3>1. sent'[p] - sent[p] = 1
      BY <1>4, <2>2
    <3>2. GainSincePrevious(l, p) <= GainSincePrevious(k, p) + 1
      BY <1>3, <2>2, SinceGrows
    <3>3. \A t \in Counters : Gain(t, l, p) <= Gain(t, k, p) + 1
      BY <1>3, <2>2, GainGrows
    <3> QED
      BY <2>1, <3>1, <3>2, <3>3
  <2>3. CASE p # q
    <3>1. sent'[p] - sent[p] = 0
      BY <1>4, <2>3
    <3>2. /\ GainSincePrevious(l, p) = GainSincePrevious(k, p)
          /\ \A t \in Counters : Gain(t, l, p) = Gain(t, k, p)
      BY <1>3, <2>3 DEF GainSincePrevious, Gain
    <3> QED
      BY <2>1, <3>1, <3>2
  <2> QED
    BY <2>2, <2>3
<1>7. ASSUME NEW p \in Peers
      PROVE  Total(VolumesOf(ring, p)) + GainSincePrevious(l, p) <= sent'[p]
  <2>1. Total(VolumesOf(ring, p)) + GainSincePrevious(k, p) <= sent[p]
    BY <1>2 DEF Counted
  <2> QED
    BY <1>4, <1>6, <2>1, AccountNumbers
<1>8. ASSUME NEW s \in Samplers, NEW p \in Peers, Fresh(s)
      PROVE  Total(VolumesOf(ring, p)) + GainSincePrevious(sample[s].peers, p)
               + Gain(sample[s].peers, l, p) <= sent'[p]
  <2>1. Total(VolumesOf(ring, p)) + GainSincePrevious(sample[s].peers, p)
          + Gain(sample[s].peers, k, p) <= sent[p]
    BY <1>2, <1>8 DEF Counted
  <2>2. sample[s].pc = "book"
    BY <1>8 DEF Fresh
  <2> QED
    BY <1>4, <1>6, <2>1, <2>2, AccountNumbers
<1>9. \A s \in Samplers : Fresh(s)' <=> Fresh(s)
  BY <1>1 DEF Fresh
<1>10. Counted'
  <2>1. \A p \in Peers : GainSincePrevious(kernel, p)' = GainSincePrevious(l, p)
    BY <1>1, <1>2 DEF GainSincePrevious
  <2>2. \A s \in Samplers, p \in Peers :
          /\ GainSincePrevious(sample[s].peers, p)' = GainSincePrevious(sample[s].peers, p)
          /\ Gain(sample[s].peers, kernel, p)' = Gain(sample[s].peers, l, p)
    BY <1>1, <1>2 DEF GainSincePrevious, Gain
  <2>3. \A r, s \in Samplers : Fresh(r) /\ Fresh(s) => r = s
    BY DEF Counted
  <2> QED
    BY <1>1, <1>7, <1>8, <1>9, <2>1, <2>2, <2>3 DEF Counted
<1> QED
  BY <1>5, <1>10

LEMMA ResetAccounted ==
    ASSUME Typed, Counted, Restorable, NEW q \in Peers, ResetCounter(q), Typed'
    PROVE  Counted' /\ Restorable'
<1>1. /\ UNCHANGED <<now, sent, ring, prev, hasDelta, sample, disk, saving, booked, overlapped>>
      /\ kernel \in Counters /\ kernel' \in Counters
  BY DEF ResetCounter, Typed, TypeOK
<1>2. PICK k \in Counters, l \in Counters : k = kernel /\ l = kernel'
  BY <1>1
<1>3. l[q] \in {0, None} /\ \A p \in Peers \ {q} : l[p] = k[p]
  BY <1>2 DEF ResetCounter, Counters
<1>4. Restorable'
  BY <1>1 DEF Restorable
<1>5. ASSUME NEW p \in Peers
      PROVE  /\ GainSincePrevious(l, p) <= GainSincePrevious(k, p)
             /\ \A t \in Counters : Gain(t, l, p) <= Gain(t, k, p)
             /\ GainSincePrevious(l, p) \in Nat /\ GainSincePrevious(k, p) \in Nat
             /\ \A t \in Counters : Gain(t, l, p) \in Nat /\ Gain(t, k, p) \in Nat
  <2>1. /\ GainSincePrevious(l, p) \in Nat /\ GainSincePrevious(k, p) \in Nat
        /\ \A t \in Counters : Gain(t, l, p) \in Nat /\ Gain(t, k, p) \in Nat
    BY SinceNat, GainNat
  <2>2. CASE p = q
    <3>1. GainSincePrevious(l, p) = 0 /\ \A t \in Counters : Gain(t, l, p) = 0
      BY <1>3, <2>2, SinceNat, GainNat
    <3> QED
      BY <2>1, <3>1
  <2>3. CASE p # q
    <3>1. /\ GainSincePrevious(l, p) = GainSincePrevious(k, p)
          /\ \A t \in Counters : Gain(t, l, p) = Gain(t, k, p)
      BY <1>3, <2>3 DEF GainSincePrevious, Gain
    <3> QED
      BY <2>1, <3>1
  <2> QED
    BY <2>2, <2>3
<1>6. ASSUME NEW p \in Peers
      PROVE  Total(VolumesOf(ring, p)) + GainSincePrevious(l, p) <= sent[p]
  <2>1. Total(VolumesOf(ring, p)) + GainSincePrevious(k, p) <= sent[p]
    BY <1>2 DEF Counted
  <2> QED
    BY <1>5, <2>1, AccountNumbers
<1>7. ASSUME NEW s \in Samplers, NEW p \in Peers, Fresh(s)
      PROVE  Total(VolumesOf(ring, p)) + GainSincePrevious(sample[s].peers, p)
               + Gain(sample[s].peers, l, p) <= sent[p]
  <2>1. Total(VolumesOf(ring, p)) + GainSincePrevious(sample[s].peers, p)
          + Gain(sample[s].peers, k, p) <= sent[p]
    BY <1>2, <1>7 DEF Counted
  <2>2. sample[s].pc = "book"
    BY <1>7 DEF Fresh
  <2> QED
    BY <1>5, <2>1, <2>2, AccountNumbers
<1>8. Counted'
  <2>1. \A p \in Peers : GainSincePrevious(kernel, p)' = GainSincePrevious(l, p)
    BY <1>1, <1>2 DEF GainSincePrevious
  <2>2. \A s \in Samplers, p \in Peers :
          /\ GainSincePrevious(sample[s].peers, p)' = GainSincePrevious(sample[s].peers, p)
          /\ Gain(sample[s].peers, kernel, p)' = Gain(sample[s].peers, l, p)
    BY <1>1, <1>2 DEF GainSincePrevious, Gain
  <2>3. \A r, s \in Samplers : Fresh(r) /\ Fresh(s) => r = s
    BY DEF Counted
  <2>4. \A s \in Samplers : Fresh(s)' <=> Fresh(s)
    BY <1>1 DEF Fresh
  <2> QED
    BY <1>1, <1>6, <1>7, <2>1, <2>2, <2>3, <2>4 DEF Counted
<1> QED
  BY <1>4, <1>8

(* A sample that is not being booked is none of Counted's concern.         *)
LEMMA UnreadAccounted ==
    ASSUME Typed, Counted, Restorable, NEW s \in Samplers, NEW x,
           sample' = [sample EXCEPT ![s] = x], x.pc # "book",
           UNCHANGED <<kernel, sent, ring, prev, disk, saving>>
    PROVE  Counted' /\ Restorable'
<1>1. sample \in [Samplers -> Sample]
  BY Fields
<1>2. \A r \in Samplers : Fresh(r)' => Fresh(r) /\ sample'[r] = sample[r]
  BY <1>1 DEF Fresh
<1>3. \A p \in Peers : GainSincePrevious(kernel, p)' = GainSincePrevious(kernel, p)
  BY DEF GainSincePrevious
<1>4. \A r \in Samplers, p \in Peers : Fresh(r)' =>
          /\ GainSincePrevious(sample[r].peers, p)' = GainSincePrevious(sample[r].peers, p)
          /\ Gain(sample[r].peers, kernel, p)' = Gain(sample[r].peers, kernel, p)
  BY <1>2 DEF GainSincePrevious, Gain
<1>5. Counted'
  BY <1>2, <1>3, <1>4 DEF Counted
<1> QED
  BY <1>5 DEF Restorable

(* A sample that is read is the freshest; the ones that wait are met.      *)
LEMMA ReadAccounted ==
    ASSUME Typed, Counted, Restorable, NEW s \in Samplers, ReadTotalsFromKernel(s)
    PROVE  Counted' /\ Restorable'
<1>1. /\ sample \in [Samplers -> Sample] /\ kernel \in Counters
      /\ UNCHANGED <<now, kernel, sent, ring, prev, hasDelta, disk, saving, booked, overlapped>>
  BY Fields DEF ReadTotalsFromKernel
<1>2. CASE sample' = [sample EXCEPT ![s] = After(s)]
  <2>1. After(s).pc # "book"
    BY AfterTyped DEF Typed
  <2>2. PICK x : x = After(s)
    OBVIOUS
  <2> QED
    BY <1>1, <1>2, <2>1, <2>2, UnreadAccounted
<1>3. CASE sample' = [r \in Samplers |->
              IF r = s THEN [sample[s] EXCEPT !.pc = "book", !.peers = kernel, !.met = FALSE]
              ELSE [sample[r] EXCEPT !.met = @ \/ sample[r].pc = "book"]]
  <2>1. sample'[s].peers = kernel
    <3>1. sample[s] \in Sample
      BY <1>1
    <3> QED
      BY <1>3, <3>1 DEF Sample
  <2>2. ASSUME NEW r \in Samplers, Fresh(r)' PROVE r = s
    <3> SUFFICES ASSUME r # s PROVE FALSE
      OBVIOUS
    <3>1. sample[r] \in Sample
      BY <1>1
    <3>2. sample'[r] = [sample[r] EXCEPT !.met = @ \/ sample[r].pc = "book"]
      BY <1>3
    <3>3. sample'[r].pc = sample[r].pc /\ (sample[r].pc = "book" => sample'[r].met)
      BY <3>1, <3>2 DEF Sample
    <3> QED
      BY <2>2, <3>3 DEF Fresh
  <2>3. ASSUME NEW p \in Peers
        PROVE  Total(VolumesOf(ring, p)) + GainSincePrevious(kernel, p)
                 + Gain(kernel, kernel, p) <= sent[p]
    <3>1. Gain(kernel, kernel, p) = 0
      <4>1. PICK k \in Counters : k = kernel
        BY <1>1
      <4> QED
        BY <4>1, GainNat
    <3>2. Total(VolumesOf(ring, p)) + GainSincePrevious(kernel, p) <= sent[p]
      BY DEF Counted
    <3> QED
      BY <3>1, <3>2, AccountNumbers
  <2>4. \A p \in Peers :
          /\ GainSincePrevious(kernel, p)' = GainSincePrevious(kernel, p)
          /\ GainSincePrevious(sample[s].peers, p)' = GainSincePrevious(kernel, p)
          /\ Gain(sample[s].peers, kernel, p)' = Gain(kernel, kernel, p)
    BY <1>1, <2>1 DEF GainSincePrevious, Gain
  <2>5. \A p \in Peers :
          Total(VolumesOf(ring, p)) + GainSincePrevious(kernel, p) <= sent[p]
    BY DEF Counted
  <2>6. Counted'
    BY <1>1, <2>2, <2>3, <2>4, <2>5 DEF Counted
  <2> QED
    BY <1>1, <2>6 DEF Restorable
<1> QED
  BY <1>2, <1>3 DEF ReadTotalsFromKernel

(* Booking the freshest sample moves its gain from what is to be booked to *)
(* what was booked.                                                        *)
LEMMA BookAccounted ==
    ASSUME Typed, Counted, Restorable, NEW s \in Samplers, Book(s), Fresh(s)
    PROVE  Counted' /\ Restorable'
<1>1. /\ sample[s].pc = "book"
      /\ sample[s].peers \in Counters
      /\ prev' = [at |-> sample[s].at, peers |-> sample[s].peers]
      /\ sample' = [sample EXCEPT ![s] = After(s)]
      /\ UNCHANGED <<now, kernel, sent, disk, saving>>
      /\ \/ prev # None /\ sample[s].at > prev.at /\ Books(s)
         \/ UNCHANGED <<ring, booked, hasDelta>>
  BY BookCases
<1>2. /\ sample \in [Samplers -> Sample] /\ kernel \in Counters /\ ring \in Rings
  BY Fields
<1>3. ring' \in Rings
  BY BooksTyped
<1>4. PICK r \in Rings, q \in Rings, c \in Counters, k \in Counters :
          r = ring /\ q = ring' /\ c = sample[s].peers /\ k = kernel
  BY <1>1, <1>2, <1>3
<1>5. \A t \in Samplers : ~Fresh(t)'
  <2>1. ASSUME NEW t \in Samplers, Fresh(t)' PROVE FALSE
    <3>1. CASE t = s
      <4>1. sample'[s] = After(s)
        BY <1>1, <1>2
      <4>2. After(s).pc # "book"
        BY AfterTyped DEF Typed
      <4> QED
        BY <2>1, <3>1, <4>1, <4>2 DEF Fresh
    <3>2. CASE t # s
      <4>1. sample'[t] = sample[t]
        BY <1>1, <1>2, <3>2
      <4>2. Fresh(t)
        BY <2>1, <4>1 DEF Fresh
      <4> QED
        BY <3>2, <4>2 DEF Counted
    <3> QED
      BY <3>1, <3>2
  <2> QED
    BY <2>1
<1>6. ASSUME NEW p \in Peers
      PROVE  Total(VolumesOf(q, p)) <= Total(VolumesOf(r, p)) + GainSincePrevious(c, p)
  <2>1. /\ Total(VolumesOf(r, p)) \in Nat /\ GainSincePrevious(c, p) \in Nat
    BY VolumesTyped, SinceNat
  <2>2. CASE prev # None /\ sample[s].at > prev.at /\ Books(s)
    <3>1. PICK vol \in [Peers -> Nat] : vol = Volume(sample[s])
      BY <1>1, <2>2, VolumeTyped
    <3>2. PICK b \in Periods : b = Bid(sample[s].at)
      BY BookCases
    <3>3. SlotFor(b) = Offered(r, b)
      BY <1>4 DEF SlotFor, Offered
    <3>4. q = PutSlot(r, b, Offered(r, b), vol)
      BY <1>4, <2>2, <3>1, <3>2, <3>3 DEF Books
    <3>5. vol[p] = GainSincePrevious(c, p)
      <4>1. Volume(sample[s])[p] = Gain(prev.peers, sample[s].peers, p)
        BY <1>1, <2>2, VolumeTyped
      <4> QED
        BY <1>4, <2>2, <3>1, <4>1 DEF GainSincePrevious
    <3> QED
      BY <3>4, <3>5, PutSlotTotal
  <2>3. CASE UNCHANGED <<ring, booked, hasDelta>>
    <3>1. q = r
      BY <1>4, <2>3
    <3> QED
      BY <2>1, <3>1
  <2> QED
    BY <1>1, <2>2, <2>3
<1>7. ASSUME NEW p \in Peers
      PROVE  Total(VolumesOf(q, p)) + Gain(c, k, p) <= sent[p]
  <2>1. Total(VolumesOf(r, p)) + GainSincePrevious(c, p) + Gain(c, k, p) <= sent[p]
    BY <1>4 DEF Counted
  <2>2. /\ Total(VolumesOf(r, p)) \in Nat /\ GainSincePrevious(c, p) \in Nat
        /\ Total(VolumesOf(q, p)) \in Nat /\ Gain(c, k, p) \in Nat /\ sent[p] \in Nat
    BY VolumesTyped, SinceNat, GainNat, AccountNumbers
  <2> QED
    BY <1>6, <2>1, <2>2
<1>8. \A p \in Peers :
        GainSincePrevious(kernel, p)' = IF prev' = None THEN 0 ELSE Gain(c, k, p)
  BY <1>1, <1>4 DEF GainSincePrevious, Gain
<1>9. ASSUME NEW p \in Peers
      PROVE  (Total(VolumesOf(ring, p)) + GainSincePrevious(kernel, p) <= sent[p])'
  <2>1. /\ Total(VolumesOf(q, p)) \in Nat /\ Gain(c, k, p) \in Nat /\ sent[p] \in Nat
    BY VolumesTyped, GainNat, AccountNumbers
  <2>2. GainSincePrevious(kernel, p)' \in Nat
        /\ GainSincePrevious(kernel, p)' <= Gain(c, k, p)
    BY <1>8, <2>1
  <2> QED
    BY <1>1, <1>4, <1>7, <2>1, <2>2
<1>10. Counted'
  BY <1>5, <1>9 DEF Counted
<1> QED
  BY <1>1, <1>10 DEF Restorable

LEMMA SaversAccounted ==
    ASSUME Typed, Counted, Restorable, NEW s \in Savers,
           TakeSnapshot(s) \/ SaveTrafficCacheSnapshot(s)
    PROVE  Counted' /\ Restorable'
<1>1. /\ UNCHANGED <<now, kernel, sent, ring, prev, sample>>
      /\ saving \in [Savers -> {None} \cup Save]
  BY Fields DEF TakeSnapshot, SaveTrafficCacheSnapshot
<1>2. Counted'
  <2>1. \A p \in Peers : GainSincePrevious(kernel, p)' = GainSincePrevious(kernel, p)
    BY <1>1 DEF GainSincePrevious
  <2>2. \A r \in Samplers, p \in Peers :
          /\ GainSincePrevious(sample[r].peers, p)' = GainSincePrevious(sample[r].peers, p)
          /\ Gain(sample[r].peers, kernel, p)' = Gain(sample[r].peers, kernel, p)
    BY <1>1 DEF GainSincePrevious, Gain
  <2>3. \A r \in Samplers : Fresh(r)' <=> Fresh(r)
    BY <1>1 DEF Fresh
  <2> QED
    BY <1>1, <2>1, <2>2, <2>3 DEF Counted
<1>3. CASE TakeSnapshot(s)
  <2>1. ASSUME NEW p \in Peers PROVE Total(VolumesOf(ring, p)) <= sent[p]
    BY AccountNumbers DEF Counted
  <2>2. ASSUME NEW r \in Savers, saving'[r] # None
        PROVE  \/ saving'[r].snap.ring = ring
               \/ saving[r] # None /\ saving'[r].snap = saving[r].snap
    <3>1. CASE r = s
      BY <1>3, <3>1 DEF TakeSnapshot, Snapshot
    <3>2. CASE r # s
      <4>1. saving[r] # None /\ saving'[r] = [saving[r] EXCEPT !.met = TRUE]
        BY <1>3, <2>2, <3>2 DEF TakeSnapshot
      <4>2. saving[r] \in Save
        BY <1>1, <4>1
      <4> QED
        BY <4>1, <4>2 DEF Save
    <3> QED
      BY <3>1, <3>2
  <2>3. disk' = disk
    BY <1>3 DEF TakeSnapshot
  <2>4. Restorable'
    BY <1>1, <2>1, <2>2, <2>3 DEF Restorable
  <2> QED
    BY <1>2, <2>4
<1>4. CASE SaveTrafficCacheSnapshot(s)
  <2>1. \A r \in Savers : saving'[r] # None => saving'[r] = saving[r]
    BY <1>1, <1>4 DEF SaveTrafficCacheSnapshot
  <2>2. disk' = saving[s].snap /\ saving[s] # None
    BY <1>4 DEF SaveTrafficCacheSnapshot
  <2>3. Restorable'
    BY <1>1, <2>1, <2>2 DEF Restorable
  <2> QED
    BY <1>2, <2>3
<1> QED
  BY <1>3, <1>4

LEMMA RestartAccounted ==
    ASSUME Typed, Restorable, Restart
    PROVE  Counted' /\ Restorable'
<1>1. /\ UNCHANGED <<now, kernel, sent, disk>>
      /\ prev' = None
      /\ sample' = [s \in Samplers |-> Idle]
      /\ saving' = [s \in Savers |-> None]
      /\ ring' = IF disk = None THEN EmptyRing ELSE disk.ring
  BY DEF Restart, ApplySnapshot
<1>2. Restorable'
  BY <1>1 DEF Restorable
<1>3. \A s \in Samplers : ~Fresh(s)'
  BY <1>1, IdleTyped DEF Fresh
<1>4. ASSUME NEW p \in Peers
      PROVE  (Total(VolumesOf(ring, p)) + GainSincePrevious(kernel, p) <= sent[p])'
  <2>1. GainSincePrevious(kernel, p)' = 0
    BY <1>1 DEF GainSincePrevious
  <2>2. sent' = sent /\ sent[p] \in Nat
    BY <1>1, AccountNumbers
  <2>3. CASE disk = None
    <3>1. Total(VolumesOf(ring', p)) = 0
      BY <1>1, <2>3, EmptyTotal
    <3> QED
      BY <2>1, <2>2, <3>1
  <2>4. CASE disk # None
    <3>1. ring' = disk.ring
      BY <1>1, <2>4
    <3>2. Total(VolumesOf(disk.ring, p)) <= sent[p] /\ Total(VolumesOf(disk.ring, p)) \in Nat
      BY <2>4, AccountNumbers DEF Restorable
    <3> QED
      BY <2>1, <2>2, <3>1, <3>2
  <2> QED
    BY <2>3, <2>4
<1>5. Counted'
  BY <1>3, <1>4 DEF Counted
<1> QED
  BY <1>2, <1>5

LEMMA AccountedStep == Typed /\ Accounted /\ [Next]_vars => Accounted'
<1> SUFFICES ASSUME Typed, Accounted, [Next]_vars, ~overlapped'.sample
             PROVE  Counted' /\ Restorable'
  BY DEF Accounted, Counted, Restorable
<1>1. /\ sample \in [Samplers -> Sample]
      /\ overlapped \in [sample: BOOLEAN, save: BOOLEAN]
  BY Fields
<1>2. ~overlapped.sample
  <2>1. ASSUME NEW s \in Samplers, Book(s) PROVE ~overlapped.sample
    BY <1>1, <2>1 DEF Book
  <2>2. ASSUME NEW s \in Savers, SaveTrafficCacheSnapshot(s) PROVE ~overlapped.sample
    BY <1>1, <2>2 DEF SaveTrafficCacheSnapshot
  <2>3. CASE overlapped' = overlapped
    BY <2>3
  <2> QED
    BY <2>1, <2>2, <2>3
       DEF Next, vars, Tick, Transfer, ResetCounter, WarmUp, Stamp, ReadTotalsFromKernel,
           TakeSnapshot, Restart
<1>3. Counted /\ Restorable
  BY <1>2, AccountedParts
<1>4. Typed'
  BY TypedStep
<1>5. CASE UNCHANGED <<kernel, sent, ring, prev, sample, disk, saving>>
  <2>1. \A p \in Peers : GainSincePrevious(kernel, p)' = GainSincePrevious(kernel, p)
    BY <1>5 DEF GainSincePrevious
  <2>2. \A r \in Samplers, p \in Peers :
          /\ GainSincePrevious(sample[r].peers, p)' = GainSincePrevious(sample[r].peers, p)
          /\ Gain(sample[r].peers, kernel, p)' = Gain(sample[r].peers, kernel, p)
    BY <1>5 DEF GainSincePrevious, Gain
  <2>3. \A r \in Samplers : Fresh(r)' <=> Fresh(r)
    BY <1>5 DEF Fresh
  <2> QED
    BY <1>3, <1>5, <2>1, <2>2, <2>3 DEF Counted, Restorable
<1>6. ASSUME NEW p \in Peers, Transfer(p) PROVE Counted' /\ Restorable'
  BY <1>3, <1>4, <1>6, TransferAccounted
<1>7. ASSUME NEW p \in Peers, ResetCounter(p) PROVE Counted' /\ Restorable'
  BY <1>3, <1>4, <1>7, ResetAccounted
<1>8. ASSUME NEW s \in Samplers, WarmUp(s) \/ Stamp(s) PROVE Counted' /\ Restorable'
  <2>1. UNCHANGED <<kernel, sent, ring, prev, disk, saving>>
    BY <1>8 DEF WarmUp, Stamp
  <2>2. PICK x : sample' = [sample EXCEPT ![s] = x] /\ x.pc = "read"
    <3>1. CASE WarmUp(s)
      <4>1. PICK y : y = [Idle EXCEPT !.pc = "read", !.left = 2, !.at = now]
        OBVIOUS
      <4>2. y.pc = "read"
        BY <4>1 DEF Idle
      <4>3. sample' = [sample EXCEPT ![s] = y]
        BY <3>1, <4>1 DEF WarmUp
      <4> QED
        BY <4>2, <4>3
    <3>2. CASE Stamp(s)
      <4>1. PICK y : y = [sample[s] EXCEPT !.pc = "read", !.at = now]
        OBVIOUS
      <4>2. sample[s] \in Sample
        BY <1>1
      <4>3. y.pc = "read"
        BY <4>1, <4>2 DEF Sample
      <4>4. sample' = [sample EXCEPT ![s] = y]
        BY <1>1, <3>2, <4>1, <4>2 DEF Stamp, Sample
      <4> QED
        BY <4>3, <4>4
    <3> QED
      BY <1>8, <3>1, <3>2
  <2>3. x.pc # "book"
    BY <2>2
  <2> QED
    BY <1>3, <2>1, <2>2, <2>3, UnreadAccounted
<1>9. ASSUME NEW s \in Samplers, ReadTotalsFromKernel(s) PROVE Counted' /\ Restorable'
  BY <1>3, <1>9, ReadAccounted
<1>10. ASSUME NEW s \in Samplers, Book(s) PROVE Counted' /\ Restorable'
  <2>1. ~sample[s].met
    BY <1>1, <1>10 DEF Book
  <2>2. Fresh(s)
    BY <1>10, <2>1 DEF Book, Fresh
  <2> QED
    BY <1>3, <1>10, <2>2, BookAccounted
<1>11. ASSUME NEW s \in Savers, TakeSnapshot(s) \/ SaveTrafficCacheSnapshot(s)
       PROVE  Counted' /\ Restorable'
  BY <1>3, <1>11, SaversAccounted
<1>12. CASE Restart
  BY <1>3, <1>12, RestartAccounted
<1> QED
  BY <1>5, <1>6, <1>7, <1>8, <1>9, <1>10, <1>11, <1>12 DEF Next, vars, Tick

(* BookedOnce holds in every reachable state: whatever comes between       *)
(* samples, and from whichever file the cache started, the volumes of a    *)
(* peer never add up to more than it transferred, as long as no sample was *)
(* booked after a later reading.                                           *)
THEOREM NothingTwice == Spec => []BookedOnce
<1>1. Typed /\ Accounted => BookedOnce
  <2> SUFFICES ASSUME Typed, Accounted, NEW p \in Peers, ~overlapped.sample
               PROVE  Total(VolumesOf(ring, p)) <= sent[p]
    BY DEF BookedOnce
  <2> QED
    BY AccountNumbers DEF Accounted
<1> QED
  BY <1>1, InitTyped, TypedStep, InitAccounted, AccountedStep, PTL DEF Spec
=============================================================================
