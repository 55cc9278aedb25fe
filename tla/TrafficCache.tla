---------------------------- MODULE TrafficCache ----------------------------
(***************************************************************************)
(* The traffic cache: samples of the kernel's byte counters are turned     *)
(* into volumes per peer and period, kept in a ring, and the ring is saved *)
(* for the next start of the program.                                      *)
(*                                                                         *)
(* A sample is stamped, then read from the kernel, then booked under the   *)
(* lock, so samples that overlap may be booked in any order.  Overlaps     *)
(* come from the goroutine that samples for ever and the ones that warm up *)
(* a cache that has no history yet.                                        *)
(* Not covered: rates, peaks and the busiest peer, which are computed from *)
(* the same differences; received and sent bytes are one direction; a wall *)
(* clock that is set back; a snapshot that cannot be read.                 *)
(***************************************************************************)
EXTENDS Naturals

CONSTANTS
    Peers,        \* peers of the interface
    Warmers,      \* goroutines and requests that find the cache empty
    Ticker,       \* the sampling goroutine
    Savers,       \* the goroutine that saves and the signal handler
    BucketMs,     \* clock ticks in a period
    MaxBaseBuckets, \* slots of the ring
    MaxNow,       \* bound: the clock of a behaviour
    MaxBytes,     \* bound: bytes a peer transfers in a behaviour
    None

ASSUME CacheAssumption ==
    /\ BucketMs \in Nat \ {0} /\ MaxBaseBuckets \in Nat \ {0}
    /\ MaxNow \in Nat \ {0} /\ MaxBytes \in Nat
    /\ Ticker \notin Warmers

Samplers == Warmers \cup {Ticker}

VARIABLES
    now,          \* the clock; 0 is never read, it stands for "no sample"
    kernel,       \* the counter of each peer, None when the peer is absent
    sent,         \* history: what each peer has really transferred
    ring,         \* [bid, vol] of each slot
    prev,         \* the last sample: prevAtMs, prevPeer
    hasDelta,     \* hasDeltaSample
    sample,       \* the sampling in progress of each sampler
    disk,         \* traffic_cache.json
    saving,       \* the snapshot each saver is writing
    booked,       \* history: the volume booked in each period, none forgotten
    overlapped     \* history: a sample or a snapshot was taken while another waited

vars == <<now, kernel, sent, ring, prev, hasDelta, sample, disk, saving, booked, overlapped>>

-----------------------------------------------------------------------------
(* The ring.                                                               *)

Slots == 0 .. (MaxBaseBuckets - 1)

IdxFor(bid) == bid % MaxBaseBuckets

Bid(t) == t \div BucketMs

Nobody == [p \in Peers |-> 0]

Periods == 0 .. Bid(MaxNow)

NoHistory == [b \in Periods |-> Nobody]

EmptyRing == [i \in Slots |-> [bid |-> 0, vol |-> Nobody]]

\* Mutant: a slot that comes round again keeps its volumes.
SlotUncleared(bid) == [bid |-> bid, vol |-> ring[IdxFor(bid)].vol]

(* The slot for a period, emptied first when it holds an older one.        *)
SlotFor(bid) ==
    LET slot == ring[IdxFor(bid)]
    IN  IF slot.bid = bid THEN slot ELSE [bid |-> bid, vol |-> Nobody]

(* The page skips a slot that holds another period.                        *)
BucketVolume(b) == IF ring[IdxFor(b)].bid = b THEN ring[IdxFor(b)].vol ELSE Nobody

\* Mutant: a counter that went down is subtracted as it is.
VolumeUnclamped(s) ==
    [p \in Peers |-> IF None \in {s.peers[p], prev.peers[p]} THEN 0
                     ELSE s.peers[p] - prev.peers[p]]

(* What a sample adds: nothing for a peer that is new, or whose counter    *)
(* went down.                                                              *)
Volume(s) ==
    [p \in Peers |-> IF None \in {s.peers[p], prev.peers[p]} \/ s.peers[p] < prev.peers[p]
                     THEN 0 ELSE s.peers[p] - prev.peers[p]]

-----------------------------------------------------------------------------
(* The world.                                                              *)

(* A sample in progress is booked before its slot comes round again (30    *)
(* days in the code).                                                      *)
Tick ==
    /\ now < MaxNow
    /\ \A s \in Samplers : sample[s].pc \in {"read", "book"} =>
          Bid(now + 1) < Bid(sample[s].at) + MaxBaseBuckets
    /\ now' = now + 1
    /\ UNCHANGED <<kernel, sent, ring, prev, hasDelta, sample, disk, saving, booked, overlapped>>

Transfer(p) ==
    /\ kernel[p] # None
    /\ sent[p] < MaxBytes
    /\ kernel' = [kernel EXCEPT ![p] = @ + 1]
    /\ sent' = [sent EXCEPT ![p] = @ + 1]
    /\ UNCHANGED <<now, ring, prev, hasDelta, sample, disk, saving, booked, overlapped>>

(* The peer comes, or goes, or the tunnel is started anew.                 *)
ResetCounter(p) ==
    /\ kernel' \in {[kernel EXCEPT ![p] = v] : v \in {0, None}}
    /\ kernel' # kernel
    /\ UNCHANGED <<now, sent, ring, prev, hasDelta, sample, disk, saving, booked, overlapped>>

-----------------------------------------------------------------------------
(* Sampling.                                                               *)

Idle == [pc |-> "idle", left |-> 0, at |-> 0, peers |-> None, met |-> FALSE]

(* A warm-up takes two samples, the second one after a pause.              *)
WarmUp(s) ==
    /\ s \in Warmers
    /\ sample[s].pc = "idle"
    /\ ~hasDelta
    /\ sample' = [sample EXCEPT ![s] = [Idle EXCEPT !.pc = "read", !.left = 2, !.at = now]]
    /\ UNCHANGED <<now, kernel, sent, ring, prev, hasDelta, disk, saving, booked, overlapped>>

Stamp(s) ==
    /\ \/ s = Ticker /\ sample[s].pc = "idle"
       \/ sample[s].pc = "stamp" /\ sample[s].at < now
    /\ sample' = [sample EXCEPT ![s].pc = "read", ![s].at = now]
    /\ UNCHANGED <<now, kernel, sent, ring, prev, hasDelta, disk, saving, booked, overlapped>>

After(s) ==
    IF sample[s].left > 1
    THEN [Idle EXCEPT !.pc = "stamp", !.left = sample[s].left - 1, !.at = sample[s].at]
    ELSE Idle

ReadTotalsFromKernel(s) ==
    /\ sample[s].pc = "read"
    /\ \/ sample' = [r \in Samplers |->
              IF r = s THEN [sample[s] EXCEPT !.pc = "book", !.peers = kernel, !.met = FALSE]
              ELSE [sample[r] EXCEPT !.met = @ \/ sample[r].pc = "book"]]
       \/ sample' = [sample EXCEPT ![s] = After(s)]     \* wgctrl fails
    /\ UNCHANGED <<now, kernel, sent, ring, prev, hasDelta, disk, saving, booked, overlapped>>

\* Mutant: only the time of the previous sample is moved on.
PreviousTimeOnly(s) ==
    [at |-> s.at, peers |-> IF prev = None THEN s.peers ELSE prev.peers]

(* prevAtMs and prevPeer.                                                  *)
Previous(s) == [at |-> s.at, peers |-> s.peers]

Book(s) ==
    /\ sample[s].pc = "book"
    /\ IF prev # None /\ sample[s].at > prev.at
       THEN LET slot == SlotFor(Bid(sample[s].at))
                vol == Volume(sample[s])
            IN  /\ ring' = [ring EXCEPT ![IdxFor(slot.bid)] =
                              [slot EXCEPT !.vol = [p \in Peers |-> @[p] + vol[p]]]]
                /\ booked' = [booked EXCEPT ![slot.bid] = [p \in Peers |-> @[p] + vol[p]]]
                /\ hasDelta' = TRUE
       ELSE UNCHANGED <<ring, booked, hasDelta>>
    /\ prev' = Previous(sample[s])
    /\ sample' = [sample EXCEPT ![s] = After(s)]
    /\ overlapped' = [overlapped EXCEPT !.sample = @ \/ sample[s].met]
    /\ UNCHANGED <<now, kernel, sent, disk, saving>>

-----------------------------------------------------------------------------
(* Saving and loading.                                                     *)

Snapshot == [ring |-> ring, hasDelta |-> hasDelta, booked |-> booked]

(* persistTrafficSnapshot copies the ring under the lock ...               *)
TakeSnapshot(s) ==
    /\ saving[s] = None
    /\ hasDelta
    /\ saving' = [r \in Savers |->
          IF r = s THEN [snap |-> Snapshot, met |-> FALSE]
          ELSE IF saving[r] # None THEN [saving[r] EXCEPT !.met = TRUE] ELSE None]
    /\ UNCHANGED <<now, kernel, sent, ring, prev, hasDelta, sample, disk, booked, overlapped>>

(* ... and writes it afterwards.                                           *)
SaveTrafficCacheSnapshot(s) ==
    /\ saving[s] # None
    /\ disk' = saving[s].snap
    /\ saving' = [saving EXCEPT ![s] = None]
    /\ overlapped' = [overlapped EXCEPT !.save = @ \/ saving[s].met]
    /\ UNCHANGED <<now, kernel, sent, ring, prev, hasDelta, sample, booked>>

\* Mutant: the volumes of a snapshot are not copied back.
AppliedSansVolumes(s) == [s EXCEPT !.ring = [i \in Slots |-> [@[i] EXCEPT !.vol = Nobody]]]

(* Every field but the previous sample, which was never written.           *)
ApplySnapshot(s) == [ring |-> s.ring, hasDelta |-> s.hasDelta, booked |-> s.booked]

(* The process ends, anywhere, and starts again from the snapshot.         *)
Restart ==
    /\ LET s == IF disk = None THEN [ring |-> EmptyRing, hasDelta |-> FALSE, booked |-> NoHistory]
                ELSE ApplySnapshot(disk)
       IN  ring' = s.ring /\ hasDelta' = s.hasDelta /\ booked' = s.booked
    /\ prev' = None
    /\ sample' = [s \in Samplers |-> Idle]
    /\ saving' = [s \in Savers |-> None]
    /\ UNCHANGED <<now, kernel, sent, disk, overlapped>>

Init ==
    /\ now = 1
    /\ kernel = [p \in Peers |-> 0]
    /\ sent = Nobody
    /\ ring = EmptyRing
    /\ prev = None
    /\ hasDelta = FALSE
    /\ sample = [s \in Samplers |-> Idle]
    /\ disk = None
    /\ saving = [s \in Savers |-> None]
    /\ booked = NoHistory
    /\ overlapped = [sample |-> FALSE, save |-> FALSE]

Next ==
    \/ Tick
    \/ \E p \in Peers : Transfer(p) \/ ResetCounter(p)
    \/ \E s \in Samplers : WarmUp(s) \/ Stamp(s) \/ ReadTotalsFromKernel(s) \/ Book(s)
    \/ \E s \in Savers : TakeSnapshot(s) \/ SaveTrafficCacheSnapshot(s)
    \/ Restart

Spec == Init /\ [][Next]_vars

-----------------------------------------------------------------------------
(* Properties.                                                             *)

Slot == [bid: Nat, vol: [Peers -> Nat]]

Counters == [Peers -> Nat \cup {None}]

(* Every variable has the shape of the fields of the code.                 *)
TypeOK ==
    /\ now \in 1 .. MaxNow
    /\ kernel \in Counters
    /\ sent \in [Peers -> 0 .. MaxBytes]
    /\ ring \in [Slots -> Slot]
    /\ prev \in {None} \cup [at: 1 .. MaxNow, peers: Counters]
    /\ hasDelta \in BOOLEAN
    /\ sample \in [Samplers -> [pc: {"idle", "stamp", "read", "book"}, left: 0 .. 2,
                                at: 0 .. MaxNow, peers: Counters \cup {None},
                                met: BOOLEAN]]
    /\ disk \in {None} \cup [ring: [Slots -> Slot], hasDelta: {TRUE},
                                 booked: [Periods -> [Peers -> Nat]]]
    /\ saving \in [Savers -> {None} \cup
                     [snap: [ring: [Slots -> Slot], hasDelta: {TRUE},
                                 booked: [Periods -> [Peers -> Nat]]], met: BOOLEAN]]
    /\ booked \in [Periods -> [Peers -> Nat]]
    /\ overlapped \in [sample: BOOLEAN, save: BOOLEAN]

(* The volumes of all slots, vol giving the one of each.                   *)
Total(vol) ==
    LET upTo[n \in 0 .. MaxBaseBuckets] == IF n = 0 THEN 0 ELSE upTo[n - 1] + vol[n - 1]
    IN  upTo[MaxBaseBuckets]

VolumesOf(r, p) == [i \in Slots |-> r[i].vol[p]]

(* No byte is booked twice: the volumes of all periods together are at     *)
(* most what the peer transferred, unless another sample was read between  *)
(* the reading and the booking of one (refreshOnce, booking the older one  *)
(* last, puts its counters back).                                          *)
BookedOnce ==
    \A p \in Peers : overlapped.sample \/ Total(VolumesOf(ring, p)) <= sent[p]

(* A save never loses volumes that an earlier save has put on disk, unless *)
(* the two overlapped (FlushTrafficCacheSnapshot beside the goroutine).    *)
SavesMoveForward ==
    [][\A i \in Slots :
        \/ disk = None
        \/ overlapped'.save
        \/ disk'.ring[i].bid > disk.ring[i].bid
        \/ /\ disk'.ring[i].bid = disk.ring[i].bid
           /\ \A p \in Peers : disk'.ring[i].vol[p] >= disk.ring[i].vol[p]]_disk

(* The page (buildSeries over the whole ring) shows for each of the last   *)
(* MaxBaseBuckets periods the volume booked in it and nothing of an older  *)
(* period that used the same slot.                                         *)
PageShowsBooked ==
    \A b \in Periods :
        b <= Bid(now) /\ Bid(now) < b + MaxBaseBuckets
        => BucketVolume(b) = booked[b]
=============================================================================
