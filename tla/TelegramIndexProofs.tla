------------------------ MODULE TelegramIndexProofs -------------------------
(***************************************************************************)
(* The properties of TelegramIndex, for any users, any finite number of    *)
(* clients and any number of requests.                                     *)
(*                                                                         *)
(* A client stands at most once in a slice, so filtering one out shifts    *)
(* what is behind it by one place (FilterShifts); everything else follows  *)
(* from where the clients are before and after such a shift.               *)
(***************************************************************************)
EXTENDS TelegramIndex, SequenceTheorems, FiniteSetTheorems, NaturalsInduction,
        WellFoundedInduction, TLAPS

-----------------------------------------------------------------------------
(* Slices and the index.                                                   *)

Good(s) ==
    /\ s \in Slice
    /\ s.len \in 1 .. Len(s.cells)
    /\ \A i \in 1 .. s.len : s.cells[i] \in ClientIDs
    /\ \A i, j \in 1 .. s.len : s.cells[i] = s.cells[j] => i = j

Holds(s, c) == \E i \in 1 .. s.len : s.cells[i] = c

GoodIndex(idx) ==
    /\ idx \in [TgUsers -> Slice \cup {None}]
    /\ \A u \in TgUsers : idx[u] # None => Good(idx[u])

Under(idx, u, c) == idx[u] # None /\ Holds(idx[u], c)

-----------------------------------------------------------------------------
(* The invariant.                                                          *)

(* The index has the client where its file says, and nowhere else.         *)
Agrees(c) ==
    \A u \in TgUsers : /\ Under(index, u, c) => c \in Owned(u)
                       /\ c \in Owned(u) => Under(index, u, c) \/ c \in unsaved

(* What a request is to do makes index and file agree.                     *)
WillAgree(t) ==
    \A u \in TgUsers :
        IF t.op = "index" THEN /\ u = t.tg => t.client \in Owned(u)
                               /\ t.client \in Owned(u) => u = t.tg \/ t.client \in unsaved
                          ELSE ~Under(index, u, t.client)

Settled == \A c \in ClientIDs \ (crossed \cup Changing) : Agrees(c)

(* ... and no other request is changing the client meanwhile.              *)
Pending ==
    \A r \in Requests :
        request[r] # Done /\ request[r].client \notin crossed =>
            /\ WillAgree(request[r])
            /\ \A q \in Requests \ {r} :
                  request[q] # Done => request[q].client # request[r].client

StoreInv == TypeOK /\ GoodIndex(index) /\ Settled /\ Pending

(* A client the delivery may send without having been told since.          *)
Expected(c) == c \in Owned(delivery.user) \cup delivery.touched \cup crossed

(* A place the delivery has still to read, or has read and not sent.       *)
Ahead(c, p) ==
    /\ p \in delivery.i .. delivery.len
    /\ Cells[p] = c
    /\ p = delivery.i /\ delivery.id # None => delivery.id = c
    /\ delivery.cells = None => p <= index[delivery.user].len

DeliveryInv ==
    Delivering =>
        /\ delivery.cells = None => index[delivery.user] # None
        /\ delivery.i \in 1 .. (delivery.len + 1)
        /\ delivery.len <= Len(Cells)
        /\ \A p \in 1 .. delivery.len : Cells[p] \in ClientIDs /\ Expected(Cells[p])
        /\ delivery.id # None => delivery.i <= delivery.len /\ Expected(delivery.id)
        /\ Changing \subseteq delivery.touched
        /\ delivery.owed \cap delivery.touched = {}
        /\ \A c \in delivery.owed : \E p \in Nat : Ahead(c, p)
        /\ delivery.astray \subseteq delivery.touched \cup crossed

IInv == StoreInv /\ DeliveryInv

-----------------------------------------------------------------------------
(* Slices.                                                                 *)

LEMMA LeastNumber ==
    ASSUME NEW S \in SUBSET Nat, S # {}
    PROVE  \E x \in S : \A y \in S : x <= y
<1>1. PICK x \in S : \A y \in S : ~(<<y, x>> \in OpToRel(<, Nat))
  BY NatLessThanWellFounded, WFMin
<1>2. \A y \in S : ~(y < x)
  BY <1>1 DEF OpToRel
<1> QED
  BY <1>2

(* The place of client c in s, one past the end when it has none.          *)
Place(s, c, p) ==
    /\ p \in 1 .. (s.len + 1)
    /\ p <= s.len => s.cells[p] = c
    /\ \A i \in 1 .. s.len : s.cells[i] = c => i = p

(* The ids behind place p one place further to the front.                  *)
Shifted(s, p) ==
    [cells |-> [i \in 1 .. Len(s.cells) |->
                    IF i < p \/ i >= s.len THEN s.cells[i] ELSE s.cells[i + 1]],
     len   |-> IF p <= s.len THEN s.len - 1 ELSE s.len]

(* A client has one place in a good slice.                                 *)
LEMMA PlaceExists ==
    ASSUME NEW s, Good(s), NEW c
    PROVE  \E p \in Nat : Place(s, c, p)
<1>1. s.len \in Nat
  BY DEF Good, Slice
<1>2. CASE Holds(s, c)
  <2>1. PICK p \in 1 .. s.len : s.cells[p] = c
    BY <1>2 DEF Holds
  <2>2. Place(s, c, p)
    BY <1>1, <2>1 DEF Place, Good
  <2> QED
    BY <1>1, <2>2
<1>3. CASE ~Holds(s, c)
  <2>1. Place(s, c, s.len + 1)
    BY <1>1, <1>3 DEF Place, Holds
  <2> QED
    BY <1>1, <2>1
<1> QED
  BY <1>2, <1>3

(* The bounds of a good slice.                                             *)
LEMMA GoodCells ==
    ASSUME NEW s, Good(s)
    PROVE  /\ s.len \in Nat \ {0} /\ s.cells \in Array /\ Len(s.cells) \in Nat
           /\ s.len <= Len(s.cells)
           /\ \A i \in 1 .. Len(s.cells) : s.cells[i] \in ClientIDs \cup {None}
           /\ s = [cells |-> s.cells, len |-> s.len]
BY DEF Good, Slice, Array

(* The first n ids without the one at place p.                             *)
Kept(s, p, n) ==
    [i \in 1 .. (IF p <= n THEN n - 1 ELSE n) |-> IF i < p THEN s.cells[i] ELSE s.cells[i + 1]]

(* It is a sequence of clients, shorter by one once it is past p.          *)
LEMMA KeptSeq ==
    ASSUME NEW s, Good(s), NEW c, NEW p, Place(s, c, p), NEW n \in 0 .. s.len
    PROVE  /\ Kept(s, p, n) \in Seq(ClientIDs)
           /\ Len(Kept(s, p, n)) = IF p <= n THEN n - 1 ELSE n
<1>1. s.len \in Nat /\ p \in Nat /\ p >= 1 /\ n \in Nat
  BY GoodCells DEF Place
<1> DEFINE m == IF p <= n THEN n - 1 ELSE n
<1>2. m \in Nat
  BY <1>1
<1>3. \A i \in 1 .. m : (IF i < p THEN s.cells[i] ELSE s.cells[i + 1]) \in ClientIDs
  BY <1>1 DEF Good
<1> HIDE DEF m
<1>4. Kept(s, p, n) = [i \in 1 .. m |-> IF i < p THEN s.cells[i] ELSE s.cells[i + 1]]
  BY DEF Kept, m
<1>5. Kept(s, p, n) \in [1 .. m -> ClientIDs]
  BY <1>3, <1>4
<1> QED
  BY <1>2, <1>5, IsASeq DEF m

(* It grows as the filter does: every id but c is appended.                *)
LEMMA KeptStep ==
    ASSUME NEW s, Good(s), NEW c, NEW p, Place(s, c, p), NEW n \in 1 .. s.len
    PROVE  Kept(s, p, n) = IF s.cells[n] = c THEN Kept(s, p, n - 1)
                            ELSE Append(Kept(s, p, n - 1), s.cells[n])
<1>1. s.len \in Nat /\ p \in Nat /\ p >= 1 /\ n \in Nat /\ n - 1 \in 0 .. s.len /\ n \in 0 .. s.len
  BY GoodCells DEF Place
<1>2. /\ Kept(s, p, n) \in Seq(ClientIDs) /\ Kept(s, p, n - 1) \in Seq(ClientIDs)
      /\ Len(Kept(s, p, n)) = IF p <= n THEN n - 1 ELSE n
      /\ Len(Kept(s, p, n - 1)) = IF p <= n - 1 THEN (n - 1) - 1 ELSE n - 1
  BY <1>1, KeptSeq
<1>3. s.cells[n] \in ClientIDs
  BY DEF Good
<1>4. CASE s.cells[n] = c
  <2>1. n = p
    BY <1>4 DEF Place
  <2> QED
    BY <1>1, <1>4, <2>1 DEF Kept
<1>5. CASE s.cells[n] # c
  <2>1. n # p
    BY <1>1, <1>5 DEF Place
  <2> DEFINE a == Append(Kept(s, p, n - 1), s.cells[n])
  <2>2. a \in Seq(ClientIDs) /\ Len(a) = Len(Kept(s, p, n - 1)) + 1
    BY <1>2, <1>3, AppendProperties
  <2>3. Len(a) = Len(Kept(s, p, n))
    BY <1>1, <1>2, <2>1, <2>2
  <2>4. ASSUME NEW i \in 1 .. Len(a) PROVE a[i] = Kept(s, p, n)[i]
    <3>1. CASE i = Len(a)
      <4>1. a[i] = s.cells[n]
        BY <1>2, <1>3, <3>1, <2>2, AppendProperties
      <4>2. Kept(s, p, n)[i] = IF i < p THEN s.cells[i] ELSE s.cells[i + 1]
        BY <1>1, <1>2, <2>3, <2>4 DEF Kept
      <4>3. IF i < p THEN i = n ELSE i + 1 = n
        BY <1>1, <1>2, <2>1, <2>2, <3>1
      <4> QED
        BY <4>1, <4>2, <4>3
    <3>2. CASE i # Len(a)
      <4>1. i \in 1 .. Len(Kept(s, p, n - 1)) /\ i \in 1 .. Len(Kept(s, p, n))
        BY <1>1, <1>2, <2>2, <2>3, <2>4, <3>2
      <4>2. a[i] = Kept(s, p, n - 1)[i]
        BY <1>2, <1>3, <4>1, AppendProperties
      <4>3. Kept(s, p, n - 1)[i] = IF i < p THEN s.cells[i] ELSE s.cells[i + 1]
        BY <1>1, <1>2, <4>1 DEF Kept
      <4>4. Kept(s, p, n)[i] = IF i < p THEN s.cells[i] ELSE s.cells[i + 1]
        BY <1>1, <1>2, <4>1 DEF Kept
      <4> QED
        BY <4>2, <4>3, <4>4
    <3> QED
      BY <3>1, <3>2
  <2>5. a = Kept(s, p, n)
    <3> HIDE DEF a
    <3> QED
      BY <1>2, <2>2, <2>3, <2>4, SeqEqual
  <2> QED
    BY <1>5, <2>5
<1> QED
  BY <1>4, <1>5

(* Filtering one client out shifts what is behind it.                      *)
LEMMA FilterShifts ==
    ASSUME NEW s, Good(s), NEW c, NEW p, Place(s, c, p)
    PROVE  filterStringSlice(s, c) = Shifted(s, p)
<1>1. s.len \in Nat /\ p \in Nat /\ p >= 1 /\ s.len <= Len(s.cells) /\ Len(s.cells) \in Nat
  BY GoodCells DEF Place
<1> DEFINE Defines(f) ==
        f = [n \in 0 .. s.len |->
                IF n = 0 THEN << >>
                ELSE IF s.cells[n] = c THEN f[n - 1] ELSE Append(f[n - 1], s.cells[n])]
<1> DEFINE g == [n \in 0 .. s.len |-> Kept(s, p, n)]
<1>2. g[0] = << >>
  <2>1. Kept(s, p, 0) \in Seq(ClientIDs) /\ Len(Kept(s, p, 0)) = 0
    BY <1>1, KeptSeq
  <2> QED
    BY <1>1, <2>1, EmptySeq
<1>3. \A n \in 0 .. s.len :
        g[n] = IF n = 0 THEN << >>
               ELSE IF s.cells[n] = c THEN g[n - 1] ELSE Append(g[n - 1], s.cells[n])
  <2> SUFFICES ASSUME NEW n \in 0 .. s.len, n # 0
               PROVE  g[n] = IF s.cells[n] = c THEN g[n - 1] ELSE Append(g[n - 1], s.cells[n])
    BY <1>2
  <2>1. n \in 1 .. s.len /\ n - 1 \in 0 .. s.len
    BY <1>1
  <2>2. g[n] = Kept(s, p, n) /\ g[n - 1] = Kept(s, p, n - 1)
    BY <2>1
  <2> QED
    <3> HIDE DEF g
    <3>1. Kept(s, p, n) = IF s.cells[n] = c THEN Kept(s, p, n - 1)
                          ELSE Append(Kept(s, p, n - 1), s.cells[n])
      BY <2>1, KeptStep
    <3> QED
      BY <2>2, <3>1
<1>4. Defines(g)
  BY <1>3
<1> DEFINE f == CHOOSE h : Defines(h)
<1>5. Defines(f)
  BY <1>4
<1>6. filterStringSlice(s, c) =
        [cells |-> f[s.len] \o SubSeq(s.cells, Len(f[s.len]) + 1, Len(s.cells)), len |-> Len(f[s.len])]
  BY DEF filterStringSlice
<1> HIDE DEF f, g
<1>7. \A n \in 0 .. s.len :
        f[n] = IF n = 0 THEN << >>
               ELSE IF s.cells[n] = c THEN f[n - 1] ELSE Append(f[n - 1], s.cells[n])
  BY <1>5
<1> DEFINE Bad == {n \in 0 .. s.len : f[n] # g[n]}
<1>8. Bad = {}
  <2> SUFFICES ASSUME Bad # {} PROVE FALSE
    OBVIOUS
  <2>1. Bad \in SUBSET Nat
    BY <1>1
  <2>2. PICK k \in Bad : \A j \in Bad : k <= j
    <3> HIDE DEF Bad
    <3> QED
      BY <2>1, LeastNumber
  <2>3. k # 0
    BY <2>2, <1>3, <1>7
  <2>4. k - 1 \in 0 .. s.len /\ ~(k <= k - 1)
    BY <1>1, <2>2, <2>3
  <2>5. f[k - 1] = g[k - 1]
    BY <2>2, <2>4
  <2> QED
    BY <1>3, <1>7, <2>2, <2>3, <2>5
<1>9. s.len \in 0 .. s.len /\ f[s.len] = Kept(s, p, s.len)
  <2>1. s.len \in 0 .. s.len
    BY <1>1
  <2> QED
    BY <1>8, <2>1 DEF g
<1> DEFINE all == Kept(s, p, s.len)
<1> DEFINE m == IF p <= s.len THEN s.len - 1 ELSE s.len
<1>10. all \in Seq(ClientIDs) /\ Len(all) = m
  BY <1>9, KeptSeq
<1>11. m \in 0 .. Len(s.cells) /\ m \in Nat /\ s.len - 1 <= m /\ m <= s.len
  BY <1>1
<1> DEFINE rest == SubSeq(s.cells, m + 1, Len(s.cells))
<1>12. s.cells \in Seq(ClientIDs \cup {None})
  BY GoodCells DEF Array
<1>13. /\ rest \in Seq(ClientIDs \cup {None}) /\ Len(rest) = Len(s.cells) - m
       /\ \A i \in 1 .. (Len(s.cells) - m) : rest[i] = s.cells[m + i]
  <2> HIDE DEF m
  <2>1. m + 1 \in Int /\ Len(s.cells) \in Int /\ \A i \in m + 1 .. Len(s.cells) : i \in 1 .. Len(s.cells)
    BY <1>1, <1>11
  <2>2. \A i \in m + 1 .. Len(s.cells) : s.cells[i] \in ClientIDs \cup {None}
    BY <2>1, GoodCells
  <2>3. /\ rest \in Seq(ClientIDs \cup {None})
        /\ Len(rest) = IF m + 1 <= Len(s.cells) THEN Len(s.cells) - (m + 1) + 1 ELSE 0
        /\ \A i \in 1 .. (Len(s.cells) - (m + 1) + 1) : rest[i] = s.cells[(m + 1) + i - 1]
    BY <2>1, <2>2, SubSeqProperties
  <2> HIDE DEF rest
  <2>4. /\ Len(s.cells) - (m + 1) + 1 = Len(s.cells) - m
        /\ (IF m + 1 <= Len(s.cells) THEN Len(s.cells) - (m + 1) + 1 ELSE 0) = Len(s.cells) - m
    BY <1>1, <1>11
  <2>5. \A i \in 1 .. (Len(s.cells) - m) : (m + 1) + i - 1 = m + i
    BY <1>1, <1>11
  <2> QED
    BY <2>3, <2>4, <2>5
<1>14. all \in Seq(ClientIDs \cup {None})
  BY <1>10, SeqMonotonic
<1> HIDE DEF rest
<1>15. /\ all \o rest \in Seq(ClientIDs \cup {None}) /\ Len(all \o rest) = Len(s.cells)
       /\ \A i \in 1 .. Len(s.cells) :
            (all \o rest)[i] = IF i <= m THEN all[i] ELSE rest[i - m]
  <2> HIDE DEF m, all
  <2>1. /\ all \o rest \in Seq(ClientIDs \cup {None}) /\ Len(all \o rest) = Len(all) + Len(rest)
        /\ \A i \in 1 .. (Len(all) + Len(rest)) :
             (all \o rest)[i] = IF i <= Len(all) THEN all[i] ELSE rest[i - Len(all)]
    BY <1>13, <1>14, ConcatProperties
  <2> QED
    BY <1>1, <1>10, <1>11, <1>13, <2>1
<1>16. ASSUME NEW i \in 1 .. Len(s.cells)
       PROVE  (all \o rest)[i] =
                IF i < p \/ i >= s.len THEN s.cells[i] ELSE s.cells[i + 1]
  <2>1. CASE i <= m
    <3>1. all[i] = IF i < p THEN s.cells[i] ELSE s.cells[i + 1]
      BY <1>1, <2>1 DEF Kept
    <3>2. i < p \/ i < s.len
      BY <1>1, <2>1 DEF Place
    <3> QED
      BY <1>1, <1>15, <2>1, <3>1, <3>2
  <2>2. CASE ~(i <= m)
    <3>1. i - m \in 1 .. (Len(s.cells) - m) /\ m + (i - m) = i
      <4> HIDE DEF m
      <4> QED
        BY <1>1, <1>11, <1>16, <2>2
    <3>2. rest[i - m] = s.cells[i]
      BY <1>13, <3>1
    <3>3. i >= s.len
      BY <1>1, <2>2
    <3> QED
      BY <1>15, <2>2, <3>2, <3>3
  <2> QED
    BY <2>1, <2>2
<1>17. all \o rest = Shifted(s, p).cells
  <2> DEFINE sh == [i \in 1 .. Len(s.cells) |->
                    IF i < p \/ i >= s.len THEN s.cells[i] ELSE s.cells[i + 1]]
  <2>1. all \o rest = [i \in 1 .. Len(s.cells) |-> (all \o rest)[i]]
    <3> HIDE DEF all
    <3> QED
      BY <1>15, LenProperties
  <2>2. all \o rest = sh
    <3> HIDE DEF all
    <3> QED
      BY <1>16, <2>1
  <2> QED
    BY <2>2 DEF Shifted
<1>18. filterStringSlice(s, c) = [cells |-> all \o rest, len |-> m]
  <2> HIDE DEF all
  <2> QED
    BY <1>6, <1>9, <1>10 DEF rest, all
<1> QED
  BY <1>17, <1>18 DEF Shifted

(* A slice is not the absence of one.                                      *)
LEMMA SliceNotNone ==
    ASSUME NEW s \in Slice
    PROVE  s # None
BY TelegramAssumption

(* Length and cells after filtering.                                       *)
LEMMA FilterFacts ==
    ASSUME NEW s, Good(s), NEW c, NEW p, Place(s, c, p),
           NEW t, t = filterStringSlice(s, c)
    PROVE  /\ t \in Slice /\ Len(t.cells) = Len(s.cells)
           /\ t.len = IF p <= s.len THEN s.len - 1 ELSE s.len
           /\ \A i \in 1 .. Len(s.cells) :
                t.cells[i] = IF i < p \/ i >= s.len THEN s.cells[i] ELSE s.cells[i + 1]
<1>1. s.len \in Nat /\ Len(s.cells) \in Nat /\ s.len >= 1 /\ s.len <= Len(s.cells) /\ p \in Nat
  BY GoodCells DEF Place
<1>2. t = Shifted(s, p)
  BY FilterShifts
<1> DEFINE cells == [i \in 1 .. Len(s.cells) |->
                    IF i < p \/ i >= s.len THEN s.cells[i] ELSE s.cells[i + 1]]
<1>3. \A i \in 1 .. Len(s.cells) :
        (IF i < p \/ i >= s.len THEN s.cells[i] ELSE s.cells[i + 1]) \in ClientIDs \cup {None}
  <2> SUFFICES ASSUME NEW i \in 1 .. Len(s.cells), ~(i < p \/ i >= s.len)
               PROVE  s.cells[i + 1] \in ClientIDs \cup {None}
    BY GoodCells
  <2>1. i + 1 \in 1 .. Len(s.cells)
    BY <1>1
  <2> QED
    BY <2>1, GoodCells
<1>4. cells \in Array /\ Len(cells) = Len(s.cells)
  BY <1>1, <1>3, IsASeq DEF Array
<1>5. t.cells = cells /\ t.len = IF p <= s.len THEN s.len - 1 ELSE s.len
  BY <1>2 DEF Shifted
<1>6. t = [cells |-> t.cells, len |-> t.len]
  BY <1>2 DEF Shifted
<1>7. t.len \in Nat
  BY <1>1, <1>5
<1>8. t \in Slice
  <2> HIDE DEF cells
  <2> QED
    BY <1>4, <1>5, <1>6, <1>7 DEF Slice
<1> QED
  BY <1>4, <1>5, <1>8

(* Filtering takes the client out, and nothing else.                       *)
LEMMA FilterHolds ==
    ASSUME NEW s, Good(s), NEW c, NEW t, t = filterStringSlice(s, c)
    PROVE  /\ t \in Slice /\ t # None
           /\ t.len # 0 => Good(t)
           /\ \A d : Holds(t, d) <=> Holds(s, d) /\ d # c
           /\ t.len = 0 => \A d : ~(Holds(s, d) /\ d # c)
<1>1. PICK p \in Nat : Place(s, c, p)
  BY PlaceExists
<1>2. s.len \in Nat /\ Len(s.cells) \in Nat /\ s.len >= 1 /\ s.len <= Len(s.cells) /\ p >= 1
  BY <1>1, GoodCells DEF Place
<1>3. /\ t \in Slice /\ Len(t.cells) = Len(s.cells)
      /\ t.len = IF p <= s.len THEN s.len - 1 ELSE s.len
      /\ \A i \in 1 .. Len(s.cells) :
            t.cells[i] = IF i < p \/ i >= s.len THEN s.cells[i] ELSE s.cells[i + 1]
  BY <1>1, FilterFacts
<1>4. t.len \in Nat /\ t.len <= s.len
  BY <1>2, <1>3
<1>5. ASSUME NEW i \in 1 .. t.len
      PROVE  /\ t.cells[i] = IF i < p THEN s.cells[i] ELSE s.cells[i + 1]
             /\ i \in 1 .. s.len /\ i # p => i \in 1 .. s.len
             /\ i >= p => i + 1 \in 1 .. s.len
  <2>1. i \in 1 .. Len(s.cells) /\ i <= s.len
    BY <1>2, <1>4
  <2>2. i < p \/ i < s.len
    BY <1>2, <1>3, <1>4
  <2> QED
    BY <1>2, <1>3, <1>4, <2>1, <2>2
<1>6. ASSUME t.len # 0 PROVE Good(t)
  <2>1. t.len \in 1 .. Len(t.cells)
    BY <1>2, <1>3, <1>4, <1>6
  <2>2. \A i \in 1 .. t.len : t.cells[i] \in ClientIDs
    BY <1>2, <1>4, <1>5 DEF Good
  <2>3. ASSUME NEW i \in 1 .. t.len, NEW j \in 1 .. t.len, t.cells[i] = t.cells[j] PROVE i = j
    <3> DEFINE k == IF i < p THEN i ELSE i + 1
    <3> DEFINE l == IF j < p THEN j ELSE j + 1
    <3>1. k \in 1 .. s.len /\ l \in 1 .. s.len /\ s.cells[k] = s.cells[l]
      BY <1>2, <1>4, <1>5, <2>3
    <3>2. k = l
      <4> HIDE DEF k, l
      <4> QED
        BY <3>1 DEF Good
    <3> QED
      BY <1>2, <1>4, <3>2
  <2> QED
    BY <1>3, <2>1, <2>2, <2>3 DEF Good
<1>7. ASSUME NEW d, Holds(t, d) PROVE Holds(s, d) /\ d # c
  <2>1. PICK i \in 1 .. t.len : t.cells[i] = d
    BY <1>7 DEF Holds
  <2> DEFINE k == IF i < p THEN i ELSE i + 1
  <2>2. k \in 1 .. s.len /\ s.cells[k] = d /\ k # p
    BY <1>2, <1>4, <1>5, <2>1
  <2> HIDE DEF k
  <2> QED
    BY <1>1, <2>2 DEF Holds, Place
<1>8. ASSUME NEW d, Holds(s, d), d # c PROVE Holds(t, d)
  <2>1. PICK k \in 1 .. s.len : s.cells[k] = d
    BY <1>8 DEF Holds
  <2>2. k # p
    BY <1>1, <1>8, <2>1 DEF Place
  <2> DEFINE i == IF k < p THEN k ELSE k - 1
  <2>3. i \in 1 .. t.len /\ (i < p <=> k < p)
    BY <1>1, <1>2, <1>3, <2>2 DEF Place
  <2>4. t.cells[i] = d
    <3>1. CASE k < p
      BY <1>5, <2>1, <2>3, <3>1
    <3>2. CASE ~(k < p)
      <4>1. i = k - 1 /\ i + 1 = k
        BY <3>2
      <4>2. t.cells[i] = s.cells[i + 1]
        <5> HIDE DEF i
        <5> QED
          BY <1>5, <2>3, <3>2
      <4> QED
        BY <2>1, <4>1, <4>2
    <3> QED
      BY <3>1, <3>2
  <2> HIDE DEF i
  <2> QED
    BY <2>3, <2>4 DEF Holds
<1>9. \A d : Holds(t, d) => Holds(s, d) /\ d # c
  BY <1>7
<1>10. \A d : Holds(s, d) /\ d # c => Holds(t, d)
  BY <1>8
<1>11. t.len = 0 => \A d : ~Holds(t, d)
  BY DEF Holds
<1> QED
  BY <1>3, <1>6, <1>9, <1>10, <1>11, SliceNotNone

(* What an appended client changes.                                        *)
LEMMA AppendHolds ==
    ASSUME NEW s, s # None => Good(s), NEW c \in ClientIDs, s # None => ~Holds(s, c),
           NEW t, t = Appended(s, c)
    PROVE  /\ Good(t) /\ t # None
           /\ \A d : Holds(t, d) <=> d = c \/ (s # None /\ Holds(s, d))
           /\ HasRoom(s) => /\ Len(t.cells) = Len(s.cells) /\ t.len = s.len + 1
                            /\ \A i \in 1 .. Len(s.cells) :
                                 t.cells[i] = IF i = s.len + 1 THEN c ELSE s.cells[i]
<1>1. CASE s = None
  <2>1. t = [cells |-> <<c>>, len |-> 1] /\ ~HasRoom(s)
    BY <1>1 DEF Appended, HasRoom
  <2>2. t \in Slice
    BY <2>1 DEF Slice, Array
  <2>3. \A i \in 1 .. 1 : <<c>>[i] = c
    OBVIOUS
  <2>4. t.cells = <<c>> /\ t.len = 1 /\ Len(t.cells) = 1
    BY <2>1
  <2>5. Good(t)
    BY <2>2, <2>3, <2>4 DEF Good
  <2>6. \A d : Holds(t, d) <=> d = c
    BY <2>3, <2>4 DEF Holds
  <2> QED
    BY <1>1, <2>1, <2>2, <2>5, <2>6, SliceNotNone
<1>2. CASE s # None
  <2>1. Good(s) /\ ~Holds(s, c)
    BY <1>2
  <2>2. /\ s.len \in Nat \ {0} /\ s.cells \in Array /\ Len(s.cells) \in Nat
        /\ s.len <= Len(s.cells)
        /\ \A i \in 1 .. Len(s.cells) : s.cells[i] \in ClientIDs \cup {None}
    BY <2>1, GoodCells
  <2> SUFFICES /\ t \in Slice /\ t.len = s.len + 1 /\ t.len <= Len(t.cells)
               /\ \A i \in 1 .. s.len : t.cells[i] = s.cells[i]
               /\ t.cells[s.len + 1] = c
               /\ HasRoom(s) => /\ Len(t.cells) = Len(s.cells)
                                /\ \A i \in 1 .. Len(s.cells) :
                                    t.cells[i] = IF i = s.len + 1 THEN c ELSE s.cells[i]
    <3>1. t.len \in 1 .. Len(t.cells)
      BY <2>2 DEF Slice, Array
    <3>2. \A i \in 1 .. t.len : i \in 1 .. s.len \/ i = s.len + 1
      BY <2>2
    <3>3. \A i \in 1 .. s.len : i \in 1 .. t.len
      BY <2>2
    <3>4. s.len + 1 \in 1 .. t.len
      BY <2>2
    <3>5. \A i \in 1 .. t.len : t.cells[i] \in ClientIDs
      BY <2>1, <3>2 DEF Good
    <3>6. \A i, j \in 1 .. t.len : t.cells[i] = t.cells[j] => i = j
      <4>1. \A i \in 1 .. s.len : t.cells[i] # c
        BY <2>1 DEF Holds
      <4>2. \A i, j \in 1 .. s.len : t.cells[i] = t.cells[j] => i = j
        BY <2>1 DEF Good
      <4> QED
        BY <3>2, <4>1, <4>2
    <3>7. \A d : Holds(t, d) <=> d = c \/ Holds(s, d)
      BY <3>2, <3>3, <3>4 DEF Holds
    <3> QED
      BY <1>2, <3>1, <3>5, <3>6, <3>7, SliceNotNone DEF Good
  <2>3. CASE HasRoom(s)
    <3>1. s.len + 1 \in 1 .. Len(s.cells)
      BY <2>2, <2>3 DEF HasRoom
    <3>2. t = [cells |-> [s.cells EXCEPT ![s.len + 1] = c], len |-> s.len + 1]
      BY <1>2, <2>3 DEF Appended
    <3>3. t.cells = [s.cells EXCEPT ![s.len + 1] = c] /\ t.len = s.len + 1
      BY <3>2
    <3>4. t.cells \in Array /\ Len(t.cells) = Len(s.cells)
      BY <2>2, <3>1, <3>3, ExceptSeq DEF Array
    <3>5. t \in Slice
      BY <2>2, <3>2, <3>3, <3>4 DEF Slice
    <3>6. DOMAIN s.cells = 1 .. Len(s.cells)
      BY <2>2, LenProperties DEF Array
    <3>7. \A i \in 1 .. Len(s.cells) : t.cells[i] = IF i = s.len + 1 THEN c ELSE s.cells[i]
      BY <3>3, <3>6
    <3> QED
      BY <2>2, <3>1, <3>3, <3>4, <3>5, <3>7
  <2>4. CASE ~HasRoom(s)
    <3>1. s.len = Len(s.cells)
      BY <1>2, <2>2, <2>4 DEF HasRoom
    <3> DEFINE new == [i \in DOMAIN s.cells |-> IF i = 1 THEN c ELSE None]
    <3>2. t = [cells |-> s.cells \o new, len |-> s.len + 1]
      BY <1>2, <2>4 DEF Appended
    <3>3. DOMAIN s.cells = 1 .. Len(s.cells)
      BY <2>2, LenProperties DEF Array
    <3>4. new \in Array /\ Len(new) = Len(s.cells) /\ new[1] = c
      <4>1. new \in [1 .. Len(s.cells) -> ClientIDs \cup {None}]
        BY <3>3
      <4>2. 1 \in DOMAIN s.cells
        BY <2>2, <3>3
      <4>3. new[1] = c
        BY <4>2
      <4> HIDE DEF new
      <4> QED
        BY <2>2, <4>1, <4>3, IsASeq DEF Array
    <3> HIDE DEF new
    <3>5. /\ s.cells \o new \in Array /\ Len(s.cells \o new) = Len(s.cells) + Len(new)
          /\ \A i \in 1 .. (Len(s.cells) + Len(new)) :
               (s.cells \o new)[i] = IF i <= Len(s.cells) THEN s.cells[i] ELSE new[i - Len(s.cells)]
      BY <2>2, <3>4, ConcatProperties DEF Array
    <3>6. t.cells = s.cells \o new /\ t.len = s.len + 1
      BY <3>2
    <3>7. t \in Slice
      BY <2>2, <3>2, <3>5 DEF Slice
    <3>8. \A i \in 1 .. s.len : t.cells[i] = s.cells[i]
      BY <2>2, <3>1, <3>4, <3>5, <3>6
    <3>9. t.cells[s.len + 1] = c
      BY <2>2, <3>1, <3>4, <3>5, <3>6
    <3>10. t.len <= Len(t.cells)
      BY <2>2, <3>1, <3>4, <3>5, <3>6
    <3> QED
      BY <2>4, <3>6, <3>7, <3>8, <3>9, <3>10
  <2> QED
    BY <2>3, <2>4
<1> QED
  BY <1>1, <1>2

(* The ids of a good slice are the clients it holds, each once.            *)
LEMMA IdsFacts ==
    ASSUME NEW s, Good(s)
    PROVE  /\ Ids(s) \in Seq(ClientIDs) /\ IsInjective(Ids(s))
           /\ \A c : c \in ToSet(Ids(s)) <=> Holds(s, c)
<1>1. s.len \in Nat /\ 1 \in Int /\ s # None
  BY GoodCells, SliceNotNone DEF Good
<1>2. \A i \in 1 .. s.len : s.cells[i] \in ClientIDs
  BY DEF Good
<1>3. Ids(s) = SubSeq(s.cells, 1, s.len)
  BY <1>1 DEF Ids
<1>4. /\ Ids(s) \in Seq(ClientIDs)
      /\ Len(Ids(s)) = IF 1 <= s.len THEN s.len - 1 + 1 ELSE 0
      /\ \A i \in 1 .. (s.len - 1 + 1) : Ids(s)[i] = s.cells[1 + i - 1]
  BY <1>1, <1>2, <1>3, SubSeqProperties
<1>5. Len(Ids(s)) = s.len /\ \A i \in 1 .. s.len : Ids(s)[i] = s.cells[i]
  BY <1>1, <1>4
<1>6. DOMAIN Ids(s) = 1 .. s.len
  BY <1>4, <1>5, LenProperties
<1>7. IsInjective(Ids(s))
  BY <1>5, <1>6 DEF IsInjective, Good
<1> QED
  BY <1>4, <1>5, <1>6, <1>7 DEF ToSet, Holds

(* Being indexed is having a place in the slice.                           *)
LEMMA IndexedIs ==
    ASSUME GoodIndex(index), NEW u \in TgUsers, NEW c
    PROVE  c \in Indexed(u) <=> Under(index, u, c)
<1>1. CASE index[u] = None
  BY <1>1 DEF Indexed, Ids, ToSet, Under
<1>2. CASE index[u] # None
  <2>1. Good(index[u])
    BY <1>2 DEF GoodIndex
  <2> QED
    BY <1>2, <2>1, IdsFacts DEF Indexed, Under
<1> QED
  BY <1>1, <1>2

-----------------------------------------------------------------------------
(* Index changes.                                                          *)

(* Leaving the index: empty slices go, the others lose the client.         *)
LEMMA LeftHolds ==
    ASSUME NEW idx, GoodIndex(idx), NEW c, NEW left, left = WithoutEmpty(Filtered(idx, c))
    PROVE  /\ GoodIndex(left)
           /\ \A u \in TgUsers :
                left[u] = IF idx[u] = None \/ filterStringSlice(idx[u], c).len = 0
                          THEN None ELSE filterStringSlice(idx[u], c)
           /\ \A u \in TgUsers : \A d : Under(left, u, d) <=> Under(idx, u, d) /\ d # c
<1>1. \A u \in TgUsers :
        idx[u] # None =>
            /\ filterStringSlice(idx[u], c) \in Slice /\ filterStringSlice(idx[u], c) # None
            /\ filterStringSlice(idx[u], c).len # 0 => Good(filterStringSlice(idx[u], c))
            /\ \A d : Holds(filterStringSlice(idx[u], c), d) <=> Holds(idx[u], d) /\ d # c
            /\ filterStringSlice(idx[u], c).len = 0 => \A d : ~(Holds(idx[u], d) /\ d # c)
  <2> SUFFICES ASSUME NEW u \in TgUsers, idx[u] # None
               PROVE  /\ filterStringSlice(idx[u], c) \in Slice /\ filterStringSlice(idx[u], c) # None
                      /\ filterStringSlice(idx[u], c).len # 0 => Good(filterStringSlice(idx[u], c))
                      /\ \A d : Holds(filterStringSlice(idx[u], c), d) <=> Holds(idx[u], d) /\ d # c
                      /\ filterStringSlice(idx[u], c).len = 0 => \A d : ~(Holds(idx[u], d) /\ d # c)
    OBVIOUS
  <2>1. Good(idx[u])
    BY DEF GoodIndex
  <2> QED
    BY <2>1, FilterHolds
<1> DEFINE t(u) == filterStringSlice(idx[u], c)
<1>2. \A u \in TgUsers : Filtered(idx, c)[u] = IF idx[u] = None THEN None ELSE t(u)
  BY DEF Filtered
<1>3. left = [u \in TgUsers |-> IF Filtered(idx, c)[u] = None \/ Filtered(idx, c)[u].len = 0
                                THEN None ELSE Filtered(idx, c)[u]]
  BY DEF WithoutEmpty
<1>4. \A u \in TgUsers : left[u] = IF idx[u] = None \/ t(u).len = 0 THEN None ELSE t(u)
  BY <1>1, <1>2, <1>3
<1>5. \A u \in TgUsers : left[u] # None => Good(left[u]) /\ left[u] \in Slice
  BY <1>1, <1>4
<1>6. left \in [TgUsers -> Slice \cup {None}]
  <2>1. \A u \in TgUsers : left[u] \in Slice \cup {None}
    BY <1>5
  <2> QED
    BY <1>3, <2>1
<1>7. \A u \in TgUsers : \A d : Under(left, u, d) <=> Under(idx, u, d) /\ d # c
  BY <1>1, <1>4 DEF Under
<1> QED
  BY <1>4, <1>5, <1>6, <1>7 DEF GoodIndex

(* The client goes where it is sent and leaves every other place.          *)
LEMMA ReindexHolds ==
    ASSUME NEW idx, GoodIndex(idx), NEW c \in ClientIDs, NEW u \in TgUsers \cup {None},
           NEW new, new = Reindexed(idx, c, u)
    PROVE  /\ GoodIndex(new)
           /\ \A v \in TgUsers : \A d :
                Under(new, v, d) <=> IF d = c THEN v = u ELSE Under(idx, v, d)
           /\ \A v \in TgUsers :
                new[v] = IF v = u THEN Appended(WithoutEmpty(Filtered(idx, c))[u], c)
                         ELSE WithoutEmpty(Filtered(idx, c))[v]
<1> DEFINE left == WithoutEmpty(Filtered(idx, c))
<1> HIDE DEF left
<1>1. /\ GoodIndex(left)
      /\ \A v \in TgUsers : \A d : Under(left, v, d) <=> Under(idx, v, d) /\ d # c
  BY LeftHolds DEF left
<1>2. None \notin TgUsers
  BY TelegramAssumption
<1>3. CASE u = None
  <2>1. new = left
    BY <1>3 DEF Reindexed, left
  <2> QED
    BY <1>1, <1>2, <1>3, <2>1 DEF left
<1>4. CASE u # None
  <2>1. u \in TgUsers /\ new = [left EXCEPT ![u] = Appended(@, c)]
    BY <1>4 DEF Reindexed, left
  <2>2. left \in [TgUsers -> Slice \cup {None}]
    BY <1>1 DEF GoodIndex
  <2>3. \A v \in TgUsers : new[v] = IF v = u THEN Appended(left[u], c) ELSE left[v]
    BY <2>1, <2>2
  <2>4. left[u] # None => Good(left[u]) /\ ~Holds(left[u], c)
    BY <1>1, <2>1 DEF GoodIndex, Under
  <2>5. /\ Good(new[u]) /\ new[u] # None
        /\ \A d : Holds(new[u], d) <=> d = c \/ (left[u] # None /\ Holds(left[u], d))
    BY <2>1, <2>3, <2>4, AppendHolds
  <2>6. \A v \in TgUsers : new[v] # None => Good(new[v])
    BY <1>1, <2>3, <2>5 DEF GoodIndex
  <2>7. new \in [TgUsers -> Slice \cup {None}]
    BY <2>1, <2>2, <2>5 DEF Good
  <2>8. \A v \in TgUsers : \A d :
            Under(new, v, d) <=> IF d = c THEN v = u ELSE Under(idx, v, d)
    <3> SUFFICES ASSUME NEW v \in TgUsers, NEW d
                 PROVE  Under(new, v, d) <=> IF d = c THEN v = u ELSE Under(idx, v, d)
      OBVIOUS
    <3>1. CASE v = u
      BY <1>1, <2>5, <3>1 DEF Under
    <3>2. CASE v # u
      BY <1>1, <2>3, <3>2 DEF Under
    <3> QED
      BY <3>1, <3>2
  <2> QED
    BY <2>3, <2>6, <2>7, <2>8 DEF GoodIndex, left
<1> QED
  BY <1>3, <1>4

-----------------------------------------------------------------------------
(* The index built from the files.                                         *)

(* A client is its owner's and nobody else's.                              *)
LEMMA OwnedIs ==
    ASSUME file \in [ClientIDs -> {None} \cup Records]
    PROVE  /\ \A c \in ClientIDs : file[c] # None => Owner(file[c]) \in TgUsers \cup {None}
           /\ \A c : \A u \in TgUsers :
                c \in Owned(u) <=> c \in ClientIDs /\ file[c] # None /\ Owner(file[c]) = u
<1>1. \A c \in ClientIDs : file[c] # None =>
            file[c] \in [tg : TgUsers \cup {None}, enabled : BOOLEAN]
  BY TelegramAssumption
<1>2. None \notin TgUsers
  BY TelegramAssumption
<1> QED
  BY <1>1, <1>2 DEF Owner, Owned

(* Every client comes up in the order of the files.                        *)
LEMMA EveryFile ==
    ASSUME NEW order \in SetToSeqs(ClientIDs)
    PROVE  /\ Len(order) \in Nat /\ order \in [1 .. Len(order) -> ClientIDs]
           /\ \A c \in ClientIDs : \E i \in 1 .. Len(order) : order[i] = c
<1> DEFINE k == Cardinality(ClientIDs)
<1>1. IsFiniteSet(ClientIDs)
  BY TelegramAssumption
<1>2. k \in Nat
  BY <1>1, FS_CardinalityType
<1>3. order \in [1 .. k -> ClientIDs] /\ \A i, j \in 1 .. k : i # j => order[i] # order[j]
  BY DEF SetToSeqs
<1>4. order \in Injection(1 .. k, ClientIDs)
  BY <1>3 DEF Injection, IsInjective
<1>5. Cardinality(1 .. k) = k
  BY <1>2, FS_Interval
<1>6. order \in Surjection(1 .. k, ClientIDs)
  BY <1>1, <1>4, <1>5, FS_Injection
<1>7. Len(order) = k
  <2> HIDE DEF k
  <2> QED
    BY <1>2, <1>3, IsASeq
<1> QED
  BY <1>2, <1>3, <1>6, <1>7 DEF Surjection

NoIndex == [u \in TgUsers |-> None]

(* The index once the first file of the order has been taken up.           *)
Built(idx, c) ==
    IF file[c] = None \/ Owner(file[c]) = None THEN idx ELSE Reindexed(idx, c, Owner(file[c]))

(* f goes through the first m files of the order.                          *)
Builds(f, order, m) ==
    f = [n \in 0 .. m |-> IF n = 0 THEN NoIndex ELSE Built(f[n - 1], order[n])]

(* Going through all the files defines an index at each of them.           *)
LEMMA BuildExists ==
    ASSUME NEW order \in SetToSeqs(ClientIDs)
    PROVE  \E f : Builds(f, order, Len(order))
<1>1. Len(order) \in Nat
  BY EveryFile
<1> DEFINE Bad == {k \in 0 .. Len(order) : ~ \E f : Builds(f, order, k)}
<1>2. SUFFICES ASSUME Bad # {} PROVE FALSE
  <2>1. Len(order) \in 0 .. Len(order)
    BY <1>1
  <2> QED
    BY <2>1
<1>3. Bad \in SUBSET Nat
  BY <1>1
<1>4. PICK k \in Bad : \A j \in Bad : k <= j
  <2> HIDE DEF Bad
  <2> QED
    BY <1>2, <1>3, LeastNumber
<1>5. k # 0
  <2> DEFINE f == [n \in 0 .. 0 |-> NoIndex]
  <2>1. \A n \in 0 .. 0 : n = 0
    OBVIOUS
  <2>2. f = [n \in 0 .. 0 |-> IF n = 0 THEN NoIndex ELSE Built(f[n - 1], order[n])]
    BY <2>1
  <2>3. Builds(f, order, 0)
    BY <2>2 DEF Builds
  <2> QED
    BY <1>4, <2>3
<1>6. k - 1 \in 0 .. Len(order) /\ k \in Nat \ {0} /\ ~(k <= k - 1)
  BY <1>1, <1>4, <1>5
<1>7. PICK f : Builds(f, order, k - 1)
  BY <1>4, <1>6
<1> DEFINE g == [n \in 0 .. k |-> IF n = k THEN Built(f[k - 1], order[k]) ELSE f[n]]
<1>8. \A n \in 0 .. k : g[n] = IF n = 0 THEN NoIndex ELSE Built(g[n - 1], order[n])
  <2> SUFFICES ASSUME NEW n \in 0 .. k
               PROVE  g[n] = IF n = 0 THEN NoIndex ELSE Built(g[n - 1], order[n])
    OBVIOUS
  <2>1. n # k => n \in 0 .. (k - 1)
    BY <1>6
  <2>2. n # 0 => n - 1 \in 0 .. k /\ n - 1 # k /\ n - 1 \in 0 .. (k - 1)
    BY <1>6
  <2>3. n # 0 => g[n - 1] = f[n - 1]
    BY <2>2
  <2>4. CASE n = k
    BY <1>5, <2>3, <2>4
  <2>5. CASE n # k
    <3>1. f[n] = IF n = 0 THEN NoIndex ELSE Built(f[n - 1], order[n])
      BY <1>7, <2>1, <2>5 DEF Builds
    <3>2. g[n] = f[n]
      BY <2>5
    <3> HIDE DEF g
    <3> QED
      BY <2>3, <3>1, <3>2
  <2> QED
    BY <2>4, <2>5
<1>9. g = [n \in 0 .. k |-> g[n]]
  OBVIOUS
<1>10. Builds(g, order, k)
  <2> HIDE DEF g
  <2> QED
    BY <1>8, <1>9 DEF Builds
<1> QED
  BY <1>4, <1>10

(* Every client ends up where its file says.                               *)
LEMMA RebuiltFacts ==
    ASSUME file \in [ClientIDs -> {None} \cup Records], NEW order \in SetToSeqs(ClientIDs),
           NEW idx, idx = Rebuilt(order)
    PROVE  /\ GoodIndex(idx)
           /\ \A u \in TgUsers : \A c : Under(idx, u, c) <=> c \in Owned(u)
<1>1. /\ Len(order) \in Nat /\ order \in [1 .. Len(order) -> ClientIDs]
      /\ \A c \in ClientIDs : \E i \in 1 .. Len(order) : order[i] = c
  BY EveryFile
<1> DEFINE f == CHOOSE g : Builds(g, order, Len(order))
<1>2. Builds(f, order, Len(order))
  BY BuildExists
<1>3. idx = f[Len(order)]
  <2>1. \A g : Builds(g, order, Len(order)) <=>
            g = [n \in 0 .. Len(order) |->
                    IF n = 0 THEN [u \in TgUsers |-> None]
                    ELSE LET c == order[n]
                         IN  IF file[c] = None \/ Owner(file[c]) = None THEN g[n - 1]
                             ELSE Reindexed(g[n - 1], c, Owner(file[c]))]
    BY DEF Builds, Built, NoIndex
  <2> QED
    BY DEF Rebuilt, Builds, Built, NoIndex
<1> HIDE DEF f
<1>4. \A n \in 0 .. Len(order) : f[n] = IF n = 0 THEN NoIndex ELSE Built(f[n - 1], order[n])
  BY <1>2 DEF Builds
<1> DEFINE Right(n) ==
        /\ GoodIndex(f[n])
        /\ \A u \in TgUsers : \A c :
            Under(f[n], u, c) <=> c \in Owned(u) /\ \E i \in 1 .. n : order[i] = c
<1> DEFINE Bad == {n \in 0 .. Len(order) : ~Right(n)}
<1>5. Right(0)
  <2>1. f[0] = NoIndex
    BY <1>1, <1>4
  <2> QED
    BY <2>1 DEF GoodIndex, Under, NoIndex
<1>6. ASSUME NEW n \in 1 .. Len(order), Right(n - 1) PROVE Right(n)
  <2> DEFINE c == order[n]
  <2> DEFINE w == Owner(file[c])
  <2>1. n \in 0 .. Len(order) /\ n # 0 /\ c \in ClientIDs
    BY <1>1
  <2>2. f[n] = Built(f[n - 1], c)
    BY <1>4, <2>1
  <2>3. \A d : (\E i \in 1 .. n : order[i] = d) <=> d = c \/ \E i \in 1 .. (n - 1) : order[i] = d
    <3>1. \A i : i \in 1 .. n <=> i = n \/ i \in 1 .. (n - 1)
      BY <1>1
    <3> QED
      BY <3>1
  <2>4. None \notin TgUsers
    BY TelegramAssumption
  <2>5. CASE file[c] = None \/ w = None
    <3>1. f[n] = f[n - 1]
      BY <2>2, <2>5 DEF Built
    <3>2. \A u \in TgUsers : c \notin Owned(u)
      BY <2>4, <2>5, OwnedIs
    <3> HIDE DEF c
    <3> QED
      BY <1>6, <2>3, <3>1, <3>2
  <2>6. CASE ~(file[c] = None \/ w = None)
    <3>1. f[n] = Reindexed(f[n - 1], c, w)
      BY <2>2, <2>6 DEF Built
    <3>2. w \in TgUsers
      BY <2>1, <2>6, OwnedIs
    <3>3. \A u \in TgUsers : c \in Owned(u) <=> u = w
      BY <2>1, <2>6, OwnedIs
    <3>4. w \in TgUsers \cup {None}
      BY <3>2
    <3> HIDE DEF c, w
    <3>5. /\ GoodIndex(f[n])
          /\ \A v \in TgUsers : \A d :
                Under(f[n], v, d) <=> IF d = c THEN v = w ELSE Under(f[n - 1], v, d)
      BY <1>6, <2>1, <3>1, <3>4, ReindexHolds
    <3> QED
      BY <1>6, <2>3, <3>3, <3>5
  <2> QED
    BY <2>5, <2>6
<1>7. Bad = {}
  <2> SUFFICES ASSUME Bad # {} PROVE FALSE
    OBVIOUS
  <2>1. Bad \in SUBSET Nat
    BY <1>1
  <2>2. PICK k \in Bad : \A j \in Bad : k <= j
    <3> HIDE DEF Bad
    <3> QED
      BY <2>1, LeastNumber
  <2> HIDE DEF Right
  <2>3. k # 0
    BY <1>5, <2>2
  <2>4. k - 1 \in 0 .. Len(order) /\ k \in 1 .. Len(order) /\ ~(k <= k - 1)
    BY <1>1, <2>2, <2>3
  <2> QED
    BY <1>6, <2>2, <2>4
<1>8. Right(Len(order))
  <2> HIDE DEF Right
  <2>1. Len(order) \in 0 .. Len(order)
    BY <1>1
  <2> QED
    BY <1>7, <2>1
<1>9. \A u \in TgUsers : \A c \in Owned(u) : \E i \in 1 .. Len(order) : order[i] = c
  BY <1>1 DEF Owned
<1> QED
  BY <1>3, <1>8, <1>9

-----------------------------------------------------------------------------
(* Types.                                                                  *)

(* A good index has the type of the index.                                 *)
LEMMA GoodTypes ==
    ASSUME NEW idx, GoodIndex(idx)
    PROVE  /\ idx \in [TgUsers -> Slice \cup {None}]
           /\ \A u \in TgUsers :
                idx[u] # None => /\ idx[u].len \in 1 .. Len(idx[u].cells)
                                 /\ Ids(idx[u]) \in Seq(ClientIDs)
                                 /\ IsInjective(Ids(idx[u]))
<1> SUFFICES ASSUME NEW u \in TgUsers, idx[u] # None
             PROVE  /\ idx[u].len \in 1 .. Len(idx[u].cells)
                    /\ Ids(idx[u]) \in Seq(ClientIDs)
                    /\ IsInjective(Ids(idx[u]))
  BY DEF GoodIndex
<1>1. Good(idx[u])
  BY DEF GoodIndex
<1>2. idx[u].len \in 1 .. Len(idx[u].cells)
  BY <1>1 DEF Good
<1>3. Ids(idx[u]) \in Seq(ClientIDs) /\ IsInjective(Ids(idx[u]))
  BY <1>1, IdsFacts
<1> QED
  BY <1>2, <1>3

(* What a request still has to do names a client and a user.               *)
LEMMA TaskFacts ==
    ASSUME NEW t \in Tasks
    PROVE  /\ t # Done => /\ t.op \in {"index", "unlink"} /\ t.client \in ClientIDs
                          /\ t.tg \in TgUsers \cup {None}
           /\ t.op \in {"index", "unlink"} => t # Done
BY DEF Tasks, Do, Done

(* A task is made of what it is given.                                     *)
LEMMA DoFacts ==
    ASSUME NEW op \in {"index", "unlink"}, NEW c \in ClientIDs, NEW u \in TgUsers \cup {None}
    PROVE  /\ Do(op, c, u) \in Tasks /\ Do(op, c, u) # Done /\ Done \in Tasks
           /\ Do(op, c, u).op = op /\ Do(op, c, u).client = c /\ Do(op, c, u).tg = u
<1>1. Do(op, c, u) \in Tasks /\ Done \in Tasks
  BY DEF Tasks
<1>2. Do(op, c, u).op = op /\ Do(op, c, u).client = c /\ Do(op, c, u).tg = u
  BY DEF Do
<1>3. Done.op = "none"
  BY DEF Done
<1> QED
  BY <1>1, <1>2, <1>3

(* The types of a delivery's fields.                                       *)
LEMMA DeliveryFields ==
    ASSUME NEW d \in Delivery
    PROVE  /\ d # None
           /\ d.user \in TgUsers /\ d.i \in Nat /\ d.len \in Nat /\ d.cells \in Array \cup {None}
           /\ d.id \in ClientIDs \cup {None}
           /\ d.owed \subseteq ClientIDs /\ d.touched \subseteq ClientIDs
           /\ d.astray \subseteq ClientIDs
<1>1. d # None
  BY TelegramAssumption
<1> QED
  BY <1>1 DEF Delivery

(* What touching a client changes of a delivery.                           *)
LEMMA TouchedFacts ==
    ASSUME NEW d \in Delivery, NEW c \in ClientIDs, NEW e, e = Touched(d, c)
    PROVE  /\ e \in Delivery
           /\ e.user = d.user /\ e.i = d.i /\ e.len = d.len /\ e.cells = d.cells /\ e.id = d.id
           /\ e.owed = d.owed \ {c} /\ e.touched = d.touched \cup {c} /\ e.astray = d.astray
<1>1. d # None
  BY DeliveryFields
<1> DEFINE owed == d.owed \ {c}
<1> DEFINE touched == d.touched \cup {c}
<1>2. e = [d EXCEPT !.owed = owed, !.touched = touched]
  BY <1>1 DEF Touched
<1>3. owed \subseteq ClientIDs /\ touched \subseteq ClientIDs
  BY DeliveryFields
<1> HIDE DEF owed, touched
<1>4. e \in Delivery /\ e.owed = owed /\ e.touched = touched
  BY <1>2, <1>3 DEF Delivery
<1>5. e.user = d.user /\ e.i = d.i /\ e.len = d.len /\ e.cells = d.cells /\ e.id = d.id
      /\ e.astray = d.astray
  BY <1>2 DEF Delivery
<1> QED
  BY <1>4, <1>5 DEF owed, touched

(* Filtering leaves an array of ids.                                       *)
LEMMA FilterArray ==
    ASSUME NEW s, Good(s), NEW c
    PROVE  filterStringSlice(s, c).cells \in Array
BY FilterHolds DEF Slice

(* What a change of the index changes of a delivery.                       *)
LEMMA CarriedFacts ==
    ASSUME TypeOK, GoodIndex(index), DeliveryInv, Delivering, NEW c, NEW u,
           NEW d, d = Carried(c, u)
    PROVE  /\ d \in Delivery
           /\ d.user = delivery.user /\ d.i = delivery.i /\ d.len = delivery.len
           /\ d.id = delivery.id /\ d.touched = delivery.touched /\ d.astray = delivery.astray
           /\ delivery.cells # None => d = delivery
           /\ delivery.cells = None =>
                /\ d.cells = IF SameArray(c, u) THEN None
                             ELSE filterStringSlice(index[delivery.user], c).cells
                /\ d.owed = IF AlreadyPassed(c) THEN {} ELSE delivery.owed
<1>1. delivery \in Delivery /\ delivery # None
  BY DEF TypeOK, Delivering
<1>2. CASE delivery.cells # None
  BY <1>1, <1>2 DEF Carried
<1>3. CASE delivery.cells = None
  <2> DEFINE cells == IF SameArray(c, u) THEN None
                      ELSE filterStringSlice(index[delivery.user], c).cells
  <2> DEFINE owed == IF AlreadyPassed(c) THEN {} ELSE delivery.owed
  <2>1. d = [delivery EXCEPT !.cells = cells, !.owed = owed]
    BY <1>1, <1>3 DEF Carried
  <2>2. Good(index[delivery.user])
    BY <1>1, <1>3, DeliveryFields DEF DeliveryInv, Delivering, GoodIndex
  <2>3. cells \in Array \cup {None}
    BY <2>2, FilterArray
  <2>4. owed \subseteq ClientIDs
    BY <1>1, DeliveryFields
  <2> HIDE DEF cells, owed
  <2>5. d \in Delivery /\ d.cells = cells /\ d.owed = owed
    BY <1>1, <2>1, <2>3, <2>4 DEF Delivery
  <2>6. /\ d.user = delivery.user /\ d.i = delivery.i /\ d.len = delivery.len
        /\ d.id = delivery.id /\ d.touched = delivery.touched /\ d.astray = delivery.astray
    BY <1>1, <2>1 DEF Delivery
  <2> QED
    BY <1>3, <2>5, <2>6 DEF cells, owed
<1> QED
  BY <1>2, <1>3

(* What the delivery reads next is a client.                               *)
LEMMA NextCell ==
    ASSUME TypeOK, DeliveryInv, Delivering, delivery.i <= delivery.len
    PROVE  Cells[delivery.i] \in ClientIDs /\ Expected(Cells[delivery.i])
<1>1. delivery.i \in 1 .. delivery.len
  <2>1. delivery.i \in Nat /\ delivery.len \in Nat
    BY DeliveryFields DEF TypeOK, Delivering
  <2> QED
    BY <2>1 DEF DeliveryInv
<1> QED
  BY <1>1 DEF DeliveryInv

(* Every step keeps the types and the slices good.                         *)
LEMMA TypeStep ==
    ASSUME IInv, [Next]_vars
    PROVE  TypeOK' /\ GoodIndex(index)'
<1>1. TypeOK /\ GoodIndex(index) /\ DeliveryInv
  BY DEF IInv, StoreInv
<1> SUFFICES /\ file' \in [ClientIDs -> {None} \cup Records]
             /\ GoodIndex(index)'
             /\ request' \in [Requests -> Tasks]
             /\ delivery' \in Delivery \cup {None}
             /\ crossed' \subseteq ClientIDs /\ unsaved' \subseteq ClientIDs
  <2>1. GoodIndex(index')
    OBVIOUS
  <2> HIDE DEF GoodIndex
  <2> QED
    BY <2>1, GoodTypes DEF TypeOK
<1>2. /\ file \in [ClientIDs -> {None} \cup Records]
      /\ request \in [Requests -> Tasks]
      /\ delivery \in Delivery \cup {None}
      /\ crossed \subseteq ClientIDs /\ unsaved \subseteq ClientIDs
  BY <1>1 DEF TypeOK
<1>3. Done \in Tasks
  BY DEF Tasks
<1>4. ASSUME NEW r \in Requests, NEW c \in ClientIDs, NEW rec \in Records, WriteFile(r, c, rec)
      PROVE  /\ file' \in [ClientIDs -> {None} \cup Records]
             /\ GoodIndex(index)'
             /\ request' \in [Requests -> Tasks]
             /\ delivery' \in Delivery \cup {None}
             /\ crossed' \subseteq ClientIDs /\ unsaved' \subseteq ClientIDs
  <2>1. Owner(rec) \in TgUsers \cup {None}
    BY TelegramAssumption DEF Owner
  <2>2. Do("index", c, Owner(rec)) \in Tasks /\ Do("index", c, None) \in Tasks
    BY <2>1, DoFacts
  <2>3. file' \in [ClientIDs -> {None} \cup Records] /\ unsaved' \subseteq ClientIDs
    BY <1>2, <1>4 DEF WriteFile
  <2>4. request' \in [Requests -> Tasks]
    BY <1>2, <1>4, <2>2 DEF WriteFile
  <2>5. crossed' \subseteq ClientIDs
    BY <1>2, <1>4 DEF WriteFile, Begin
  <2>6. delivery' \in Delivery \cup {None}
    <3>1. delivery' = Touched(delivery, c)
      BY <1>4 DEF WriteFile
    <3>2. delivery = None => delivery' = None
      BY <3>1 DEF Touched
    <3> QED
      BY <1>2, <3>1, <3>2, TouchedFacts
  <2>7. GoodIndex(index)'
    BY <1>1, <1>4 DEF WriteFile, GoodIndex
  <2> QED
    BY <2>3, <2>4, <2>5, <2>6, <2>7
<1>5. ASSUME NEW c, NEW u PROVE Carried(c, u) \in Delivery \cup {None}
  <2>1. CASE delivery = None
    BY <2>1 DEF Carried
  <2>2. CASE delivery # None
    BY <1>1, <2>2, CarriedFacts DEF Delivering
  <2> QED
    BY <2>1, <2>2
<1>6. ASSUME NEW r \in Requests, UpdateIndex(r)
      PROVE  /\ file' \in [ClientIDs -> {None} \cup Records]
             /\ GoodIndex(index)'
             /\ request' \in [Requests -> Tasks]
             /\ delivery' \in Delivery \cup {None}
             /\ crossed' \subseteq ClientIDs /\ unsaved' \subseteq ClientIDs
  <2>1. request[r].client \in ClientIDs /\ request[r].tg \in TgUsers \cup {None}
    BY <1>2, <1>6, TaskFacts DEF UpdateIndex
  <2>2. GoodIndex(index)'
    BY <1>1, <1>6, <2>1, ReindexHolds DEF UpdateIndex
  <2>3. delivery' \in Delivery \cup {None}
    BY <1>5, <1>6 DEF UpdateIndex
  <2> QED
    BY <1>2, <1>3, <1>6, <2>2, <2>3 DEF UpdateIndex
<1>7. ASSUME NEW r \in Requests, NEW c \in ClientIDs, RemoveClient(r, c)
      PROVE  /\ file' \in [ClientIDs -> {None} \cup Records]
             /\ GoodIndex(index)'
             /\ request' \in [Requests -> Tasks]
             /\ delivery' \in Delivery \cup {None}
             /\ crossed' \subseteq ClientIDs /\ unsaved' \subseteq ClientIDs
  <2>1. GoodIndex(index)'
    BY <1>1, <1>7, ReindexHolds DEF RemoveClient
  <2>2. delivery' \in Delivery \cup {None}
    <3>1. delivery' = Touched(Carried(c, None), c)
      BY <1>7 DEF RemoveClient
    <3>2. Carried(c, None) = None => delivery' = None
      BY <3>1 DEF Touched
    <3>3. Carried(c, None) \in Delivery \cup {None}
      BY <1>5
    <3> QED
      BY <3>1, <3>2, <3>3, TouchedFacts
  <2>3. Do("unlink", c, None) \in Tasks
    BY DoFacts
  <2>4. crossed' \subseteq ClientIDs
    BY <1>2, <1>7 DEF RemoveClient, Begin
  <2> QED
    BY <1>2, <1>7, <2>1, <2>2, <2>3, <2>4 DEF RemoveClient
<1>8. ASSUME NEW r \in Requests, Unlink(r)
      PROVE  /\ file' \in [ClientIDs -> {None} \cup Records]
             /\ GoodIndex(index)'
             /\ request' \in [Requests -> Tasks]
             /\ delivery' \in Delivery \cup {None}
             /\ crossed' \subseteq ClientIDs /\ unsaved' \subseteq ClientIDs
  <2>1. request[r].client \in ClientIDs
    BY <1>2, <1>8, TaskFacts DEF Unlink
  <2>2. file' \in [ClientIDs -> {None} \cup Records] /\ unsaved' \subseteq ClientIDs
    BY <1>2, <1>8, <2>1 DEF Unlink
  <2>3. GoodIndex(index)'
    BY <1>1, <1>8 DEF Unlink, GoodIndex
  <2> QED
    BY <1>2, <1>3, <1>8, <2>2, <2>3 DEF Unlink
<1>9. ASSUME UNCHANGED <<file, index, request, crossed, unsaved>>, delivery' \in Delivery \cup {None}
      PROVE  /\ file' \in [ClientIDs -> {None} \cup Records]
             /\ GoodIndex(index)'
             /\ request' \in [Requests -> Tasks]
             /\ delivery' \in Delivery \cup {None}
             /\ crossed' \subseteq ClientIDs /\ unsaved' \subseteq ClientIDs
  BY <1>1, <1>2, <1>9 DEF GoodIndex
<1>10. ASSUME NEW u \in TgUsers, Start(u) PROVE delivery' \in Delivery
  <2>1. index[u].len \in Nat
    BY <1>1, <1>10, GoodCells DEF Start, GoodIndex
  <2>2. Changing \subseteq ClientIDs
    BY <1>2, TaskFacts DEF Changing
  <2>3. Owned(u) \ (crossed \cup unsaved \cup Changing) \subseteq ClientIDs
    BY DEF Owned
  <2> QED
    BY <1>10, <2>1, <2>2, <2>3 DEF Start, Delivery
<1>11. ASSUME ReadCell PROVE delivery' \in Delivery
  <2>1. Cells[delivery.i] \in ClientIDs
    BY <1>1, <1>11, NextCell DEF ReadCell
  <2> QED
    BY <1>2, <1>11, <2>1 DEF ReadCell, Delivering, Delivery
<1>12. ASSUME SendClient PROVE delivery' \in Delivery
  <2>1. delivery \in Delivery /\ delivery.id \in ClientIDs /\ delivery.i + 1 \in Nat
    BY <1>2, <1>12, DeliveryFields DEF SendClient, Delivering
  <2>2. PICK astray : /\ astray \in {delivery.astray, delivery.astray \cup {delivery.id}}
                      /\ delivery' = [delivery EXCEPT !.i = delivery.i + 1, !.id = None,
                                        !.owed = delivery.owed \ {delivery.id}, !.astray = astray]
    BY <1>12 DEF SendClient, Following
  <2>3. astray \subseteq ClientIDs /\ delivery.owed \ {delivery.id} \subseteq ClientIDs
    BY <2>1, <2>2, DeliveryFields
  <2> QED
    BY <2>1, <2>2, <2>3 DEF Delivery
<1>13. ASSUME Restart PROVE GoodIndex(index)'
  BY <1>2, <1>13, RebuiltFacts DEF Restart
<1>14. CASE Restart
  <2>1. /\ UNCHANGED file /\ crossed' = {} /\ unsaved' = {} /\ delivery' = None
        /\ request' = [r \in Requests |-> Done]
    BY <1>14 DEF Restart
  <2> QED
    BY <1>2, <1>3, <1>13, <1>14, <2>1
<1>15. CASE UNCHANGED vars
  BY <1>2, <1>9, <1>15 DEF vars
<1>16. CASE \E u \in TgUsers : Start(u)
  <2>1. PICK u \in TgUsers : Start(u)
    BY <1>16
  <2> QED
    BY <1>9, <1>10, <2>1 DEF Start
<1>17. CASE ReadCell
  BY <1>9, <1>11, <1>17 DEF ReadCell
<1>18. CASE SendClient
  BY <1>9, <1>12, <1>18 DEF SendClient
<1>19. CASE Finish
  BY <1>9, <1>19 DEF Finish
<1> QED
  BY <1>4, <1>6, <1>7, <1>8, <1>14, <1>15, <1>16, <1>17, <1>18, <1>19 DEF Next

-----------------------------------------------------------------------------
(* The store and the index.                                                *)

(* Whose a client is depends on its file alone.                            *)
LEMMA OwnedSame ==
    ASSUME NEW c, file'[c] = file[c]
    PROVE  \A u : c \in Owned(u)' <=> c \in Owned(u)
BY DEF Owned

(* The clients being changed, one request at a time.                       *)
LEMMA ChangingIs ==
    \A c : c \in Changing <=> \E r \in Requests : request[r] # Done /\ request[r].client = c
BY DEF Changing

(* A step that touches neither a client's file nor its place changes       *)
(* nothing of how they agree.                                              *)
LEMMA AgreesSame ==
    ASSUME NEW c, Agrees(c), file'[c] = file[c], c \in unsaved <=> c \in unsaved',
           \A u \in TgUsers : Under(index', u, c) <=> Under(index, u, c)
    PROVE  Agrees(c)'
<1>1. \A u : c \in Owned(u)' <=> c \in Owned(u)
  BY OwnedSame
<1>2. \A u \in TgUsers : /\ Under(index', u, c) => c \in Owned(u)'
                         /\ c \in Owned(u)' => Under(index', u, c) \/ c \in unsaved'
  BY <1>1 DEF Agrees
<1> QED
  BY <1>2 DEF Agrees

(* Nor does it change what another request will do.                        *)
LEMMA WillAgreeSame ==
    ASSUME NEW r \in Requests, NEW c, request[r].client = c, request'[r] = request[r],
           WillAgree(request[r]), file'[c] = file[c], c \in unsaved <=> c \in unsaved',
           \A u \in TgUsers : Under(index', u, c) <=> Under(index, u, c)
    PROVE  WillAgree(request[r])'
<1>1. \A u : c \in Owned(u)' <=> c \in Owned(u)
  BY OwnedSame
<1>2. \A u \in TgUsers :
        IF request'[r].op = "index"
        THEN /\ u = request'[r].tg => request'[r].client \in Owned(u)'
             /\ request'[r].client \in Owned(u)' =>
                    u = request'[r].tg \/ request'[r].client \in unsaved'
        ELSE ~Under(index', u, request'[r].client)
  BY <1>1 DEF WillAgree
<1> QED
  BY <1>2 DEF WillAgree

(* A request that begins a change of client c, given what holds of c then. *)
LEMMA BeginStep ==
    ASSUME StoreInv, TypeOK', NEW r \in Requests, NEW c \in ClientIDs,
           request[r] = Done, Begin(c),
           request'[r] # Done, request'[r].client = c,
           \A q \in Requests \ {r} : request'[q] = request[q],
           \A d \in ClientIDs \ {c} :
                /\ file'[d] = file[d] /\ (d \in unsaved <=> d \in unsaved')
                /\ \A u \in TgUsers : Under(index', u, d) <=> Under(index, u, d),
           WillAgree(request[r])'
    PROVE  Settled' /\ Pending'
<1>1. crossed \subseteq crossed' /\ (c \in Changing => c \in crossed')
  BY DEF Begin
<1>2. \A d : d \in Changing <=> \E q \in Requests : request[q] # Done /\ request[q].client = d
  BY ChangingIs
<1>3. \A d : d \in Changing' <=> \E q \in Requests : request'[q] # Done /\ request'[q].client = d
  BY DEF Changing
<1>4. Changing \subseteq Changing' /\ c \in Changing'
  BY <1>2, <1>3
<1>5. Settled'
  <2> SUFFICES ASSUME NEW d \in ClientIDs, d \notin crossed', d \notin Changing' PROVE Agrees(d)'
    BY DEF Settled
  <2>1. d # c /\ d \notin crossed /\ d \notin Changing
    BY <1>1, <1>4
  <2> QED
    BY <2>1, AgreesSame DEF StoreInv, Settled
<1>6. Pending'
  <2> SUFFICES ASSUME NEW q \in Requests, request'[q] # Done, request'[q].client \notin crossed'
               PROVE  /\ WillAgree(request[q])'
                      /\ \A p \in Requests \ {q} :
                            request'[p] # Done => request'[p].client # request'[q].client
    BY DEF Pending
  <2>1. CASE q = r
    <3>1. c \notin Changing
      BY <1>1, <2>1
    <3>2. \A p \in Requests \ {q} : request'[p] # Done => request'[p].client # request'[q].client
      BY <1>2, <2>1, <3>1
    <3> QED
      BY <2>1, <3>2
  <2>2. CASE q # r
    <3> DEFINE d == request[q].client
    <3>1. request'[q] = request[q] /\ request[q] # Done /\ d \notin crossed /\ d \in Changing
      BY <1>1, <1>2, <2>2
    <3>2. d # c
      BY <1>1, <2>2, <3>1
    <3>3. d \in ClientIDs
      BY <3>1, TaskFacts DEF StoreInv, TypeOK
    <3>4. /\ WillAgree(request[q])
          /\ \A p \in Requests \ {q} : request[p] # Done => request[p].client # d
      BY <3>1 DEF StoreInv, Pending
    <3>5. WillAgree(request[q])'
      BY <3>1, <3>2, <3>3, <3>4, WillAgreeSame
    <3>6. \A p \in Requests \ {q} : request'[p] # Done => request'[p].client # d
      BY <3>2, <3>4
    <3> QED
      BY <3>1, <3>5, <3>6
  <2> QED
    BY <2>1, <2>2
<1> QED
  BY <1>5, <1>6

(* A request that ends its change of client c.                             *)
LEMMA EndStep ==
    ASSUME StoreInv, NEW r \in Requests, NEW c \in ClientIDs,
           request[r] # Done, request[r].client = c, crossed' = crossed,
           request' = [request EXCEPT ![r] = Done],
           \A d \in ClientIDs \ {c} :
                /\ file'[d] = file[d] /\ (d \in unsaved <=> d \in unsaved')
                /\ \A u \in TgUsers : Under(index', u, d) <=> Under(index, u, d),
           c \notin crossed => Agrees(c)'
    PROVE  Settled' /\ Pending'
<1>1. \A d : d \in Changing <=> \E q \in Requests : request[q] # Done /\ request[q].client = d
  BY ChangingIs
<1>2. \A d : d \in Changing' <=> \E q \in Requests : request'[q] # Done /\ request'[q].client = d
  BY DEF Changing
<1>3. request \in [Requests -> Tasks]
  BY DEF StoreInv, TypeOK
<1>4. request'[r] = Done /\ \A q \in Requests \ {r} : request'[q] = request[q]
  BY <1>3
<1>5. Settled'
  <2> SUFFICES ASSUME NEW d \in ClientIDs, d \notin crossed, d \notin Changing' PROVE Agrees(d)'
    BY DEF Settled
  <2>1. CASE d = c
    BY <2>1
  <2>2. CASE d # c
    <3>1. d \notin Changing
      BY <1>1, <1>2, <1>4, <2>2
    <3> QED
      BY <2>2, <3>1, AgreesSame DEF StoreInv, Settled
  <2> QED
    BY <2>1, <2>2
<1>6. Pending'
  <2> SUFFICES ASSUME NEW q \in Requests, request'[q] # Done, request'[q].client \notin crossed
               PROVE  /\ WillAgree(request[q])'
                      /\ \A p \in Requests \ {q} :
                            request'[p] # Done => request'[p].client # request'[q].client
    BY DEF Pending
  <2> DEFINE d == request[q].client
  <2>1. q # r /\ request'[q] = request[q]
    BY <1>4
  <2>2. /\ WillAgree(request[q])
        /\ \A p \in Requests \ {q} : request[p] # Done => request[p].client # d
    BY <2>1 DEF StoreInv, Pending
  <2>3. d # c
    BY <2>1, <2>2
  <2>4. d \in ClientIDs
    BY <1>3, <2>1, TaskFacts
  <2>5. WillAgree(request[q])'
    BY <2>1, <2>2, <2>3, <2>4, WillAgreeSame
  <2>6. \A p \in Requests \ {q} : request'[p] # Done => request'[p].client # d
    BY <1>4, <2>2
  <2> QED
    BY <2>1, <2>5, <2>6
<1> QED
  BY <1>5, <1>6

(* Every step keeps store and index as they should be.                     *)
LEMMA StoreStep ==
    ASSUME IInv, [Next]_vars
    PROVE  Settled' /\ Pending'
<1>1. StoreInv /\ TypeOK /\ GoodIndex(index)
  BY DEF IInv, StoreInv
<1>2. TypeOK'
  BY TypeStep
<1>3. /\ file \in [ClientIDs -> {None} \cup Records]
      /\ request \in [Requests -> Tasks]
  BY <1>1 DEF TypeOK
<1>4. None \notin TgUsers
  BY TelegramAssumption
<1>5. ASSUME NEW r \in Requests, NEW c \in ClientIDs, NEW rec \in Records, WriteFile(r, c, rec)
      PROVE  Settled' /\ Pending'
  <2>1. Owner(rec) \in TgUsers \cup {None} /\ rec # None
    BY TelegramAssumption DEF Owner
  <2> DEFINE u == IF file' = [file EXCEPT ![c] = rec] /\ request'[r] = Do("index", c, Owner(rec))
                  THEN Owner(rec) ELSE None
  <2>2. /\ request'[r] = Do("index", c, u) /\ u \in TgUsers \cup {None}
        /\ \/ file'[c] = rec /\ u = Owner(rec)
           \/ u = None /\ c \in unsaved'
    BY <1>3, <1>5, <2>1 DEF WriteFile
  <2> HIDE DEF u
  <2>3. request'[r] # Done /\ request'[r].client = c /\ request'[r].op = "index" /\ request'[r].tg = u
    BY <2>2, DoFacts
  <2>4. \A q \in Requests \ {r} : request'[q] = request[q]
    BY <1>3, <1>5 DEF WriteFile
  <2>5. \A d \in ClientIDs \ {c} :
            /\ file'[d] = file[d] /\ (d \in unsaved <=> d \in unsaved')
            /\ \A v \in TgUsers : Under(index', v, d) <=> Under(index, v, d)
    BY <1>3, <1>5 DEF WriteFile
  <2>6. request[r] = Done /\ Begin(c)
    BY <1>5 DEF WriteFile
  <2>7. file' \in [ClientIDs -> {None} \cup Records]
    BY <1>2 DEF TypeOK
  <2>8. file'[c] = rec => \A v \in TgUsers : c \in Owned(v)' <=> v = Owner(rec)
    BY <1>4, <2>1, TelegramAssumption DEF Owned, Owner
  <2>9. WillAgree(request[r])'
    BY <1>4, <2>2, <2>3, <2>8 DEF WillAgree
  <2> QED
    BY <1>1, <1>2, <2>3, <2>4, <2>5, <2>6, <2>9, BeginStep
<1>6. ASSUME NEW r \in Requests, UpdateIndex(r) PROVE Settled' /\ Pending'
  <2>0. /\ request[r].client \in ClientIDs /\ request[r].tg \in TgUsers \cup {None}
        /\ request[r] # Done /\ request[r].op = "index"
    BY <1>3, <1>6, TaskFacts DEF UpdateIndex
  <2>1. PICK c \in ClientIDs, u \in TgUsers \cup {None} : c = request[r].client /\ u = request[r].tg
    BY <2>0
  <2>2. \A v \in TgUsers : \A d : Under(index', v, d) <=> IF d = c THEN v = u ELSE Under(index, v, d)
    <3>1. index' = Reindexed(index, c, u)
      BY <1>6, <2>1 DEF UpdateIndex
    <3> QED
      BY <1>1, <3>1, ReindexHolds
  <2>3. crossed' = crossed /\ request' = [request EXCEPT ![r] = Done] /\ file' = file /\ unsaved' = unsaved
    BY <1>6 DEF UpdateIndex
  <2>4. \A d \in ClientIDs \ {c} :
            /\ file'[d] = file[d] /\ (d \in unsaved <=> d \in unsaved')
            /\ \A v \in TgUsers : Under(index', v, d) <=> Under(index, v, d)
    BY <2>2, <2>3
  <2>5. ASSUME c \notin crossed PROVE Agrees(c)'
    <3>1. WillAgree(request[r])
      BY <1>1, <2>0, <2>1, <2>5 DEF StoreInv, Pending
    <3>2. \A v : c \in Owned(v)' <=> c \in Owned(v)
      BY <2>3, OwnedSame
    <3>3. \A v \in TgUsers : /\ v = u => c \in Owned(v)
                             /\ c \in Owned(v) => v = u \/ c \in unsaved
      BY <2>0, <2>1, <3>1 DEF WillAgree
    <3>4. \A v \in TgUsers : /\ Under(index', v, c) => c \in Owned(v)'
                             /\ c \in Owned(v)' => Under(index', v, c) \/ c \in unsaved'
      BY <2>2, <2>3, <3>2, <3>3
    <3> QED
      BY <3>4 DEF Agrees
  <2> QED
    BY <1>1, <2>0, <2>1, <2>3, <2>4, <2>5, EndStep
<1>7. ASSUME NEW r \in Requests, NEW c \in ClientIDs, RemoveClient(r, c) PROVE Settled' /\ Pending'
  <2>1. /\ request[r] = Done /\ Begin(c) /\ file' = file /\ unsaved' = unsaved
        /\ request' = [request EXCEPT ![r] = Do("unlink", c, None)]
    BY <1>7 DEF RemoveClient
  <2>2. \A v \in TgUsers : \A d : Under(index', v, d) <=> IF d = c THEN v = None ELSE Under(index, v, d)
    BY <1>1, <1>7, ReindexHolds DEF RemoveClient
  <2>3. /\ request'[r] # Done /\ request'[r].client = c /\ request'[r].op = "unlink"
        /\ \A q \in Requests \ {r} : request'[q] = request[q]
    <3>1. request'[r] = Do("unlink", c, None)
      BY <1>3, <2>1
    <3>2. \A q \in Requests \ {r} : request'[q] = request[q]
      BY <1>3, <2>1
    <3> QED
      BY <3>1, <3>2, DoFacts
  <2>4. \A d \in ClientIDs \ {c} :
            /\ file'[d] = file[d] /\ (d \in unsaved <=> d \in unsaved')
            /\ \A v \in TgUsers : Under(index', v, d) <=> Under(index, v, d)
    BY <2>1, <2>2
  <2>5. WillAgree(request[r])'
    BY <1>4, <2>2, <2>3 DEF WillAgree
  <2> QED
    BY <1>1, <1>2, <2>1, <2>3, <2>4, <2>5, BeginStep
<1>8. ASSUME NEW r \in Requests, Unlink(r) PROVE Settled' /\ Pending'
  <2>0. request[r].client \in ClientIDs /\ request[r] # Done /\ request[r].op = "unlink"
    BY <1>3, <1>8, TaskFacts DEF Unlink
  <2>1. PICK c \in ClientIDs : c = request[r].client
    BY <2>0
  <2>2. crossed' = crossed /\ request' = [request EXCEPT ![r] = Done] /\ index' = index
    BY <1>8 DEF Unlink
  <2>3. file'[c] = None \/ c \in unsaved'
    <3>1. \/ file' = [file EXCEPT ![c] = None]
          \/ unsaved' = unsaved \cup {c}
      BY <1>8, <2>1 DEF Unlink
    <3> QED
      BY <1>3, <3>1
  <2>4. \A d \in ClientIDs \ {c} :
            /\ file'[d] = file[d] /\ (d \in unsaved <=> d \in unsaved')
            /\ \A v \in TgUsers : Under(index', v, d) <=> Under(index, v, d)
    <3>1. /\ \/ file' = [file EXCEPT ![c] = None]
             \/ file' = file
          /\ unsaved' \in {unsaved \ {c}, unsaved \cup {c}}
          /\ index' = index
      BY <1>8, <2>1 DEF Unlink
    <3> QED
      BY <1>3, <3>1
  <2>5. ASSUME c \notin crossed PROVE Agrees(c)'
    <3>1. WillAgree(request[r])
      BY <1>1, <2>0, <2>1, <2>5 DEF StoreInv, Pending
    <3>2. \A v \in TgUsers : ~Under(index', v, c)
      BY <2>0, <2>1, <2>2, <3>1 DEF WillAgree
    <3>3. \A v \in TgUsers : c \in Owned(v)' => c \in unsaved'
      BY <2>3 DEF Owned
    <3> QED
      BY <3>2, <3>3 DEF Agrees
  <2> QED
    BY <1>1, <2>0, <2>1, <2>2, <2>4, <2>5, EndStep
<1>9. ASSUME UNCHANGED <<file, index, request, crossed, unsaved>> PROVE Settled' /\ Pending'
  <2>1. \A u : Owned(u)' = Owned(u)
    BY <1>9 DEF Owned
  <2>2. Changing' = Changing
    BY <1>9 DEF Changing
  <2>3. Settled'
    BY <1>1, <1>9, <2>1, <2>2 DEF StoreInv, Settled, Agrees
  <2>4. Pending'
    BY <1>1, <1>9, <2>1 DEF StoreInv, Pending, WillAgree
  <2> QED
    BY <2>3, <2>4
<1>10. ASSUME Restart PROVE Settled' /\ Pending'
  <2>1. request' = [r \in Requests |-> Done] /\ file' = file
    BY <1>10 DEF Restart
  <2>2. \A u \in TgUsers : \A c : Under(index', u, c) <=> c \in Owned(u)
    BY <1>3, <1>10, RebuiltFacts DEF Restart
  <2>3. \A u : Owned(u)' = Owned(u)
    BY <2>1 DEF Owned
  <2>4. Settled'
    BY <2>2, <2>3 DEF Settled, Agrees
  <2>5. Pending'
    BY <2>1 DEF Pending
  <2> QED
    BY <2>4, <2>5
<1> QED
  BY <1>5, <1>6, <1>7, <1>8, <1>9, <1>10 DEF Next, vars, Start, ReadCell, SendClient, Finish

-----------------------------------------------------------------------------
(* The delivery.                                                           *)

(* The array a delivery goes through.                                      *)
LEMMA CellsTyped ==
    ASSUME TypeOK, GoodIndex(index), DeliveryInv, Delivering
    PROVE  /\ Cells \in Array /\ Len(Cells) \in Nat
           /\ delivery.cells = None =>
                /\ Good(index[delivery.user]) /\ Cells = index[delivery.user].cells
                /\ index[delivery.user] # None
<1>1. delivery \in Delivery
  BY DEF TypeOK, Delivering
<1>2. delivery.user \in TgUsers /\ delivery.cells \in Array \cup {None}
  BY <1>1, DeliveryFields
<1>3. delivery.cells = None => Good(index[delivery.user]) /\ index[delivery.user] # None
  BY <1>2 DEF DeliveryInv, GoodIndex
<1>4. Cells \in Array
  BY <1>2, <1>3, GoodCells DEF Cells
<1> QED
  BY <1>3, <1>4 DEF Array, Cells

(* Any id in the user's slice may be sent.                                 *)
LEMMA IndexExpected ==
    ASSUME StoreInv, DeliveryInv, Delivering, delivery.cells = None,
           NEW p \in 1 .. index[delivery.user].len
    PROVE  /\ index[delivery.user].cells[p] \in ClientIDs
           /\ Expected(index[delivery.user].cells[p])
<1> DEFINE c == index[delivery.user].cells[p]
<1>1. Good(index[delivery.user]) /\ index[delivery.user] # None /\ delivery.user \in TgUsers
  BY CellsTyped, DeliveryFields DEF StoreInv, TypeOK, Delivering
<1>2. c \in ClientIDs /\ Under(index, delivery.user, c)
  BY <1>1 DEF Good, Under, Holds
<1>3. Changing \subseteq delivery.touched
  BY DEF DeliveryInv
<1> HIDE DEF c
<1>4. Expected(c)
  BY <1>1, <1>2, <1>3 DEF StoreInv, Settled, Agrees, Expected
<1> QED
  BY <1>2, <1>4 DEF c

(* The cells the delivery goes through after a change of the index.        *)
LEMMA CellsAfter ==
    ASSUME StoreInv, DeliveryInv, Delivering, delivery.cells = None,
           NEW c \in ClientIDs, NEW u \in TgUsers \cup {None},
           NEW p \in Nat, Place(index[delivery.user], c, p),
           index' = Reindexed(index, c, u),
           delivery'.user = delivery.user, delivery'.cells = Carried(c, u).cells
    PROVE  /\ Len(Cells)' = Len(Cells)
           /\ \A i \in 1 .. Len(Cells) :
                \/ Cells'[i] = IF i < p \/ i >= index[delivery.user].len THEN Cells[i] ELSE Cells[i + 1]
                \/ Cells'[i] = c /\ (p <= i \/ p > index[delivery.user].len)
                                 /\ i >= index[delivery.user].len
                                 /\ (p > index[delivery.user].len => i > index[delivery.user].len)
           /\ delivery'.cells = None =>
                /\ index'[delivery.user] # None
                /\ index'[delivery.user].len \in Nat
                /\ index'[delivery.user].len >= IF p <= index[delivery.user].len
                                                THEN index[delivery.user].len - 1
                                                ELSE index[delivery.user].len
<1> DEFINE v == delivery.user
<1> DEFINE s == index[v]
<1> DEFINE t == filterStringSlice(s, c)
<1> DEFINE left == WithoutEmpty(Filtered(index, c))
<1>1. TypeOK /\ GoodIndex(index)
  BY DEF StoreInv
<1>2. v \in TgUsers /\ Good(s) /\ s # None /\ Cells = s.cells
  BY <1>1, CellsTyped, DeliveryFields DEF TypeOK, Delivering
<1>3. s.len \in Nat /\ Len(s.cells) \in Nat /\ s.len >= 1 /\ s.len <= Len(s.cells)
  BY <1>2, GoodCells
<1>4. /\ t \in Slice /\ Len(t.cells) = Len(s.cells)
      /\ t.len = IF p <= s.len THEN s.len - 1 ELSE s.len
      /\ \A i \in 1 .. Len(s.cells) :
            t.cells[i] = IF i < p \/ i >= s.len THEN s.cells[i] ELSE s.cells[i + 1]
  <2> HIDE DEF s
  <2> QED
    BY <1>2, FilterFacts DEF s
<1>5. t.cells \in Array /\ t.cells # None /\ t # None
  <2>1. t.cells \in Array
    BY <1>4 DEF Slice
  <2> QED
    BY <1>4, <2>1, TelegramAssumption
<1>6. /\ GoodIndex(left)
      /\ left[v] = IF s = None \/ t.len = 0 THEN None ELSE t
      /\ \A d : Under(left, v, d) <=> Under(index, v, d) /\ d # c
  BY <1>1, <1>2, LeftHolds
<1>7. index'[v] = IF v = u THEN Appended(left[u], c) ELSE left[v]
  BY <1>1, <1>2, ReindexHolds
<1>8. delivery'.cells = IF SameArray(c, u) THEN None ELSE t.cells
  BY <1>1, CarriedFacts
<1>9. Cells' = IF delivery'.cells = None THEN index'[v].cells ELSE delivery'.cells
  BY DEF Cells
<1> HIDE DEF t, left
<1>10. CASE ~SameArray(c, u)
  <2>1. Cells' = t.cells /\ delivery'.cells # None
    BY <1>5, <1>8, <1>9, <1>10
  <2> QED
    BY <1>2, <1>4, <2>1
<1>11. CASE SameArray(c, u)
  <2>1. t.len > 0 /\ (u = v => HasRoom(t))
    BY <1>11 DEF SameArray, t
  <2>2. left[v] = t
    BY <1>2, <1>6, <2>1
  <2>3. delivery'.cells = None /\ Cells' = index'[v].cells
    BY <1>8, <1>9, <1>11
  <2>4. CASE u # v
    <3>1. index'[v] = t
      BY <1>7, <2>2, <2>4
    <3> QED
      BY <1>2, <1>3, <1>4, <1>5, <2>3, <3>1
  <2>5. CASE u = v
    <3>1. index'[v] = Appended(t, c) /\ HasRoom(t)
      BY <1>7, <2>1, <2>2, <2>5
    <3>2. Good(t) /\ ~Holds(t, c)
      <4>1. Good(t)
        BY <1>2, <1>5, <1>6, <2>2 DEF GoodIndex
      <4>2. ~Under(left, v, c)
        BY <1>6
      <4> QED
        BY <1>5, <2>2, <4>1, <4>2 DEF Under
    <3> DEFINE w == index'[v]
    <3> HIDE DEF w
    <3>3. w = Appended(t, c)
      BY <3>1 DEF w
    <3>4. /\ w # None /\ Len(w.cells) = Len(t.cells) /\ w.len = t.len + 1
          /\ \A i \in 1 .. Len(t.cells) :
                w.cells[i] = IF i = t.len + 1 THEN c ELSE t.cells[i]
      BY <3>1, <3>2, <3>3, AppendHolds
    <3>5. Cells' = w.cells
      BY <2>3 DEF w
    <3>6. \A i \in 1 .. Len(s.cells) :
            i = t.len + 1 => /\ p <= i \/ p > s.len
                             /\ i >= s.len /\ (p > s.len => i > s.len)
      BY <1>3, <1>4
    <3>7. index'[v] = w
      BY DEF w
    <3>8. \A i \in 1 .. Len(s.cells) :
            \/ w.cells[i] = IF i < p \/ i >= s.len THEN s.cells[i] ELSE s.cells[i + 1]
            \/ w.cells[i] = c /\ (p <= i \/ p > s.len) /\ i >= s.len /\ (p > s.len => i > s.len)
      BY <1>4, <3>4, <3>6
    <3>9. w.len \in Nat /\ w.len >= t.len
      BY <1>3, <1>4, <3>4
    <3> HIDE DEF s
    <3>10. Len(Cells)' = Len(s.cells)
      BY <1>4, <3>4, <3>5
    <3> QED
      BY <1>2, <1>4, <3>4, <3>5, <3>7, <3>8, <3>9, <3>10 DEF s
  <2> QED
    BY <2>4, <2>5
<1> QED
  BY <1>10, <1>11

(* What a change of client c leaves of a delivery: the cells it has still  *)
(* to read, and a place ahead for every client owed.                       *)
LEMMA ReindexDelivery ==
    ASSUME StoreInv, DeliveryInv, Delivering,
           NEW c \in ClientIDs, NEW u \in TgUsers \cup {None},
           index' = Reindexed(index, c, u),
           delivery'.user = delivery.user, delivery'.i = delivery.i,
           delivery'.len = delivery.len, delivery'.id = delivery.id,
           delivery'.cells = Carried(c, u).cells,
           delivery'.owed \subseteq Carried(c, u).owed \ {c}
    PROVE  /\ delivery'.cells = None => index'[delivery'.user] # None
           /\ delivery'.len <= Len(Cells)'
           /\ \A i \in 1 .. delivery.len :
                Cells'[i] = c \/ (Cells'[i] \in ClientIDs /\ Expected(Cells'[i]))
           /\ \A x \in delivery'.owed : \E q \in Nat : Ahead(x, q)'
<1>1. TypeOK /\ GoodIndex(index)
  BY DEF StoreInv
<1>2. /\ delivery.user \in TgUsers /\ delivery.i \in Nat /\ delivery.len \in Nat
      /\ delivery.len <= Len(Cells) /\ Len(Cells) \in Nat
      /\ delivery.i \in 1 .. (delivery.len + 1)
  BY <1>1, CellsTyped, DeliveryFields DEF TypeOK, Delivering, DeliveryInv
<1>3. \A i \in 1 .. delivery.len : Cells[i] \in ClientIDs /\ Expected(Cells[i])
  BY DEF DeliveryInv
<1>4. CASE delivery.cells # None
  <2>1. Carried(c, u) = delivery
    BY <1>1, <1>4, CarriedFacts
  <2>2. delivery'.cells = delivery.cells /\ Cells' = Cells
    BY <1>4, <2>1 DEF Cells
  <2>3. \A x \in delivery'.owed : \E q \in Nat : Ahead(x, q)
    BY <2>1 DEF DeliveryInv, Delivering
  <2>4. \A x : \A q \in Nat : Ahead(x, q) => Ahead(x, q)'
    BY <1>4, <2>2 DEF Ahead
  <2> QED
    BY <1>2, <1>3, <1>4, <2>2, <2>3, <2>4
<1>5. CASE delivery.cells = None
  <2> DEFINE s == index[delivery.user]
  <2>1. Good(s) /\ Cells = s.cells /\ s # None
    BY <1>1, <1>5, CellsTyped
  <2>2. s.len \in Nat /\ s.len >= 1 /\ s.len <= Len(Cells)
    BY <2>1, GoodCells
  <2>3. PICK p \in Nat : Place(s, c, p)
    BY <2>1, PlaceExists
  <2>4. /\ Len(Cells)' = Len(Cells)
        /\ \A i \in 1 .. Len(Cells) :
             \/ Cells'[i] = IF i < p \/ i >= s.len THEN Cells[i] ELSE Cells[i + 1]
             \/ Cells'[i] = c /\ (p <= i \/ p > s.len) /\ i >= s.len /\ (p > s.len => i > s.len)
        /\ delivery'.cells = None =>
             /\ index'[delivery.user] # None
             /\ index'[delivery.user].len \in Nat
             /\ index'[delivery.user].len >= IF p <= s.len THEN s.len - 1 ELSE s.len
    BY <1>5, <2>3, CellsAfter
  <2>5. \A i \in 1 .. s.len : Cells[i] \in ClientIDs /\ Expected(Cells[i])
    BY <1>5, <2>1, IndexExpected
  <2>6. p >= 1 /\ p <= s.len + 1 /\ (p <= s.len => Cells[p] = c)
    BY <2>1, <2>2, <2>3 DEF Place
  <2>7. ASSUME NEW i \in 1 .. delivery.len
        PROVE  Cells'[i] = c \/ (Cells'[i] \in ClientIDs /\ Expected(Cells'[i]))
    <3>1. i \in 1 .. Len(Cells)
      BY <1>2
    <3>2. CASE Cells'[i] = c
      BY <3>2
    <3>3. CASE Cells'[i] # c /\ (i < p \/ i >= s.len)
      <4>1. Cells'[i] = Cells[i]
        BY <2>4, <3>1, <3>3
      <4> QED
        BY <1>3, <4>1
    <3>4. CASE Cells'[i] # c /\ ~(i < p \/ i >= s.len)
      <4>1. Cells'[i] = Cells[i + 1] /\ i + 1 \in 1 .. s.len
        BY <1>2, <2>2, <2>4, <3>1, <3>4
      <4> QED
        BY <2>5, <4>1
    <3> QED
      BY <3>2, <3>3, <3>4
  <2>8. ASSUME NEW x \in delivery'.owed PROVE \E q \in Nat : Ahead(x, q)'
    <3>1. x # c /\ x \in Carried(c, u).owed
      OBVIOUS
    <3>2. ~AlreadyPassed(c) /\ x \in delivery.owed
      BY <1>1, <1>5, <3>1, CarriedFacts
    <3>3. PICK q \in Nat : Ahead(x, q)
      BY <3>2 DEF DeliveryInv
    <3>4. /\ q \in delivery.i .. delivery.len /\ Cells[q] = x /\ q <= s.len
          /\ q = delivery.i /\ delivery.id # None => delivery.id = x
      BY <1>5, <3>3 DEF Ahead
    <3>5. q # p
      BY <2>6, <3>1, <3>4
    <3>6. p <= s.len => p >= delivery.i /\ ~(p = delivery.i /\ delivery.id # None)
      <4>1. p <= s.len => p \in 1 .. s.len /\ s.cells[p] = c
        BY <2>1, <2>2, <2>6
      <4> QED
        BY <1>2, <3>2, <4>1 DEF AlreadyPassed
    <3> DEFINE n == IF q < p THEN q ELSE q - 1
    <3>7. n \in delivery.i .. delivery.len /\ n \in Nat
      BY <1>2, <2>2, <2>6, <3>4, <3>5, <3>6
    <3>8. n <= IF p <= s.len THEN s.len - 1 ELSE s.len
      BY <1>2, <2>2, <2>6, <3>4, <3>5
    <3>9. Cells'[n] = x
      <4>1. n \in 1 .. Len(Cells)
        BY <1>2, <3>7
      <4>2. CASE q < p
        <5>1. n = q /\ n < p
          BY <4>2
        <5>2. ~((p <= n \/ p > s.len) /\ n >= s.len /\ (p > s.len => n > s.len))
          BY <2>2, <2>6, <3>4, <5>1
        <5> HIDE DEF n
        <5> QED
          BY <2>4, <3>4, <4>1, <5>1, <5>2
      <4>3. CASE ~(q < p)
        <5>1. n = q - 1 /\ p <= n /\ n < s.len /\ n + 1 = q
          BY <2>2, <2>6, <3>4, <3>5, <4>3
        <5>2. ~(n < p \/ n >= s.len)
          BY <2>2, <5>1
        <5> HIDE DEF n
        <5> QED
          BY <2>4, <3>4, <4>1, <5>1, <5>2
      <4> QED
        BY <4>2, <4>3
    <3>10. n = delivery.i /\ delivery.id # None => delivery.id = x
      <4>1. CASE q < p
        BY <3>4, <4>1
      <4>2. CASE ~(q < p)
        <5>1. p <= s.len /\ (n = delivery.i => p = delivery.i)
          BY <1>2, <2>2, <2>6, <3>4, <3>5, <3>6, <4>2
        <5> QED
          BY <3>6, <5>1
      <4> QED
        BY <4>1, <4>2
    <3>11. delivery'.cells = None => n <= index'[delivery.user].len
      <4> HIDE DEF n
      <4> QED
        BY <2>2, <2>4, <2>6, <3>7, <3>8
    <3> HIDE DEF n
    <3>12. Ahead(x, n)'
      BY <3>7, <3>9, <3>10, <3>11 DEF Ahead
    <3> QED
      BY <3>7, <3>12
  <2> QED
    BY <1>2, <2>4, <2>7, <2>8
<1> QED
  BY <1>4, <1>5

(* A step that leaves the delivery its cells, its position and a client    *)
(* fewer to owe.                                                           *)
LEMMA SamePlaces ==
    ASSUME DeliveryInv, Delivering, UNCHANGED index,
           delivery'.user = delivery.user, delivery'.i = delivery.i,
           delivery'.len = delivery.len, delivery'.id = delivery.id,
           delivery'.cells = delivery.cells, delivery'.owed \subseteq delivery.owed
    PROVE  /\ delivery'.cells = None => index'[delivery'.user] # None
           /\ Cells' = Cells
           /\ \A x \in delivery'.owed : \E q \in Nat : Ahead(x, q)'
<1>1. Cells' = Cells
  BY DEF Cells
<1>2. \A x : \A q \in Nat : Ahead(x, q) => Ahead(x, q)'
  BY <1>1 DEF Ahead
<1>3. \A x \in delivery'.owed : \E q \in Nat : Ahead(x, q)
  BY DEF DeliveryInv
<1> QED
  BY <1>1, <1>2, <1>3 DEF DeliveryInv

(* Who may be sent once client c is touched.                               *)
LEMMA ExpectedAfter ==
    ASSUME NEW c, delivery'.user = delivery.user,
           delivery.touched \cup {c} \subseteq delivery'.touched, crossed \subseteq crossed',
           \A d \in ClientIDs \ {c} : file'[d] = file[d]
    PROVE  \A x : x = c \/ (x \in ClientIDs /\ Expected(x)) => Expected(x)'
<1>1. \A x : x # c /\ x \in ClientIDs /\ x \in Owned(delivery.user) => x \in Owned(delivery.user)'
  <2> SUFFICES ASSUME NEW x \in ClientIDs, x # c, x \in Owned(delivery.user)
               PROVE  x \in Owned(delivery.user)'
    OBVIOUS
  <2> QED
    BY DEF Owned
<1> QED
  BY <1>1 DEF Expected

(* Every step keeps the delivery on its way.                               *)
LEMMA DeliveryStep ==
    ASSUME IInv, [Next]_vars
    PROVE  DeliveryInv'
<1>1. StoreInv /\ TypeOK /\ GoodIndex(index) /\ DeliveryInv
  BY DEF IInv, StoreInv
<1>2. /\ file \in [ClientIDs -> {None} \cup Records]
      /\ request \in [Requests -> Tasks]
      /\ delivery \in Delivery \cup {None}
  BY <1>1 DEF TypeOK
<1>3. ASSUME delivery' = None PROVE DeliveryInv'
  BY <1>3 DEF DeliveryInv, Delivering
<1>4. \A d : d \in Changing <=> \E q \in Requests : request[q] # Done /\ request[q].client = d
  BY ChangingIs
<1>5. \A d : d \in Changing' <=> \E q \in Requests : request'[q] # Done /\ request'[q].client = d
  BY DEF Changing
<1>6. ASSUME Delivering
      PROVE  /\ delivery \in Delivery /\ delivery.user \in TgUsers
             /\ delivery.i \in Nat /\ delivery.len \in Nat
             /\ delivery.i \in 1 .. (delivery.len + 1) /\ delivery.len <= Len(Cells)
             /\ \A p \in 1 .. delivery.len : Cells[p] \in ClientIDs /\ Expected(Cells[p])
             /\ delivery.id # None => delivery.id \in ClientIDs /\ delivery.i <= delivery.len
                                      /\ Expected(delivery.id)
             /\ Changing \subseteq delivery.touched
             /\ delivery.owed \cap delivery.touched = {}
             /\ \A x \in delivery.owed : \E p \in Nat : Ahead(x, p)
             /\ delivery.astray \subseteq delivery.touched \cup crossed
  BY <1>1, <1>2, <1>6, DeliveryFields DEF DeliveryInv, Delivering
<1>7. ASSUME NEW r \in Requests, NEW c \in ClientIDs, NEW rec \in Records, WriteFile(r, c, rec), Delivering
      PROVE  DeliveryInv'
  <2>1. delivery' = Touched(delivery, c) /\ UNCHANGED index /\ crossed \subseteq crossed'
    BY <1>7 DEF WriteFile, Begin
  <2>2. /\ delivery'.user = delivery.user /\ delivery'.i = delivery.i
        /\ delivery'.len = delivery.len /\ delivery'.cells = delivery.cells
        /\ delivery'.id = delivery.id /\ delivery'.owed = delivery.owed \ {c}
        /\ delivery'.touched = delivery.touched \cup {c} /\ delivery'.astray = delivery.astray
    BY <1>6, <1>7, <2>1, TouchedFacts
  <2>3. \A d \in ClientIDs \ {c} : file'[d] = file[d]
    BY <1>2, <1>7 DEF WriteFile
  <2>4. \A x : x = c \/ (x \in ClientIDs /\ Expected(x)) => Expected(x)'
    BY <2>1, <2>2, <2>3, ExpectedAfter
  <2>5. /\ delivery'.cells = None => index'[delivery'.user] # None
        /\ Cells' = Cells
        /\ \A x \in delivery'.owed : \E q \in Nat : Ahead(x, q)'
    BY <1>1, <1>7, <2>1, <2>2, SamePlaces
  <2>6. Changing' \subseteq Changing \cup {c}
    <3>1. \E u : request' = [request EXCEPT ![r] = Do("index", c, u)]
      BY <1>7 DEF WriteFile
    <3>2. \A q \in Requests : request'[q] = request[q] \/ request'[q].client = c
      BY <1>2, <3>1 DEF Do
    <3> QED
      BY <1>4, <1>5, <3>2
  <2>7. Changing' \subseteq delivery'.touched /\ delivery'.owed \cap delivery'.touched = {}
        /\ delivery'.astray \subseteq delivery'.touched \cup crossed'
    BY <1>6, <1>7, <2>1, <2>2, <2>6
  <2>8. \A p \in 1 .. delivery'.len : Cells'[p] \in ClientIDs /\ Expected(Cells[p])'
    BY <1>6, <1>7, <2>2, <2>4, <2>5
  <2>9. delivery'.id # None => delivery'.i <= delivery'.len /\ Expected(delivery.id)'
    BY <1>6, <1>7, <2>2, <2>4
  <2>10. delivery'.i \in 1 .. (delivery'.len + 1) /\ delivery'.len <= Len(Cells)'
    BY <1>6, <1>7, <2>2, <2>5
  <2> QED
    BY <2>5, <2>7, <2>8, <2>9, <2>10 DEF DeliveryInv

<1>8. ASSUME NEW r \in Requests, UpdateIndex(r), Delivering PROVE DeliveryInv'
  <2>0. /\ request[r].client \in ClientIDs /\ request[r].tg \in TgUsers \cup {None}
        /\ request[r] # Done
    BY <1>2, <1>8, TaskFacts DEF UpdateIndex
  <2>1. PICK c \in ClientIDs, u \in TgUsers \cup {None} : c = request[r].client /\ u = request[r].tg
    BY <2>0
  <2>2. /\ index' = Reindexed(index, c, u) /\ delivery' = Carried(c, u)
        /\ request' = [request EXCEPT ![r] = Done] /\ crossed' = crossed /\ file' = file
    BY <1>8, <2>1 DEF UpdateIndex
  <2>3. /\ delivery'.user = delivery.user /\ delivery'.i = delivery.i
        /\ delivery'.len = delivery.len /\ delivery'.id = delivery.id
        /\ delivery'.touched = delivery.touched /\ delivery'.astray = delivery.astray
        /\ delivery'.owed \subseteq delivery.owed
    <3>1. delivery.cells # None => delivery' = delivery
      BY <1>1, <1>8, <2>2, CarriedFacts
    <3>2. delivery.cells = None => delivery'.owed = IF AlreadyPassed(c) THEN {} ELSE delivery.owed
      BY <1>1, <1>8, <2>2, CarriedFacts
    <3> QED
      BY <1>1, <1>8, <2>2, <3>1, <3>2, CarriedFacts
  <2>4. c \in delivery.touched
    BY <1>4, <1>6, <1>8, <2>0, <2>1
  <2>5. delivery'.owed \subseteq Carried(c, u).owed \ {c}
    BY <1>6, <1>8, <2>2, <2>3, <2>4
  <2>6. /\ delivery'.cells = None => index'[delivery'.user] # None
        /\ delivery'.len <= Len(Cells)'
        /\ \A i \in 1 .. delivery.len :
             Cells'[i] = c \/ (Cells'[i] \in ClientIDs /\ Expected(Cells'[i]))
        /\ \A x \in delivery'.owed : \E q \in Nat : Ahead(x, q)'
    BY <1>1, <1>8, <2>2, <2>3, <2>5, ReindexDelivery
  <2>7. \A x : x = c \/ (x \in ClientIDs /\ Expected(x)) => Expected(x)'
    BY <2>2, <2>3, <2>4, ExpectedAfter
  <2>8. Changing' \subseteq Changing
    <3>1. \A q \in Requests : request'[q] # Done => request'[q] = request[q]
      BY <1>2, <2>2
    <3> QED
      BY <1>4, <1>5, <3>1
  <2>9. Changing' \subseteq delivery'.touched /\ delivery'.owed \cap delivery'.touched = {}
        /\ delivery'.astray \subseteq delivery'.touched \cup crossed'
    BY <1>6, <1>8, <2>2, <2>3, <2>8
  <2>10. \A p \in 1 .. delivery'.len : Cells'[p] \in ClientIDs /\ Expected(Cells[p])'
    BY <2>3, <2>6, <2>7
  <2>11. delivery'.id # None => delivery'.i <= delivery'.len /\ Expected(delivery.id)'
    BY <1>6, <1>8, <2>3, <2>7
  <2>12. delivery'.i \in 1 .. (delivery'.len + 1)
    BY <1>6, <1>8, <2>3
  <2> QED
    BY <2>6, <2>9, <2>10, <2>11, <2>12 DEF DeliveryInv
<1>9. ASSUME NEW r \in Requests, NEW c \in ClientIDs, RemoveClient(r, c), Delivering
      PROVE  DeliveryInv'
  <2> DEFINE e == Carried(c, None)
  <2>1. /\ index' = Reindexed(index, c, None) /\ delivery' = Touched(e, c)
        /\ request' = [request EXCEPT ![r] = Do("unlink", c, None)]
        /\ crossed \subseteq crossed' /\ file' = file
    BY <1>9 DEF RemoveClient, Begin
  <2>2. /\ e \in Delivery /\ e.user = delivery.user /\ e.i = delivery.i
        /\ e.len = delivery.len /\ e.id = delivery.id
        /\ e.touched = delivery.touched /\ e.astray = delivery.astray
        /\ e.owed \subseteq delivery.owed
    <3>1. delivery.cells # None => e = delivery
      BY <1>1, <1>9, CarriedFacts
    <3>2. delivery.cells = None => e.owed = IF AlreadyPassed(c) THEN {} ELSE delivery.owed
      BY <1>1, <1>9, CarriedFacts
    <3>3. /\ e \in Delivery /\ e.user = delivery.user /\ e.i = delivery.i
          /\ e.len = delivery.len /\ e.id = delivery.id
          /\ e.touched = delivery.touched /\ e.astray = delivery.astray
      BY <1>1, <1>9, CarriedFacts
    <3> HIDE DEF e
    <3> QED
      BY <3>1, <3>2, <3>3
  <2> HIDE DEF e
  <2>3. /\ delivery'.user = delivery.user /\ delivery'.i = delivery.i
        /\ delivery'.len = delivery.len /\ delivery'.id = delivery.id
        /\ delivery'.cells = e.cells /\ delivery'.owed = e.owed \ {c}
        /\ delivery'.touched = delivery.touched \cup {c} /\ delivery'.astray = delivery.astray
    BY <2>1, <2>2, TouchedFacts
  <2>4. delivery'.cells = Carried(c, None).cells /\ delivery'.owed \subseteq Carried(c, None).owed \ {c}
    BY <2>3 DEF e
  <2>5. /\ delivery'.cells = None => index'[delivery'.user] # None
        /\ delivery'.len <= Len(Cells)'
        /\ \A i \in 1 .. delivery.len :
             Cells'[i] = c \/ (Cells'[i] \in ClientIDs /\ Expected(Cells'[i]))
        /\ \A x \in delivery'.owed : \E q \in Nat : Ahead(x, q)'
    BY <1>1, <1>9, <2>1, <2>3, <2>4, ReindexDelivery
  <2>6. \A x : x = c \/ (x \in ClientIDs /\ Expected(x)) => Expected(x)'
    BY <2>1, <2>3, ExpectedAfter
  <2>7. Changing' \subseteq Changing \cup {c}
    <3>1. \A q \in Requests : request'[q] = request[q] \/ request'[q].client = c
      BY <1>2, <2>1 DEF Do
    <3> QED
      BY <1>4, <1>5, <3>1
  <2>8. Changing' \subseteq delivery'.touched /\ delivery'.owed \cap delivery'.touched = {}
        /\ delivery'.astray \subseteq delivery'.touched \cup crossed'
    BY <1>6, <1>9, <2>1, <2>2, <2>3, <2>7
  <2>9. \A p \in 1 .. delivery'.len : Cells'[p] \in ClientIDs /\ Expected(Cells[p])'
    BY <2>3, <2>5, <2>6
  <2>10. delivery'.id # None => delivery'.i <= delivery'.len /\ Expected(delivery.id)'
    BY <1>6, <1>9, <2>3, <2>6
  <2>11. delivery'.i \in 1 .. (delivery'.len + 1)
    BY <1>6, <1>9, <2>3
  <2> QED
    BY <2>5, <2>8, <2>9, <2>10, <2>11 DEF DeliveryInv
<1>10. ASSUME NEW r \in Requests, Unlink(r), Delivering PROVE DeliveryInv'
  <2>0. request[r].client \in ClientIDs /\ request[r] # Done
    BY <1>2, <1>10, TaskFacts DEF Unlink
  <2>1. PICK c \in ClientIDs : c = request[r].client
    BY <2>0
  <2>2. delivery' = delivery /\ UNCHANGED index /\ crossed' = crossed
        /\ request' = [request EXCEPT ![r] = Done]
    BY <1>10 DEF Unlink
  <2>3. \A d \in ClientIDs \ {c} : file'[d] = file[d]
    <3>1. file' = [file EXCEPT ![c] = None] \/ file' = file
      BY <1>10, <2>1 DEF Unlink
    <3> QED
      BY <1>2, <3>1
  <2>4. c \in delivery.touched
    BY <1>4, <1>6, <1>10, <2>0, <2>1
  <2>5. \A x : x = c \/ (x \in ClientIDs /\ Expected(x)) => Expected(x)'
    BY <2>2, <2>3, <2>4, ExpectedAfter
  <2>6. /\ delivery'.cells = None => index'[delivery'.user] # None
        /\ Cells' = Cells
        /\ \A x \in delivery'.owed : \E q \in Nat : Ahead(x, q)'
    BY <1>1, <1>10, <2>2, SamePlaces
  <2>7. Changing' \subseteq Changing
    <3>1. \A q \in Requests : request'[q] # Done => request'[q] = request[q]
      BY <1>2, <2>2
    <3> QED
      BY <1>4, <1>5, <3>1
  <2>8. Changing' \subseteq delivery'.touched /\ delivery'.owed \cap delivery'.touched = {}
        /\ delivery'.astray \subseteq delivery'.touched \cup crossed'
    BY <1>6, <1>10, <2>2, <2>7
  <2>9. \A p \in 1 .. delivery'.len : Cells'[p] \in ClientIDs /\ Expected(Cells[p])'
    BY <1>6, <1>10, <2>2, <2>5, <2>6
  <2>10. delivery'.id # None => delivery'.i <= delivery'.len /\ Expected(delivery.id)'
    BY <1>6, <1>10, <2>2, <2>5
  <2>11. delivery'.i \in 1 .. (delivery'.len + 1) /\ delivery'.len <= Len(Cells)'
    BY <1>6, <1>10, <2>2, <2>6
  <2> QED
    BY <2>2, <2>6, <2>8, <2>9, <2>10, <2>11 DEF DeliveryInv

<1>11. ASSUME UNCHANGED <<file, index, request, crossed, unsaved>>
       PROVE  /\ Changing' = Changing
              /\ \A x : delivery'.user = delivery.user /\ delivery'.touched = delivery.touched
                            /\ Expected(x) => Expected(x)'
  BY <1>11 DEF Changing, Expected, Owned
<1>12. ASSUME NEW u \in TgUsers, Start(u) PROVE DeliveryInv'
  <2>1. /\ delivery'.user = u /\ delivery'.i = 1 /\ delivery'.len = index[u].len
        /\ delivery'.cells = None /\ delivery'.id = None
        /\ delivery'.owed = Owned(u) \ (crossed \cup unsaved \cup Changing)
        /\ delivery'.touched = Changing /\ delivery'.astray = {}
    BY <1>12 DEF Start
  <2>2. UNCHANGED <<file, index, request, crossed, unsaved>> /\ index[u] # None
    BY <1>12 DEF Start
  <2>3. Good(index[u])
    BY <1>1, <2>2 DEF GoodIndex
  <2>4. Cells' = index[u].cells /\ index'[u] # None
    BY <2>1, <2>2 DEF Cells
  <2>5. index[u].len \in Nat /\ index[u].len >= 1 /\ index[u].len <= Len(index[u].cells)
    BY <2>3, GoodCells
  <2>6. \A x : x \in Owned(u) \cup Changing \cup crossed => Expected(x)'
    BY <2>1, <2>2 DEF Expected, Owned
  <2>7. \A p \in 1 .. delivery'.len : Cells'[p] \in ClientIDs /\ Expected(Cells[p])'
    <3> SUFFICES ASSUME NEW p \in 1 .. index[u].len
                 PROVE  Cells'[p] \in ClientIDs /\ Expected(Cells[p])'
      BY <2>1
    <3>1. index[u].cells[p] \in ClientIDs /\ Under(index, u, index[u].cells[p])
      BY <2>2, <2>3 DEF Good, Under, Holds
    <3>2. index[u].cells[p] \in Owned(u) \cup Changing \cup crossed
      BY <1>1, <3>1 DEF StoreInv, Settled, Agrees
    <3> QED
      BY <2>4, <2>6, <3>1, <3>2
  <2>8. ASSUME NEW x \in delivery'.owed PROVE \E p \in Nat : Ahead(x, p)'
    <3>1. x \in Owned(u) /\ x \notin crossed \cup unsaved \cup Changing /\ x \in ClientIDs
      BY <2>1 DEF Owned
    <3>2. Holds(index[u], x)
      BY <1>1, <3>1 DEF StoreInv, Settled, Agrees, Under
    <3>3. PICK p \in 1 .. index[u].len : index[u].cells[p] = x
      BY <3>2 DEF Holds
    <3>4. p \in Nat /\ p \in 1 .. index[u].len /\ p <= index[u].len
      BY <2>5
    <3>5. Ahead(x, p)'
      BY <2>1, <2>2, <2>4, <3>3, <3>4 DEF Ahead
    <3> QED
      BY <3>4, <3>5
  <2>9. Changing' \subseteq delivery'.touched /\ delivery'.owed \cap delivery'.touched = {}
        /\ delivery'.astray \subseteq delivery'.touched \cup crossed'
    BY <1>11, <2>1, <2>2
  <2>10. delivery'.i \in 1 .. (delivery'.len + 1) /\ delivery'.len <= Len(Cells)'
    BY <2>1, <2>4, <2>5
  <2> QED
    BY <2>1, <2>4, <2>7, <2>8, <2>9, <2>10 DEF DeliveryInv
<1>13. ASSUME ReadCell PROVE DeliveryInv'
  <2>1. Delivering /\ delivery.id = None /\ delivery.i <= delivery.len
    BY <1>13 DEF ReadCell
  <2> DEFINE id == Cells[delivery.i]
  <2>2. /\ delivery' = [delivery EXCEPT !.id = id]
        /\ UNCHANGED <<file, index, request, crossed, unsaved>>
    BY <1>13 DEF ReadCell
  <2>3. id \in ClientIDs /\ Expected(id) /\ delivery.i \in 1 .. delivery.len
    BY <1>6, <2>1
  <2>4. PICK k \in ClientIDs : k = id
    BY <2>3
  <2> HIDE DEF id
  <2>5. /\ delivery'.user = delivery.user /\ delivery'.i = delivery.i
        /\ delivery'.len = delivery.len /\ delivery'.cells = delivery.cells
        /\ delivery'.id = k /\ delivery'.owed = delivery.owed
        /\ delivery'.touched = delivery.touched /\ delivery'.astray = delivery.astray
    BY <1>6, <2>1, <2>2, <2>4 DEF Delivery
  <2>6. Cells' = Cells
    BY <2>2, <2>5 DEF Cells
  <2>7. \A x : \A p \in Nat : Ahead(x, p) => Ahead(x, p)'
    <3>1. k = Cells[delivery.i]
      BY <2>4 DEF id
    <3> QED
      BY <2>2, <2>5, <2>6, <3>1 DEF Ahead
  <2>8. \A x \in delivery'.owed : \E p \in Nat : Ahead(x, p)'
    BY <1>6, <2>1, <2>5, <2>7
  <2>9. \A x : Expected(x) => Expected(x)'
    BY <1>11, <2>2, <2>5
  <2>10. \A p \in 1 .. delivery'.len : Cells'[p] \in ClientIDs /\ Expected(Cells[p])'
    BY <1>6, <2>1, <2>5, <2>6, <2>9
  <2>11. Expected(delivery.id)'
    BY <2>3, <2>4, <2>5, <2>9
  <2>12. delivery'.cells = None => index'[delivery'.user] # None
    BY <1>1, <2>1, <2>2, <2>5 DEF DeliveryInv
  <2>13. Changing' \subseteq delivery'.touched /\ delivery'.owed \cap delivery'.touched = {}
         /\ delivery'.astray \subseteq delivery'.touched \cup crossed'
    BY <1>6, <1>11, <2>1, <2>2, <2>5
  <2>14. delivery'.i \in 1 .. (delivery'.len + 1) /\ delivery'.i <= delivery'.len
         /\ delivery'.len <= Len(Cells)'
    BY <1>6, <2>1, <2>5, <2>6
  <2> QED
    BY <2>8, <2>10, <2>11, <2>12, <2>13, <2>14 DEF DeliveryInv
<1>14. ASSUME SendClient PROVE DeliveryInv'
  <2>1. Delivering /\ delivery.id # None
    BY <1>14 DEF SendClient
  <2>2. PICK k \in ClientIDs : k = delivery.id
    BY <1>6, <2>1
  <2>3. PICK sent \in BOOLEAN, astray \in {delivery.astray, delivery.astray \cup {k}} :
          /\ astray # delivery.astray => k \notin Owned(delivery.user)
          /\ delivery' = [delivery EXCEPT !.i = delivery.i + 1, !.id = None,
                            !.owed = delivery.owed \ {k}, !.astray = astray]
    BY <1>14, <2>2 DEF SendClient, Following
  <2>4. UNCHANGED <<file, index, request, crossed, unsaved>>
    BY <1>14 DEF SendClient
  <2>5. /\ delivery'.user = delivery.user /\ delivery'.i = delivery.i + 1
        /\ delivery'.len = delivery.len /\ delivery'.cells = delivery.cells
        /\ delivery'.id = None /\ delivery'.owed = delivery.owed \ {k}
        /\ delivery'.touched = delivery.touched /\ delivery'.astray = astray
    BY <1>6, <2>1, <2>3 DEF Delivery
  <2>6. Cells' = Cells
    BY <2>4, <2>5 DEF Cells
  <2>7. ASSUME NEW x \in delivery'.owed PROVE \E p \in Nat : Ahead(x, p)'
    <3>1. x \in delivery.owed /\ x # k
      BY <2>5
    <3>2. PICK p \in Nat : Ahead(x, p)
      BY <1>6, <2>1, <3>1
    <3>3. p # delivery.i
      BY <2>1, <2>2, <3>1, <3>2 DEF Ahead
    <3>4. p \in (delivery.i + 1) .. delivery.len
      BY <1>6, <2>1, <3>2, <3>3 DEF Ahead
    <3>5. Ahead(x, p)'
      BY <2>4, <2>5, <2>6, <3>2, <3>4 DEF Ahead
    <3> QED
      BY <3>5
  <2>8. \A x : Expected(x) => Expected(x)'
    BY <1>11, <2>4, <2>5
  <2>9. \A p \in 1 .. delivery'.len : Cells'[p] \in ClientIDs /\ Expected(Cells[p])'
    BY <1>6, <2>1, <2>5, <2>6, <2>8
  <2>10. delivery'.cells = None => index'[delivery'.user] # None
    BY <1>1, <2>1, <2>4, <2>5 DEF DeliveryInv
  <2>11. delivery'.astray \subseteq delivery'.touched \cup crossed'
    <3>1. Expected(k)
      BY <1>6, <2>1, <2>2
    <3>2. k \in Owned(delivery.user) \cup delivery.touched \cup crossed
      BY <3>1 DEF Expected
    <3> QED
      BY <1>6, <2>1, <2>3, <2>4, <2>5, <3>2
  <2>12. Changing' \subseteq delivery'.touched /\ delivery'.owed \cap delivery'.touched = {}
    BY <1>6, <1>11, <2>1, <2>4, <2>5
  <2>13. delivery'.i \in 1 .. (delivery'.len + 1) /\ delivery'.len <= Len(Cells)'
    BY <1>6, <2>1, <2>5, <2>6
  <2> QED
    BY <2>5, <2>7, <2>9, <2>10, <2>11, <2>12, <2>13 DEF DeliveryInv
<1>15. CASE UNCHANGED vars
  <2>1. UNCHANGED <<file, index, request, crossed, unsaved>> /\ delivery' = delivery
    BY <1>15 DEF vars
  <2>2. Cells' = Cells /\ Changing' = Changing /\ \A u : Owned(u)' = Owned(u)
    BY <2>1 DEF Cells, Changing, Owned
  <2> QED
    BY <1>1, <2>1, <2>2 DEF DeliveryInv, Delivering, Expected, Ahead
<1>16. ASSUME ~Delivering
       PROVE  /\ delivery = None
              /\ \A c : Touched(delivery, c) = None
              /\ \A c, u : Carried(c, u) = None /\ Touched(Carried(c, u), c) = None
  BY <1>16 DEF Delivering, Touched, Carried
<1>17. ASSUME NEW r \in Requests, NEW c \in ClientIDs, NEW rec \in Records, WriteFile(r, c, rec)
       PROVE  DeliveryInv'
  BY <1>3, <1>7, <1>16, <1>17 DEF WriteFile
<1>18. ASSUME NEW r \in Requests, UpdateIndex(r) PROVE DeliveryInv'
  <2>1. request[r].client \in ClientIDs /\ request[r].tg \in TgUsers \cup {None}
    BY <1>2, <1>18, TaskFacts DEF UpdateIndex
  <2> QED
    BY <1>3, <1>8, <1>16, <1>18, <2>1 DEF UpdateIndex
<1>19. ASSUME NEW r \in Requests, NEW c \in ClientIDs, RemoveClient(r, c) PROVE DeliveryInv'
  BY <1>3, <1>9, <1>16, <1>19 DEF RemoveClient
<1>20. ASSUME NEW r \in Requests, Unlink(r) PROVE DeliveryInv'
  BY <1>3, <1>10, <1>16, <1>20 DEF Unlink
<1>21. CASE Finish \/ Restart
  BY <1>3, <1>21 DEF Finish, Restart
<1> QED
  BY <1>12, <1>13, <1>14, <1>15, <1>17, <1>18, <1>19, <1>20, <1>21 DEF Next

-----------------------------------------------------------------------------
(* The theorems.                                                           *)

(* The invariant holds in every reachable state.                           *)
LEMMA Inductive == Spec => []IInv
<1>1. Init => IInv
  <2> SUFFICES ASSUME Init PROVE IInv
    OBVIOUS
  <2>1. /\ file \in [ClientIDs -> {None} \cup Records] /\ request = [r \in Requests |-> Done]
        /\ delivery = None /\ crossed = {} /\ unsaved = {}
    BY DEF Init
  <2>2. GoodIndex(index) /\ \A u \in TgUsers : \A c : Under(index, u, c) <=> c \in Owned(u)
    BY <2>1, RebuiltFacts DEF Init
  <2>3. Done \in Tasks
    BY DEF Tasks
  <2>4. TypeOK
    BY <2>1, <2>2, <2>3, GoodTypes DEF TypeOK
  <2>5. Settled /\ Pending
    BY <2>1, <2>2 DEF Settled, Pending, Agrees
  <2>6. DeliveryInv
    BY <2>1 DEF DeliveryInv, Delivering
  <2> QED
    BY <2>2, <2>4, <2>5, <2>6 DEF IInv, StoreInv
<1>2. IInv /\ [Next]_vars => IInv'
  BY TypeStep, StoreStep, DeliveryStep DEF IInv, StoreInv
<1> QED
  BY <1>1, <1>2, PTL DEF Spec

(* The index and the delivery keep their types: no user has an empty       *)
(* slice, no client stands twice in one, and what a delivery reads is a    *)
(* client (RemoveTgToClientID, UpdateTgToClientID).                        *)
THEOREM TypeCorrect == Spec => []TypeOK
<1>1. IInv => TypeOK
  BY DEF IInv, StoreInv
<1> QED
  BY <1>1, Inductive, PTL

(* The index agrees with the clients' files wherever nothing is changing   *)
(* (SaveClient, DeleteClient, jsondb.Init).                                *)
THEOREM IndexFollowsStore == Spec => []IndexMatchesStore
<1>1. IInv => IndexMatchesStore
  BY IndexedIs DEF IInv, StoreInv, Settled, Agrees, IndexMatchesStore
<1> QED
  BY <1>1, Inductive, PTL

(* A delivery that comes to its end has sent, or listed as failed, all it  *)
(* owed (SendRequestedConfigsToTelegram reading its slice without the      *)
(* lock).                                                                  *)
THEOREM DeliveriesComplete == Spec => []DeliveryComplete
<1>1. IInv => DeliveryComplete
  <2> SUFFICES ASSUME IInv, AtEnd PROVE delivery.owed = {}
    BY DEF DeliveryComplete
  <2>1. delivery.i \in Nat /\ delivery.len \in Nat
    BY DeliveryFields DEF IInv, StoreInv, TypeOK, AtEnd, Delivering
  <2>2. delivery.i > delivery.len /\ Delivering
    BY DEF AtEnd
  <2>3. \A c : \A p \in Nat : ~Ahead(c, p)
    BY <2>1, <2>2 DEF Ahead
  <2> QED
    BY <2>2, <2>3 DEF IInv, DeliveryInv
<1> QED
  BY <1>1, Inductive, PTL

(* A delivery sends a client that is disabled or another user's only when  *)
(* a request has touched it.                                               *)
THEOREM OnlyToOwners == Spec => []OnlyOwnClients
<1>1. IInv => OnlyOwnClients
  BY DEF IInv, DeliveryInv, OnlyOwnClients
<1> QED
  BY <1>1, Inductive, PTL
=============================================================================
