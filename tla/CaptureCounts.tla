------------------------------ MODULE CaptureCounts ----------------------------
(***************************************************************************)
(* Theorems about what the capture loop counts: no packet of a flow and no *)
(* byte of it is counted twice or forgotten, and the diagnostics add up.   *)
(***************************************************************************)
EXTENDS CaptureProofs, SumProofs

-------------------------------------------------------------------------------
(* Sequences: the total of the values v of the elements of q.              *)

Values(v, q) == [i \in DOMAIN q |-> v[q[i]]]

Total(v, q) == Sum(Values(v, q), DOMAIN q)

(* The positions of a sequence, and their values.                          *)
LEMMA Positions ==
  ASSUME NEW T, NEW v \in [T -> Nat], NEW q \in Seq(T)
  PROVE  /\ DOMAIN q = 1 .. Len(q) /\ Len(q) \in Nat /\ IsFiniteSet(DOMAIN q)
         /\ DOMAIN Values(v, q) = DOMAIN q
         /\ \A i \in DOMAIN q : /\ q[i] \in T /\ Values(v, q)[i] = v[q[i]]
                                /\ Values(v, q)[i] \in Nat
<1>1. DOMAIN q = 1 .. Len(q) /\ Len(q) \in Nat
  OBVIOUS
<1>2. IsFiniteSet(1 .. Len(q))
  BY <1>1, FS_Interval
<1>3. \A i \in DOMAIN q : q[i] \in T
  BY <1>1
<1> QED
  BY <1>1, <1>2, <1>3 DEF Values

(* A total of natural numbers is one.                                      *)
LEMMA TotalNat ==
  ASSUME NEW T, NEW v \in [T -> Nat], NEW q \in Seq(T)
  PROVE  Total(v, q) \in Nat
BY Positions, SumNat DEF Total

(* The total of nothing.                                                   *)
LEMMA TotalEmpty ==
  ASSUME NEW v
  PROVE  Total(v, <<>>) = 0
<1>1. DOMAIN <<>> = {}
  OBVIOUS
<1> QED
  BY <1>1, SumEmpty DEF Total

(* One more element at the end.                                            *)
LEMMA TotalAppend ==
  ASSUME NEW T, NEW v \in [T -> Nat], NEW q \in Seq(T), NEW e \in T
  PROVE  Total(v, Append(q, e)) = Total(v, q) + v[e]
<1> DEFINE r == Append(q, e)
           n == Len(q) + 1
<1>1. r \in Seq(T) /\ Len(r) = n /\ Len(q) \in Nat /\ r[n] = e
      /\ \A i \in 1 .. Len(q) : r[i] = q[i]
  OBVIOUS
<1> HIDE DEF r
<1>2. /\ DOMAIN q = 1 .. Len(q) /\ IsFiniteSet(DOMAIN q) /\ DOMAIN r = 1 .. n
      /\ \A i \in DOMAIN q : Values(v, q)[i] = v[q[i]]
      /\ \A i \in DOMAIN r : Values(v, r)[i] = v[r[i]] /\ Values(v, r)[i] \in Nat
  BY <1>1, Positions
<1>3. DOMAIN r = DOMAIN q \cup {n} /\ n \notin DOMAIN q
  BY <1>1, <1>2
<1> HIDE DEF n
<1>4. Sum(Values(v, r), DOMAIN q \cup {n}) = Values(v, r)[n] + Sum(Values(v, r), DOMAIN q)
  BY <1>2, <1>3, SumAdd
<1>5. Sum(Values(v, r), DOMAIN q) = Sum(Values(v, q), DOMAIN q)
  <2>1. \A i \in DOMAIN q : Values(v, r)[i] = Values(v, q)[i]
    BY <1>1, <1>2, <1>3, SMTT(30)
  <2> QED
    BY <1>2, <2>1, SumSame
<1>6. Values(v, r)[n] = v[e] /\ v[e] \in Nat
  BY <1>1, <1>2, <1>3
<1>7. Total(v, q) \in Nat
  BY TotalNat
<1>8. Total(v, r) = v[e] + Total(v, q)
  BY <1>3, <1>4, <1>5, <1>6 DEF Total
<1> QED
  BY <1>6, <1>7, <1>8 DEF r

(* The first element and those after it.                                   *)
LEMMA TotalTail ==
  ASSUME NEW T, NEW v \in [T -> Nat], NEW q \in Seq(T), q # <<>>
  PROVE  Total(v, q) = v[Head(q)] + Total(v, Tail(q))
<1> DEFINE r == Tail(q)
           n == Len(q)
           h == [i \in 1 .. n - 1 |-> i + 1]
<1>1. r \in Seq(T) /\ n \in Nat /\ n > 0 /\ Len(r) = n - 1 /\ Head(q) = q[1]
      /\ \A i \in 1 .. n - 1 : r[i] = q[i + 1]
  OBVIOUS
<1> HIDE DEF r, n
<1>2. /\ DOMAIN q = 1 .. n /\ IsFiniteSet(DOMAIN q)
      /\ DOMAIN r = 1 .. n - 1 /\ IsFiniteSet(DOMAIN r)
      /\ \A i \in DOMAIN q : Values(v, q)[i] = v[q[i]] /\ Values(v, q)[i] \in Nat
      /\ \A i \in DOMAIN r : Values(v, r)[i] = v[r[i]] /\ Values(v, r)[i] \in Nat
  BY <1>1, Positions DEF n
<1>3. 1 \in DOMAIN q /\ DOMAIN q \ {1} = 2 .. n
  BY <1>1, <1>2
<1> DEFINE f == Values(v, r)
           g == Values(v, q)
           S == DOMAIN r
           D == DOMAIN q
           R == D \ {1}
<1>4. Sum(g, D) = g[1] + Sum(g, R)
  <2>1. (\A i \in D : g[i] \in Nat) /\ IsFiniteSet(D) /\ 1 \in D
    BY <1>2, <1>3
  <2> HIDE DEF g, D
  <2> QED
    BY <2>1, SumTake
<1>5. Sum(f, S) = Sum(g, R)
  <2>1. R = {h[i] : i \in S}
    <3>1. ASSUME NEW k \in R
          PROVE  k - 1 \in S /\ h[k - 1] = k
      <4>1. k \in 2 .. n
        BY <1>3
      <4>2. k - 1 \in 1 .. n - 1 /\ k - 1 + 1 = k
        BY <1>1, <4>1
      <4> QED
        BY <1>2, <4>2
    <3>2. ASSUME NEW i \in S
          PROVE  h[i] \in R
      <4>1. i \in 1 .. n - 1 /\ i + 1 \in 2 .. n
        BY <1>1, <1>2
      <4> QED
        BY <1>3, <4>1
    <3> HIDE DEF h, R, S
    <3> QED
      BY <3>1, <3>2
  <2>2. \A i, j \in S : h[i] = h[j] => i = j
    BY <1>1, <1>2
  <2>3. \A i \in S : f[i] = g[h[i]] /\ f[i] \in Nat
    <3> TAKE i \in S
    <3>1. h[i] = i + 1 /\ i + 1 \in DOMAIN q /\ r[i] = q[i + 1]
      BY <1>1, <1>2, SMTT(30)
    <3> QED
      BY <1>2, <3>1
  <2>4. IsFiniteSet(S)
    BY <1>2
  <2> HIDE DEF h, f, g, S, R, D
  <2> QED
    BY <2>1, <2>2, <2>3, <2>4, SumRenamed
<1> QED
  BY <1>1, <1>2, <1>3, <1>4, <1>5 DEF Total, r

-------------------------------------------------------------------------------
(* A quantity, packets or bytes, as packets carry it and as buckets do.    *)

BucketFor(start, key, packets, bytes) ==
  [bucket_start |-> start, key |-> key, packets |-> packets, bytes |-> bytes]

Quantity(w, v) ==
  /\ w \in [Packet -> Nat] /\ v \in [Bucket -> Nat]
  /\ \A p \in Packet : p.key \notin FlowKey => w[p] = 0
  /\ \A start \in Nat, key \in FlowKey : v[BucketFor(start, key, 0, 0)] = 0
  /\ \A p \in Packet, start \in Nat, key \in FlowKey, packets \in Nat, bytes \in Nat :
       p.key \in FlowKey =>
         v[BucketFor(start, key, packets + 1, bytes + p.wire_bytes)] =
           v[BucketFor(start, key, packets, bytes)] + w[p]

(* A batch whose buckets can be added up.                                  *)
FiniteBatch == {b \in FlowBatch : IsFiniteSet(b.buckets)}

BatchSums(v) == [b \in FiniteBatch |-> Sum(v, b.buckets)]

(* What is in memory, or was lost with it.                                 *)
Held == to_buckets(flows) \cup unsaved

Conserved(w, v) ==
  counted.dropped = 0 =>
    Total(w, arrived) = Total(BatchSums(v), batches) + Sum(v, Held) + Total(w, ring)

(* A process that runs has lost nothing, and one that is gone holds none.  *)
Countable ==
  /\ IsFiniteSet(to_buckets(flows)) /\ IsFiniteSet(unsaved) /\ unsaved \subseteq Bucket
  /\ batches \in Seq(FiniteBatch)
  /\ IF pc = "exited" THEN to_buckets(flows) = {} ELSE unsaved = {}

-------------------------------------------------------------------------------
(* The map as a set of buckets.                                            *)

BucketAt(f, s) == BucketFor(s[1], s[2], f[s].packets, f[s].bytes)

BucketsAt(f, slots) == {BucketAt(f, s) : s \in slots}

(* to_buckets makes a bucket of each slot.                                 *)
LEMMA BucketsAreAt ==
  ASSUME NEW f
  PROVE  to_buckets(f) = BucketsAt(f, DOMAIN f)
BY DEF to_buckets, BucketsAt, BucketAt, BucketFor

(* A slot, its counters and its bucket, by their parts.                    *)
LEMMA BucketAtTyped ==
  ASSUME NEW f, Aggregate(f), NEW s \in DOMAIN f
  PROVE  /\ s[1] \in Nat /\ s[2] \in FlowKey /\ s = <<s[1], s[2]>>
         /\ f[s].packets \in Nat /\ f[s].bytes \in Nat /\ BucketAt(f, s) \in Bucket
<1>1. s \in Nat \X FlowKey /\ f[s] \in [packets : Nat, bytes : Nat]
  BY DEF Aggregate, Slot, Counters
<1>2. s[1] \in Nat /\ s[2] \in FlowKey /\ s = <<s[1], s[2]>>
  BY <1>1
<1>3. f[s].packets \in Nat /\ f[s].bytes \in Nat
  BY <1>1
<1> QED
  BY <1>2, <1>3 DEF BucketAt, BucketFor, Bucket

(* The bucket of a slot is that of no other one.                           *)
LEMMA OtherBuckets ==
  ASSUME NEW f, NEW slot, NEW slots,
         slot = <<slot[1], slot[2]>>, slot \notin slots,
         \A s \in slots : s = <<s[1], s[2]>>
  PROVE  \A packets, bytes : BucketFor(slot[1], slot[2], packets, bytes) \notin BucketsAt(f, slots)
<1> SUFFICES ASSUME NEW packets, NEW bytes, NEW s \in slots,
                    BucketFor(slot[1], slot[2], packets, bytes) = BucketAt(f, s)
             PROVE  FALSE
  BY DEF BucketsAt
<1>1. slot[1] = s[1] /\ slot[2] = s[2]
  BY DEF BucketFor, BucketAt
<1> QED
  BY <1>1

(* The numbers in a packet.                                                *)
LEMMA PacketNumbers ==
  ASSUME NEW p \in Packet
  PROVE  p.timestamp \in Nat /\ p.wire_bytes \in Nat
<1>1. p.timestamp \in 0 .. MaxClock /\ p.wire_bytes \in Sizes
  BY DEF Packet
<1>2. (\A n \in 0 .. MaxClock : n \in Nat) /\ (\A n \in Sizes : n \in Nat)
  BY CaptureAssumption
<1> QED
  BY <1>1, <1>2

(* Counting a packet adds to the quantity what the packet carries.         *)
LEMMA PushCounts ==
  ASSUME NEW w, NEW v, Quantity(w, v), NEW f, Aggregate(f), IsFiniteSet(to_buckets(f)),
         NEW p \in Packet, p.key \in FlowKey
  PROVE  LET new == push(f, p.timestamp, p.key, p.wire_bytes)
         IN  /\ IsFiniteSet(to_buckets(new))
             /\ Sum(v, to_buckets(new)) = Sum(v, to_buckets(f)) + w[p]
<1> DEFINE start  == bucket_of(p.timestamp)
           slot   == <<start, p.key>>
           old    == IF slot \in DOMAIN f THEN f[slot] ELSE [packets |-> 0, bytes |-> 0]
           new    == push(f, p.timestamp, p.key, p.wire_bytes)
           others == BucketsAt(f, DOMAIN f \ {slot})
           was    == BucketFor(start, p.key, old.packets, old.bytes)
           is     == BucketFor(start, p.key, old.packets + 1, old.bytes + p.wire_bytes)
<1>1. p.timestamp \in Nat /\ p.wire_bytes \in Nat /\ start \in Nat
  <2>1. p.timestamp \in Nat /\ p.wire_bytes \in Nat
    BY PacketNumbers
  <2> QED
    BY <2>1, BucketStart DEF Start
<1>2. old.packets \in Nat /\ old.bytes \in Nat
  BY BucketAtTyped
<1>3. DOMAIN new = DOMAIN f \cup {slot}
  BY DEF push
<1>4. \A s \in DOMAIN f \ {slot} : new[s] = f[s]
  BY DEF push
<1>5. new[slot] = [packets |-> old.packets + 1, bytes |-> old.bytes + p.wire_bytes]
  BY DEF push
<1> HIDE DEF start, old, new
<1>6. to_buckets(new) = others \cup {is}
  <2>1. BucketAt(new, slot) = is
    BY <1>5 DEF BucketAt, BucketFor
  <2>2. \A s \in DOMAIN f \ {slot} : BucketAt(new, s) = BucketAt(f, s)
    BY <1>4 DEF BucketAt
  <2>3. DOMAIN new = (DOMAIN f \ {slot}) \cup {slot}
    BY <1>3
  <2> HIDE DEF slot, is
  <2> QED
    BY <2>1, <2>2, <2>3, BucketsAreAt DEF BucketsAt
<1>7. IF slot \in DOMAIN f THEN to_buckets(f) = others \cup {was}
                           ELSE to_buckets(f) = others /\ v[was] = 0
  <2>1. CASE slot \in DOMAIN f
    <3>1. BucketAt(f, slot) = was
      BY <2>1 DEF BucketAt, old
    <3>2. DOMAIN f = (DOMAIN f \ {slot}) \cup {slot}
      BY <2>1
    <3> HIDE DEF slot, was
    <3> QED
      BY <2>1, <3>1, <3>2, BucketsAreAt DEF BucketsAt
  <2>2. CASE slot \notin DOMAIN f
    <3>1. DOMAIN f \ {slot} = DOMAIN f
      BY <2>2
    <3>2. old.packets = 0 /\ old.bytes = 0
      BY <2>2 DEF old
    <3>3. v[was] = 0
      BY <1>1, <3>2 DEF Quantity
    <3> HIDE DEF slot, was
    <3> QED
      BY <2>2, <3>1, <3>3, BucketsAreAt
  <2> QED
    BY <2>1, <2>2
<1>8. was \notin others /\ is \notin others
  <2>1. \A s \in DOMAIN f \ {slot} : s = <<s[1], s[2]>>
    BY BucketAtTyped
  <2>2. slot = <<slot[1], slot[2]>> /\ slot[1] = start /\ slot[2] = p.key
    OBVIOUS
  <2> HIDE DEF slot
  <2> QED
    BY <2>1, <2>2, OtherBuckets
<1>9. others \subseteq Bucket /\ was \in Bucket /\ is \in Bucket
  <2>1. others \subseteq Bucket
    BY BucketAtTyped DEF BucketsAt
  <2>2. \A packets, bytes \in Nat : BucketFor(start, p.key, packets, bytes) \in Bucket
    BY <1>1 DEF BucketFor, Bucket
  <2>3. old.packets + 1 \in Nat /\ old.bytes + p.wire_bytes \in Nat
    BY <1>1, <1>2
  <2> HIDE DEF others
  <2> QED
    BY <1>2, <2>1, <2>2, <2>3
<1>10. others \subseteq to_buckets(f)
  BY <1>7
<1>11. IsFiniteSet(others)
  BY <1>10, FS_Subset
<1>12. v[is] = v[was] + w[p]
  BY <1>1, <1>2, SMTT(30) DEF Quantity
<1>13. v \in [Bucket -> Nat] /\ w[p] \in Nat
  BY DEF Quantity
<1> HIDE DEF others, was, is, slot
<1>14. \A b \in Bucket : v[b] \in Nat
  BY <1>13
<1>15. IsFiniteSet(others \cup {is}) /\ Sum(v, others \cup {is}) = v[is] + Sum(v, others)
  BY <1>8, <1>9, <1>11, <1>14, FS_AddElement, SumAdd
<1>16. Sum(v, to_buckets(f)) = v[was] + Sum(v, others)
  <2>1. Sum(v, others) \in Nat
    BY <1>9, <1>11, <1>14, SumNat
  <2>2. Sum(v, others \cup {was}) = v[was] + Sum(v, others)
    BY <1>8, <1>9, <1>11, <1>14, SumAdd
  <2> QED
    BY <1>7, <2>1, <2>2, SMTT(30)
<1>17. v[was] \in Nat /\ Sum(v, others) \in Nat
  BY <1>9, <1>11, <1>14, SumNat
<1>18. IsFiniteSet(to_buckets(new)) /\ Sum(v, to_buckets(new)) = Sum(v, to_buckets(f)) + w[p]
  BY <1>6, <1>12, <1>13, <1>15, <1>16, <1>17
<1> QED
  BY <1>18 DEF new

(* Splitting the map splits the quantity.                                  *)
LEMMA SplitCounts ==
  ASSUME NEW w, NEW v, Quantity(w, v), NEW f, Aggregate(f), IsFiniteSet(to_buckets(f)),
         NEW start \in Nat
  PROVE  LET early == to_buckets(before(f, start))
             late  == to_buckets(retained(f, start))
         IN  /\ to_buckets(f) = early \cup late
             /\ IsFiniteSet(early) /\ IsFiniteSet(late)
             /\ Sum(v, early) \in Nat /\ Sum(v, late) \in Nat
             /\ Sum(v, to_buckets(f)) = Sum(v, early) + Sum(v, late)
<1> DEFINE early == to_buckets(before(f, start))
           late  == to_buckets(retained(f, start))
<1>1. /\ early = BucketsAt(f, {s \in DOMAIN f : s[1] < start})
      /\ late = BucketsAt(f, {s \in DOMAIN f : s[1] >= start})
  BY DEF before, retained, Restrict, to_buckets, BucketsAt, BucketAt, BucketFor
<1>2. \A s \in DOMAIN f : s[1] \in Nat
  BY BucketAtTyped
<1>3. to_buckets(f) = early \cup late
  <2>1. DOMAIN f = {s \in DOMAIN f : s[1] < start} \cup {s \in DOMAIN f : s[1] >= start}
    BY <1>2
  <2> HIDE DEF early, late
  <2> QED
    BY <1>1, <2>1, BucketsAreAt DEF BucketsAt
<1>4. early \cap late = {}
  <2>1. \A b \in early : b.bucket_start < start
    BY <1>1 DEF BucketsAt, BucketAt, BucketFor
  <2>2. \A b \in late : b.bucket_start >= start
    BY <1>1 DEF BucketsAt, BucketAt, BucketFor
  <2>3. \A b \in late : b.bucket_start \in Nat
    BY <1>3, BucketsTyped DEF Bucket
  <2> HIDE DEF early, late
  <2> QED
    BY <2>1, <2>2, <2>3
<1>5. to_buckets(f) \subseteq Bucket /\ \A b \in Bucket : v[b] \in Nat
  BY BucketsTyped DEF Quantity
<1> HIDE DEF early, late
<1>6. IsFiniteSet(early) /\ IsFiniteSet(late)
  BY <1>3, FS_Subset
<1>7. \A b \in early \cup late : v[b] \in Nat
  BY <1>3, <1>5
<1>8. Sum(v, early \cup late) = Sum(v, early) + Sum(v, late)
  BY <1>4, <1>6, <1>7, SumUnion
<1>9. Sum(v, early) \in Nat /\ Sum(v, late) \in Nat
  BY <1>6, <1>7, SumNat
<1> QED
  BY <1>3, <1>6, <1>8, <1>9 DEF early, late

(* The quantity in a batch is a number.                                    *)
LEMMA BatchSumsTyped ==
  ASSUME NEW w, NEW v, Quantity(w, v)
  PROVE  BatchSums(v) \in [FiniteBatch -> Nat]
<1> SUFFICES ASSUME NEW b \in FiniteBatch
             PROVE  Sum(v, b.buckets) \in Nat
  BY DEF BatchSums
<1>1. IsFiniteSet(b.buckets) /\ b.buckets \subseteq Bucket
  BY DEF FiniteBatch, FlowBatch
<1>2. \A x \in b.buckets : v[x] \in Nat
  BY <1>1 DEF Quantity
<1> QED
  BY <1>1, <1>2, SumNat

(* Adding a batch adds what its buckets hold.                              *)
LEMMA BatchCounts ==
  ASSUME NEW w, NEW v, Quantity(w, v), NEW list \in Seq(FiniteBatch), NEW batch \in FiniteBatch
  PROVE  /\ Append(list, batch) \in Seq(FiniteBatch)
         /\ Total(BatchSums(v), list) \in Nat
         /\ Total(BatchSums(v), Append(list, batch)) =
              Total(BatchSums(v), list) + Sum(v, batch.buckets)
<1>1. BatchSums(v) \in [FiniteBatch -> Nat]
  BY BatchSumsTyped
<1>2. BatchSums(v)[batch] = Sum(v, batch.buckets)
  BY DEF BatchSums
<1> HIDE DEF BatchSums
<1>3. Append(list, batch) \in Seq(FiniteBatch)
  OBVIOUS
<1> QED
  BY <1>1, <1>2, <1>3, TotalAppend, TotalNat

-------------------------------------------------------------------------------
(* Conservation is kept by every step.                                     *)

(* What the proof of a step knows.                                         *)
Known(w, v) == IInv /\ Countable /\ Quantity(w, v) /\ Conserved(w, v)

(* The numbers that Conserved adds.                                        *)
LEMMA HeldNat ==
  ASSUME NEW w, NEW v, Quantity(w, v), IInv, Countable
  PROVE  /\ Sum(v, to_buckets(flows)) \in Nat /\ Sum(v, unsaved) \in Nat
         /\ Total(w, arrived) \in Nat /\ Total(w, ring) \in Nat
         /\ Total(BatchSums(v), batches) \in Nat
<1>1. to_buckets(flows) \subseteq Bucket /\ unsaved \subseteq Bucket
  BY BucketsTyped DEF IInv, Locals, Countable
<1>2. \A b \in Bucket : v[b] \in Nat
  BY DEF Quantity
<1>3. Sum(v, to_buckets(flows)) \in Nat /\ Sum(v, unsaved) \in Nat
  BY <1>1, <1>2, SumNat DEF Countable
<1>4. Total(w, arrived) \in Nat /\ Total(w, ring) \in Nat
  <2>1. arrived \in Seq(Packet) /\ ring \in Seq(Packet) /\ w \in [Packet -> Nat]
    BY DEF IInv, Kernel, Quantity
  <2> QED
    BY <2>1, TotalNat
<1>5. BatchSums(v) \in [FiniteBatch -> Nat]
  BY BatchSumsTyped
<1>6. Total(BatchSums(v), batches) \in Nat
  BY <1>5, TotalNat DEF Countable
<1> QED
  BY <1>3, <1>4, <1>6

(* What is held while the process runs, and after.                         *)
LEMMA HeldIs ==
  ASSUME Countable
  PROVE  Held = IF pc = "exited" THEN unsaved ELSE to_buckets(flows)
BY DEF Held, Countable

(* The clock, the interface and a timeout move no packet.                  *)
LEMMA QuietConserves ==
  ASSUME NEW w, NEW v, Known(w, v),
         Advance \/ SetBack \/ InterfaceDrops \/ PollTimeout \/ UNCHANGED vars
  PROVE  Countable' /\ Conserved(w, v)'
<1>1. UNCHANGED <<arrived, ring, flows, batches, unsaved>>
  BY DEF Advance, SetBack, InterfaceDrops, PollTimeout, vars, kernel, locals
<1>2. counted'.dropped = counted.dropped
  <2>1. CASE InterfaceDrops
    <3>1. counted' = [counted EXCEPT !.interface_dropped = @ + 1] /\ counted \in Stats
      BY <2>1 DEF InterfaceDrops, Known, IInv, Kernel
    <3> QED
      BY <3>1 DEF Stats
  <2>2. CASE Advance \/ SetBack \/ PollTimeout \/ UNCHANGED vars
    BY <2>2 DEF Advance, SetBack, PollTimeout, vars, kernel
  <2> QED
    BY <2>1, <2>2
<1>3. pc' = pc \/ (pc = "poll" /\ pc' = "drain")
  BY DEF Advance, SetBack, InterfaceDrops, PollTimeout, vars
<1>4. Countable'
  BY <1>1, <1>3 DEF Known, Countable
<1>5. Conserved(w, v)'
  BY <1>1, <1>2 DEF Known, Conserved, Held
<1> QED
  BY <1>4, <1>5

(* A packet that arrives is in the ring, or counted as dropped.            *)
LEMMA ArriveConserves ==
  ASSUME NEW w, NEW v, Known(w, v),
         NEW key \in FlowKey \cup {Ignored, Malformed}, NEW wire_bytes \in Sizes,
         Arrive(key, wire_bytes)
  PROVE  Countable' /\ Conserved(w, v)'
<1> DEFINE packet == [timestamp |-> clock, key |-> key, wire_bytes |-> wire_bytes]
<1>1. /\ packet \in Packet /\ arrived \in Seq(Packet) /\ ring \in Seq(Packet)
      /\ counted \in Stats /\ w \in [Packet -> Nat]
  BY DEF Known, IInv, Kernel, Packet, Quantity
<1>2. UNCHANGED <<pc, flows, batches, unsaved>>
  BY DEF Arrive, locals
<1>3. arrived' = Append(arrived, packet)
  BY DEF Arrive
<1>4. \/ ring' = Append(ring, packet) /\ counted' = [counted EXCEPT !.received = @ + 1]
      \/ counted' = [counted EXCEPT !.received = @ + 1, !.dropped = @ + 1]
  BY DEF Arrive
<1> HIDE DEF packet
<1>5. Countable'
  BY <1>2 DEF Known, Countable
<1>6. CASE ring' = Append(ring, packet) /\ counted' = [counted EXCEPT !.received = @ + 1]
  <2>1. counted'.dropped = counted.dropped
    BY <1>1, <1>6 DEF Stats
  <2>2. /\ Total(w, arrived') = Total(w, arrived) + w[packet]
        /\ Total(w, ring') = Total(w, ring) + w[packet]
    BY <1>1, <1>3, <1>6, TotalAppend
  <2>3. w[packet] \in Nat /\ Held' = Held
    BY <1>1, <1>2 DEF Held
  <2>4. /\ Total(w, arrived) \in Nat /\ Total(w, ring) \in Nat
        /\ Total(BatchSums(v), batches) \in Nat /\ Sum(v, Held) \in Nat
    BY HeldNat, HeldIs DEF Known
  <2>5. Conserved(w, v)'
    <3>1. SUFFICES ASSUME counted'.dropped = 0
                   PROVE  Total(w, arrived') = Total(BatchSums(v), batches)
                            + Sum(v, Held) + Total(w, ring')
      BY <1>2, <2>3 DEF Conserved
    <3>2. Total(w, arrived) = Total(BatchSums(v), batches) + Sum(v, Held) + Total(w, ring)
      BY <2>1, <3>1 DEF Known, Conserved
    <3> QED
      BY <2>2, <2>3, <2>4, <3>2
  <2> QED
    BY <1>5, <2>5
<1>7. CASE counted' = [counted EXCEPT !.received = @ + 1, !.dropped = @ + 1]
  <2>1. counted'.dropped = counted.dropped + 1 /\ counted.dropped \in Nat
    BY <1>1, <1>7 DEF Stats
  <2>2. Conserved(w, v)'
    BY <2>1 DEF Conserved
  <2> QED
    BY <1>5, <2>2
<1> QED
  BY <1>4, <1>6, <1>7

(* A packet read leaves the ring for the map, if it is one of a flow.      *)
LEMMA ReadPacketConserves ==
  ASSUME NEW w, NEW v, Known(w, v), ReadPacket
  PROVE  Countable' /\ Conserved(w, v)'
<1> DEFINE packet == Head(ring)
<1>1. /\ ring \in Seq(Packet) /\ ring # <<>> /\ packet \in Packet
      /\ w \in [Packet -> Nat]
  BY DEF Known, IInv, Kernel, Quantity, ReadPacket
<1>2. /\ flows' = IF packet.key \in FlowKey
                    THEN push(flows, packet.timestamp, packet.key, packet.wire_bytes)
                    ELSE flows
      /\ ring' = Tail(ring) /\ pc' = "drain" /\ pc = "poll"
      /\ UNCHANGED <<arrived, counted, batches, unsaved>>
  BY DEF ReadPacket
<1>3. Total(w, ring) = w[packet] + Total(w, ring')
  BY <1>1, <1>2, TotalTail
<1> HIDE DEF packet
<1>4. Aggregate(flows) /\ IsFiniteSet(to_buckets(flows)) /\ Quantity(w, v)
  BY DEF Known, IInv, Locals, Countable
<1>5. /\ IsFiniteSet(to_buckets(flows'))
      /\ Sum(v, to_buckets(flows')) = Sum(v, to_buckets(flows)) + w[packet]
  <2>1. CASE packet.key \in FlowKey
    BY <1>1, <1>2, <1>4, <2>1, PushCounts
  <2>2. CASE packet.key \notin FlowKey
    <3>1. w[packet] = 0
      BY <1>1, <1>4, <2>2 DEF Quantity
    <3>2. Sum(v, to_buckets(flows)) \in Nat
      BY HeldNat DEF Known
    <3> QED
      BY <1>2, <1>4, <2>2, <3>1, <3>2
  <2> QED
    BY <2>1, <2>2
<1>6. Countable'
  BY <1>2, <1>5 DEF Known, Countable
<1>7. Held = to_buckets(flows) /\ Held' = to_buckets(flows')
  BY <1>2, <1>6 DEF Known, Countable, Held
<1>8. Total(w, ring') \in Nat /\ w[packet] \in Nat
  <2>1. ring' \in Seq(Packet)
    BY <1>1, <1>2
  <2> QED
    BY <1>1, <2>1, TotalNat
<1>9. Total(BatchSums(v), batches) \in Nat /\ Sum(v, to_buckets(flows)) \in Nat
  BY HeldNat DEF Known
<1>10. Conserved(w, v)'
  <2>1. SUFFICES ASSUME counted.dropped = 0
                 PROVE  Total(w, arrived) = Total(BatchSums(v), batches)
                          + Sum(v, to_buckets(flows')) + Total(w, ring')
    BY <1>2, <1>7 DEF Conserved
  <2>2. Total(w, arrived) = Total(BatchSums(v), batches) + Sum(v, to_buckets(flows))
                              + Total(w, ring)
    BY <1>7, <2>1 DEF Known, Conserved
  <2> QED
    BY <1>3, <1>5, <1>8, <1>9, <2>2
<1> QED
  BY <1>6, <1>10

Remaining == to_buckets(retained(flows, bucket_of(clock)))

(* What a drain takes and what it leaves make up what was held.            *)
LEMMA DrainCounts ==
  ASSUME NEW w, NEW v, Known(w, v), pc # "exited"
  PROVE  /\ to_buckets(flows) = Due \cup Remaining /\ Held = Due \cup Remaining
         /\ IsFiniteSet(Due) /\ IsFiniteSet(Remaining) /\ unsaved = {}
         /\ Due \cup Remaining \subseteq Bucket
         /\ Sum(v, Due) \in Nat /\ Sum(v, Remaining) \in Nat
         /\ Sum(v, Held) = Sum(v, Due) + Sum(v, Remaining)
<1>1. Aggregate(flows) /\ IsFiniteSet(to_buckets(flows)) /\ Quantity(w, v)
  BY DEF Known, IInv, Locals, Countable
<1>2. bucket_of(clock) \in Nat
  <2>1. clock \in Nat
    BY DEF Known, IInv, Kernel
  <2> QED
    BY <2>1, BucketStart DEF Start
<1>3. /\ to_buckets(flows) = Due \cup Remaining
      /\ IsFiniteSet(Due) /\ IsFiniteSet(Remaining)
      /\ Sum(v, Due) \in Nat /\ Sum(v, Remaining) \in Nat
      /\ Sum(v, to_buckets(flows)) = Sum(v, Due) + Sum(v, Remaining)
  BY <1>1, <1>2, SplitCounts DEF Due, Remaining
<1>4. Held = to_buckets(flows) /\ unsaved = {}
  BY DEF Known, Countable, Held
<1>5. to_buckets(flows) \subseteq Bucket
  BY <1>1, BucketsTyped
<1> QED
  BY <1>3, <1>4, <1>5

(* A drain that takes nothing leaves everything.                           *)
LEMMA NothingDueConserves ==
  ASSUME NEW w, NEW v, Known(w, v), NothingDue
  PROVE  Countable' /\ Conserved(w, v)'
<1>1. /\ pc = "drain" /\ pc' = "poll" /\ Due = {}
      /\ flows' = retained(flows, bucket_of(clock))
      /\ UNCHANGED <<arrived, ring, counted, batches, unsaved>>
  BY DEF NothingDue, kernel
<1>2. to_buckets(flows) = Remaining
  BY <1>1, DrainCounts
<1>3. to_buckets(flows') = to_buckets(flows)
  BY <1>1, <1>2 DEF Remaining
<1>4. Countable'
  BY <1>1, <1>3 DEF Known, Countable
<1>5. Held' = Held
  BY <1>1, <1>3 DEF Held
<1> QED
  BY <1>1, <1>4, <1>5 DEF Known, Conserved

(* The batch that an enqueue hands over.                                   *)
LEMMA DueBatch ==
  ASSUME NEW w, NEW v, Known(w, v), Drain
  PROVE  LET first == Append(batches, Batch(Due, diagnostics))
         IN  /\ first \in Seq(FiniteBatch) /\ Total(BatchSums(v), batches) \in Nat
             /\ Total(BatchSums(v), first) = Total(BatchSums(v), batches) + Sum(v, Due)
<1>1. pc = "drain" /\ Due # {}
  BY DEF Drain
<1>2. Sendable(Batch(Due, diagnostics))
  BY <1>1, DueSendable DEF Known
<1>3. IsFiniteSet(Due)
  BY <1>1, DrainCounts
<1>4. Batch(Due, diagnostics).buckets = Due
  BY DEF Batch
<1> DEFINE batch == Batch(Due, diagnostics)
<1> HIDE DEF batch
<1>5. batch \in FiniteBatch /\ batch.buckets = Due
  BY <1>2, <1>3, <1>4 DEF Sendable, FiniteBatch, batch
<1>6. batches \in Seq(FiniteBatch) /\ Quantity(w, v)
  BY DEF Known, Countable
<1>7. /\ Append(batches, batch) \in Seq(FiniteBatch)
      /\ Total(BatchSums(v), batches) \in Nat
      /\ Total(BatchSums(v), Append(batches, batch)) =
           Total(BatchSums(v), batches) + Sum(v, batch.buckets)
  BY <1>5, <1>6, BatchCounts
<1> QED
  BY <1>5, <1>7 DEF batch

(* What is due moves from the map to the batches.                          *)
LEMMA EnqueueConserves ==
  ASSUME NEW w, NEW v, Known(w, v), Enqueue
  PROVE  Countable' /\ Conserved(w, v)'
<1>1. /\ Drain /\ pc = "drain" /\ pc' = "poll"
      /\ flows' = retained(flows, bucket_of(clock))
      /\ batches' = Append(batches, Batch(Due, diagnostics))
      /\ UNCHANGED <<arrived, ring, counted, unsaved>>
  BY DEF Enqueue, Drain, kernel
<1>2. /\ batches' \in Seq(FiniteBatch) /\ Total(BatchSums(v), batches) \in Nat
      /\ Total(BatchSums(v), batches') = Total(BatchSums(v), batches) + Sum(v, Due)
  BY <1>1, DueBatch
<1>3. /\ IsFiniteSet(Remaining) /\ unsaved = {} /\ Sum(v, Due) \in Nat
      /\ Sum(v, Remaining) \in Nat /\ Sum(v, Held) = Sum(v, Due) + Sum(v, Remaining)
  BY <1>1, DrainCounts
<1>4. to_buckets(flows') = Remaining /\ Held' = Remaining
  BY <1>1, <1>3 DEF Remaining, Held
<1>5. Countable'
  BY <1>1, <1>2, <1>3, <1>4 DEF Known, Countable
<1>6. Total(w, ring) \in Nat
  BY HeldNat DEF Known
<1>7. Conserved(w, v)'
  BY <1>1, <1>2, <1>3, <1>4, <1>6 DEF Known, Conserved
<1> QED
  BY <1>5, <1>7

(* At the exit what remains goes into a last batch, or is lost.            *)
LEMMA EnqueueLastConserves ==
  ASSUME NEW w, NEW v, Known(w, v), EnqueueLast
  PROVE  Countable' /\ Conserved(w, v)'
<1> DEFINE first == Append(batches, Batch(Due, diagnostics))
           last  == Batch(Remaining, NoDiagnostics)
<1>1. /\ Drain /\ pc = "drain" /\ pc' = "exited" /\ flows' = NoFlows
      /\ UNCHANGED <<arrived, ring, counted>>
      /\ \/ Remaining = {} /\ batches' = first /\ UNCHANGED unsaved
         \/ Remaining # {} /\ batches' = Append(first, last) /\ UNCHANGED unsaved
         \/ batches' = first /\ unsaved' = Remaining
  BY DEF EnqueueLast, Drain, kernel, Remaining
<1>2. /\ first \in Seq(FiniteBatch) /\ Total(BatchSums(v), batches) \in Nat
      /\ Total(BatchSums(v), first) = Total(BatchSums(v), batches) + Sum(v, Due)
  BY <1>1, DueBatch
<1>3. /\ IsFiniteSet(Remaining) /\ Remaining \subseteq Bucket
      /\ unsaved = {} /\ Sum(v, Due) \in Nat
      /\ Sum(v, Remaining) \in Nat /\ Sum(v, Held) = Sum(v, Due) + Sum(v, Remaining)
  BY <1>1, DrainCounts
<1>4. to_buckets(flows') = {} /\ Held' = unsaved'
  BY <1>1 DEF to_buckets, NoFlows, Held
<1>5. Sum(v, {}) = 0 /\ IsFiniteSet({})
  BY SumEmpty, FS_EmptySet
<1>6. Total(w, ring) \in Nat
  BY HeldNat DEF Known
<1>7. Remaining # {} =>
        /\ Append(first, last) \in Seq(FiniteBatch)
        /\ Total(BatchSums(v), Append(first, last)) =
             Total(BatchSums(v), first) + Sum(v, Remaining)
  <2> SUFFICES ASSUME Remaining # {}
               PROVE  /\ Append(first, last) \in Seq(FiniteBatch)
                      /\ Total(BatchSums(v), Append(first, last)) =
                           Total(BatchSums(v), first) + Sum(v, Remaining)
    OBVIOUS
  <2>1. Sendable(last)
    BY RestSendable DEF Known, Remaining
  <2>2. last.buckets = Remaining
    BY DEF Batch
  <2> HIDE DEF first, last
  <2>3. last \in FiniteBatch
    BY <1>3, <2>1, <2>2 DEF Sendable, FiniteBatch
  <2>4. Quantity(w, v)
    BY DEF Known
  <2> QED
    BY <1>2, <2>2, <2>3, <2>4, BatchCounts
<1> HIDE DEF first, last
<1>8. /\ batches' \in Seq(FiniteBatch) /\ unsaved' \in {{}, Remaining}
      /\ Total(BatchSums(v), batches') + Sum(v, unsaved') =
           Total(BatchSums(v), batches) + Sum(v, Due) + Sum(v, Remaining)
  <2>1. CASE Remaining = {} /\ batches' = first /\ UNCHANGED unsaved
    BY <1>2, <1>3, <1>5, <2>1
  <2>2. CASE Remaining # {} /\ batches' = Append(first, last) /\ UNCHANGED unsaved
    BY <1>2, <1>3, <1>5, <1>7, <2>2
  <2>3. CASE batches' = first /\ unsaved' = Remaining
    BY <1>2, <1>3, <2>3
  <2> QED
    BY <1>1, <2>1, <2>2, <2>3
<1>9. Countable'
  BY <1>1, <1>3, <1>4, <1>5, <1>8 DEF Countable
<1>10. Total(BatchSums(v), batches') + Sum(v, Held') =
         Total(BatchSums(v), batches) + Sum(v, Held)
  BY <1>2, <1>3, <1>4, <1>8
<1>11. Conserved(w, v)'
  BY <1>1, <1>10 DEF Known, Conserved
<1> QED
  BY <1>9, <1>11

(* An enqueue that fails loses what was due and what remains, or only the  *)
(* latter.                                                                 *)
LEMMA EnqueueFailsConserves ==
  ASSUME NEW w, NEW v, Known(w, v), EnqueueFails
  PROVE  Countable' /\ Conserved(w, v)'
<1> DEFINE first == Append(batches, Batch(Due, diagnostics))
<1>1. /\ Drain /\ pc = "drain" /\ pc' = "exited" /\ flows' = NoFlows
      /\ UNCHANGED <<arrived, ring, counted>>
      /\ \/ unsaved' = Due \cup Remaining /\ batches' = batches
         \/ unsaved' = Remaining /\ batches' = first
  BY DEF EnqueueFails, Drain, kernel, Remaining
<1>2. /\ first \in Seq(FiniteBatch) /\ Total(BatchSums(v), batches) \in Nat
      /\ Total(BatchSums(v), first) = Total(BatchSums(v), batches) + Sum(v, Due)
  BY <1>1, DueBatch
<1>3. /\ IsFiniteSet(Due) /\ IsFiniteSet(Remaining) /\ Due \cup Remaining \subseteq Bucket
      /\ Held = Due \cup Remaining /\ Sum(v, Due) \in Nat
      /\ Sum(v, Remaining) \in Nat /\ Sum(v, Held) = Sum(v, Due) + Sum(v, Remaining)
  BY <1>1, DrainCounts
<1>4. to_buckets(flows') = {} /\ Held' = unsaved'
  BY <1>1 DEF to_buckets, NoFlows, Held
<1>5. IsFiniteSet({}) /\ IsFiniteSet(Due \cup Remaining) /\ batches \in Seq(FiniteBatch)
  BY <1>3, FS_EmptySet, FS_Union DEF Known, Countable
<1> HIDE DEF first
<1>6. Countable'
  BY <1>1, <1>2, <1>3, <1>4, <1>5 DEF Countable
<1>7. Total(BatchSums(v), batches') + Sum(v, Held') =
        Total(BatchSums(v), batches) + Sum(v, Held)
  <2>1. CASE unsaved' = Due \cup Remaining /\ batches' = batches
    BY <1>3, <1>4, <2>1
  <2>2. CASE unsaved' = Remaining /\ batches' = first
    BY <1>2, <1>3, <1>4, <2>2
  <2> QED
    BY <1>1, <2>1, <2>2
<1>8. Conserved(w, v)'
  BY <1>1, <1>7 DEF Known, Conserved
<1> QED
  BY <1>6, <1>8

(* Any other end loses what the map holds.                                 *)
LEMMA ExitConserves ==
  ASSUME NEW w, NEW v, Known(w, v), Exit
  PROVE  Countable' /\ Conserved(w, v)'
<1>1. /\ pc # "exited" /\ pc' = "exited" /\ flows' = NoFlows
      /\ unsaved' = to_buckets(flows)
      /\ UNCHANGED <<arrived, ring, counted, batches>>
  BY DEF Exit, kernel
<1>2. to_buckets(flows') = {} /\ IsFiniteSet({})
  BY <1>1, FS_EmptySet DEF to_buckets, NoFlows
<1>3. to_buckets(flows) \subseteq Bucket
  BY BucketsTyped DEF Known, IInv, Locals
<1>4. Countable'
  BY <1>1, <1>2, <1>3 DEF Known, Countable
<1>5. Held' = Held
  BY <1>1, <1>2 DEF Known, Countable, Held
<1> QED
  BY <1>1, <1>4, <1>5 DEF Known, Conserved

(* Every step conserves every quantity.                                    *)
LEMMA NextConserves ==
  ASSUME NEW w, NEW v, Known(w, v), [Next]_vars
  PROVE  Countable' /\ Conserved(w, v)'
<1>1. CASE Advance \/ SetBack \/ InterfaceDrops \/ PollTimeout \/ UNCHANGED vars
  BY <1>1, QuietConserves
<1>2. CASE \E key \in FlowKey \cup {Ignored, Malformed}, wire_bytes \in Sizes :
             Arrive(key, wire_bytes)
  BY <1>2, ArriveConserves
<1>3. CASE ReadPacket \/ NothingDue \/ Enqueue \/ EnqueueLast
  BY <1>3, ReadPacketConserves, NothingDueConserves, EnqueueConserves, EnqueueLastConserves
<1>4. CASE EnqueueFails \/ Exit
  BY <1>4, EnqueueFailsConserves, ExitConserves
<1> QED
  BY <1>1, <1>2, <1>3, <1>4 DEF Next, Loop

(* Nothing has arrived yet.                                                *)
LEMMA InitConserves ==
  ASSUME NEW w, NEW v, Init
  PROVE  Countable /\ Conserved(w, v)
<1>1. /\ arrived = <<>> /\ ring = <<>> /\ batches = <<>> /\ unsaved = {}
      /\ pc = "poll" /\ flows = NoFlows
  BY DEF Init
<1>2. to_buckets(flows) = {} /\ IsFiniteSet({}) /\ <<>> \in Seq(FiniteBatch)
  BY <1>1, FS_EmptySet DEF to_buckets, NoFlows
<1>3. Countable
  BY <1>1, <1>2 DEF Countable
<1>4. Held = {}
  BY <1>1, <1>2 DEF Held
<1>5. /\ Total(w, arrived) = 0 /\ Total(w, ring) = 0
      /\ Total(BatchSums(v), batches) = 0 /\ Sum(v, Held) = 0
  BY <1>1, <1>4, TotalEmpty, SumEmpty
<1>6. Conserved(w, v)
  BY <1>5 DEF Conserved
<1> QED
  BY <1>3, <1>6

-------------------------------------------------------------------------------
(* The two quantities: packets, and bytes on the wire.                     *)

PacketOnes    == [p \in Packet |-> IF p.key \in FlowKey THEN 1 ELSE 0]
PacketBytes   == [p \in Packet |-> IF p.key \in FlowKey THEN p.wire_bytes ELSE 0]
BucketPackets == [b \in Bucket |-> b.packets]
BucketBytes   == [b \in Bucket |-> b.bytes]

(* Both are quantities: a bucket counts what its packets carry.            *)
LEMMA Quantities ==
  Quantity(PacketOnes, BucketPackets) /\ Quantity(PacketBytes, BucketBytes)
<1>1. \A p \in Packet : p.wire_bytes \in Nat
  BY PacketNumbers
<1>2. /\ PacketOnes \in [Packet -> Nat] /\ PacketBytes \in [Packet -> Nat]
      /\ \A p \in Packet : /\ p.key \in FlowKey =>
                               PacketOnes[p] = 1 /\ PacketBytes[p] = p.wire_bytes
                           /\ p.key \notin FlowKey => PacketOnes[p] = 0 /\ PacketBytes[p] = 0
  BY <1>1 DEF PacketOnes, PacketBytes
<1>3. BucketPackets \in [Bucket -> Nat] /\ BucketBytes \in [Bucket -> Nat]
  BY DEF BucketPackets, BucketBytes, Bucket
<1>4. ASSUME NEW start \in Nat, NEW key \in FlowKey, NEW packets \in Nat, NEW bytes \in Nat
      PROVE  /\ BucketPackets[BucketFor(start, key, packets, bytes)] = packets
             /\ BucketBytes[BucketFor(start, key, packets, bytes)] = bytes
  <2> DEFINE b == BucketFor(start, key, packets, bytes)
  <2>1. b \in Bucket /\ b.packets = packets /\ b.bytes = bytes
    BY DEF BucketFor, Bucket
  <2> HIDE DEF b
  <2>2. BucketPackets[b] = packets /\ BucketBytes[b] = bytes
    BY <2>1 DEF BucketPackets, BucketBytes
  <2> QED
    BY <2>2 DEF b
<1> HIDE DEF PacketOnes, PacketBytes, BucketPackets, BucketBytes
<1>5. ASSUME NEW p \in Packet, NEW start \in Nat, NEW key \in FlowKey,
             NEW packets \in Nat, NEW bytes \in Nat
      PROVE  LET is == BucketFor(start, key, packets + 1, bytes + p.wire_bytes)
             IN  /\ BucketPackets[is] = packets + 1
                 /\ BucketBytes[is] = bytes + p.wire_bytes
  <2>1. packets + 1 \in Nat /\ bytes + p.wire_bytes \in Nat
    BY <1>1
  <2> QED
    BY <1>4, <2>1
<1>6. Quantity(PacketOnes, BucketPackets)
  BY <1>2, <1>3, <1>4, <1>5 DEF Quantity
<1>7. Quantity(PacketBytes, BucketBytes)
  BY <1>1, <1>2, <1>3, <1>4, <1>5 DEF Quantity
<1> QED
  BY <1>6, <1>7

(* The packets and the bytes of the flows in a sequence of packets.        *)
LEMMA FlowTotals ==
  ASSUME NEW q \in Seq(Packet)
  PROVE  Cardinality(OfFlows(q)) = Total(PacketOnes, q) /\ Bytes(q) = Total(PacketBytes, q)
<1> DEFINE S == OfFlows(q)
           g == [i \in S |-> q[i].wire_bytes]
<1>1. S \subseteq DOMAIN q /\ DOMAIN g = S
  BY DEF OfFlows
<1>2. PacketOnes \in [Packet -> Nat] /\ PacketBytes \in [Packet -> Nat]
  BY Quantities DEF Quantity
<1>3. /\ IsFiniteSet(DOMAIN q)
      /\ \A i \in DOMAIN q :
           /\ q[i] \in Packet
           /\ Values(PacketOnes, q)[i] \in Nat /\ Values(PacketBytes, q)[i] \in Nat
           /\ Values(PacketOnes, q)[i] = PacketOnes[q[i]]
           /\ Values(PacketBytes, q)[i] = PacketBytes[q[i]]
  <2> USE <1>2
  <2>1. /\ IsFiniteSet(DOMAIN q)
        /\ \A i \in DOMAIN q : /\ q[i] \in Packet
                               /\ Values(PacketOnes, q)[i] \in Nat
                               /\ Values(PacketOnes, q)[i] = PacketOnes[q[i]]
    BY Positions
  <2>2. \A i \in DOMAIN q : /\ Values(PacketBytes, q)[i] \in Nat
                            /\ Values(PacketBytes, q)[i] = PacketBytes[q[i]]
    BY Positions
  <2> QED
    BY <2>1, <2>2
<1>4. IsFiniteSet(S)
  BY <1>1, <1>3, FS_Subset
<1>5. /\ \A i \in S : Values(PacketOnes, q)[i] = 1 /\ Values(PacketBytes, q)[i] = g[i]
      /\ \A i \in DOMAIN q \ S : Values(PacketOnes, q)[i] = 0 /\ Values(PacketBytes, q)[i] = 0
  BY <1>3 DEF OfFlows, PacketOnes, PacketBytes
<1> HIDE DEF S, g
<1>6. /\ Total(PacketOnes, q) = Sum(Values(PacketOnes, q), S)
      /\ Total(PacketBytes, q) = Sum(Values(PacketBytes, q), S)
  BY <1>1, <1>3, <1>5, SumSupport DEF Total
<1>7. Sum(Values(PacketOnes, q), S) = Cardinality(S)
  BY <1>4, <1>5, SumOnes
<1>8. Sum(Values(PacketBytes, q), S) = Sum(g, S)
  BY <1>4, <1>5, SumSame
<1>9. Bytes(q) = Sum(g, S)
  BY <1>1 DEF Bytes, SumFunction, Sum, S, g
<1> QED
  BY <1>6, <1>7, <1>8, <1>9 DEF S

(* The packets and the bytes of a set of buckets.                          *)
LEMMA BucketSums ==
  ASSUME NEW buckets, buckets \subseteq Bucket, IsFiniteSet(buckets)
  PROVE  PacketSum(buckets) = Sum(BucketPackets, buckets)
         /\ ByteSum(buckets) = Sum(BucketBytes, buckets)
<1> DEFINE f == [b \in buckets |-> b.packets]
           g == [b \in buckets |-> b.bytes]
<1>1. /\ \A b \in buckets : f[b] = BucketPackets[b] /\ g[b] = BucketBytes[b]
      /\ DOMAIN f = buckets /\ DOMAIN g = buckets
  BY DEF BucketPackets, BucketBytes
<1>2. PacketSum(buckets) = Sum(f, DOMAIN f) /\ ByteSum(buckets) = Sum(g, DOMAIN g)
  BY DEF PacketSum, ByteSum, SumFunction, Sum
<1> HIDE DEF f, g
<1>3. Sum(f, buckets) = Sum(BucketPackets, buckets) /\ Sum(g, buckets) = Sum(BucketBytes, buckets)
  BY <1>1, SumSame
<1> QED
  BY <1>1, <1>2, <1>3

(* The packets and the bytes of the batches that went out.                 *)
LEMMA BatchTotals ==
  ASSUME batches \in Seq(FiniteBatch)
  PROVE  /\ InBatches(PacketSum) = Total(BatchSums(BucketPackets), batches)
         /\ InBatches(ByteSum) = Total(BatchSums(BucketBytes), batches)
<1> DEFINE D == DOMAIN batches
           f == [i \in D |-> PacketSum(batches[i].buckets)]
           g == [i \in D |-> ByteSum(batches[i].buckets)]
<1>1. /\ BatchSums(BucketPackets) \in [FiniteBatch -> Nat]
      /\ BatchSums(BucketBytes) \in [FiniteBatch -> Nat]
  BY Quantities, BatchSumsTyped
<1>2. /\ IsFiniteSet(D)
      /\ \A i \in D :
           /\ batches[i] \in FiniteBatch
           /\ Values(BatchSums(BucketPackets), batches)[i] = BatchSums(BucketPackets)[batches[i]]
           /\ Values(BatchSums(BucketBytes), batches)[i] = BatchSums(BucketBytes)[batches[i]]
  <2> HIDE DEF f, g
  <2>1. /\ IsFiniteSet(D)
        /\ \A i \in D :
             /\ batches[i] \in FiniteBatch
             /\ Values(BatchSums(BucketPackets), batches)[i]
                  = BatchSums(BucketPackets)[batches[i]]
    BY <1>1, Positions
  <2>2. \A i \in D :
          Values(BatchSums(BucketBytes), batches)[i] = BatchSums(BucketBytes)[batches[i]]
    BY <1>1, Positions, SMTT(30)
  <2> QED
    BY <2>1, <2>2
<1>3. ASSUME NEW i \in D
      PROVE  /\ Values(BatchSums(BucketPackets), batches)[i] = f[i]
             /\ Values(BatchSums(BucketBytes), batches)[i] = g[i]
  <2>1. batches[i].buckets \subseteq Bucket /\ IsFiniteSet(batches[i].buckets)
    BY <1>2 DEF FiniteBatch, FlowBatch
  <2>2. /\ PacketSum(batches[i].buckets) = Sum(BucketPackets, batches[i].buckets)
        /\ ByteSum(batches[i].buckets) = Sum(BucketBytes, batches[i].buckets)
    BY <2>1, BucketSums
  <2>3. /\ BatchSums(BucketPackets)[batches[i]] = Sum(BucketPackets, batches[i].buckets)
        /\ BatchSums(BucketBytes)[batches[i]] = Sum(BucketBytes, batches[i].buckets)
    BY <1>2 DEF BatchSums
  <2> QED
    BY <1>2, <2>2, <2>3
<1>4. DOMAIN f = D /\ DOMAIN g = D
  OBVIOUS
<1>5. InBatches(PacketSum) = Sum(f, DOMAIN f) /\ InBatches(ByteSum) = Sum(g, DOMAIN g)
  BY DEF InBatches, SumFunction, Sum
<1> HIDE DEF f, g, D
<1>6. /\ Sum(Values(BatchSums(BucketPackets), batches), D) = Sum(f, D)
      /\ Sum(Values(BatchSums(BucketBytes), batches), D) = Sum(g, D)
  BY <1>2, <1>3, SumSame
<1> QED
  BY <1>4, <1>5, <1>6 DEF Total, D

CInv ==
  /\ IInv /\ Countable
  /\ Conserved(PacketOnes, BucketPackets) /\ Conserved(PacketBytes, BucketBytes)

(* What is conserved is what PacketsConserved says of packets and bytes.   *)
LEMMA CInvConserved == CInv => PacketsConserved
<1> SUFFICES ASSUME CInv
             PROVE  PacketsConserved
  OBVIOUS
<1>1. arrived \in Seq(Packet) /\ ring \in Seq(Packet) /\ batches \in Seq(FiniteBatch)
  BY DEF CInv, IInv, Kernel, Countable
<1>2. Held \subseteq Bucket /\ IsFiniteSet(Held)
  <2>1. to_buckets(flows) \subseteq Bucket
    BY BucketsTyped DEF CInv, IInv, Locals
  <2> QED
    BY <2>1, FS_Union DEF CInv, Countable, Held
<1>3. counted.dropped = 0 =>
        Cardinality(OfFlows(arrived)) =
          InBatches(PacketSum) + PacketSum(Held) + Cardinality(OfFlows(ring))
  BY <1>1, <1>2, FlowTotals, BucketSums, BatchTotals DEF CInv, Conserved
<1>4. counted.dropped = 0 =>
        Bytes(arrived) = InBatches(ByteSum) + ByteSum(Held) + Bytes(ring)
  BY <1>1, <1>2, FlowTotals, BucketSums, BatchTotals DEF CInv, Conserved
<1> QED
  BY <1>3, <1>4 DEF PacketsConserved, Held

(* The invariant is kept by every step.                                    *)
LEMMA NextCInv == CInv /\ [Next]_vars => CInv'
<1> SUFFICES ASSUME CInv, [Next]_vars
             PROVE  CInv'
  OBVIOUS
<1>1. IInv'
  BY NextIInv DEF CInv
<1>2. Known(PacketOnes, BucketPackets) /\ Known(PacketBytes, BucketBytes)
  BY Quantities DEF CInv, Known
<1>3. /\ Countable' /\ Conserved(PacketOnes, BucketPackets)'
      /\ Conserved(PacketBytes, BucketBytes)'
  BY <1>2, NextConserves
<1> QED
  BY <1>1, <1>3 DEF CInv

(* It holds from the start.                                                *)
LEMMA InitCInv == Init => CInv
BY InitIInv, InitConserves DEF CInv

(* In every run of the capture loop, whatever the sizes, the ring and the  *)
(* clock: while the ring has dropped nothing, the packets and the bytes of *)
(* flows that arrived are in batches, in the map or lost with it, or still *)
(* in the ring - each once.                                                *)
THEOREM CapturePacketsConserved == Spec => []PacketsConserved
BY InitCInv, NextCInv, CInvConserved, PTL DEF Spec

-------------------------------------------------------------------------------
(* Counters that wrap.                                                     *)

(* A number is a multiple of another and a remainder.                      *)
LEMMA Division ==
  ASSUME NEW n \in Nat, NEW C \in Nat \ {0}
  PROVE  \E q \in Nat : n = q * C + (n % C) /\ n % C \in 0 .. C - 1
<1>1. n \div C \in Nat
  OBVIOUS
<1>2. n % C \in 0 .. C - 1
  OBVIOUS
<1>3. n = (n \div C) * C + (n % C)
  OBVIOUS
<1> QED
  BY <1>1, <1>2, <1>3

(* The difference of a counter that wraps is never more than what was     *)
(* counted, and exactly that as long as the counter has not wrapped.       *)
LEMMA WrapsDown ==
  ASSUME NEW C \in Nat \ {0}, NEW c \in Nat, NEW base \in Nat, base <= c
  PROVE  LET d == SaturatingSub(c % C, base % C)
         IN  d \in Nat /\ d <= c - base /\ (c < C => d = c - base)
<1>1. PICK q \in Nat : c = q * C + (c % C) /\ c % C \in 0 .. C - 1
  BY Division
<1>2. PICK p \in Nat : base = p * C + (base % C) /\ base % C \in 0 .. C - 1
  BY Division
<1> DEFINE r == c % C
           s == base % C
<1>3. r \in 0 .. C - 1 /\ s \in 0 .. C - 1 /\ c = q * C + r /\ base = p * C + s
  BY <1>1, <1>2
<1> HIDE DEF r, s
<1>4. p <= q
  <2>1. SUFFICES ASSUME q + 1 <= p
                 PROVE  FALSE
    OBVIOUS
  <2>2. (q + 1) * C <= p * C /\ (q + 1) * C = q * C + C
    BY <2>1
  <2>3. q * C \in Nat /\ p * C \in Nat
    OBVIOUS
  <2> QED
    BY <1>3, <2>2, <2>3
<1>5. q * C \in Nat /\ p * C \in Nat /\ p * C <= q * C
  BY <1>4
<1>6. c < C => q * C = 0
  <2>1. SUFFICES ASSUME c < C, q >= 1
                 PROVE  FALSE
    OBVIOUS
  <2>2. q * C >= C
    BY <2>1
  <2> QED
    BY <1>3, <1>5, <2>1, <2>2
<1>7. LET d == SaturatingSub(r, s)
      IN  d \in Nat /\ d <= c - base /\ (c < C => d = c - base)
  BY <1>3, <1>5, <1>6 DEF SaturatingSub
<1> QED
  BY <1>7 DEF r, s

-------------------------------------------------------------------------------
(* What the batches report.                                                *)

Names  == {"received", "dropped", "interface_dropped"}
Fields == Names \cup {"parse_errors"}

Field(name) == [b \in FiniteBatch |-> b.diagnostics[name]]

(* The sum of a diagnostic over the batches that went out.                 *)
Told(name) == Total(Field(name), batches)

(* pcap's counters by name.                                                *)
LEMMA StatsNamed ==
  ASSUME NEW stats \in Stats
  PROVE  DOMAIN stats = Names /\ \A name \in Names : stats[name] \in Nat
<1>1. /\ DOMAIN stats = Names /\ stats.received \in Nat /\ stats.dropped \in Nat
      /\ stats.interface_dropped \in Nat
  BY DEF Stats, Names
<1> QED
  BY <1>1 DEF Names

(* A batch's diagnostics by name.                                          *)
LEMMA FieldsTyped ==
  ASSUME NEW name \in Fields
  PROVE  Field(name) \in [FiniteBatch -> Nat]
<1> SUFFICES ASSUME NEW b \in FiniteBatch
             PROVE  b.diagnostics[name] \in Nat
  BY DEF Field
<1>1. b.diagnostics \in Diagnostics
  BY DEF FiniteBatch, FlowBatch
<1>2. /\ b.diagnostics.received \in Nat /\ b.diagnostics.dropped \in Nat
      /\ b.diagnostics.interface_dropped \in Nat /\ b.diagnostics.parse_errors \in Nat
  BY <1>1 DEF Diagnostics
<1> QED
  BY <1>2 DEF Fields, Names

(* One more batch tells its own diagnostics.                               *)
LEMMA BatchTells ==
  ASSUME NEW list \in Seq(FiniteBatch), NEW batch \in FiniteBatch, NEW name \in Fields
  PROVE  /\ Append(list, batch) \in Seq(FiniteBatch) /\ Total(Field(name), list) \in Nat
         /\ Total(Field(name), Append(list, batch)) =
              Total(Field(name), list) + batch.diagnostics[name]
<1>1. Field(name) \in [FiniteBatch -> Nat]
  BY FieldsTyped
<1>2. Field(name)[batch] = batch.diagnostics[name]
  BY DEF Field
<1> HIDE DEF Field
<1>3. Append(list, batch) \in Seq(FiniteBatch)
  OBVIOUS
<1> QED
  BY <1>1, <1>2, <1>3, TotalAppend, TotalNat

(* What the batches tell is what is reported.                              *)
LEMMA ReportedTold ==
  ASSUME batches \in Seq(FiniteBatch), NEW name \in Fields
  PROVE  Reported(name) = Told(name) /\ Told(name) \in Nat
<1> DEFINE f == [i \in DOMAIN batches |-> batches[i].diagnostics[name]]
<1>1. Field(name) \in [FiniteBatch -> Nat]
  BY FieldsTyped
<1>2. /\ IsFiniteSet(DOMAIN batches)
      /\ \A i \in DOMAIN batches : /\ batches[i] \in FiniteBatch
                                   /\ Values(Field(name), batches)[i] = Field(name)[batches[i]]
  BY <1>1, Positions
<1>3. \A i \in DOMAIN batches : Values(Field(name), batches)[i] = f[i]
  BY <1>2 DEF Field
<1>4. Reported(name) = Sum(f, DOMAIN f) /\ DOMAIN f = DOMAIN batches
  BY DEF Reported, SumFunction, Sum
<1> HIDE DEF f
<1>5. Sum(Values(Field(name), batches), DOMAIN batches) = Sum(f, DOMAIN batches)
  BY <1>2, <1>3, SumSame
<1>6. Told(name) \in Nat
  BY <1>1, TotalNat DEF Told
<1> QED
  BY <1>4, <1>5, <1>6 DEF Told, Total

(* The packets that cannot be parsed.                                      *)
PacketErrors == [p \in Packet |-> IF p.key = Malformed THEN 1 ELSE 0]

(* Their number is their total.                                            *)
LEMMA ErrorTotals ==
  ASSUME NEW q \in Seq(Packet)
  PROVE  Errors(q) = Total(PacketErrors, q) /\ Total(PacketErrors, q) \in Nat
<1> DEFINE S == {i \in DOMAIN q : q[i].key = Malformed}
<1>1. PacketErrors \in [Packet -> Nat]
  BY DEF PacketErrors
<1>2. /\ IsFiniteSet(DOMAIN q)
      /\ \A i \in DOMAIN q : /\ q[i] \in Packet /\ Values(PacketErrors, q)[i] \in Nat
                             /\ Values(PacketErrors, q)[i] = PacketErrors[q[i]]
  BY <1>1, Positions
<1>3. S \subseteq DOMAIN q /\ IsFiniteSet(S)
  BY <1>2, FS_Subset
<1>4. /\ \A i \in S : Values(PacketErrors, q)[i] = 1
      /\ \A i \in DOMAIN q \ S : Values(PacketErrors, q)[i] = 0
  BY <1>2 DEF PacketErrors
<1> HIDE DEF S
<1>5. Total(PacketErrors, q) = Sum(Values(PacketErrors, q), S)
  BY <1>2, <1>3, <1>4, SumSupport DEF Total
<1>6. Sum(Values(PacketErrors, q), S) = Cardinality(S)
  BY <1>3, <1>4, SumOnes
<1>7. Total(PacketErrors, q) \in Nat
  BY <1>1, TotalNat
<1> QED
  BY <1>5, <1>6, <1>7 DEF Errors, S

-------------------------------------------------------------------------------
(* The diagnostics account for what was counted.                           *)

(* The last reading of a counter was of some count, base, which the        *)
(* batches do not exceed, and reach unless the counter wrapped.            *)
Accounted(name) ==
  \E base \in Nat :
    /\ base <= counted[name] /\ prior_stats[name] = base % CounterSize
    /\ Told(name) <= base
    /\ counted[name] < CounterSize /\ unsaved = {} => Told(name) = base

(* Packets that cannot be parsed are told, counted, in the ring or dropped *)
(* before it.                                                              *)
ErrorsKept ==
  LET read == Told("parse_errors") + parse_errors
  IN  /\ read + Total(PacketErrors, ring) <= Total(PacketErrors, arrived)
      /\ unsaved = {} => Total(PacketErrors, arrived) <=
                           read + Total(PacketErrors, ring) + counted.dropped

DInv == CInv /\ (\A name \in Names : Accounted(name)) /\ ErrorsKept

(* Nothing is counted, told or read at the start.                          *)
LEMMA InitDInv == Init => DInv
<1> SUFFICES ASSUME Init
             PROVE  DInv
  OBVIOUS
<1>1. CInv
  BY InitCInv
<1>2. \A name \in Fields : Told(name) = 0
  BY TotalEmpty DEF Told, Init
<1>3. ASSUME NEW name \in Names
      PROVE  Accounted(name)
  <2>1. counted[name] = 0 /\ prior_stats[name] = 0
    BY DEF Init, NoStats, Names
  <2>2. 0 % CounterSize = 0
    BY CaptureAssumption
  <2> QED
    BY <1>2, <2>1, <2>2 DEF Accounted, Fields
<1>4. ErrorsKept
  <2>1. Total(PacketErrors, ring) = 0 /\ Total(PacketErrors, arrived) = 0
    BY TotalEmpty DEF Init
  <2>2. Told("parse_errors") = 0 /\ parse_errors = 0 /\ counted.dropped = 0
    BY <1>2 DEF Fields, Init, NoStats
  <2> QED
    BY <2>1, <2>2 DEF ErrorsKept
<1> QED
  BY <1>1, <1>3, <1>4 DEF DInv

(* The invariant is what the property says, by the counts' types.          *)
LEMMA DInvAddsUp == DInv => DiagnosticsAddUp
<1> SUFFICES ASSUME DInv
             PROVE  DiagnosticsAddUp
  OBVIOUS
<1>1. /\ counted \in Stats /\ batches \in Seq(FiniteBatch)
      /\ ring \in Seq(Packet) /\ arrived \in Seq(Packet)
  BY DEF DInv, CInv, IInv, Kernel, Countable
<1>2. DOMAIN counted = Names /\ \A name \in Names : counted[name] \in Nat
  BY <1>1, StatsNamed
<1>3. \A name \in Fields : Reported(name) = Told(name) /\ Told(name) \in Nat
  BY <1>1, ReportedTold
<1>4. ASSUME NEW name \in Names
      PROVE  /\ Reported(name) <= counted[name]
             /\ counted[name] < CounterSize /\ unsaved = {} =>
                  Reported(name) = prior_stats[name]
  <2>1. PICK base \in Nat :
          /\ base <= counted[name] /\ prior_stats[name] = base % CounterSize
          /\ Told(name) <= base
          /\ counted[name] < CounterSize /\ unsaved = {} => Told(name) = base
    BY DEF DInv, Accounted
  <2>2. Reported(name) = Told(name) /\ Told(name) \in Nat /\ counted[name] \in Nat
    BY <1>2, <1>3 DEF Fields
  <2>3. base < CounterSize => base % CounterSize = base
    BY CaptureAssumption
  <2>4. CounterSize \in Nat
    BY CaptureAssumption
  <2> QED
    BY <2>1, <2>2, <2>3, <2>4
<1>5. /\ Errors(ring) = Total(PacketErrors, ring)
      /\ Errors(arrived) = Total(PacketErrors, arrived)
      /\ Reported("parse_errors") = Told("parse_errors")
  BY <1>1, <1>3, ErrorTotals DEF Fields
<1> QED
  BY <1>2, <1>4, <1>5 DEF DInv, ErrorsKept, DiagnosticsAddUp

(* No counter counts down.                                                 *)
LEMMA CountersCount ==
  ASSUME IInv, [Next]_vars
  PROVE  \A name \in Names : /\ counted[name] \in Nat /\ counted'[name] \in Nat
                             /\ counted[name] <= counted'[name]
<1>1. counted \in Stats
  BY DEF IInv, Kernel
<1>2. counted.received \in Nat /\ counted.dropped \in Nat /\ counted.interface_dropped \in Nat
  BY <1>1 DEF Stats
<1>3. \/ counted' = counted
      \/ counted' = [counted EXCEPT !.received = @ + 1]
      \/ counted' = [counted EXCEPT !.received = @ + 1, !.dropped = @ + 1]
      \/ counted' = [counted EXCEPT !.interface_dropped = @ + 1]
  BY DEF Next, Loop, Advance, SetBack, InterfaceDrops, Arrive, ReadPacket, PollTimeout,
         NothingDue, Enqueue, EnqueueLast, EnqueueFails, Exit, Drain, vars, kernel
<1>4. /\ counted'.received \in {counted.received, counted.received + 1}
      /\ counted'.dropped \in {counted.dropped, counted.dropped + 1}
      /\ counted'.interface_dropped \in
           {counted.interface_dropped, counted.interface_dropped + 1}
  BY <1>1, <1>3 DEF Stats
<1> QED
  BY <1>2, <1>4 DEF Names

(* A step that sends nothing and reads no counter leaves them accounted.   *)
LEMMA QuietAccounts ==
  ASSUME DInv, [Next]_vars, UNCHANGED <<batches, prior_stats>>,
         unsaved' = {} => unsaved = {}
  PROVE  \A name \in Names : Accounted(name)'
<1> SUFFICES ASSUME NEW name \in Names
             PROVE  Accounted(name)'
  OBVIOUS
<1>1. PICK base \in Nat :
        /\ base <= counted[name] /\ prior_stats[name] = base % CounterSize
        /\ Told(name) <= base
        /\ counted[name] < CounterSize /\ unsaved = {} => Told(name) = base
  BY DEF DInv, Accounted
<1>2. Told(name)' = Told(name)
  BY DEF Told
<1>3. /\ counted[name] \in Nat /\ counted'[name] \in Nat
      /\ counted[name] <= counted'[name] /\ CounterSize \in Nat
  BY CountersCount, CaptureAssumption DEF DInv, CInv
<1>4. /\ base <= counted'[name] /\ prior_stats'[name] = base % CounterSize
      /\ Told(name)' <= base
      /\ counted'[name] < CounterSize /\ unsaved' = {} => Told(name)' = base
  BY <1>1, <1>2, <1>3
<1> QED
  BY <1>4 DEF Accounted

(* What a batch of the loop tells.                                         *)
LEMMA DiagnosticsAre ==
  /\ \A name \in Names : diagnostics[name] = Since(name)
  /\ diagnostics["parse_errors"] = parse_errors
  /\ \A name \in Fields : NoDiagnostics[name] = 0
<1> HIDE DEF Since
<1> QED
  BY DEF diagnostics, NoDiagnostics, Names, Fields

(* A drain starts the counts anew, and tells them unless it loses buckets. *)
LEMMA DrainTells ==
  ASSUME CInv, Enqueue \/ EnqueueLast \/ EnqueueFails
  PROVE  /\ unsaved = {} /\ prior_stats' = capture_stats /\ parse_errors' = 0
         /\ UNCHANGED <<counted, ring, arrived>>
         /\ \/ \A name \in Fields : Told(name)' = Told(name) + diagnostics[name]
            \/ unsaved' # {} /\ batches' = batches
<1> DEFINE batch == Batch(Due, diagnostics)
           first == Append(batches, batch)
           last  == Batch(Remaining, NoDiagnostics)
<1>1. Drain /\ pc = "drain" /\ Due # {}
  BY DEF Enqueue, EnqueueLast, EnqueueFails, Drain
<1>2. Known(PacketOnes, BucketPackets)
  BY Quantities DEF CInv, Known
<1>3. unsaved = {} /\ IsFiniteSet(Due) /\ IsFiniteSet(Remaining)
  BY <1>1, <1>2, DrainCounts
<1>4. /\ prior_stats' = capture_stats /\ parse_errors' = 0
      /\ UNCHANGED <<counted, ring, arrived>>
  BY <1>1 DEF Drain, kernel
<1>5. \/ batches' = first
      \/ Remaining # {} /\ batches' = Append(first, last)
      \/ unsaved' # {} /\ batches' = batches
  <2>1. CASE Enqueue
    BY <2>1 DEF Enqueue
  <2>2. CASE EnqueueLast
    BY <2>2 DEF EnqueueLast, Remaining
  <2>3. CASE EnqueueFails
    BY <1>1, <2>3 DEF EnqueueFails
  <2> QED
    BY <2>1, <2>2, <2>3
<1>6. batch \in FiniteBatch /\ batch.diagnostics = diagnostics
  <2>1. Sendable(batch)
    BY <1>1, DueSendable DEF CInv
  <2>2. batch.buckets = Due /\ batch.diagnostics = diagnostics
    BY DEF Batch
  <2> HIDE DEF batch
  <2> QED
    BY <1>3, <2>1, <2>2 DEF Sendable, FiniteBatch
<1>7. Remaining # {} => last \in FiniteBatch /\ last.diagnostics = NoDiagnostics
  <2> SUFFICES ASSUME Remaining # {}
               PROVE  last \in FiniteBatch /\ last.diagnostics = NoDiagnostics
    OBVIOUS
  <2>1. Sendable(last)
    BY RestSendable DEF CInv, Remaining
  <2>2. last.buckets = Remaining /\ last.diagnostics = NoDiagnostics
    BY DEF Batch
  <2> HIDE DEF last
  <2> QED
    BY <1>3, <2>1, <2>2 DEF Sendable, FiniteBatch
<1>8. batches \in Seq(FiniteBatch)
  BY DEF CInv, Countable
<1> HIDE DEF batch, last
<1>9. ASSUME NEW name \in Fields
      PROVE  /\ first \in Seq(FiniteBatch)
             /\ Total(Field(name), first) = Told(name) + diagnostics[name]
  BY <1>6, <1>8, BatchTells DEF Told
<1> HIDE DEF first
<1>10. ASSUME NEW name \in Fields, Remaining # {}
       PROVE  Total(Field(name), Append(first, last)) = Told(name) + diagnostics[name]
  <2>1. /\ Total(Field(name), first) \in Nat
        /\ Total(Field(name), Append(first, last)) =
             Total(Field(name), first) + last.diagnostics[name]
    BY <1>7, <1>9, <1>10, BatchTells
  <2>2. last.diagnostics[name] = 0
    BY <1>7, <1>10, DiagnosticsAre
  <2> QED
    BY <1>9, <2>1, <2>2
<1>11. ASSUME NEW name \in Fields
       PROVE  \/ Told(name)' = Told(name) + diagnostics[name]
              \/ unsaved' # {} /\ batches' = batches
  BY <1>5, <1>9, <1>10 DEF Told
<1>12. \/ \A name \in Fields : Told(name)' = Told(name) + diagnostics[name]
       \/ unsaved' # {} /\ batches' = batches
  BY <1>11
<1> QED
  BY <1>3, <1>4, <1>12

(* What a drain tells accounts for the counters up to it.                  *)
LEMMA DrainAccounts ==
  ASSUME DInv, Enqueue \/ EnqueueLast \/ EnqueueFails
  PROVE  \A name \in Names : Accounted(name)'
<1> SUFFICES ASSUME NEW name \in Names
             PROVE  Accounted(name)'
  OBVIOUS
<1>1. PICK base \in Nat :
        /\ base <= counted[name] /\ prior_stats[name] = base % CounterSize
        /\ Told(name) <= base
        /\ counted[name] < CounterSize /\ unsaved = {} => Told(name) = base
  BY DEF DInv, Accounted
<1> DEFINE c    == counted[name]
           told == Told(name)
           d    == SaturatingSub(c % CounterSize, base % CounterSize)
<1>2. DOMAIN counted = Names /\ c \in Nat /\ CounterSize \in Nat \ {0}
  BY StatsNamed, CaptureAssumption DEF DInv, CInv, IInv, Kernel
<1>3. capture_stats[name] = c % CounterSize
  BY <1>2 DEF capture_stats
<1>4. /\ unsaved = {} /\ prior_stats' = capture_stats /\ counted' = counted
      /\ \/ \A n \in Fields : Told(n)' = Told(n) + diagnostics[n]
         \/ unsaved' # {} /\ batches' = batches
  BY DrainTells DEF DInv
<1>5. diagnostics[name] = d
  BY <1>1, <1>3, DiagnosticsAre DEF Since
<1>6. d \in Nat /\ d <= c - base /\ (c < CounterSize => d = c - base)
  BY <1>1, <1>2, WrapsDown
<1>7. told \in Nat
  BY ReportedTold DEF DInv, CInv, Countable, Fields
<1>8. /\ \/ told' = told + d
         \/ unsaved' # {} /\ told' = told
      /\ prior_stats'[name] = c % CounterSize /\ counted'[name] = c
  BY <1>3, <1>4, <1>5 DEF Told, Fields
<1>9. /\ told' <= c
      /\ c < CounterSize /\ unsaved' = {} => told' = c
  <2> HIDE DEF d, told, c
  <2>1. /\ base <= c /\ told <= base /\ (c < CounterSize => told = base)
    BY <1>1, <1>4 DEF told, c
  <2> QED
    BY <1>2, <1>6, <1>7, <1>8, <2>1
<1> QED
  BY <1>2, <1>8, <1>9 DEF Accounted

(* The numbers that ErrorsKept compares.                                   *)
LEMMA ErrorNumbers ==
  ASSUME DInv
  PROVE  /\ Total(PacketErrors, ring) \in Nat /\ Total(PacketErrors, arrived) \in Nat
         /\ Told("parse_errors") \in Nat /\ parse_errors \in Nat /\ counted.dropped \in Nat
<1>1. ring \in Seq(Packet) /\ arrived \in Seq(Packet) /\ batches \in Seq(FiniteBatch)
  BY DEF DInv, CInv, IInv, Kernel, Countable
<1>2. counted \in Stats /\ parse_errors \in Nat
  BY DEF DInv, CInv, IInv, Kernel, Locals
<1>3. counted.dropped \in Nat
  BY <1>2 DEF Stats
<1> QED
  BY <1>1, <1>2, <1>3, ErrorTotals, ReportedTold DEF Fields

(* A packet that arrives is in the ring, or counted as dropped.            *)
LEMMA ArriveKeepsErrors ==
  ASSUME DInv, NEW key \in FlowKey \cup {Ignored, Malformed}, NEW wire_bytes \in Sizes,
         Arrive(key, wire_bytes)
  PROVE  ErrorsKept'
<1> DEFINE packet == [timestamp |-> clock, key |-> key, wire_bytes |-> wire_bytes]
<1>1. /\ packet \in Packet /\ ring \in Seq(Packet) /\ arrived \in Seq(Packet)
      /\ counted \in Stats
  BY DEF DInv, CInv, IInv, Kernel, Packet
<1>2. PacketErrors \in [Packet -> Nat]
  BY DEF PacketErrors
<1>3. /\ arrived' = Append(arrived, packet)
      /\ UNCHANGED <<parse_errors, batches, unsaved>>
      /\ \/ ring' = Append(ring, packet) /\ counted' = [counted EXCEPT !.received = @ + 1]
         \/ /\ counted' = [counted EXCEPT !.received = @ + 1, !.dropped = @ + 1]
            /\ ring' = ring
  BY DEF Arrive, locals
<1>4. PacketErrors[packet] \in {0, 1}
  BY <1>1 DEF PacketErrors
<1> HIDE DEF packet
<1>5. Total(PacketErrors, arrived') = Total(PacketErrors, arrived) + PacketErrors[packet]
  BY <1>1, <1>2, <1>3, TotalAppend, SMTT(30)
<1>6. \/ /\ Total(PacketErrors, ring') = Total(PacketErrors, ring) + PacketErrors[packet]
         /\ counted'.dropped = counted.dropped
      \/ /\ Total(PacketErrors, ring') = Total(PacketErrors, ring)
         /\ counted'.dropped = counted.dropped + 1
  <2>1. Total(PacketErrors, Append(ring, packet)) =
          Total(PacketErrors, ring) + PacketErrors[packet]
    BY <1>1, <1>2, TotalAppend
  <2> QED
    BY <1>1, <1>3, <2>1 DEF Stats
<1>7. Told("parse_errors")' = Told("parse_errors")
  BY <1>3 DEF Told
<1> DEFINE read == Told("parse_errors") + parse_errors
<1>8. read' = read /\ read \in Nat /\ unsaved' = unsaved
  BY <1>3, <1>7, ErrorNumbers
<1>9. /\ read + Total(PacketErrors, ring) <= Total(PacketErrors, arrived)
      /\ unsaved = {} => Total(PacketErrors, arrived) <=
                           read + Total(PacketErrors, ring) + counted.dropped
  BY DEF DInv, ErrorsKept
<1> HIDE DEF read
<1>10. /\ read' + Total(PacketErrors, ring') <= Total(PacketErrors, arrived')
       /\ unsaved' = {} => Total(PacketErrors, arrived') <=
                             read' + Total(PacketErrors, ring') + counted'.dropped
  BY <1>4, <1>5, <1>6, <1>8, <1>9, ErrorNumbers
<1> QED
  BY <1>10 DEF ErrorsKept, read

(* A packet that is read leaves the ring and is counted, if it is one.     *)
LEMMA ReadPacketKeepsErrors ==
  ASSUME DInv, ReadPacket
  PROVE  ErrorsKept'
<1> DEFINE packet == Head(ring)
<1>1. ring \in Seq(Packet) /\ ring # <<>> /\ packet \in Packet
  BY DEF DInv, CInv, IInv, Kernel, ReadPacket
<1>2. PacketErrors \in [Packet -> Nat]
  BY DEF PacketErrors
<1>3. /\ ring' = Tail(ring) /\ UNCHANGED <<arrived, counted, batches, unsaved>>
      /\ parse_errors' = IF packet.key = Malformed THEN parse_errors + 1 ELSE parse_errors
  BY DEF ReadPacket
<1>4. PacketErrors[packet] = IF packet.key = Malformed THEN 1 ELSE 0
  BY <1>1 DEF PacketErrors
<1>5. /\ Total(PacketErrors, ring) = PacketErrors[packet] + Total(PacketErrors, ring')
      /\ Total(PacketErrors, ring') \in Nat
  <2>1. Tail(ring) \in Seq(Packet)
    BY <1>1
  <2> QED
    BY <1>1, <1>2, <1>3, <2>1, TotalTail, TotalNat
<1> HIDE DEF packet
<1>6. parse_errors' + Total(PacketErrors, ring') = parse_errors + Total(PacketErrors, ring)
  BY <1>3, <1>4, <1>5, ErrorNumbers
<1>7. Told("parse_errors")' = Told("parse_errors")
  BY <1>3 DEF Told
<1>8. parse_errors' \in Nat
  BY <1>3, ErrorNumbers
<1> DEFINE read == Told("parse_errors") + parse_errors
<1>9. /\ read + Total(PacketErrors, ring) <= Total(PacketErrors, arrived)
      /\ unsaved = {} => Total(PacketErrors, arrived) <=
                           read + Total(PacketErrors, ring) + counted.dropped
  BY DEF DInv, ErrorsKept
<1>10. read' + Total(PacketErrors, ring') = read + Total(PacketErrors, ring)
  BY <1>5, <1>6, <1>7, <1>8, ErrorNumbers
<1>11. read \in Nat /\ read' \in Nat
  BY <1>7, <1>8, ErrorNumbers
<1> HIDE DEF read
<1>12. /\ read' + Total(PacketErrors, ring') <= Total(PacketErrors, arrived')
       /\ unsaved' = {} => Total(PacketErrors, arrived') <=
                             read' + Total(PacketErrors, ring') + counted'.dropped
  BY <1>3, <1>9, <1>10, <1>11, <1>5, ErrorNumbers
<1> QED
  BY <1>12 DEF ErrorsKept, read

(* A batch that goes out tells the errors counted so far.                  *)
LEMMA DrainKeepsErrors ==
  ASSUME DInv, Enqueue \/ EnqueueLast \/ EnqueueFails
  PROVE  ErrorsKept'
<1>1. /\ unsaved = {} /\ parse_errors' = 0 /\ UNCHANGED <<counted, ring, arrived>>
      /\ \/ \A name \in Fields : Told(name)' = Told(name) + diagnostics[name]
         \/ unsaved' # {} /\ batches' = batches
  BY DrainTells DEF DInv
<1>2. \/ Told("parse_errors")' = Told("parse_errors") + parse_errors
      \/ unsaved' # {} /\ Told("parse_errors")' = Told("parse_errors")
  <2>1. diagnostics["parse_errors"] = parse_errors /\ "parse_errors" \in Fields
    BY DiagnosticsAre DEF Fields
  <2>2. batches' = batches => Told("parse_errors")' = Told("parse_errors")
    BY DEF Told
  <2> HIDE DEF diagnostics
  <2> QED
    BY <1>1, <2>1, <2>2
<1> DEFINE told == Told("parse_errors")
<1>3. told \in Nat /\ (told' = told + parse_errors \/ (unsaved' # {} /\ told' = told))
  BY <1>2, ErrorNumbers
<1> HIDE DEF told
<1> QED
  BY <1>1, <1>3, ErrorNumbers DEF DInv, ErrorsKept, told

(* The other steps move no such packet.                                    *)
LEMMA QuietKeepsErrors ==
  ASSUME DInv,
         \/ Advance \/ SetBack \/ InterfaceDrops \/ PollTimeout \/ NothingDue
         \/ Exit \/ UNCHANGED vars
  PROVE  ErrorsKept'
<1>1. UNCHANGED <<arrived, ring, parse_errors, batches>>
  BY DEF Advance, SetBack, InterfaceDrops, PollTimeout, NothingDue, Exit, vars, kernel, locals
<1>2. counted'.dropped = counted.dropped
  <2>1. CASE InterfaceDrops
    <3>1. counted' = [counted EXCEPT !.interface_dropped = @ + 1] /\ counted \in Stats
      BY <2>1 DEF InterfaceDrops, DInv, CInv, IInv, Kernel
    <3> QED
      BY <3>1 DEF Stats
  <2>2. CASE Advance \/ SetBack \/ PollTimeout \/ NothingDue \/ Exit \/ UNCHANGED vars
    BY <2>2 DEF Advance, SetBack, PollTimeout, NothingDue, Exit, vars, kernel
  <2> QED
    BY <2>1, <2>2
<1>3. unsaved = {} \/ unsaved' = unsaved
  BY DEF Advance, SetBack, InterfaceDrops, PollTimeout, NothingDue, Exit, vars,
         DInv, CInv, Countable
<1>4. Told("parse_errors")' = Told("parse_errors")
  BY <1>1 DEF Told
<1> QED
  BY <1>1, <1>2, <1>3, <1>4 DEF DInv, ErrorsKept

(* Every step keeps the account.                                           *)
LEMMA NextDInv == DInv /\ [Next]_vars => DInv'
<1> SUFFICES ASSUME DInv, [Next]_vars
             PROVE  DInv'
  OBVIOUS
<1>1. CInv'
  BY NextCInv DEF DInv
<1>2. \/ Enqueue \/ EnqueueLast \/ EnqueueFails
      \/ ReadPacket
      \/ \E key \in FlowKey \cup {Ignored, Malformed}, wire_bytes \in Sizes :
           Arrive(key, wire_bytes)
      \/ Advance \/ SetBack \/ InterfaceDrops \/ PollTimeout \/ NothingDue
      \/ Exit \/ UNCHANGED vars
  BY DEF Next, Loop
<1>3. ErrorsKept'
  BY <1>2, DrainKeepsErrors, ReadPacketKeepsErrors, ArriveKeepsErrors, QuietKeepsErrors
<1>4. \A name \in Names : Accounted(name)'
  <2>1. CASE Enqueue \/ EnqueueLast \/ EnqueueFails
    BY <2>1, DrainAccounts
  <2>2. CASE ~(Enqueue \/ EnqueueLast \/ EnqueueFails)
    <3>1. UNCHANGED <<batches, prior_stats>>
      BY <1>2, <2>2 DEF Advance, SetBack, InterfaceDrops, Arrive, ReadPacket, PollTimeout,
                        NothingDue, Exit, vars, locals
    <3>2. unsaved = {} \/ unsaved' = unsaved
      BY <1>2, <2>2 DEF Advance, SetBack, InterfaceDrops, Arrive, ReadPacket, PollTimeout,
                        NothingDue, Exit, vars, DInv, CInv, Countable
    <3> QED
      BY <3>1, <3>2, QuietAccounts
  <2> QED
    BY <2>1, <2>2
<1> QED
  BY <1>1, <1>3, <1>4 DEF DInv

(* In every run of the capture loop, whatever the width of pcap's counters: *)
(* the batches together report no more packets, drops or errors than there *)
(* were, and miss none up to the last batch while no counter has wrapped   *)
(* and no batch was lost.                                                  *)
THEOREM CaptureDiagnosticsAddUp == Spec => []DiagnosticsAddUp
BY InitDInv, NextDInv, DInvAddsUp, PTL DEF Spec

===============================================================================
