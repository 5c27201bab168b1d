------------------------------ MODULE CaptureProofs ----------------------------
(***************************************************************************)
(* Theorems about the capture loop, for every bucket width, every ring and *)
(* every clock, one that is set back included.                             *)
(***************************************************************************)
EXTENDS Capture, TLAPS

-------------------------------------------------------------------------------
(* The aggregator.                                                         *)

Slot  == Nat \X FlowKey
Start == {n \in Nat : \E k \in Nat : n = k * bucket_seconds}

(* What the loop keeps in its map: counters, under the starts of buckets.  *)
Aggregate(f) ==
  /\ DOMAIN f \subseteq Slot
  /\ \A s \in DOMAIN f : f[s] \in Counters /\ s[1] \in Start

(* A bucket starts at a multiple of the width and not after its packets.   *)
LEMMA BucketStart ==
  ASSUME NEW t \in Nat
  PROVE  bucket_of(t) \in Start /\ bucket_of(t) <= t
<1> DEFINE k == t \div bucket_seconds
<1>1. bucket_seconds \in Nat /\ bucket_seconds > 0
  BY BucketAssumption
<1>2. k \in Nat /\ k * bucket_seconds <= t
  BY <1>1
<1>3. bucket_of(t) = k * bucket_seconds
  BY DEF bucket_of
<1> HIDE DEF k
<1>4. k * bucket_seconds \in Nat
  BY <1>1, <1>2
<1> QED
  BY <1>2, <1>3, <1>4 DEF Start

(* Of two buckets the earlier one ends before the later one starts.        *)
LEMMA BucketsApart ==
  ASSUME NEW a \in Start, NEW b \in Start, a < b
  PROVE  a + bucket_seconds <= b
<1>1. bucket_seconds \in Nat /\ bucket_seconds > 0
  BY BucketAssumption
<1>2. PICK i \in Nat, j \in Nat : a = i * bucket_seconds /\ b = j * bucket_seconds
  BY DEF Start
<1>3. i < j
  <2>1. SUFFICES ASSUME j <= i
                 PROVE  FALSE
    BY <1>2
  <2>2. j * bucket_seconds <= i * bucket_seconds
    BY <1>1, <2>1
  <2> QED
    BY <1>2, <2>2 DEF Start
<1>4. (i + 1) * bucket_seconds <= j * bucket_seconds
  BY <1>1, <1>3
<1>5. (i + 1) * bucket_seconds = i * bucket_seconds + bucket_seconds
  BY <1>1
<1> QED
  BY <1>2, <1>4, <1>5

(* Counting a packet.                                                      *)
LEMMA PushKeeps ==
  ASSUME NEW f, Aggregate(f), NEW t \in Nat, NEW key \in FlowKey, NEW bytes \in Nat
  PROVE  Aggregate(push(f, t, key, bytes))
<1> DEFINE slot == <<bucket_of(t), key>>
           old  == IF slot \in DOMAIN f THEN f[slot] ELSE [packets |-> 0, bytes |-> 0]
           new  == push(f, t, key, bytes)
<1>1. slot \in Slot /\ slot[1] \in Start
  BY BucketStart DEF Slot, Start
<1>2. old \in Counters
  BY DEF Aggregate, Counters
<1>3. /\ DOMAIN new = DOMAIN f \cup {slot}
      /\ \A s \in DOMAIN f \cup {slot} :
           new[s] = IF s = slot
                      THEN [packets |-> old.packets + 1, bytes |-> old.bytes + bytes]
                      ELSE f[s]
  BY DEF push
<1>4. [packets |-> old.packets + 1, bytes |-> old.bytes + bytes] \in Counters
  BY <1>2 DEF Counters
<1> HIDE DEF slot, old, new
<1>5. \A s \in DOMAIN new : new[s] \in Counters /\ s[1] \in Start
  BY <1>1, <1>3, <1>4 DEF Aggregate
<1>6. DOMAIN new \subseteq Slot
  BY <1>1, <1>3 DEF Aggregate
<1>7. Aggregate(new)
  BY <1>5, <1>6 DEF Aggregate
<1> QED
  BY <1>7 DEF new

(* Splitting the map.                                                      *)
LEMMA SplitKeeps ==
  ASSUME NEW f, Aggregate(f), NEW start
  PROVE  Aggregate(before(f, start)) /\ Aggregate(retained(f, start))
BY DEF Aggregate, before, retained, Restrict

(* The buckets of a batch: each once.                                      *)
Distinct(buckets) ==
  \A b1, b2 \in buckets :
    b1.bucket_start = b2.bucket_start /\ b1.key = b2.key => b1 = b2

(* A map holds a bucket of a flow once.                                    *)
LEMMA BucketsDistinct ==
  ASSUME NEW f, Aggregate(f)
  PROVE  Distinct(to_buckets(f))
<1> SUFFICES ASSUME NEW s1 \in DOMAIN f, NEW s2 \in DOMAIN f,
                    s1[1] = s2[1], s1[2] = s2[2]
             PROVE  s1 = s2
  BY DEF Distinct, to_buckets
<1> QED
  BY DEF Aggregate, Slot

(* Whatever is due is over by the clock.                                   *)
LEMMA DueIsOver ==
  ASSUME Aggregate(flows), clock \in Nat, NEW b \in Due
  PROVE  b.bucket_start + bucket_seconds <= clock
<1>1. PICK s \in DOMAIN flows : s[1] < bucket_of(clock) /\ b.bucket_start = s[1]
  <2> DEFINE early == before(flows, bucket_of(clock))
  <2>1. PICK s \in DOMAIN early : b.bucket_start = s[1]
    BY DEF Due, to_buckets
  <2>2. s \in DOMAIN flows /\ s[1] < bucket_of(clock)
    BY DEF before, Restrict
  <2> QED
    BY <2>1, <2>2
<1>2. s[1] \in Start /\ bucket_of(clock) \in Start /\ bucket_of(clock) <= clock
  BY BucketStart DEF Aggregate
<1>3. s[1] + bucket_seconds <= bucket_of(clock)
  BY <1>1, <1>2, BucketsApart
<1>4. bucket_seconds \in Nat /\ s[1] \in Nat /\ bucket_of(clock) \in Nat
  BY <1>2, BucketAssumption DEF Start
<1> QED
  BY <1>1, <1>2, <1>3, <1>4

-------------------------------------------------------------------------------
(* The batches that went out.                                              *)

Bucket == [bucket_start : Nat, key : FlowKey, packets : Nat, bytes : Nat]

(* The batches the loop hands to the spool.                                *)
FlowBatch == [created_at : Nat, buckets : SUBSET Bucket, diagnostics : Diagnostics]

Sendable(batch) == batch \in FlowBatch /\ batch.buckets # {} /\ Distinct(batch.buckets)

Over(batch) == \A b \in batch.buckets : b.bucket_start + bucket_seconds <= batch.created_at

(* All batches hold what was over, except the last one after the exit.     *)
Sent(list, at) ==
  /\ list \in Seq(FlowBatch)
  /\ \A i \in DOMAIN list :
       /\ Sendable(list[i])
       /\ Over(list[i]) \/ (at = "exited" /\ i = Len(list))

(* What to_buckets returns.                                                *)
LEMMA BucketsTyped ==
  ASSUME NEW f, Aggregate(f)
  PROVE  to_buckets(f) \subseteq Bucket
<1> SUFFICES ASSUME NEW s \in DOMAIN f
             PROVE  [bucket_start |-> s[1], key |-> s[2],
                     packets |-> f[s].packets, bytes |-> f[s].bytes] \in Bucket
  BY DEF to_buckets
<1>1. s \in Nat \X FlowKey /\ f[s] \in [packets : Nat, bytes : Nat]
  BY DEF Aggregate, Slot, Counters
<1> QED
  BY <1>1 DEF Bucket

(* While the loop runs a batch of what is over can be added.               *)
LEMMA SentOver ==
  ASSUME NEW list, NEW at, Sent(list, at), at # "exited",
         NEW batch, Sendable(batch), Over(batch), NEW at2
  PROVE  Sent(Append(list, batch), at2)
<1>1. list \in Seq(FlowBatch) /\ batch \in FlowBatch
  BY DEF Sent, Sendable
<1>2. Append(list, batch) \in Seq(FlowBatch)
  BY <1>1
<1>3. ASSUME NEW i \in DOMAIN Append(list, batch)
      PROVE  Sendable(Append(list, batch)[i]) /\ Over(Append(list, batch)[i])
  <2>1. CASE i = Len(list) + 1
    BY <1>1, <2>1
  <2>2. CASE i # Len(list) + 1
    <3>1. i \in DOMAIN list /\ Append(list, batch)[i] = list[i]
      BY <1>1, <1>3, <2>2
    <3> QED
      BY <3>1 DEF Sent
  <2> QED
    BY <2>1, <2>2
<1> QED
  BY <1>2, <1>3 DEF Sent

(* At the exit one more batch can follow.                                  *)
LEMMA SentLast ==
  ASSUME NEW list, NEW at, Sent(list, at), at # "exited", NEW batch, Sendable(batch)
  PROVE  Sent(Append(list, batch), "exited")
<1>1. list \in Seq(FlowBatch) /\ batch \in FlowBatch
  BY DEF Sent, Sendable
<1>2. Append(list, batch) \in Seq(FlowBatch) /\ Len(Append(list, batch)) = Len(list) + 1
  BY <1>1
<1>3. ASSUME NEW i \in DOMAIN Append(list, batch)
      PROVE  /\ Sendable(Append(list, batch)[i])
             /\ Over(Append(list, batch)[i]) \/ i = Len(list) + 1
  <2>1. CASE i = Len(list) + 1
    BY <1>1, <2>1
  <2>2. CASE i # Len(list) + 1
    <3>1. i \in DOMAIN list /\ Append(list, batch)[i] = list[i]
      BY <1>1, <1>3, <2>2
    <3> QED
      BY <3>1 DEF Sent
  <2> QED
    BY <2>1, <2>2
<1> QED
  BY <1>2, <1>3 DEF Sent

(* Another step of the loop keeps the batches, the exit included.          *)
LEMMA SentKept ==
  ASSUME NEW list, NEW at, Sent(list, at), NEW at2, at # "exited" \/ at2 = at
  PROVE  Sent(list, at2)
BY DEF Sent

-------------------------------------------------------------------------------
(* The inductive invariant.                                                *)

Kernel ==
  /\ clock \in 0 .. MaxClock /\ steps \in 0 .. MaxSteps
  /\ arrived \in Seq(Packet) /\ ring \in Seq(Packet) /\ Len(ring) <= RingSize
  /\ counted \in Stats /\ counted.received = Len(arrived)

Locals ==
  /\ pc \in {"poll", "drain", "exited"}
  /\ Aggregate(flows)
  /\ parse_errors \in Nat /\ prior_stats \in Stats /\ emitted \in Nat

IInv == Kernel /\ Locals /\ Sent(batches, pc)

(* The loop starts with nothing counted and nothing sent.                  *)
LEMMA InitIInv == Init => IInv
<1> SUFFICES ASSUME Init
             PROVE  IInv
  OBVIOUS
<1> USE DEF Init
<1>1. Kernel
  BY CaptureAssumption DEF Kernel, Stats, NoStats
<1>2. Aggregate(flows)
  BY DEF Aggregate, NoFlows
<1>3. Locals
  BY <1>2 DEF Locals, Stats, NoStats
<1>4. Sent(batches, pc)
  BY DEF Sent
<1> QED
  BY <1>1, <1>3, <1>4 DEF IInv

(* pcap's counters stay counters when they wrap.                           *)
LEMMA StatsTyped ==
  ASSUME counted \in Stats
  PROVE  capture_stats \in Stats
<1>1. CounterSize \in Nat /\ CounterSize > 0
  BY CaptureAssumption
<1>2. \A n \in Nat : n % CounterSize \in Nat
  BY <1>1
<1>3. DOMAIN counted = {"received", "dropped", "interface_dropped"}
  BY DEF Stats
<1>4. capture_stats = [received          |-> counted.received % CounterSize,
                       dropped           |-> counted.dropped % CounterSize,
                       interface_dropped |-> counted.interface_dropped % CounterSize]
  BY <1>3 DEF capture_stats
<1>5. counted.received \in Nat /\ counted.dropped \in Nat /\ counted.interface_dropped \in Nat
  BY DEF Stats
<1> QED
  BY <1>2, <1>4, <1>5 DEF Stats

(* What a batch reports about the capture are counts, never below zero.    *)
LEMMA DiagnosticsTyped ==
  ASSUME counted \in Stats, prior_stats \in Stats, parse_errors \in Nat
  PROVE  diagnostics \in Diagnostics
<1>1. capture_stats \in Stats
  BY StatsTyped
<1>2. \A a, b \in Nat : SaturatingSub(a, b) \in Nat
  BY DEF SaturatingSub
<1>3. /\ Since("received") \in Nat /\ Since("dropped") \in Nat
      /\ Since("interface_dropped") \in Nat
  <2> HIDE DEF capture_stats
  <2> QED
    BY <1>1, <1>2 DEF Since, Stats
<1> HIDE DEF Since
<1> QED
  BY <1>3 DEF diagnostics, Diagnostics

(* What drain returns, if anything, is a batch of buckets that are over.   *)
LEMMA DueSendable ==
  ASSUME IInv, Due # {}
  PROVE  Sendable(Batch(Due, diagnostics)) /\ Over(Batch(Due, diagnostics))
<1>1. Aggregate(flows) /\ clock \in Nat /\ diagnostics \in Diagnostics
  BY DiagnosticsTyped DEF IInv, Kernel, Locals
<1>2. Aggregate(before(flows, bucket_of(clock)))
  BY <1>1, SplitKeeps
<1>3. Due \subseteq Bucket /\ Distinct(Due)
  BY <1>2, BucketsTyped, BucketsDistinct DEF Due
<1>4. \A b \in Due : b.bucket_start + bucket_seconds <= clock
  BY <1>1, DueIsOver
<1> HIDE DEF Due, diagnostics
<1> QED
  BY <1>1, <1>3, <1>4 DEF Sendable, Over, Batch, FlowBatch

(* So does what is left, taken along at the exit, without diagnostics.     *)
LEMMA RestSendable ==
  ASSUME IInv, NEW start, to_buckets(retained(flows, start)) # {}
  PROVE  Sendable(Batch(to_buckets(retained(flows, start)), NoDiagnostics))
<1> DEFINE rest == to_buckets(retained(flows, start))
<1>1. Aggregate(flows) /\ clock \in Nat
  BY DEF IInv, Kernel, Locals
<1>2. Aggregate(retained(flows, start))
  BY <1>1, SplitKeeps
<1>3. rest \subseteq Bucket /\ Distinct(rest) /\ rest # {}
  BY <1>2, BucketsTyped, BucketsDistinct
<1>4. NoDiagnostics \in Diagnostics
  BY DEF NoDiagnostics, Diagnostics
<1> HIDE DEF rest
<1>5. Sendable(Batch(rest, NoDiagnostics))
  BY <1>1, <1>3, <1>4 DEF Sendable, Batch, FlowBatch
<1> QED
  BY <1>5 DEF rest

(* An empty map is an aggregate: the process is gone, and its map with it. *)
LEMMA NothingKept == Aggregate(NoFlows)
BY DEF Aggregate, NoFlows

-------------------------------------------------------------------------------
(* The steps.                                                              *)

(* A counter counts, and no other with it.                                 *)
LEMMA StatsCount ==
  ASSUME NEW stats \in Stats
  PROVE  /\ \A new : new = [stats EXCEPT !.received = @ + 1] =>
                       new \in Stats /\ new.received = stats.received + 1
         /\ \A new : new = [stats EXCEPT !.received = @ + 1, !.dropped = @ + 1] =>
                       new \in Stats /\ new.received = stats.received + 1
         /\ \A new : new = [stats EXCEPT !.interface_dropped = @ + 1] =>
                       new \in Stats /\ new.received = stats.received
<1>1. ASSUME NEW new, new = [stats EXCEPT !.received = @ + 1]
      PROVE  new \in Stats /\ new.received = stats.received + 1
  BY <1>1 DEF Stats
<1>2. ASSUME NEW new, new = [stats EXCEPT !.received = @ + 1, !.dropped = @ + 1]
      PROVE  new \in Stats /\ new.received = stats.received + 1
  <2> DEFINE mid == [stats EXCEPT !.received = @ + 1]
  <2>1. mid \in Stats /\ mid.received = stats.received + 1 /\ mid.dropped = stats.dropped
    BY DEF Stats
  <2>2. new = [mid EXCEPT !.dropped = @ + 1]
    BY <1>2 DEF Stats
  <2> HIDE DEF mid
  <2> QED
    BY <2>1, <2>2 DEF Stats
<1>3. ASSUME NEW new, new = [stats EXCEPT !.interface_dropped = @ + 1]
      PROVE  new \in Stats /\ new.received = stats.received
  BY <1>3 DEF Stats
<1> QED
  BY <1>1, <1>2, <1>3

(* A sequence with one more element at its end.                            *)
LEMMA OneMore ==
  ASSUME NEW S, NEW s \in Seq(S), NEW e \in S
  PROVE  Append(s, e) \in Seq(S) /\ Len(Append(s, e)) = Len(s) + 1
OBVIOUS

(* The kernel's clock and ring touch nothing the loop keeps.               *)
LEMMA KernelStep ==
  ASSUME IInv,
         \/ Advance \/ SetBack \/ InterfaceDrops
         \/ \E key \in FlowKey \cup {Ignored, Malformed}, wire_bytes \in Sizes :
              Arrive(key, wire_bytes)
  PROVE  IInv'
<1> USE DEF IInv
<1>1. UNCHANGED <<pc, locals, batches>>
  BY DEF Advance, SetBack, InterfaceDrops, Arrive
<1>2. Locals' /\ Sent(batches, pc)'
  BY <1>1 DEF Locals, locals
<1>3. Kernel'
  <2> USE CaptureAssumption DEF Kernel
  <2>1. CASE Advance
    BY <2>1 DEF Advance
  <2>2. CASE SetBack
    BY <2>2 DEF SetBack
  <2>3. CASE InterfaceDrops
    <3>1. counted' = [counted EXCEPT !.interface_dropped = @ + 1]
      BY <2>3 DEF InterfaceDrops
    <3>2. counted' \in Stats /\ counted'.received = counted.received
      BY <3>1, StatsCount
    <3> QED
      BY <2>3, <3>2 DEF InterfaceDrops
  <2>4. ASSUME NEW key \in FlowKey \cup {Ignored, Malformed}, NEW wire_bytes \in Sizes,
               Arrive(key, wire_bytes)
        PROVE  Kernel'
    <3> DEFINE packet == [timestamp |-> clock, key |-> key, wire_bytes |-> wire_bytes]
    <3>1. packet \in Packet
      BY DEF Packet
    <3>2. arrived' = Append(arrived, packet) /\ ring' \in {ring, Append(ring, packet)}
      BY <2>4 DEF Arrive
    <3>3. UNCHANGED <<clock, steps>>
      BY <2>4 DEF Arrive
    <3>4. counted' \in Stats /\ counted'.received = counted.received + 1
      <4>1. \/ counted' = [counted EXCEPT !.received = @ + 1]
            \/ counted' = [counted EXCEPT !.received = @ + 1, !.dropped = @ + 1]
        BY <2>4 DEF Arrive
      <4> QED
        BY <4>1, StatsCount
    <3>5. Len(ring') <= RingSize
      <4>1. CASE Len(ring) < RingSize
        BY <2>4, <3>1, <4>1 DEF Arrive
      <4>2. CASE ~(Len(ring) < RingSize)
        BY <2>4, <4>2 DEF Arrive
      <4> QED
        BY <4>1, <4>2
    <3> HIDE DEF packet
    <3>6. arrived' \in Seq(Packet) /\ Len(arrived') = Len(arrived) + 1 /\ ring' \in Seq(Packet)
      <4>1. arrived \in Seq(Packet) /\ ring \in Seq(Packet)
        OBVIOUS
      <4> QED
        BY <3>1, <3>2, <4>1, OneMore
    <3> QED
      BY <3>3, <3>4, <3>5, <3>6
  <2> QED
    BY <2>1, <2>2, <2>3, <2>4
<1> QED
  BY <1>2, <1>3

(* A packet leaves the ring; one that carries a flow is counted in the map *)
(* at the time the kernel stamped, which can be a bucket already sent.     *)
LEMMA ReadPacketIInv == ASSUME IInv, ReadPacket PROVE IInv'
<1> DEFINE packet == Head(ring)
<1>1. ring \in Seq(Packet) /\ ring # <<>> /\ packet \in Packet
  BY DEF IInv, Kernel, ReadPacket
<1>2. /\ flows' = IF packet.key \in FlowKey
                    THEN push(flows, packet.timestamp, packet.key, packet.wire_bytes)
                    ELSE flows
      /\ parse_errors' = IF packet.key = Malformed THEN parse_errors + 1 ELSE parse_errors
      /\ ring' = Tail(ring) /\ pc' = "drain" /\ pc = "poll"
      /\ UNCHANGED <<clock, steps, arrived, counted, prior_stats, emitted, batches>>
  BY DEF ReadPacket
<1> HIDE DEF packet
<1>3. packet.timestamp \in Nat /\ packet.wire_bytes \in Nat
  <2>1. packet.timestamp \in 0 .. MaxClock /\ packet.wire_bytes \in Sizes
    <3>1. packet \in Packet
      BY <1>1
    <3> QED
      BY <3>1 DEF Packet
  <2>2. (\A n \in 0 .. MaxClock : n \in Nat) /\ (\A n \in Sizes : n \in Nat)
    BY CaptureAssumption
  <2> QED
    BY <2>1, <2>2
<1>4. Aggregate(flows')
  BY <1>2, <1>3, PushKeeps DEF IInv, Locals
<1>5. Kernel'
  <2>1. ring' \in Seq(Packet) /\ Len(ring') <= RingSize
    BY <1>1, <1>2, CaptureAssumption DEF IInv, Kernel
  <2> QED
    BY <1>2, <2>1 DEF IInv, Kernel
<1>6. Locals'
  BY <1>2, <1>4 DEF IInv, Locals
<1>7. Sent(batches, pc)'
  BY <1>2, SentKept DEF IInv
<1> QED
  BY <1>5, <1>6, <1>7 DEF IInv

(* A timeout of next_packet goes on to the drain.                          *)
LEMMA PollTimeoutIInv == ASSUME IInv, PollTimeout PROVE IInv'
<1>1. pc = "poll" /\ pc' = "drain" /\ UNCHANGED <<kernel, locals, batches>>
  BY DEF PollTimeout
<1>2. Sent(batches, pc)'
  BY <1>1, SentKept DEF IInv
<1> QED
  BY <1>1, <1>2 DEF IInv, Kernel, Locals, kernel, locals

(* A drain that finds nothing keeps the rest of the map: all of it.        *)
LEMMA NothingDueIInv == ASSUME IInv, NothingDue PROVE IInv'
<1>1. /\ pc = "drain" /\ pc' = "poll" /\ flows' = retained(flows, bucket_of(clock))
      /\ UNCHANGED <<kernel, parse_errors, prior_stats, emitted, batches>>
  BY DEF NothingDue
<1>2. Aggregate(flows')
  BY <1>1, SplitKeeps DEF IInv, Locals
<1>3. Sent(batches, pc)'
  BY <1>1, SentKept DEF IInv
<1> QED
  BY <1>1, <1>2, <1>3 DEF IInv, Kernel, Locals, kernel

(* What every enqueue does first.                                          *)
LEMMA DrainKeeps ==
  ASSUME IInv, Drain
  PROVE  /\ pc = "drain" /\ Due # {} /\ Kernel'
         /\ parse_errors' \in Nat /\ prior_stats' \in Stats
<1>1. /\ pc = "drain" /\ Due # {} /\ parse_errors' = 0 /\ prior_stats' = capture_stats
      /\ UNCHANGED kernel
  BY DEF Drain
<1>2. capture_stats \in Stats
  BY StatsTyped DEF IInv, Kernel
<1>3. Kernel'
  BY <1>1 DEF IInv, Kernel, kernel
<1> QED
  BY <1>1, <1>2, <1>3

(* The batch enqueued holds what is over, and the map keeps the rest.      *)
LEMMA EnqueueIInv == ASSUME IInv, Enqueue PROVE IInv'
<1>1. /\ Drain /\ flows' = retained(flows, bucket_of(clock))
      /\ batches' = Append(batches, Batch(Due, diagnostics))
      /\ emitted' = emitted + 1 /\ pc' = "poll"
  BY DEF Enqueue
<1>2. /\ pc = "drain" /\ Due # {} /\ Kernel'
      /\ parse_errors' \in Nat /\ prior_stats' \in Stats
  BY <1>1, DrainKeeps
<1>3. Aggregate(flows')
  BY <1>1, SplitKeeps DEF IInv, Locals
<1>4. Locals'
  BY <1>1, <1>2, <1>3 DEF IInv, Locals
<1>5. Sent(batches', "poll")
  BY <1>1, <1>2, DueSendable, SentOver DEF IInv
<1> QED
  BY <1>1, <1>2, <1>4, <1>5 DEF IInv

(* The last batch can be followed by one with the unfinished buckets; that *)
(* one alone may hold a bucket that is not over.                           *)
LEMMA EnqueueLastIInv == ASSUME IInv, EnqueueLast PROVE IInv'
<1> DEFINE first     == Append(batches, Batch(Due, diagnostics))
           remaining == to_buckets(retained(flows, bucket_of(clock)))
<1>1. /\ Drain /\ flows' = NoFlows /\ emitted' = emitted + 1 /\ pc' = "exited"
      /\ \/ batches' = first
         \/ remaining # {} /\ batches' = Append(first, Batch(remaining, NoDiagnostics))
  BY DEF EnqueueLast
<1>2. /\ pc = "drain" /\ Due # {} /\ Kernel'
      /\ parse_errors' \in Nat /\ prior_stats' \in Stats
  BY <1>1, DrainKeeps
<1>3. Locals'
  BY <1>1, <1>2, NothingKept DEF IInv, Locals
<1>4. Sent(first, "poll") /\ Sent(first, "exited")
  BY <1>2, DueSendable, SentOver DEF IInv
<1>5. remaining # {} => Sendable(Batch(remaining, NoDiagnostics))
  BY RestSendable
<1> HIDE DEF first, remaining
<1>6. Sent(batches', "exited")
  <2>1. CASE batches' = first
    BY <1>4, <2>1
  <2>2. CASE remaining # {} /\ batches' = Append(first, Batch(remaining, NoDiagnostics))
    BY <1>4, <1>5, <2>2, SentLast
  <2> QED
    BY <1>1, <2>1, <2>2
<1> QED
  BY <1>1, <1>2, <1>3, <1>6 DEF IInv

(* An enqueue that fails ends the process, before or after the batch is in *)
(* the spool.                                                              *)
LEMMA EnqueueFailsIInv == ASSUME IInv, EnqueueFails PROVE IInv'
<1> DEFINE first == Append(batches, Batch(Due, diagnostics))
<1>1. /\ Drain /\ flows' = NoFlows /\ emitted' = emitted /\ pc' = "exited"
      /\ batches' \in {batches, first}
  BY DEF EnqueueFails
<1>2. /\ pc = "drain" /\ Due # {} /\ Kernel'
      /\ parse_errors' \in Nat /\ prior_stats' \in Stats
  BY <1>1, DrainKeeps
<1>3. Locals'
  BY <1>1, <1>2, NothingKept DEF IInv, Locals
<1>4. Sent(first, "exited")
  BY <1>2, DueSendable, SentOver DEF IInv
<1>5. Sent(batches, "exited")
  BY <1>2, SentKept DEF IInv
<1> HIDE DEF first
<1>6. Sent(batches', "exited")
  BY <1>1, <1>4, <1>5
<1> QED
  BY <1>1, <1>2, <1>3, <1>6 DEF IInv

(* The process goes, its map with it; what it sent stays sent.             *)
LEMMA ExitIInv == ASSUME IInv, Exit PROVE IInv'
<1>1. /\ pc # "exited" /\ pc' = "exited" /\ flows' = NoFlows
      /\ UNCHANGED <<kernel, parse_errors, prior_stats, emitted, batches>>
  BY DEF Exit
<1>2. Sent(batches, pc)'
  BY <1>1, SentKept DEF IInv
<1> QED
  BY <1>1, <1>2, NothingKept DEF IInv, Kernel, Locals, kernel

(* Every step keeps the invariant.                                         *)
LEMMA NextIInv == IInv /\ [Next]_vars => IInv'
<1> SUFFICES ASSUME IInv, [Next]_vars
             PROVE  IInv'
  OBVIOUS
<1>1. CASE \/ Advance \/ SetBack \/ InterfaceDrops
           \/ \E key \in FlowKey \cup {Ignored, Malformed}, wire_bytes \in Sizes :
                Arrive(key, wire_bytes)
  BY <1>1, KernelStep
<1>2. CASE Loop
  BY <1>2, ReadPacketIInv, PollTimeoutIInv, NothingDueIInv, EnqueueIInv, EnqueueLastIInv
  DEF Loop
<1>3. CASE EnqueueFails
  BY <1>3, EnqueueFailsIInv
<1>4. CASE Exit
  BY <1>4, ExitIInv
<1>5. CASE UNCHANGED vars
  BY <1>5 DEF IInv, Kernel, Locals, vars, kernel, locals
<1> QED
  BY <1>1, <1>2, <1>3, <1>4, <1>5 DEF Next

-------------------------------------------------------------------------------
(* The results.                                                            *)

(* The inductive invariant holds of every behaviour of the loop.           *)
THEOREM CaptureInvariant == Spec => []IInv
<1> QED
  BY InitIInv, NextIInv, PTL DEF Spec

(* Every variable holds a value of its type, whatever the clock does.      *)
THEOREM CaptureTypeOK == Spec => []TypeOK
<1>1. IInv => TypeOK
  <2> SUFFICES ASSUME IInv
               PROVE  TypeOK
    OBVIOUS
  <2>1. DOMAIN flows \subseteq Nat \X FlowKey /\ \A s \in DOMAIN flows : flows[s] \in Counters
    BY DEF IInv, Locals, Aggregate, Slot
  <2>2. \A i \in DOMAIN batches : batches[i].diagnostics \in Diagnostics
    BY DEF IInv, Sent, Sendable, FlowBatch
  <2> QED
    BY <2>1, <2>2 DEF TypeOK, IInv, Kernel, Locals
<1> QED
  BY <1>1, CaptureInvariant, PTL

(* A batch is never empty, holds a bucket of a flow once, and holds only   *)
(* buckets that were over when it was made, the last one before the exit   *)
(* excepted - also when the clock was set back in between.                 *)
THEOREM CaptureBatchesClosed == Spec => []BatchesClosed
<1>1. IInv => BatchesClosed
  BY DEF IInv, Sent, Sendable, Over, Distinct, BatchesClosed
<1> QED
  BY <1>1, CaptureInvariant, PTL

===============================================================================
