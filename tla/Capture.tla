-------------------------------- MODULE Capture -------------------------------
(***************************************************************************)
(* The capture loop of src/capture.rs: read a packet or time out, move the *)
(* buckets that are over into a batch, enqueue it in the spool.            *)
(*                                                                         *)
(* The kernel and libpcap around it are modelled as the loop uses them: a  *)
(* bounded ring of time-stamped packets, and counters of 32 bits.  Whether *)
(* an enqueue succeeds is left open; module Spool says when it does.       *)
(***************************************************************************)
EXTENDS Aggregator, Sequences, FiniteSetsExt

CONSTANTS
  Ignored,      \* a packet parse_packet has no flow for: Ok(None)
  Malformed,    \* a packet it cannot parse: Err
  Sizes,        \* wire sizes
  RingSize,     \* packets the pcap buffer holds
  CounterSize,  \* pcap's counters are u32: 2^32
  max_batches,  \* --max-batches, or Unlimited
  Unlimited,
  MaxPackets,   \* bound on the packets that arrive
  MaxClock,     \* bound on the clock
  MaxSteps      \* bound on the times it is set back

ASSUME CaptureAssumption ==
  /\ Sizes \subseteq Nat /\ RingSize \in Nat \ {0} /\ CounterSize \in Nat \ {0}
  /\ max_batches \in (Nat \ {0}) \cup {Unlimited}
  /\ MaxPackets \in Nat /\ MaxClock \in Nat /\ MaxSteps \in Nat

Packet == [timestamp : 0 .. MaxClock, key : FlowKey \cup {Ignored, Malformed},
           wire_bytes : Sizes]

(* Packets that passed the filter, found the ring full, and were dropped   *)
(* by the interface.                                                       *)
Stats == [received : Nat, dropped : Nat, interface_dropped : Nat]

Diagnostics == [received : Nat, dropped : Nat, interface_dropped : Nat,
                parse_errors : Nat]

NoStats       == [received |-> 0, dropped |-> 0, interface_dropped |-> 0]
NoDiagnostics == [received |-> 0, dropped |-> 0, interface_dropped |-> 0,
                  parse_errors |-> 0]

VARIABLES
  clock,         \* the wall clock, in seconds
  steps,         \* the number of times it was set back
  arrived,       \* history: the packets that passed the filter
  ring,          \* the packets captured and not read yet
  counted,       \* what pcap's counters have counted, without wrapping
  pc,            \* poll: in next_packet; drain: after it; exited
  flows,         \* the aggregator
  parse_errors, prior_stats, emitted,  \* the locals of run
  batches,       \* history: the batches enqueued, in order
  unsaved        \* history: the buckets drained for an enqueue that failed

kernel == <<clock, steps, arrived, ring, counted>>
locals == <<flows, parse_errors, prior_stats, emitted>>
vars   == <<kernel, pc, locals, batches, unsaved>>

Init ==
  /\ clock = 0 /\ steps = 0 /\ arrived = <<>> /\ ring = <<>> /\ counted = NoStats
  /\ pc = "poll"
  /\ flows = NoFlows /\ parse_errors = 0 /\ prior_stats = NoStats /\ emitted = 0
  /\ batches = <<>> /\ unsaved = {}

-------------------------------------------------------------------------------
(* The kernel.                                                             *)

Advance ==
  /\ clock < MaxClock
  /\ clock' = clock + 1
  /\ UNCHANGED <<steps, arrived, ring, counted, pc, locals, batches, unsaved>>

(* SystemTime is not monotonic.                                            *)
SetBack ==
  /\ steps < MaxSteps
  /\ clock' \in 0 .. clock - 1
  /\ steps' = steps + 1
  /\ UNCHANGED <<arrived, ring, counted, pc, locals, batches, unsaved>>

Arrive(key, wire_bytes) ==
  LET packet == [timestamp |-> clock, key |-> key, wire_bytes |-> wire_bytes]
  IN  /\ Len(arrived) + counted.interface_dropped < MaxPackets
      /\ arrived' = Append(arrived, packet)
      /\ IF Len(ring) < RingSize
           THEN /\ ring' = Append(ring, packet)
                /\ counted' = [counted EXCEPT !.received = @ + 1]
           ELSE /\ counted' = [counted EXCEPT !.received = @ + 1, !.dropped = @ + 1]
                /\ UNCHANGED ring
      /\ UNCHANGED <<clock, steps, pc, locals, batches, unsaved>>

InterfaceDrops ==
  /\ Len(arrived) + counted.interface_dropped < MaxPackets
  /\ counted' = [counted EXCEPT !.interface_dropped = @ + 1]
  /\ UNCHANGED <<clock, steps, arrived, ring, pc, locals, batches, unsaved>>

(* pcap's statistics since the capture was opened, as 32-bit counters.     *)
capture_stats == [name \in DOMAIN counted |-> counted[name] % CounterSize]

-------------------------------------------------------------------------------
(* The loop.                                                               *)

(* Mutant of ReadPacket: what cannot be parsed is counted all the same.    *)
ReadAnything ==
  /\ pc = "poll" /\ ring # <<>>
  /\ flows' = push(flows, Head(ring).timestamp, Head(ring).key, Head(ring).wire_bytes)
  /\ ring' = Tail(ring)
  /\ pc' = "drain"
  /\ UNCHANGED <<clock, steps, arrived, counted, parse_errors, prior_stats, emitted,
                 batches, unsaved>>

(* next_packet returns a packet: it is counted, ignored or an error.       *)
ReadPacket ==
  /\ pc = "poll" /\ ring # <<>>
  /\ LET packet == Head(ring)
     IN  /\ flows' = IF packet.key \in FlowKey
                       THEN push(flows, packet.timestamp, packet.key, packet.wire_bytes)
                       ELSE flows
         /\ parse_errors' = IF packet.key = Malformed THEN parse_errors + 1
                                                     ELSE parse_errors
  /\ ring' = Tail(ring)
  /\ pc' = "drain"
  /\ UNCHANGED <<clock, steps, arrived, counted, prior_stats, emitted, batches, unsaved>>

(* Mutant of PollTimeout: a timeout starts the next round at once.         *)
TimeoutContinues ==
  /\ pc = "poll" /\ ring = <<>>
  /\ pc' = "poll"
  /\ UNCHANGED <<kernel, locals, batches, unsaved>>

(* next_packet returns TimeoutExpired, and the loop goes on below it.      *)
PollTimeout ==
  /\ pc = "poll" /\ ring = <<>>
  /\ pc' = "drain"
  /\ UNCHANGED <<kernel, locals, batches, unsaved>>

Due == to_buckets(before(flows, bucket_of(clock)))

(* No bucket is over: next round.                                          *)
NothingDue ==
  /\ pc = "drain" /\ Due = {}
  /\ flows' = retained(flows, bucket_of(clock))
  /\ pc' = "poll"
  /\ UNCHANGED <<kernel, parse_errors, prior_stats, emitted, batches, unsaved>>

SaturatingSub(a, b) == IF a >= b THEN a - b ELSE 0

Since(name) == SaturatingSub(capture_stats[name], prior_stats[name])

(* Mutant of diagnostics: the counts since the start of the capture.       *)
totals ==
  [received          |-> capture_stats.received,
   dropped           |-> capture_stats.dropped,
   interface_dropped |-> capture_stats.interface_dropped,
   parse_errors      |-> parse_errors]

diagnostics ==
  [received          |-> Since("received"),
   dropped           |-> Since("dropped"),
   interface_dropped |-> Since("interface_dropped"),
   parse_errors      |-> parse_errors]

Batch(buckets, diags) == [created_at |-> clock, buckets |-> buckets, diagnostics |-> diags]

LastOne == max_batches # Unlimited /\ emitted + 1 >= max_batches

(* What every enqueue does before it: drain, and start the counts anew.    *)
Drain ==
  /\ pc = "drain" /\ Due # {}
  /\ prior_stats' = capture_stats
  /\ parse_errors' = 0
  /\ UNCHANGED kernel

Enqueue ==
  /\ Drain /\ ~LastOne
  /\ flows' = retained(flows, bucket_of(clock))
  /\ batches' = Append(batches, Batch(Due, diagnostics))
  /\ emitted' = emitted + 1
  /\ pc' = "poll"
  /\ UNCHANGED unsaved

(* The last batch under --max-batches takes the unfinished buckets along,  *)
(* in a batch of their own without diagnostics.                            *)
EnqueueLast ==
  /\ Drain /\ LastOne
  /\ LET remaining == to_buckets(retained(flows, bucket_of(clock)))
         first     == Append(batches, Batch(Due, diagnostics))
     IN  IF remaining = {}
           THEN batches' = first /\ UNCHANGED unsaved
           ELSE \/ batches' = Append(first, Batch(remaining, NoDiagnostics))
                   /\ UNCHANGED unsaved
                \/ batches' = first /\ unsaved' = remaining
  /\ flows' = NoFlows
  /\ emitted' = emitted + 1
  /\ pc' = "exited"

(* The spool refuses the batch, or reporting its status after the enqueue  *)
(* fails: the process exits, and with it go the buckets not enqueued.      *)
EnqueueFails ==
  /\ Drain
  /\ LET remaining == to_buckets(retained(flows, bucket_of(clock)))
     IN  \/ unsaved' = Due \cup remaining /\ UNCHANGED <<emitted, batches>>
         \/ /\ unsaved' = remaining
            /\ batches' = Append(batches, Batch(Due, diagnostics))
            /\ UNCHANGED emitted
  /\ flows' = NoFlows
  /\ pc' = "exited"

(* Any other error of the loop, or the death of the process.               *)
Exit ==
  /\ pc # "exited"
  /\ unsaved' = to_buckets(flows)
  /\ flows' = NoFlows
  /\ pc' = "exited"
  /\ UNCHANGED <<kernel, parse_errors, prior_stats, emitted, batches>>

Loop == ReadPacket \/ PollTimeout \/ NothingDue \/ Enqueue \/ EnqueueLast

Next ==
  \/ Advance \/ SetBack \/ InterfaceDrops
  \/ \E key \in FlowKey \cup {Ignored, Malformed}, wire_bytes \in Sizes :
       Arrive(key, wire_bytes)
  \/ Loop
  \/ EnqueueFails
  \/ Exit

Spec == Init /\ [][Next]_vars

(* The loop is the process's only thread: it runs while it is not blocked, *)
(* and next_packet is never blocked longer than its timeout.               *)
FairSpec == Spec /\ WF_vars(Loop)

-------------------------------------------------------------------------------
(* Properties.                                                             *)

(* Every variable holds a value of its type.                               *)
TypeOK ==
  /\ clock \in 0 .. MaxClock /\ steps \in 0 .. MaxSteps
  /\ arrived \in Seq(Packet) /\ ring \in Seq(Packet) /\ Len(ring) <= RingSize
  /\ counted \in Stats /\ counted.received = Len(arrived)
  /\ pc \in {"poll", "drain", "exited"}
  /\ DOMAIN flows \subseteq Nat \X FlowKey
  /\ \A s \in DOMAIN flows : flows[s] \in Counters
  /\ parse_errors \in Nat /\ prior_stats \in Stats /\ emitted \in Nat
  /\ \A i \in DOMAIN batches : batches[i].diagnostics \in Diagnostics

PacketSum(buckets) == SumFunction([b \in buckets |-> b.packets])
ByteSum(buckets)   == SumFunction([b \in buckets |-> b.bytes])

InBatches(sum(_)) == SumFunction([i \in DOMAIN batches |-> sum(batches[i].buckets)])

(* The positions, in the order of arrival, of packets that carry a flow.   *)
OfFlows(packets) == {i \in DOMAIN packets : packets[i].key \in FlowKey}

Bytes(packets) == SumFunction([i \in OfFlows(packets) |-> packets[i].wire_bytes])

(* No packet is counted twice or forgotten: the packets of flows that were *)
(* read are in enqueued batches, in the aggregator, or in what a failed    *)
(* enqueue lost - late packets of a bucket that was already sent included. *)
PacketsConserved ==
  LET rest == to_buckets(flows) \cup unsaved
  IN  /\ counted.dropped = 0 =>
           Cardinality(OfFlows(arrived)) =
             InBatches(PacketSum) + PacketSum(rest) + Cardinality(OfFlows(ring))
      /\ counted.dropped = 0 =>
           Bytes(arrived) = InBatches(ByteSum) + ByteSum(rest) + Bytes(ring)

(* A batch holds a bucket once, and only buckets that are over, unless it  *)
(* is the one sent at the exit; and no batch is empty.                     *)
BatchesClosed ==
  \A i \in DOMAIN batches :
    /\ batches[i].buckets # {}
    /\ \A b1, b2 \in batches[i].buckets :
         b1.bucket_start = b2.bucket_start /\ b1.key = b2.key => b1 = b2
    /\ \/ \A b \in batches[i].buckets :
            b.bucket_start + bucket_seconds <= batches[i].created_at
       \/ pc = "exited" /\ i = Len(batches)

Reported(field) == SumFunction([i \in DOMAIN batches |-> batches[i].diagnostics[field]])

Errors(packets) == Cardinality({i \in DOMAIN packets : packets[i].key = Malformed})

(* The diagnostics of all batches never add up to more packets, drops or   *)
(* errors than there were, and while no 32-bit counter has wrapped they    *)
(* miss nothing up to the last batch.                                      *)
DiagnosticsAddUp ==
  /\ \A name \in DOMAIN counted :
       /\ Reported(name) <= counted[name]
       /\ counted[name] < CounterSize /\ unsaved = {} =>
            Reported(name) = prior_stats[name]
  /\ LET read == Reported("parse_errors") + parse_errors
     IN  /\ read + Errors(ring) <= Errors(arrived)
         /\ unsaved = {} => Errors(arrived) <= read + Errors(ring) + counted.dropped

(* A bucket that is over leaves the aggregator in the end, even when no    *)
(* further packet arrives, unless the clock is set back to before its end. *)
BucketsLeave ==
  \A start \in {bucket_of(t) : t \in 0 .. MaxClock} :
    LET held == \E s \in DOMAIN flows : s[1] = start
        over == clock >= start + bucket_seconds
    IN  held /\ over ~> ~held \/ ~over
===============================================================================
