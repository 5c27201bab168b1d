------------------------------ MODULE Aggregator ------------------------------
(***************************************************************************)
(* src/aggregate.rs: packet counters per time bucket and flow, a map from  *)
(* (bucket_start, key) to the packets and bytes counted so far.            *)
(***************************************************************************)
EXTENDS Integers, Functions

CONSTANTS FlowKey, bucket_seconds

(* Aggregator::new asserts it.                                             *)
ASSUME BucketAssumption == bucket_seconds \in Nat \ {0}

Counters == [packets : Nat, bytes : Nat]

Flows == UNION {[D -> Counters] : D \in SUBSET (Nat \X FlowKey)}

NoFlows == [slot \in {} |-> 0]

bucket_of(timestamp) == (timestamp \div bucket_seconds) * bucket_seconds

(* entry(...).or_default() and then the two additions.                     *)
push(flows, timestamp, key, wire_bytes) ==
  LET slot == <<bucket_of(timestamp), key>>
      old  == IF slot \in DOMAIN flows THEN flows[slot] ELSE [packets |-> 0, bytes |-> 0]
  IN  [s \in DOMAIN flows \cup {slot} |->
         IF s = slot THEN [packets |-> old.packets + 1, bytes |-> old.bytes + wire_bytes]
                     ELSE flows[s]]

to_buckets(flows) ==
  {[bucket_start |-> s[1], key |-> s[2],
    packets |-> flows[s].packets, bytes |-> flows[s].bytes] : s \in DOMAIN flows}

(* Mutants of before and retained: a bucket too many, and one too few.     *)
UpTo(flows, bucket_start)  == Restrict(flows, {s \in DOMAIN flows : s[1] <= bucket_start})
After(flows, bucket_start) == Restrict(flows, {s \in DOMAIN flows : s[1] > bucket_start})

(* split_off at (bucket_start, minimum_flow_key()): that key is the least  *)
(* one in the order of the map, so the split is by bucket_start alone.     *)
before(flows, bucket_start)   == Restrict(flows, {s \in DOMAIN flows : s[1] < bucket_start})
retained(flows, bucket_start) == Restrict(flows, {s \in DOMAIN flows : s[1] >= bucket_start})
===============================================================================
