------------------------------ MODULE MCPipeline ------------------------------
(* Values of Pipeline's constants for TLC: one agent, one spool.           *)
EXTENDS Pipeline

CONSTANTS w1, c1, c2, c3, u1, u2, k1

MCWriters  == {w1}
MCTwo      == {u1, u2}
MCOne      == {u1}
MCContent  == {c2}
MCContents == {c1, c2}
MCThree    == {c1, c2, c3}
MCFlowKey  == {k1}
MCOrigin   == Writers \X (0 .. MaxBoots)

MCSizeOf         == [c \in Content |-> 1]
MCTwoSizes       == [c \in Content |-> IF c = c2 THEN 2 ELSE 1]
MCStartsOf       == [c \in Content |-> {0}]
MCCapturePointOf == [k \in FlowKey |-> k]

(* A content with two equal buckets among three, and others of one bucket. *)
Bucket(start, packets) ==
  [bucket_start |-> start, key |-> k1, packets |-> packets, bytes |-> packets]

MCBucketsOf ==
  [c \in Content |->
     CASE c = c1 -> <<Bucket(0, 1), Bucket(1, 2), Bucket(0, 1)>>
       [] c = c2 -> <<Bucket(0, 1)>>
       [] c = c3 -> <<Bucket(1, 3)>>]

(* Room for one pending batch in the spool, or for two of any size.        *)
MCLimits == [w \in Writers |-> [max_payload_bytes |-> 1, max_age_seconds |-> 3]]
MCWide   == [w \in Writers |-> [max_payload_bytes |-> 4, max_age_seconds |-> 3]]

(* One clock reading, or two of which the second is past both age limits.  *)
MCOneTime  == {0}
MCTwoTimes == {0, 5}

(* Room for one batch in the control plane, or for all of them.            *)
MCSmall == {[max_pages |-> 2, max_age_seconds |-> 3]}
MCLarge == {[max_pages |-> 20, max_age_seconds |-> 3]}
===============================================================================
