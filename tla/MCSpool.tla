-------------------------------- MODULE MCSpool -------------------------------
(* Values of Spool's constants for TLC: up to two processes that enqueue,  *)
(* with different limits, and up to three sizes of batches.  huge fits the *)
(* byte limit of w1 and not that of w2.                                    *)
EXTENDS SpoolEviction

CONSTANTS w1, w2, small, big, huge

MCWriters   == {w1, w2}
MCOneWriter == {w2}
MCContent   == {small, big, huge}
MCTwoSizes  == {small, huge}
MCOrigin    == Writers \X (0 .. MaxBoots)

MCSizeOf == [c \in Content |-> CASE c = small -> 1 [] c = big -> 2 [] c = huge -> 3]

MCStartsOf ==
  [c \in Content |-> CASE c = small -> {0} [] c = big -> {0, 10} [] c = huge -> {5, 10}]

MCLimits ==
  [w \in Writers |-> IF w = w1 THEN [max_payload_bytes |-> 3, max_age_seconds |-> 5]
                               ELSE [max_payload_bytes |-> 2, max_age_seconds |-> 2]]

(* Two clock readings three seconds apart: a step forward, or back.        *)
MCTimes == {0, 3}
===============================================================================
