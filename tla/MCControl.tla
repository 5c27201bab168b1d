------------------------------- MODULE MCControl ------------------------------
(* Values of Control's constants for TLC: two nodes, batches of two sizes, *)
(* and clients that post what an agent builds and what no agent builds.    *)
EXTENDS Control

CONSTANTS node1, node2, boot1, none, small, twice, big, huge, eth0, wg0

MCOrigin   == {<<node1, boot1>>, <<node2, boot1>>}
MCContent  == {none, small, twice, big, huge}
MCFlowKey  == {eth0, wg0}

MCCapturePointOf == [k \in FlowKey |-> k]

Bucket(start, key, packets, bytes) ==
  [bucket_start |-> start, key |-> key, packets |-> packets, bytes |-> bytes]

MCBucketsOf ==
  [c \in Content |->
     CASE c = none  -> <<>>
       [] c = small -> <<Bucket(0, eth0, 1, 3)>>
       [] c = twice -> <<Bucket(0, eth0, 1, 3), Bucket(0, eth0, 1, 3)>>
       [] OTHER     -> <<Bucket(0, eth0, 1, 3), Bucket(1, wg0, 2, 5)>>]

MCSizeOf == [c \in Content |-> CASE c \in {none, small} -> 1 [] c \in {twice, big} -> 2 [] c = huge -> 3]

MCTimes == {0, 5}

MCControlLimits == {[max_pages |-> 5, max_age_seconds |-> 9],
                    [max_pages |-> 8, max_age_seconds |-> 4]}

(* Two nodes; the second sequence number of the first one also with a      *)
(* batch that has no buckets, which a client may post too.  Together the   *)
(* bytes of the first two batches are more than SqlMax.                    *)
Honest == {NewEnvelope(<<node1, boot1>>, 0, 0, small),
           NewEnvelope(<<node1, boot1>>, 1, 0, big),
           NewEnvelope(<<node1, boot1>>, 1, 5, none),
           NewEnvelope(<<node2, boot1>>, 0, 5, twice)}

First  == NewEnvelope(<<node1, boot1>>, 0, 0, small)
Second == NewEnvelope(<<node1, boot1>>, 1, 5, none)

(* A body that was damaged on the way; another schema version, with the    *)
(* right checksum; a batch under the id of another one; and a number that  *)
(* does not fit a column.                                                  *)
Damaged == [First EXCEPT !.body.created_at = 5]

Versioned ==
  LET body == [First.body EXCEPT !.schema_version = 2]
  IN  [First EXCEPT !.body = body, !.checksum = body_checksum(body)]

Renamed == [Second EXCEPT !.batch_id = First.batch_id]

Unstorable == NewEnvelope(<<node1, boot1>>, 3, SqlMax + 1, small)

(* A batch the spool would hold and the control plane does not read.       *)
Huge == NewEnvelope(<<node2, boot1>>, 1, 5, huge)

MCPosted == Honest \cup {Damaged, Versioned, Renamed, Unstorable, Huge}
===============================================================================
