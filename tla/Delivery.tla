------------------------------- MODULE Delivery -------------------------------
(***************************************************************************)
(* What the spool, the uploader and the control plane promise together:    *)
(* every batch is delivered at least once or reported as lost, and the     *)
(* agent forgets a batch only when one of the two is true.  A batch may    *)
(* meet both fates, when it is evicted while its upload is under way.      *)
(***************************************************************************)
CONSTANT Batch

VARIABLES
  pending,    \* the batches the agent still holds
  delivered,  \* the batches the control plane has taken in
  lost        \* the batches reported as gaps

vars == <<pending, delivered, lost>>

Known == pending \cup delivered \cup lost

Init == pending = {} /\ delivered = {} /\ lost = {}

(* A new batch enters; it, or older ones, may have to make room.           *)
Enqueue(batch) ==
  /\ batch \notin Known
  /\ \E evicted \in SUBSET (pending \cup {batch}) :
       /\ pending' = (pending \cup {batch}) \ evicted
       /\ lost' = lost \cup evicted
  /\ UNCHANGED delivered

(* A batch that was pending when it was sent arrives.                      *)
Deliver(batch) ==
  /\ batch \in Known \ delivered
  /\ delivered' = delivered \cup {batch}
  /\ UNCHANGED <<pending, lost>>

Forget(batch) ==
  /\ batch \in pending \cap delivered
  /\ pending' = pending \ {batch}
  /\ UNCHANGED <<delivered, lost>>

Next == \E batch \in Batch : Enqueue(batch) \/ Deliver(batch) \/ Forget(batch)

Spec == Init /\ [][Next]_vars
===============================================================================
