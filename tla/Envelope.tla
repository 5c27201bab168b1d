------------------------------- MODULE Envelope -------------------------------
(***************************************************************************)
(* The batch envelope of src/model.rs: what the agent writes to its spool, *)
(* what the uploader posts and what the control plane ingests.             *)
(*                                                                         *)
(* A body is abstracted to the fields the protocol tells apart:            *)
(*   origin      the pair (node_id, boot_id), always used together         *)
(*   seq         the spool's sequence number                               *)
(*   created_at  the agent's wall clock, in seconds                        *)
(*   buckets     the flow buckets and the diagnostics, one opaque content  *)
(* blake3 is taken to be free of collisions, also on the 16 hexadecimal    *)
(* digits that enter the batch id, so a checksum is modelled as a term     *)
(* built from the body: equal for equal bodies, different for others.      *)
(***************************************************************************)
EXTENDS Integers

CONSTANTS
  Origin,   \* the (node_id, boot_id) pairs
  Content   \* what a batch can carry: flow buckets and diagnostics

SCHEMA_VERSION == 1

BatchBody == [schema_version : Nat, origin : Origin, seq : Nat,
              created_at : Nat, buckets : Content]

Digest == {"blake3"} \X BatchBody

BatchId == Origin \X Nat \X Digest

BatchEnvelope == [batch_id : BatchId, checksum : Digest, body : BatchBody]

body_checksum(body) == <<"blake3", body>>

(* BatchEnvelope::new: the id names the origin, the sequence number and    *)
(* the content.                                                            *)
NewEnvelope(origin, seq, created_at, buckets) ==
  LET body == [schema_version |-> SCHEMA_VERSION, origin |-> origin,
               seq |-> seq, created_at |-> created_at, buckets |-> buckets]
  IN  [batch_id |-> <<origin, seq, body_checksum(body)>>,
       checksum |-> body_checksum(body),
       body     |-> body]

has_valid_checksum(envelope) == body_checksum(envelope.body) = envelope.checksum

(* u64::saturating_sub, which both age limits use to compute their cutoff. *)
SaturatingSub(a, b) == IF a >= b THEN a - b ELSE 0
===============================================================================
