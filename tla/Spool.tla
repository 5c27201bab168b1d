-------------------------------- MODULE Spool ---------------------------------
(***************************************************************************)
(* The agent's spool, src/spool.rs: a SQLite file shared by the processes  *)
(* that enqueue batches (capture, synthetic) and by the processes that     *)
(* upload and acknowledge them (upload-once).                              *)
(*                                                                         *)
(* enqueue is a deferred SQLite transaction: its first statement reads     *)
(* next_seq under a read snapshot, its second one must upgrade to a write  *)
(* lock.  Between the two another process may commit, and SQLite then      *)
(* refuses the upgrade at once (SQLITE_BUSY, without the busy timeout).    *)
(* So an enqueue is two steps here, the read and the rest.  The other      *)
(* operations on the file are single statements and are one step each.     *)
(*                                                                         *)
(* The file is opened with journal_mode = WAL and synchronous = NORMAL: a  *)
(* commit survives the death of a process but not always a power loss,     *)
(* which leaves some earlier committed state (durable).                    *)
(***************************************************************************)
EXTENDS Envelope, FiniteSets, FiniteSetsExt

CONSTANTS
  Writers,      \* the processes that enqueue; each is one --node
  Limits,       \* SpoolLimits of each writer, from its command line
  SizeOf,       \* serialized length of a batch with a given content
  StartsOf,     \* the bucket_start values of a content
  Times,        \* wall-clock readings; the clock may also step back
  Overhead,     \* SQLITE_OVERHEAD_BYTES
  RowCost,      \* bytes a batches row takes beyond its payload
  GapCost,      \* bytes a gaps row takes
  FixedBootId,  \* TRUE: --boot-id is given (or synthetic); FALSE: the kernel's
  NoDraft,      \* no enqueue in progress
  SqlMax,       \* i64::MAX, the largest integer a column holds
  MaxSeq,       \* bound on the batches enqueued
  MaxBoots      \* bound on the power losses

ASSUME WriterAssumption ==
  /\ Writers # {}
  /\ Origin = Writers \X (0 .. MaxBoots)
  /\ MaxSeq \in Nat /\ MaxBoots \in Nat
  /\ FixedBootId \in BOOLEAN

(* Spool::open bails unless both limits are positive.                      *)
ASSUME LimitAssumption ==
  Limits \in [Writers -> [max_payload_bytes : Nat \ {0},
                          max_age_seconds   : Nat \ {0}]]

(* capture and synthetic never enqueue a batch without buckets; their      *)
(* times fit a column (crate::sqlite::integer).                            *)
ASSUME ContentAssumption ==
  /\ SizeOf \in [Content -> Nat \ {0}]
  /\ SqlMax \in Nat
  /\ StartsOf \in [Content -> (SUBSET (0 .. SqlMax)) \ {{}}]

ASSUME CostAssumption ==
  /\ Times \subseteq Nat
  /\ Overhead \in Nat /\ RowCost \in Nat /\ GapCost \in 0 .. RowCost

(* The reasons enqueue and enforce_limits give for a lost batch.           *)
Reason == {"spool_byte_limit", "spool_age_limit", "batch_exceeds_spool_limit"}

Row == [seq : Nat, created_at : Nat, min_bucket : Nat, max_bucket : Nat,
        payload_bytes : Nat, payload : BatchEnvelope]

GapEvent == [seq : Nat, min_bucket : Nat, max_bucket : Nat,
             lost_bytes : Nat, reason : Reason, created_at : Nat]

(* The tables metadata(next_seq), batches and gaps, and two history fields:*)
(* log, every batch ever given a sequence number, and acked, the sequence  *)
(* numbers deleted by an acknowledgement.                                  *)
Database == [next_seq : Nat, batches : SUBSET Row, gaps : SUBSET GapEvent,
             log : SUBSET Row, acked : SUBSET Nat]

VARIABLES
  db,       \* the committed state of the spool file
  durable,  \* the committed state that has reached the disk
  pc,       \* idle, enqueuing, or exited with SQLITE_BUSY or SQLITE_FULL
  draft,    \* the row of the enqueue in progress, with the seq it read
  stale,    \* the writers whose read snapshot is older than db
  boot      \* the number of times the machine has rebooted

vars == <<db, durable, pc, draft, stale, boot>>

-------------------------------------------------------------------------------
(* Sums and sizes.                                                         *)

(* SELECT SUM(payload_bytes): seq is the primary key, so the stored bytes  *)
(* of a set of rows can be counted one by one.                             *)
StoredBytes(rows) == UNION {{r.seq} \X (1 .. r.payload_bytes) : r \in rows}
PayloadBytes(rows) == Cardinality(StoredBytes(rows))

(* What the rows take of the pages that max_page_count allows.  Pages freed*)
(* by a DELETE are reused; gaps rows are never deleted.                    *)
Footprint(rows, gaps) ==
  PayloadBytes(rows) + RowCost * Cardinality(rows) + GapCost * Cardinality(gaps)

HasRoom(w, rows, gaps) ==
  Footprint(rows, gaps) <= Limits[w].max_payload_bytes + Overhead

Seqs(rows) == {r.seq : r \in rows}

-------------------------------------------------------------------------------
(* Eviction.                                                               *)

Cutoff(w, now) == SaturatingSub(now, Limits[w].max_age_seconds)

Expired(w, now, row) == row.created_at < Cutoff(w, now)

(* Mutant of NewerOrSame: a row is not counted against itself.             *)
OnlyNewer(row, rows) == {r \in rows : r.seq > row.seq}

NewerOrSame(row, rows) == {r \in rows : r.seq >= row.seq}

(* Mutants of Survivors: an age that is never checked, and the newest rows *)
(* evicted first.                                                          *)
SurvivorsOfAnyAge(w, now, rows) ==
  {r \in rows : PayloadBytes({x \in rows : x.seq >= r.seq}) <= Limits[w].max_payload_bytes}

OldestSurvivors(w, now, rows) ==
  {r \in rows : /\ ~Expired(w, now, r)
                /\ PayloadBytes({x \in rows : x.seq <= r.seq}) <= Limits[w].max_payload_bytes}

(* enforce_limits deletes, one row at a time, the row with the smallest    *)
(* seq while the payload is over the byte limit, and then every expired    *)
(* row.  A row is therefore left when it has not expired and it fits in    *)
(* the byte limit together with every row after it.                        *)
Survivors(w, now, rows) ==
  {r \in rows : /\ ~Expired(w, now, r)
                /\ PayloadBytes(NewerOrSame(r, rows)) <= Limits[w].max_payload_bytes}

(* Mutant of Gap: the two ends of the bucket range swapped.                *)
GapSwapped(row, reason, now) ==
  [seq |-> row.seq, min_bucket |-> row.max_bucket, max_bucket |-> row.min_bucket,
   lost_bytes |-> row.payload_bytes, reason |-> reason, created_at |-> now]

Gap(row, reason, now) ==
  [seq |-> row.seq, min_bucket |-> row.min_bucket, max_bucket |-> row.max_bucket,
   lost_bytes |-> row.payload_bytes, reason |-> reason, created_at |-> now]

EvictionReason(w, now, row) ==
  IF Expired(w, now, row) THEN "spool_age_limit" ELSE "spool_byte_limit"

-------------------------------------------------------------------------------
Init ==
  /\ db = [next_seq |-> 0, batches |-> {}, gaps |-> {}, log |-> {}, acked |-> {}]
  /\ durable = db
  /\ pc = [w \in Writers |-> "idle"]
  /\ draft = [w \in Writers |-> NoDraft]
  /\ stale = {}
  /\ boot = 0

(* Mutant of OriginOf: one boot id for all boots.                          *)
SameOrigin(w) == <<w, 0>>

(* node_id and boot_id of a batch: the boot id is the kernel's, new at     *)
(* every boot, unless the command line fixes it.                           *)
OriginOf(w) == <<w, IF FixedBootId THEN 0 ELSE boot>>

NewRow(envelope) ==
  LET buckets == envelope.body.buckets
  IN  [seq           |-> envelope.body.seq,
       created_at    |-> envelope.body.created_at,
       min_bucket    |-> Min(StartsOf[buckets]),
       max_bucket    |-> Max(StartsOf[buckets]),
       payload_bytes |-> SizeOf[buckets],
       payload       |-> envelope]

Enqueuing == {w \in Writers : pc[w] = "enqueuing"}

(* A commit makes the snapshot of every other open transaction stale.      *)
Commit(self, newdb) ==
  /\ db' = newdb
  /\ stale' = (stale \cup Enqueuing) \ self

Finish(w, state) ==
  /\ pc' = [pc EXCEPT ![w] = state]
  /\ draft' = [draft EXCEPT ![w] = NoDraft]

(* The transaction begins: next_seq is read and the envelope built with it.*)
BeginEnqueue(w, now, content) ==
  /\ pc[w] = "idle"
  /\ db.next_seq < MaxSeq
  /\ pc' = [pc EXCEPT ![w] = "enqueuing"]
  /\ draft' = [draft EXCEPT ![w] =
                 NewRow(NewEnvelope(OriginOf(w), db.next_seq, now, content))]
  /\ UNCHANGED <<db, durable, stale, boot>>

(* Mutant of EnqueueOversized: the batch is dropped without a gap event.   *)
DropOversized(w) ==
  /\ pc[w] = "enqueuing" /\ w \notin stale
  /\ draft[w].payload_bytes > Limits[w].max_payload_bytes
  /\ Commit({w}, [db EXCEPT !.next_seq = @ + 1, !.log = @ \cup {draft[w]}])
  /\ Finish(w, "idle")
  /\ UNCHANGED <<durable, boot>>

(* A batch larger than the whole byte limit becomes a gap at once.         *)
EnqueueOversized(w) ==
  LET gap == Gap(draft[w], "batch_exceeds_spool_limit", draft[w].created_at)
  IN  /\ pc[w] = "enqueuing" /\ w \notin stale
      /\ draft[w].payload_bytes > Limits[w].max_payload_bytes
      /\ HasRoom(w, db.batches, db.gaps \cup {gap})
      /\ Commit({w}, [db EXCEPT !.next_seq = @ + 1,
                                !.gaps = @ \cup {gap},
                                !.log = @ \cup {draft[w]}])
      /\ Finish(w, "idle")
      /\ UNCHANGED <<durable, boot>>

(* The batch is inserted, and only then the limits are enforced.  An       *)
(* eviction needs no further room: a gaps row takes less than the batches  *)
(* row that is deleted just before.                                        *)
EnqueueStored(w) ==
  LET row  == draft[w]
      now  == row.created_at
      rows == db.batches \cup {row}
      kept == Survivors(w, now, rows)
  IN  /\ pc[w] = "enqueuing" /\ w \notin stale
      /\ row.payload_bytes <= Limits[w].max_payload_bytes
      /\ HasRoom(w, rows, db.gaps)
      /\ Commit({w}, [db EXCEPT
           !.next_seq = @ + 1,
           !.batches = kept,
           !.gaps = @ \cup {Gap(r, EvictionReason(w, now, r), now) : r \in rows \ kept},
           !.log = @ \cup {row}])
      /\ Finish(w, "idle")
      /\ UNCHANGED <<durable, boot>>

(* An INSERT finds no page under max_page_count: SQLITE_FULL, the          *)
(* transaction is rolled back and the process exits with the error.        *)
EnqueueFull(w) ==
  LET row == draft[w]
      gap == Gap(row, "batch_exceeds_spool_limit", row.created_at)
  IN  /\ pc[w] = "enqueuing" /\ w \notin stale
      /\ IF row.payload_bytes > Limits[w].max_payload_bytes
           THEN ~HasRoom(w, db.batches, db.gaps \cup {gap})
           ELSE ~HasRoom(w, db.batches \cup {row}, db.gaps)
      /\ Finish(w, "full")
      /\ UNCHANGED <<db, durable, stale, boot>>

(* Mutant of EnqueueBusy: the snapshot outlives the transaction.           *)
BusyKeepsSnapshot(w) ==
  /\ pc[w] = "enqueuing"
  /\ w \in stale \/ Enqueuing # {w}
  /\ Finish(w, "busy")
  /\ UNCHANGED <<db, durable, stale, boot>>

(* The upgrade to a write lock fails: another process has committed since  *)
(* the read, or is itself in the middle of its transaction.                *)
EnqueueBusy(w) ==
  /\ pc[w] = "enqueuing"
  /\ w \in stale \/ Enqueuing # {w}
  /\ Finish(w, "busy")
  /\ stale' = stale \ {w}
  /\ UNCHANGED <<db, durable, boot>>

(* A process dies in the middle of its transaction, which is rolled back.  *)
Crash(w) ==
  /\ pc[w] = "enqueuing"
  /\ Finish(w, "idle")
  /\ stale' = stale \ {w}
  /\ UNCHANGED <<db, durable, boot>>

(* A process that exited with an error is started again.                   *)
Restart(w) ==
  /\ pc[w] \in {"busy", "full"}
  /\ Finish(w, "idle")
  /\ UNCHANGED <<db, durable, stale, boot>>

(* Mutant of Pending: WHERE seq > 0.                                       *)
PendingAfterFirst(limit) ==
  {r.payload : r \in {x \in db.batches : x.seq > 0}}

(* pending(limit): the payloads of the first rows in seq order.            *)
Pending(limit) ==
  {r.payload : r \in {x \in db.batches :
                        Cardinality({y \in db.batches : y.seq < x.seq}) < limit}}

(* status(): what the operator sees of the spool.                          *)
Status == [pending_batches       |-> Cardinality(db.batches),
           pending_payload_bytes |-> PayloadBytes(db.batches),
           gap_events            |-> Cardinality(db.gaps)]

(* gaps(): what the operator is told of the losses.                        *)
Gaps == db.gaps

(* Mutant of Matching: the oldest batch is taken to be the one posted.     *)
MatchingOldest(batch_id, checksum) ==
  {r \in db.batches : \A x \in db.batches : r.seq <= x.seq}

Matching(batch_id, checksum) ==
  {r \in db.batches : /\ r.payload.batch_id = batch_id
                      /\ r.payload.checksum = checksum}

(* acknowledge: the DELETE.  When no row matches, the caller gets an error *)
(* and nothing is written.                                                 *)
Acknowledge(batch_id, checksum) ==
  /\ Matching(batch_id, checksum) # {}
  /\ Commit({}, [db EXCEPT
                   !.batches = @ \ Matching(batch_id, checksum),
                   !.acked = @ \cup Seqs(Matching(batch_id, checksum))])
  /\ UNCHANGED <<durable, pc, draft, boot>>

(* The WAL reaches the disk, at a checkpoint or whenever the kernel writes.*)
(* After the last power loss of the bound this can no longer be seen.      *)
Sync ==
  /\ durable # db
  /\ boot < MaxBoots
  /\ durable' = db
  /\ UNCHANGED <<db, pc, draft, stale, boot>>

(* The machine loses power and boots again.  The history in db goes back   *)
(* with the rest: it is that of the file, and the file does not know of    *)
(* the commits that were undone.                                           *)
PowerLoss ==
  /\ boot < MaxBoots
  /\ boot' = boot + 1
  /\ db' = durable
  /\ pc' = [w \in Writers |-> "idle"]
  /\ draft' = [w \in Writers |-> NoDraft]
  /\ stale' = {}
  /\ UNCHANGED durable

WriterStep(w) ==
  \/ \E now \in Times, content \in Content : BeginEnqueue(w, now, content)
  \/ EnqueueOversized(w)
  \/ EnqueueStored(w)
  \/ EnqueueFull(w)
  \/ EnqueueBusy(w)
  \/ Crash(w)
  \/ Restart(w)

(* Here the uploader may acknowledge any batch it was ever given.          *)
AcknowledgeAny ==
  \E r \in db.log : Acknowledge(r.payload.batch_id, r.payload.checksum)

Next ==
  \/ \E w \in Writers : WriterStep(w)
  \/ AcknowledgeAny
  \/ Sync
  \/ PowerLoss

Spec == Init /\ [][Next]_vars

-------------------------------------------------------------------------------
(* Properties.                                                             *)

(* Every variable holds a value of its type.                               *)
TypeOK ==
  /\ db \in Database /\ durable \in Database
  /\ pc \in [Writers -> {"idle", "enqueuing", "busy", "full"}]
  /\ draft \in [Writers -> Row \cup {NoDraft}]
  /\ stale \subseteq Enqueuing
  /\ boot \in 0 .. MaxBoots

Accounted(d) ==
  /\ Seqs(d.log) = 0 .. d.next_seq - 1
  /\ \A r1, r2 \in d.log : r1.seq = r2.seq => r1 = r2
  /\ d.batches \subseteq d.log
  /\ Seqs(d.batches) \cup Seqs(d.gaps) \cup d.acked = 0 .. d.next_seq - 1
  /\ Seqs(d.batches) \cap Seqs(d.gaps) = {}
  /\ d.acked \cap (Seqs(d.batches) \cup Seqs(d.gaps)) = {}

(* Within a file, every sequence number is given to one batch, and every   *)
(* batch enqueued is in exactly one of three places: pending, acknowledged *)
(* or recorded as a gap, whatever the interleaving of enqueue, acknowledge *)
(* and eviction.  It holds of the committed file and of the one that a     *)
(* power loss would leave; an enqueue that the loss undoes leaves no trace *)
(* there, and its number is given out again.                               *)
EveryBatchAccounted == Accounted(db) /\ Accounted(durable)

Describes(gap, row) ==
  /\ gap.seq = row.seq
  /\ gap.min_bucket = row.min_bucket
  /\ gap.max_bucket = row.max_bucket
  /\ gap.lost_bytes = row.payload_bytes

Recorded(d) ==
  \A g1 \in d.gaps :
    /\ \E r \in d.log : Describes(g1, r)
    /\ \A g2 \in d.gaps : g1.seq = g2.seq => g1 = g2

(* The gap event of a batch reports that batch's bucket range and size,    *)
(* and there is one per batch: gaps is a faithful record of the loss.      *)
GapsFaithful == Recorded(db) /\ Recorded(durable)

(* status() never reports more payload than the largest byte limit that    *)
(* any of the processes sharing the file was started with.                 *)
PayloadWithinLimit ==
  \E w \in Writers :
    Status.pending_payload_bytes <= Limits[w].max_payload_bytes

EnqueuesRow(w) ==
  /\ pc[w] = "enqueuing" /\ pc'[w] = "idle" /\ boot' = boot
  /\ db'.next_seq = db.next_seq + 1
  /\ draft[w].seq \notin Seqs(db'.gaps)

(* A successful enqueue of a batch that fits leaves a spool within the     *)
(* limits of its own process, whatever the other processes stored before:  *)
(* no more bytes than its limit, nothing past its age, and its own batch   *)
(* still there.                                                            *)
EnqueueRestoresLimits ==
  [][\A w \in Writers : EnqueuesRow(w) =>
       /\ draft[w] \in db'.batches
       /\ PayloadBytes(db'.batches) <= Limits[w].max_payload_bytes
       /\ \A r \in db'.batches : ~Expired(w, draft[w].created_at, r)]_vars

(* Batches are evicted for their bytes oldest first: when one is, nothing  *)
(* older than it stays pending.                                            *)
OldestEvictedFirst ==
  [][\A gap \in db'.gaps \ db.gaps :
       gap.reason = "spool_byte_limit" =>
         \A r \in db'.batches : r.seq > gap.seq]_vars

(* README.md: "Overflow evicts the oldest unacknowledged batch and records *)
(* its bucket range as a gap."  So an enqueue of a batch that fits in the  *)
(* byte limit never fails for want of space.                               *)
OverflowEvicts ==
  [][\A w \in Writers :
       /\ pc[w] = "enqueuing"
       /\ draft[w].payload_bytes <= Limits[w].max_payload_bytes
       => pc'[w] # "full"]_vars

===============================================================================
