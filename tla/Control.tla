------------------------------- MODULE Control --------------------------------
(***************************************************************************)
(* The control plane's store and its HTTP interface, src/control.rs.       *)
(*                                                                         *)
(* One process owns the database.  Its handlers hold one mutex from end to *)
(* end, and ingest_at is one SQLite transaction whose first statement      *)
(* already writes: an ingest is one step, and a crash in the middle of it  *)
(* leaves what was there before.                                           *)
(*                                                                         *)
(* The file is opened with journal_mode = WAL and synchronous = NORMAL, as *)
(* the spool is: an acknowledged ingest survives the death of the process, *)
(* while a power loss leaves some earlier committed state (durable).       *)
(***************************************************************************)
EXTENDS Envelope, FiniteSets, FiniteSetsExt, Sequences

CONSTANTS
  Posted,          \* the envelopes that clients post
  FlowKey,         \* the flows
  CapturePointOf,  \* the capture point in a flow's key
  BucketsOf,       \* the flow buckets of a content, in their order
  SizeOf,          \* serialized length of a batch with a given content
  BodyLimit,       \* the largest request body axum's Json extractor reads
  Times,           \* wall-clock readings; the clock may also step back
  ControlLimits,   \* the limits the process may be started with
  BatchCost,       \* pages an ingested_batches row takes
  FlowCost,        \* pages a flow_buckets row takes
  SqlMax,          \* i64::MAX, the largest integer a column holds
  Down,            \* no process is running
  NoReply          \* nothing was posted yet

FlowBucket == [bucket_start : Nat, key : FlowKey, packets : Nat, bytes : Nat]

(* What a client may post: serde checks the form of the fields, and no     *)
(* relation between them.  The buckets are a Vec: an aggregator's are      *)
(* distinct, a client's need not be.                                       *)
ASSUME PostedAssumption ==
  /\ Posted \subseteq BatchEnvelope
  /\ BucketsOf \in [Content -> Seq(FlowBucket)]
  /\ DOMAIN CapturePointOf = FlowKey
  /\ SizeOf \in [Content -> Nat] /\ BodyLimit \in Nat

(* ControlStore::open bails unless both limits are positive.               *)
ASSUME ControlAssumption ==
  /\ ControlLimits \subseteq [max_pages : Nat \ {0}, max_age_seconds : Nat \ {0}]
  /\ Times \subseteq Nat
  /\ BatchCost \in Nat /\ FlowCost \in Nat /\ SqlMax \in Nat
  /\ Down \notin ControlLimits

IngestedRow == [batch_id : BatchId, checksum : Digest, origin : Origin,
                seq : Nat, created_at : Nat]

(* flow_buckets has no key: equal rows are told apart by their rowid only, *)
(* which is counted here among the rows of a batch.                        *)
FlowRow == [batch_id : BatchId, node_id : {o[1] : o \in Origin},
            bucket : FlowBucket, rowid : Nat]

(* Answers of POST /v1/ingest: 200 with a status; 413, 400, 409, 507, 500. *)
Acks   == {"inserted", "duplicate"}
Errors == {"too_large", "bad_request", "conflict", "insufficient_storage", "internal"}

VARIABLES
  ingested,      \* the rows of ingested_batches
  flow_buckets,  \* the rows of flow_buckets
  file_pages,    \* the size of the database file, which never shrinks
  durable,       \* the committed state of these three that is on the disk
  limits,        \* the limits of the running process, or Down
  reply,         \* the last answer: to what, at what time
  accepted       \* history: the envelopes that were inserted

store == <<ingested, flow_buckets, file_pages>>
vars  == <<store, durable, limits, reply, accepted>>

-------------------------------------------------------------------------------
(* Rows.                                                                   *)

(* Mutant of RowOf: two columns in the wrong order.                        *)
RowSwapped(envelope) ==
  [batch_id |-> envelope.checksum, checksum |-> envelope.batch_id,
   origin |-> envelope.body.origin, seq |-> envelope.body.seq,
   created_at |-> envelope.body.created_at]

RowOf(envelope) ==
  [batch_id |-> envelope.batch_id, checksum |-> envelope.checksum,
   origin |-> envelope.body.origin, seq |-> envelope.body.seq,
   created_at |-> envelope.body.created_at]

(* One INSERT per bucket, whatever rows the table already has under the    *)
(* batch's id: inserting a batch again adds its rows a second time.        *)
InsertedRows(envelope, flows) ==
  LET buckets == BucketsOf[envelope.body.buckets]
      before  == Cardinality({f \in flows : f.batch_id = envelope.batch_id})
  IN  {[batch_id |-> envelope.batch_id, node_id |-> envelope.body.origin[1],
        bucket |-> buckets[i], rowid |-> before + i] : i \in 1 .. Len(buckets)}

FlowRowsOf(envelope) == InsertedRows(envelope, {})

(* Each number of the envelope passes crate::sqlite::integer.              *)
Storable(envelope) ==
  /\ envelope.body.seq <= SqlMax
  /\ envelope.body.created_at <= SqlMax
  /\ \A i \in 1 .. Len(BucketsOf[envelope.body.buckets]) :
       LET b == BucketsOf[envelope.body.buckets][i]
       IN  b.bucket_start <= SqlMax /\ b.packets <= SqlMax /\ b.bytes <= SqlMax

Pages(batches, flows) ==
  BatchCost * Cardinality(batches) + FlowCost * Cardinality(flows)

-------------------------------------------------------------------------------
(* prune_expired.                                                          *)

Expired(row, now) == row.created_at < SaturatingSub(now, limits.max_age_seconds)

(* Mutants of KeptBatches and KeptFlows: a batch at the limit of its age   *)
(* is pruned, and the flow rows are not.                                   *)
YoungerBatches(now) ==
  {row \in ingested : row.created_at > SaturatingSub(now, limits.max_age_seconds)}

AllFlows(now) == flow_buckets

KeptBatches(now) == {row \in ingested : ~Expired(row, now)}

KeptFlows(now) ==
  {f \in flow_buckets :
     \A row \in ingested : row.batch_id = f.batch_id => ~Expired(row, now)}

-------------------------------------------------------------------------------
Init ==
  /\ ingested = {} /\ flow_buckets = {} /\ file_pages = 0
  /\ durable = store
  /\ limits \in ControlLimits
  /\ reply = NoReply
  /\ accepted = {}

Answer(envelope, now, status) ==
  reply' = [envelope |-> envelope, now |-> now, status |-> status]

Commit(batches, flows) ==
  /\ ingested' = batches
  /\ flow_buckets' = flows
  /\ file_pages' = Max({file_pages, Pages(batches, flows)})

Valid(envelope) ==
  /\ envelope.body.schema_version = SCHEMA_VERSION
  /\ has_valid_checksum(envelope)

(* Mutant of BatchesWith: a batch replaces the others of its origin.       *)
OnePerOrigin(envelope, now) ==
  {r \in KeptBatches(now) : r.origin # envelope.body.origin} \cup {RowOf(envelope)}

BatchesWith(envelope, now) == KeptBatches(now) \cup {RowOf(envelope)}

FlowsWith(envelope, now) ==
  KeptFlows(now) \cup InsertedRows(envelope, KeptFlows(now))

(* The row that already has the posted batch_id, once the expired ones are *)
(* gone; and those that have its origin and sequence number.               *)
SameId(envelope, now) == {r \in KeptBatches(now) : r.batch_id = envelope.batch_id}

SameSeq(envelope, now) ==
  {r \in KeptBatches(now) : /\ r.origin = envelope.body.origin
                            /\ r.seq = envelope.body.seq}

(* The router leaves axum's limit on request bodies as it is, far below    *)
(* what a spool may hold: the handler is not called at all.                *)
IngestTooLarge(envelope, now) ==
  /\ limits # Down
  /\ SizeOf[envelope.body.buckets] > BodyLimit
  /\ Answer(envelope, now, "too_large")
  /\ UNCHANGED <<store, durable, limits, accepted>>

(* A schema version other than ours, or a checksum that does not match.    *)
IngestInvalid(envelope, now) ==
  /\ limits # Down
  /\ ~Valid(envelope)
  /\ Answer(envelope, now, "bad_request")
  /\ UNCHANGED <<store, durable, limits, accepted>>

(* Mutant of IngestDuplicate: the checksum is not compared.                *)
DuplicateById(envelope, now) ==
  /\ limits # Down
  /\ Valid(envelope)
  /\ SameId(envelope, now) # {}
  /\ Commit(KeptBatches(now), KeptFlows(now))
  /\ Answer(envelope, now, "duplicate")
  /\ UNCHANGED <<durable, limits, accepted>>

(* Mutant of IngestDuplicate: the flow rows are inserted all the same.     *)
DuplicateInserts(envelope, now) ==
  /\ limits # Down
  /\ Valid(envelope)
  /\ \E r \in SameId(envelope, now) : r.checksum = envelope.checksum
  /\ Commit(KeptBatches(now), FlowsWith(envelope, now))
  /\ Answer(envelope, now, "duplicate")
  /\ UNCHANGED <<durable, limits, accepted>>

(* The same batch again: only the pruning is committed.                    *)
IngestDuplicate(envelope, now) ==
  /\ limits # Down
  /\ Valid(envelope)
  /\ \E r \in SameId(envelope, now) : r.checksum = envelope.checksum
  /\ Commit(KeptBatches(now), KeptFlows(now))
  /\ Answer(envelope, now, "duplicate")
  /\ UNCHANGED <<durable, limits, accepted>>

(* Mutant of IngestConflict: the sequence number is looked up first.       *)
ConflictBySeq(envelope, now) ==
  /\ limits # Down
  /\ Valid(envelope)
  /\ SameSeq(envelope, now) # {}
  /\ Answer(envelope, now, "conflict")
  /\ UNCHANGED <<store, durable, limits, accepted>>

(* Another batch has this id, or this origin and sequence number.  The     *)
(* transaction is dropped, and the pruning with it.                        *)
IngestConflict(envelope, now) ==
  /\ limits # Down
  /\ Valid(envelope)
  /\ IF SameId(envelope, now) # {}
       THEN \A r \in SameId(envelope, now) : r.checksum # envelope.checksum
       ELSE SameSeq(envelope, now) # {}
  /\ Answer(envelope, now, "conflict")
  /\ UNCHANGED <<store, durable, limits, accepted>>

(* Mutant of New: only the id is looked up.                                *)
NewById(envelope, now) == Valid(envelope) /\ SameId(envelope, now) = {}

New(envelope, now) ==
  /\ Valid(envelope)
  /\ SameId(envelope, now) = {} /\ SameSeq(envelope, now) = {}

HasRoom(envelope, now) ==
  Pages(BatchesWith(envelope, now), FlowsWith(envelope, now)) <= limits.max_pages

IngestInserted(envelope, now) ==
  /\ limits # Down
  /\ New(envelope, now)
  /\ Storable(envelope) /\ HasRoom(envelope, now)
  /\ Commit(BatchesWith(envelope, now), FlowsWith(envelope, now))
  /\ accepted' = accepted \cup {envelope}
  /\ Answer(envelope, now, "inserted")
  /\ UNCHANGED <<durable, limits>>

(* SQLITE_FULL at one of the inserts: nothing is kept of the transaction.  *)
IngestFull(envelope, now) ==
  /\ limits # Down
  /\ New(envelope, now)
  /\ Storable(envelope) /\ ~HasRoom(envelope, now)
  /\ Answer(envelope, now, "insufficient_storage")
  /\ UNCHANGED <<store, durable, limits, accepted>>

(* A number does not fit a column, possibly after other rows went in.      *)
IngestUnstorable(envelope, now) ==
  /\ limits # Down
  /\ New(envelope, now)
  /\ ~Storable(envelope)
  /\ \/ Answer(envelope, now, "internal")
     \/ ~HasRoom(envelope, now) /\ Answer(envelope, now, "insufficient_storage")
  /\ UNCHANGED <<store, durable, limits, accepted>>

Ingest(envelope, now) ==
  \/ IngestTooLarge(envelope, now)
  \/ /\ SizeOf[envelope.body.buckets] <= BodyLimit
     /\ \/ IngestInvalid(envelope, now)
        \/ IngestDuplicate(envelope, now)
        \/ IngestConflict(envelope, now)
        \/ IngestInserted(envelope, now)
        \/ IngestFull(envelope, now)
        \/ IngestUnstorable(envelope, now)

(* The process is stopped or dies; an unfinished ingest is rolled back.    *)
Stop ==
  /\ limits # Down
  /\ limits' = Down
  /\ UNCHANGED <<store, durable, reply, accepted>>

(* Mutant of Open: the size of the file is not checked.                    *)
OpenAnyway(newlimits) ==
  /\ limits = Down
  /\ limits' = newlimits
  /\ UNCHANGED <<store, durable, reply, accepted>>

(* The process is started; configure refuses a limit below the file's size.*)
Open(newlimits) ==
  /\ limits = Down
  /\ file_pages <= newlimits.max_pages
  /\ limits' = newlimits
  /\ UNCHANGED <<store, durable, reply, accepted>>

(* The WAL reaches the disk.                                               *)
Sync ==
  /\ durable # store
  /\ durable' = store
  /\ UNCHANGED <<store, limits, reply, accepted>>

(* The machine loses power: the file is what was on its disk, and batches  *)
(* that were acknowledged since are gone, while pruned ones are back.      *)
PowerLoss ==
  /\ ingested' = durable[1] /\ flow_buckets' = durable[2] /\ file_pages' = durable[3]
  /\ limits' = Down
  /\ UNCHANGED <<durable, reply, accepted>>

Next ==
  \/ \E envelope \in Posted, now \in Times : Ingest(envelope, now)
  \/ Stop
  \/ \E newlimits \in ControlLimits : Open(newlimits)
  \/ Sync
  \/ PowerLoss

Spec == Init /\ [][Next]_vars

-------------------------------------------------------------------------------
(* The queries behind GET /v1/nodes, /v1/stats and /v1/series.             *)

PointOf(f) == CapturePointOf[f.bucket.key]

Packets(rows) == MapThenSumSet(LAMBDA f : f.bucket.packets, rows)
Bytes(rows)   == MapThenSumSet(LAMBDA f : f.bucket.bytes, rows)

FlowsOfNode(node) == {f \in flow_buckets : f.node_id = node}
(* Mutant of FlowsAt: the capture point is ignored.                        *)
FlowsAnywhere(node, point) == FlowsOfNode(node)

FlowsAt(node, point) == {f \in FlowsOfNode(node) : PointOf(f) = point}

Starts(rows) == {f.bucket.bucket_start : f \in rows}

nodes ==
  {[node_id |-> f.node_id, capture_point |-> PointOf(f),
    first_bucket_start |-> Min(Starts(FlowsAt(f.node_id, PointOf(f)))),
    last_bucket_start  |-> Max(Starts(FlowsAt(f.node_id, PointOf(f))))] :
   f \in flow_buckets}

Totals(batches, rows) ==
  [batches |-> Cardinality(batches), flow_buckets |-> Cardinality(rows),
   packets |-> Packets(rows), bytes |-> Bytes(rows)]

(* SUM over a column raises an error when it overflows.                    *)
Summable(rows) == Packets(rows) <= SqlMax /\ Bytes(rows) <= SqlMax

Success(body)   == [status |-> "ok", body |-> body]
Failure(status) == [status |-> status]

StatsOf(batches, rows) ==
  IF Summable(rows) THEN Success(Totals(batches, rows)) ELSE Failure("internal")

(* Without a capture point the batches are counted in ingested_batches,    *)
(* with one they are the distinct batch_id of the flow rows.               *)
stats(node) == StatsOf({r \in ingested : r.origin[1] = node}, FlowsOfNode(node))

stats_at(node, point) ==
  StatsOf({f.batch_id : f \in FlowsAt(node, point)}, FlowsAt(node, point))

(* Every error of a series is the client's fault, an overflow included.    *)
series(rows, from, to) ==
  LET inside == {f \in rows : f.bucket.bucket_start \in from .. to}
      at(s)  == {f \in inside : f.bucket.bucket_start = s}
  IN  IF from <= to /\ to <= SqlMax /\ \A s \in Starts(inside) : Summable(at(s))
        THEN Success({[bucket_start |-> s, packets |-> Packets(at(s)),
                       bytes |-> Bytes(at(s))] : s \in Starts(inside)})
        ELSE Failure("bad_request")

-------------------------------------------------------------------------------
(* Properties.                                                             *)

(* Every variable holds a value of its type.                               *)
TypeOK ==
  /\ ingested \subseteq IngestedRow /\ IsFiniteSet(ingested)
  /\ flow_buckets \subseteq FlowRow /\ IsFiniteSet(flow_buckets)
  /\ file_pages \in Nat
  /\ durable \in (SUBSET IngestedRow) \X (SUBSET FlowRow) \X Nat
  /\ limits \in ControlLimits \cup {Down}
  /\ \/ reply = NoReply
     \/ reply \in [envelope : Posted, now : Times, status : Acks \cup Errors]
  /\ accepted \subseteq Posted

(* An id and a place in an origin's sequence each name one batch.          *)
Once(batches) ==
  \A r1, r2 \in batches :
    \/ r1.batch_id = r2.batch_id
    \/ r1.origin = r2.origin /\ r1.seq = r2.seq
    => r1 = r2

(* Each row of batches is that of an accepted envelope, the flow rows      *)
(* under its id are the buckets of that envelope, as many rows as it has   *)
(* buckets, equal ones included, and there is no flow row without its      *)
(* batch.                                                                  *)
Whole(batches, flows) ==
  /\ \A r \in batches : \E e \in accepted :
       /\ r = RowOf(e)
       /\ {f \in flows : f.batch_id = r.batch_id} = FlowRowsOf(e)
  /\ \A f \in flows : \E r \in batches : r.batch_id = f.batch_id

(* No batch is stored twice, under its id or in its place of an origin's   *)
(* sequence, though the same batch comes again after it was pruned, and    *)
(* pruned batches come back with a power loss.                             *)
StoredOnce == Once(ingested)

(* A batch is stored whole or not at all, across refused ingests, pruning, *)
(* restarts, power losses, and ids that were used before.                  *)
StoredWhole == Whole(ingested, flow_buckets)

(* The database file stays within the limit of the running process,        *)
(* whatever the limits it was filled under before.                         *)
FileWithinLimit == limits # Down => file_pages <= limits.max_pages

Adds(field, parts, total) == MapThenSumSet(LAMBDA p : p[field], parts) = total[field]

(* The three queries tell one story.  While the totals of a node can be    *)
(* added up, so can those of its places and every series about them: an    *)
(* overflow is never met in a part and not in the whole.  The totals over  *)
(* the places that the inventory lists are then the node's totals, and the *)
(* series over the time range that the inventory gives adds up to them.    *)
QueriesAgree ==
  /\ \A node \in {o[1] : o \in Origin} :
       LET places == {n.capture_point : n \in {x \in nodes : x.node_id = node}}
           parts  == {<<p, stats_at(node, p)>> : p \in places}
           line   == series(FlowsOfNode(node), 0, SqlMax)
       IN  stats(node).status = "ok" =>
             /\ line.status = "ok" /\ \A p \in parts : p[2].status = "ok"
             /\ \A field \in {"flow_buckets", "packets", "bytes"} :
                  MapThenSumSet(LAMBDA p : p[2].body[field], parts)
                    = stats(node).body[field]
             /\ Adds("bytes", line.body, stats(node).body)
  /\ \A n \in nodes :
       LET place == stats_at(n.node_id, n.capture_point)
           line  == series(FlowsAt(n.node_id, n.capture_point),
                           n.first_bucket_start, n.last_bucket_start)
       IN  place.status = "ok" =>
             /\ line.status = "ok" /\ Adds("packets", line.body, place.body)
             /\ place.body.batches <= Cardinality({r \in ingested : r.origin[1] = n.node_id})

AnswersTo(envelope, status) ==
  reply' # reply /\ reply'.envelope = envelope /\ reply'.status \in status

(* An uploader that is told inserted or duplicate may forget the batch:    *)
(* the very body it posted is in the store when the answer is given.       *)
AckMeansStored ==
  [][\A e \in Posted : AnswersTo(e, Acks) =>
       RowOf(e) \in ingested' /\ FlowRowsOf(e) \subseteq flow_buckets']_vars

(* A batch leaves the store only in an ingest whose clock finds it past    *)
(* the retention, or in a power loss that comes before it is on the disk:  *)
(* neither a refused batch nor a restart removes data.                     *)
OnlyExpiredLeave ==
  [][\A r \in ingested \ ingested' :
       \/ limits' # Down /\ reply'.status \in Acks /\ Expired(r, reply'.now)
       \/ limits' = Down /\ r \notin durable[1]]_vars

(* "Unit tests separately prove that exact duplicate ingest is idempotent" *)
(* (docs/backend-verification.md).  Whatever happened in between, posting  *)
(* a batch that is still stored and has not expired is acknowledged, and   *)
(* leaves its rows as they are.                                            *)
RetryIsAcknowledged ==
  [][\A e \in Posted :
       /\ Valid(e)
       /\ AnswersTo(e, Acks \cup Errors)
       /\ RowOf(e) \in ingested /\ ~Expired(RowOf(e), reply'.now)
       => reply'.status = "duplicate"]_vars

(* README.md: "48-hour retention".  Once a posted batch has been answered  *)
(* at some time, no other batch past the retention at that time is kept.   *)
RetentionEnforced ==
  [][\A e \in Posted :
       Valid(e) /\ AnswersTo(e, Acks \cup {"conflict", "insufficient_storage"}) =>
       \A r \in ingested' : r = RowOf(e) \/ ~Expired(r, reply'.now)]_vars

===============================================================================
