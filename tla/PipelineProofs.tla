----------------------------- MODULE PipelineProofs ----------------------------
(***************************************************************************)
(* Theorems about the whole path of a batch, for every set of uploaders,   *)
(* every limit and every bound of Pipeline.                                *)
(*                                                                         *)
(* The spool and the control plane keep their own invariants in the        *)
(* composition, because every step of it is a step of each of them or      *)
(* leaves it alone: SpoolProofs and ControlProofs are cited for that.      *)
(***************************************************************************)
EXTENDS Pipeline, SumProofs

SP == INSTANCE SpoolProofs
CP == INSTANCE ControlProofs WITH Posted <- Built, durable <- control_durable

-------------------------------------------------------------------------------
(* The inductive invariant.                                                *)

Payloads(rows) == {r.payload : r \in rows}

(* A row is that of an envelope that some writer built.                    *)
RowBuilt(r) ==
  /\ r.payload \in Built
  /\ r.payload.body.seq = r.seq
  /\ r.payload.body.created_at = r.created_at

RowsBuilt ==
  /\ \A r \in db.log \cup durable.log : RowBuilt(r)
  /\ \A w \in S!Enqueuing :
       RowBuilt(draft[w]) /\ draft[w].payload.body.origin = S!OriginOf(w)

(* Who waits has one request on its way, for the head of its batches, and  *)
(* who was told that it is taken in can rely on that.                      *)
RequestsAsked ==
  \A q \in requests : q.from \in Uploaders =>
    job[q.from].phase = "waiting" /\ q.envelope = HeadOf(q.from)

AnswersTrue ==
  \A u \in Uploaders :
    job[u].phase = "answered" /\ job[u].answer \in C!Acks => HeadOf(u) \in accepted

(* What the agent has forgotten, in the file and on its disk.              *)
Forgotten(d) == \A r \in d.log : r.seq \in d.acked => r.payload \in accepted

ForgottenDelivered ==
  Forgotten(db) /\ Forgotten(durable) /\ durable.acked \subseteq db.acked

(* An envelope that was taken in is stored, unless it may have expired or  *)
(* its insertion was undone.                                               *)
Outlived(e) ==
  \E now \in Times, l \in ControlLimits :
    e.body.created_at < SaturatingSub(now, l.max_age_seconds)

AcceptedHeld ==
  \A e \in accepted : C!RowOf(e) \in ingested \/ e \in undone \/ Outlived(e)

(* The boot id in a batch is that of its boot: always with the kernel's    *)
(* boot id, and until the first power loss with a fixed one.               *)
OwnBoot == ~FixedBootId \/ boot = 0

(* Everything that has left a transaction and may still turn up somewhere. *)
Sent   == {q.envelope : q \in requests}
Queued == UNION {job[u].todo : u \in Uploaders}

Known == accepted \cup Sent \cup Queued \cup Payloads(db.log) \cup Payloads(durable.log)

(* What was built since the last power loss is in the file.                *)
NewestInFile ==
  OwnBoot => \A e \in Known :
    /\ e.body.origin[2] <= boot
    /\ e.body.origin[2] = boot => e \in Payloads(db.log)

OneInItsPlace ==
  OwnBoot => \A e1, e2 \in Known :
    e1.body.origin = e2.body.origin /\ e1.body.seq = e2.body.seq => e1 = e2

NoConflictSoFar == OwnBoot => NoConflict

(* Until a power loss a snapshot holds whatever is pending before any of   *)
(* its batches, and nothing is pending that is older than what has been    *)
(* posted or taken in.                                                     *)
SnapshotsWhole ==
  boot = 0 => \A r \in db.batches, u \in Uploaders : \A e \in job[u].todo :
    r.seq < e.body.seq => r.payload \in job[u].todo

NothingOlder ==
  boot = 0 => \A r \in db.batches, e \in accepted \cup Sent : e.body.seq <= r.seq

Job == [phase : {"idle", "ready", "waiting", "answered"}, todo : SUBSET Built,
        answer : C!Acks \cup C!Errors \cup {NoAnswer}]

UploadsTyped ==
  /\ job \in [Uploaders -> Job]
  /\ requests \subseteq [from : Uploaders \cup {Nobody}, envelope : Built]
  /\ stops \in 0 .. MaxStops
  /\ undone \subseteq accepted

IInv ==
  /\ SP!IInv /\ CP!IInv /\ UploadsTyped
  /\ RowsBuilt /\ RequestsAsked /\ AnswersTrue /\ ForgottenDelivered /\ AcceptedHeld
  /\ NewestInFile /\ OneInItsPlace /\ NoConflictSoFar
  /\ SnapshotsWhole /\ NothingOlder

-------------------------------------------------------------------------------
(* The components in the composition.  The operators of an instance are    *)
(* those of the module it is an instance of, whichever module names it.    *)

(* A step of a writer is what SpoolProofs proves about.                    *)
LEMMA WriterStepSame ==
  ASSUME NEW w
  PROVE  S!WriterStep(w) <=> SP!WriterStep(w)
BY DEF
  S!WriterStep, S!BeginEnqueue, S!EnqueueOversized, S!EnqueueStored, S!EnqueueFull,
  S!EnqueueBusy, S!Crash, S!Restart, S!Commit, S!Finish, S!Gap, S!EvictionReason,
  S!Survivors, S!NewerOrSame, S!Expired, S!Cutoff, S!SaturatingSub, S!PayloadBytes,
  S!StoredBytes, S!HasRoom, S!Footprint, S!NewRow, S!NewEnvelope, S!OriginOf, S!Enqueuing,
  S!body_checksum, S!SCHEMA_VERSION, S!Min, S!Max, S!Cardinality,
  SP!WriterStep, SP!BeginEnqueue, SP!EnqueueOversized, SP!EnqueueStored, SP!EnqueueFull,
  SP!EnqueueBusy, SP!Crash, SP!Restart, SP!Commit, SP!Finish, SP!Gap, SP!EvictionReason,
  SP!Survivors, SP!NewerOrSame, SP!Expired, SP!Cutoff, SP!SaturatingSub, SP!PayloadBytes,
  SP!StoredBytes, SP!HasRoom, SP!Footprint, SP!NewRow, SP!NewEnvelope, SP!OriginOf,
  SP!Enqueuing, SP!body_checksum, SP!SCHEMA_VERSION, SP!Min, SP!Max, SP!Cardinality

(* So are the other steps of the spool.                                    *)
LEMMA SpoolSame ==
  /\ S!Init <=> SP!Init
  /\ S!Sync <=> SP!Sync
  /\ S!PowerLoss <=> SP!PowerLoss
  /\ \A id, checksum : S!Acknowledge(id, checksum) <=> SP!Acknowledge(id, checksum)
  /\ S!TypeOK <=> SP!TypeOK
BY DEF
  S!Init, S!Sync, S!PowerLoss, S!Acknowledge, S!Matching, S!Commit, S!Enqueuing, S!Seqs,
  S!TypeOK, S!Database, S!Row, S!GapEvent, S!Reason, S!BatchEnvelope, S!BatchBody,
  S!Digest, S!BatchId,
  SP!Init, SP!Sync, SP!PowerLoss, SP!Acknowledge, SP!Matching, SP!Commit, SP!Enqueuing,
  SP!Seqs, SP!TypeOK, SP!Database, SP!Row, SP!GapEvent, SP!Reason, SP!BatchEnvelope,
  SP!BatchBody, SP!Digest, SP!BatchId

(* An ingest is what ControlProofs proves about.                           *)
LEMMA IngestSame ==
  ASSUME NEW e, NEW now
  PROVE  C!Ingest(e, now) <=> CP!Ingest(e, now)
BY DEF
  C!Ingest, C!IngestTooLarge, C!IngestInvalid, C!IngestDuplicate, C!IngestConflict,
  C!IngestInserted, C!IngestFull, C!IngestUnstorable, C!Answer, C!Commit, C!Valid,
  C!SameId, C!SameSeq, C!New, C!BatchesWith, C!FlowsWith, C!HasRoom, C!Storable, C!Pages,
  C!KeptBatches, C!KeptFlows, C!Expired, C!RowOf, C!InsertedRows,
  C!SaturatingSub,
  C!has_valid_checksum, C!body_checksum, C!SCHEMA_VERSION, C!Max, C!Cardinality, C!store,
  CP!Ingest, CP!IngestTooLarge, CP!IngestInvalid, CP!IngestDuplicate, CP!IngestConflict,
  CP!IngestInserted, CP!IngestFull, CP!IngestUnstorable, CP!Answer, CP!Commit, CP!Valid,
  CP!SameId, CP!SameSeq, CP!New, CP!BatchesWith, CP!FlowsWith, CP!HasRoom, CP!Storable,
  CP!Pages, CP!KeptBatches, CP!KeptFlows, CP!Expired, CP!RowOf, CP!InsertedRows,
  CP!SaturatingSub, CP!has_valid_checksum, CP!body_checksum, CP!SCHEMA_VERSION, CP!Max,
  CP!Cardinality, CP!store

(* So are the other steps of the control plane.                            *)
LEMMA ControlSame ==
  /\ C!Init <=> CP!Init
  /\ C!Stop <=> CP!Stop
  /\ \A l : C!Open(l) <=> CP!Open(l)
  /\ C!Sync <=> CP!Sync
  /\ C!PowerLoss <=> CP!PowerLoss
  /\ C!TypeOK <=> CP!TypeOK
BY DEF
  C!Init, C!Stop, C!Open, C!Sync, C!PowerLoss, C!store, C!TypeOK, C!IngestedRow, C!FlowRow,
  C!FlowBucket, C!BatchId, C!Digest, C!BatchBody, C!IsFiniteSet, C!Acks, C!Errors,
  CP!Init, CP!Stop, CP!Open, CP!Sync, CP!PowerLoss, CP!store, CP!TypeOK, CP!IngestedRow,
  CP!FlowRow, CP!FlowBucket, CP!BatchId, CP!Digest, CP!BatchBody, CP!IsFiniteSet, CP!Acks,
  CP!Errors

(* What a writer builds is an envelope whose checksum and id are those of  *)
(* its body, with a number and a boot that the bounds allow.               *)
LEMMA BuiltEnvelope ==
  ASSUME NEW e \in Built
  PROVE  /\ e \in BatchEnvelope
         /\ e = [batch_id |-> <<e.body.origin, e.body.seq, e.checksum>>,
                 checksum |-> <<"blake3", e.body>>, body |-> e.body]
         /\ e.body.schema_version = SCHEMA_VERSION
         /\ e.body.origin \in Writers \X (0 .. MaxBoots)
         /\ e.body.seq \in Nat /\ e.body.seq < MaxSeq
         /\ e.body.created_at \in Times /\ e.body.created_at \in Nat
         /\ e.body.buckets \in Content
<1>1. PICK o \in Origin, n \in 0 .. MaxSeq - 1, t \in Times, c \in Content :
        e = NewEnvelope(o, n, t, c)
  BY DEF Built
<1> DEFINE body == [schema_version |-> SCHEMA_VERSION, origin |-> o, seq |-> n,
                    created_at |-> t, buckets |-> c]
<1>2. /\ n \in Nat /\ n < MaxSeq /\ t \in Nat
      /\ Origin = Writers \X (0 .. MaxBoots) /\ MaxSeq \in Nat
  BY AgentAssumption
<1>3. body \in BatchBody
  BY <1>2 DEF BatchBody, SCHEMA_VERSION
<1>4. /\ e.body = body /\ e.checksum = <<"blake3", body>>
      /\ e.batch_id = <<o, n, <<"blake3", body>>>>
      /\ e = [batch_id |-> <<o, n, <<"blake3", body>>>>,
              checksum |-> <<"blake3", body>>, body |-> body]
  BY <1>1 DEF NewEnvelope, body_checksum
<1>5. e \in BatchEnvelope
  BY <1>2, <1>3, <1>4 DEF BatchEnvelope, BatchId, Digest
<1> QED
  BY <1>2, <1>4, <1>5

(* The checksum, which is that of the body, names the envelope.            *)
LEMMA ChecksumNames ==
  ASSUME NEW e1 \in Built, NEW e2 \in Built,
         e1.checksum = e2.checksum \/ e1.body = e2.body
  PROVE  e1 = e2
<1>1. e1.checksum = <<"blake3", e1.body>> /\ e2.checksum = <<"blake3", e2.body>>
  BY BuiltEnvelope
<1>2. e1.body = e2.body /\ e1.checksum = e2.checksum
  BY <1>1
<1> QED
  BY <1>2, BuiltEnvelope

(* What Control assumes of its clients holds of the uploaders.             *)
LEMMA PlaneFacts ==
  /\ Built \subseteq CP!BatchEnvelope
  /\ BucketsOf \in [Content -> Seq(CP!FlowBucket)]
  /\ DOMAIN CapturePointOf = FlowKey
  /\ SizeOf \in [Content -> Nat] /\ BodyLimit \in Nat
  /\ ControlLimits \subseteq [max_pages : Nat \ {0}, max_age_seconds : Nat \ {0}]
  /\ Times \subseteq Nat
  /\ BatchCost \in Nat /\ FlowCost \in Nat /\ SqlMax \in Nat
  /\ Down \notin ControlLimits
<1>1. Built \subseteq CP!BatchEnvelope
  BY BuiltEnvelope DEF BatchEnvelope, BatchId, BatchBody, Digest,
     CP!BatchEnvelope, CP!BatchId, CP!BatchBody, CP!Digest
<1>2. BucketsOf \in [Content -> Seq(CP!FlowBucket)]
  BY PlaneAssumption DEF CP!FlowBucket
<1>3. SizeOf \in [Content -> Nat]
  BY AgentAssumption
<1> QED
  BY <1>1, <1>2, <1>3, AgentAssumption, PlaneAssumption

(* A step of the spool, or one that leaves it alone, keeps its invariant.  *)
LEMMA SpoolKept ==
  ASSUME SP!IInv, [SP!Next]_(SP!vars)
  PROVE  SP!IInv'
BY SP!NextIInv, AgentAssumption

(* The same for the control plane.                                         *)
LEMMA ControlKept ==
  ASSUME CP!IInv, [CP!Next]_(CP!vars)
  PROVE  CP!IInv'
BY CP!NextIInv, PlaneFacts

(* Both hold their invariants at the beginning.                            *)
LEMMA ComponentsInit == Init => SP!IInv /\ CP!IInv
<1>1. SP!Init => SP!IInv
  BY SP!InitIInv, AgentAssumption
<1>2. CP!Init => CP!IInv
  BY CP!InitIInv, PlaneFacts
<1> QED
  BY <1>1, <1>2, SpoolSame, ControlSame DEF Init

(* What the composition uses of the spool's invariant.                     *)
LEMMA SpoolFacts ==
  ASSUME SP!IInv
  PROVE  /\ S!TypeOK
         /\ db \in S!Database /\ durable \in S!Database
         /\ S!Accounted(db) /\ S!Accounted(durable)
         /\ IsFiniteSet(db.batches)
         /\ \A w \in S!Enqueuing : w \notin stale => draft[w].seq = db.next_seq
<1>1. SP!TypeOK /\ SP!Sound(db) /\ SP!Sound(durable) /\ SP!DraftsCurrent
  BY DEF SP!IInv
<1>2. SP!Accounted(db) /\ SP!Accounted(durable) /\ SP!IsFiniteSet(db.batches)
  BY <1>1 DEF SP!Sound
<1>3. S!TypeOK
  BY <1>1, SpoolSame
<1>4. S!Accounted(db) /\ S!Accounted(durable)
  BY <1>2 DEF S!Accounted, S!Seqs, SP!Accounted, SP!Seqs
<1>5. IsFiniteSet(db.batches)
  BY <1>2 DEF SP!IsFiniteSet, IsFiniteSet
<1>6. \A w \in S!Enqueuing : w \notin stale => draft[w].seq = db.next_seq
  BY <1>1 DEF SP!DraftsCurrent, SP!Enqueuing, S!Enqueuing
<1> QED
  BY <1>3, <1>4, <1>5, <1>6 DEF S!TypeOK

(* What it uses of the control plane's.                                    *)
LEMMA ControlFacts ==
  ASSUME CP!IInv
  PROVE  /\ C!TypeOK
         /\ \A r \in ingested : \E e \in accepted : r = C!RowOf(e)
<1>1. CP!TypeOK /\ CP!StoredWhole
  BY DEF CP!IInv
<1>2. \A r \in ingested : \E e \in accepted : r = C!RowOf(e)
  BY <1>1 DEF CP!StoredWhole, CP!Whole, CP!RowOf, C!RowOf
<1> QED
  BY <1>1, <1>2, ControlSame

(* Every step of the composition is a step of the spool or leaves it alone.*)
LEMMA StepsOfSpool ==
  ASSUME IInv, [Next]_vars
  PROVE  [SP!Next]_(SP!vars)
<1>1. S!Accounted(db)
  BY SpoolFacts DEF IInv
<1>2. CASE SpoolStep
  BY <1>2, WriterStepSame, SpoolSame DEF SpoolStep, SP!Next
<1>3. CASE AgentPowerLoss
  BY <1>3, SpoolSame DEF AgentPowerLoss, SP!Next
<1>4. ASSUME NEW u \in Uploaders, AcknowledgeHead(u)
      PROVE  SP!Next
  <2>1. S!Acknowledge(HeadOf(u).batch_id, HeadOf(u).checksum)
    BY <1>4 DEF AcknowledgeHead
  <2>2. PICK r \in S!Matching(HeadOf(u).batch_id, HeadOf(u).checksum) : TRUE
    BY <2>1 DEF S!Acknowledge
  <2>3. /\ r \in db.log
        /\ r.payload.batch_id = HeadOf(u).batch_id /\ r.payload.checksum = HeadOf(u).checksum
    BY <1>1, <2>2 DEF S!Matching, S!Accounted
  <2>4. SP!Acknowledge(r.payload.batch_id, r.payload.checksum)
    BY <2>1, <2>3, SpoolSame
  <2> QED
    BY <2>3, <2>4 DEF SP!Next, SP!AcknowledgeAny
<1>5. ASSUME UNCHANGED spool
      PROVE  UNCHANGED SP!vars
  BY <1>5 DEF spool, SP!vars
<1>6. ASSUME NEW u \in Uploaders, UploadStep(u)
      PROVE  AcknowledgeHead(u) \/ UNCHANGED spool
  BY <1>6 DEF UploadStep, StartUpload, Post, AcknowledgeMismatch, Refused, Done, AbortUpload
<1>7. ASSUME NEW r \in requests, LoseOrphan(r) \/ \E now \in Times : Serve(r, now)
      PROVE  UNCHANGED spool
  BY <1>7 DEF LoseOrphan, Serve
<1>8. ASSUME ControlStop \/ ControlOpen \/ ControlSync \/ ControlPowerLoss
      PROVE  UNCHANGED spool
  BY <1>8 DEF ControlStop, ControlOpen, ControlSync, ControlPowerLoss
<1>9. UNCHANGED vars => UNCHANGED spool
  BY DEF vars
<1> QED
  BY <1>2, <1>3, <1>4, <1>5, <1>6, <1>7, <1>8, <1>9 DEF Next

(* The same for the control plane.                                         *)
LEMMA StepsOfControl ==
  ASSUME IInv, [Next]_vars
  PROVE  [CP!Next]_(CP!vars)
<1>1. ASSUME UNCHANGED control
      PROVE  UNCHANGED CP!vars
  BY <1>1 DEF control, CP!vars, CP!store
<1>2. ASSUME NEW r \in requests, NEW now \in Times, Serve(r, now)
      PROVE  CP!Next
  <2>1. r.envelope \in Built
    BY DEF IInv, UploadsTyped
  <2>2. CP!Ingest(r.envelope, now)
    BY <1>2, IngestSame DEF Serve
  <2> QED
    BY <2>1, <2>2 DEF CP!Next
<1>3. ASSUME ControlStop \/ ControlSync \/ ControlPowerLoss
      PROVE  CP!Next
  BY <1>3, ControlSame DEF ControlStop, ControlSync, ControlPowerLoss, CP!Next
<1>4. ASSUME ControlOpen
      PROVE  CP!Next
  BY <1>4, ControlSame DEF ControlOpen, CP!Next
<1>5. ASSUME SpoolStep \/ AgentPowerLoss
      PROVE  UNCHANGED control
  BY <1>5 DEF SpoolStep, AgentPowerLoss
<1>6. ASSUME NEW u \in Uploaders, UploadStep(u)
      PROVE  UNCHANGED control
  BY <1>6 DEF UploadStep, StartUpload, Post, AcknowledgeHead, AcknowledgeMismatch, Refused,
              Done, AbortUpload
<1>7. ASSUME NEW r \in requests, LoseOrphan(r)
      PROVE  UNCHANGED control
  BY <1>7 DEF LoseOrphan
<1>8. UNCHANGED vars => UNCHANGED control
  BY DEF vars
<1> QED
  BY <1>1, <1>2, <1>3, <1>4, <1>5, <1>6, <1>7, <1>8 DEF Next

-------------------------------------------------------------------------------
(* What the steps do.                                                      *)

(* What an enqueue commits, whether the batch is stored or recorded as a   *)
(* gap: one row is logged, and nothing becomes pending but that row.       *)
FileGrows(row) ==
  /\ db'.next_seq = db.next_seq + 1
  /\ db'.log = db.log \cup {row} /\ db'.acked = db.acked
  /\ db'.batches \subseteq db.batches \cup {row}
  /\ row.seq = db.next_seq

(* The draft of a writer is made of what it reads as the next number.      *)
Drafted(w) ==
  \E now \in Times, content \in Content :
    /\ db.next_seq < MaxSeq
    /\ draft'[w] = S!NewRow(S!NewEnvelope(S!OriginOf(w), db.next_seq, now, content))

(* A step of a writer leaves the file alone or commits the row it drafted, *)
(* and a draft that is new is a row of the envelope it builds.             *)
LEMMA WriterEffect ==
  ASSUME SP!IInv, NEW w \in Writers, S!WriterStep(w)
  PROVE  /\ durable' = durable /\ boot' = boot
         /\ \/ db' = db
            \/ w \in S!Enqueuing /\ FileGrows(draft[w])
         /\ \A x \in S!Enqueuing' :
              (x \in S!Enqueuing /\ draft'[x] = draft[x]) \/ Drafted(x)
<1>1. /\ pc \in [Writers -> {"idle", "enqueuing", "busy", "full"}]
      /\ draft \in [Writers -> S!Row \cup {NoDraft}]
      /\ db \in S!Database
      /\ w \in S!Enqueuing /\ w \notin stale => draft[w].seq = db.next_seq
  BY SpoolFacts DEF S!TypeOK
<1>2. ASSUME NEW state, state # "enqueuing", S!Finish(w, state)
      PROVE  \A x \in S!Enqueuing' : x \in S!Enqueuing /\ draft'[x] = draft[x]
  BY <1>1, <1>2 DEF S!Finish, S!Enqueuing
<1>3. ASSUME NEW now \in Times, NEW content \in Content, S!BeginEnqueue(w, now, content)
      PROVE  /\ durable' = durable /\ boot' = boot /\ db' = db
             /\ \A x \in S!Enqueuing' :
                  (x \in S!Enqueuing /\ draft'[x] = draft[x]) \/ Drafted(x)
  BY <1>1, <1>3 DEF S!BeginEnqueue, S!Enqueuing, Drafted
<1>4. CASE S!EnqueueOversized(w)
  <2> DEFINE gap == S!Gap(draft[w], "batch_exceeds_spool_limit", draft[w].created_at)
  <2>1. /\ w \in S!Enqueuing /\ w \notin stale
        /\ db' = [db EXCEPT !.next_seq = @ + 1, !.gaps = @ \cup {gap},
                            !.log = @ \cup {draft[w]}]
        /\ S!Finish(w, "idle")
        /\ durable' = durable /\ boot' = boot
    BY <1>4 DEF S!EnqueueOversized, S!Commit, S!Enqueuing
  <2> HIDE DEF gap
  <2>2. FileGrows(draft[w])
    BY <1>1, <2>1 DEF S!Database, FileGrows
  <2> QED
    BY <1>2, <2>1, <2>2
<1>5. CASE S!EnqueueStored(w)
  <2> DEFINE row  == draft[w]
             rows == db.batches \cup {row}
             kept == S!Survivors(w, row.created_at, rows)
             lost == {S!Gap(r, S!EvictionReason(w, row.created_at, r), row.created_at) :
                        r \in rows \ kept}
  <2>1. /\ w \in S!Enqueuing /\ w \notin stale
        /\ db' = [db EXCEPT !.next_seq = @ + 1, !.batches = kept,
                            !.gaps = @ \cup lost, !.log = @ \cup {row}]
        /\ S!Finish(w, "idle")
        /\ durable' = durable /\ boot' = boot
    BY <1>5 DEF S!EnqueueStored, S!Commit, S!Enqueuing
  <2>2. kept \subseteq rows
    BY DEF S!Survivors
  <2> HIDE DEF lost, kept
  <2>3. FileGrows(row)
    BY <1>1, <2>1, <2>2 DEF S!Database, FileGrows
  <2> QED
    BY <1>2, <2>1, <2>3
<1>6. CASE S!EnqueueFull(w) \/ S!EnqueueBusy(w) \/ S!Crash(w) \/ S!Restart(w)
  <2>1. /\ db' = db /\ durable' = durable /\ boot' = boot
        /\ \E state \in {"full", "busy", "idle"} : S!Finish(w, state)
    BY <1>6 DEF S!EnqueueFull, S!EnqueueBusy, S!Crash, S!Restart
  <2> QED
    BY <1>2, <2>1
<1> QED
  BY <1>3, <1>4, <1>5, <1>6 DEF S!WriterStep

(* What a writer drafts is a row of what it builds, under its boot id.     *)
LEMMA DraftedBuilt ==
  ASSUME SP!IInv, NEW w \in Writers, Drafted(w)
  PROVE  /\ RowBuilt(draft'[w])
         /\ draft'[w].payload.body.origin = S!OriginOf(w)
<1>1. PICK now \in Times, content \in Content :
        /\ db.next_seq < MaxSeq
        /\ draft'[w] = S!NewRow(S!NewEnvelope(S!OriginOf(w), db.next_seq, now, content))
  BY DEF Drafted
<1> DEFINE e == NewEnvelope(S!OriginOf(w), db.next_seq, now, content)
<1>2. /\ db.next_seq \in Nat /\ boot \in 0 .. MaxBoots
  BY SpoolFacts DEF S!Database, S!TypeOK
<1>3. db.next_seq \in 0 .. MaxSeq - 1 /\ S!OriginOf(w) \in Origin
  BY <1>1, <1>2, AgentAssumption DEF S!OriginOf
<1>4. e \in Built
  BY <1>3 DEF Built
<1>5. S!NewEnvelope(S!OriginOf(w), db.next_seq, now, content) = e
  BY DEF S!NewEnvelope, NewEnvelope, S!body_checksum, body_checksum, S!SCHEMA_VERSION,
         SCHEMA_VERSION
<1>6. /\ e.body.seq = db.next_seq /\ e.body.created_at = now
      /\ e.body.origin = S!OriginOf(w)
  BY DEF NewEnvelope
<1> HIDE DEF e
<1>7. /\ draft'[w].payload = e /\ draft'[w].seq = e.body.seq
      /\ draft'[w].created_at = e.body.created_at
  BY <1>1, <1>5 DEF S!NewRow
<1> QED
  BY <1>4, <1>6, <1>7 DEF RowBuilt

(* A row of the file is named by the envelope in it.                       *)
LEMMA PayloadNames ==
  ASSUME IInv, NEW r1 \in db.log, NEW r2 \in db.log, r1.payload = r2.payload
  PROVE  r1 = r2
<1>1. r1.seq = r2.seq
  BY DEF IInv, RowsBuilt, RowBuilt
<1> QED
  BY <1>1, SpoolFacts DEF IInv, S!Accounted

(* An acknowledgement deletes the row of the batch that was posted, which  *)
(* has been taken in, and no other row.                                    *)
LEMMA AcknowledgeEffect ==
  ASSUME IInv, NEW u \in Uploaders, AcknowledgeHead(u)
  PROVE  /\ HeadOf(u) \in accepted
         /\ \E r \in db.batches :
              /\ r \in db.log /\ r.payload = HeadOf(u)
              /\ db'.batches = db.batches \ {r}
              /\ db'.acked = db.acked \cup {r.seq}
         /\ db'.next_seq = db.next_seq /\ db'.log = db.log /\ db'.gaps = db.gaps
         /\ \A r \in db'.batches : r \in db.batches /\ r.payload # HeadOf(u)
         /\ durable' = durable /\ pc' = pc /\ draft' = draft /\ boot' = boot
<1> DEFINE rows == S!Matching(HeadOf(u).batch_id, HeadOf(u).checksum)
<1>1. HeadOf(u) \in accepted
  BY DEF AcknowledgeHead, IInv, AnswersTrue
<1>2. accepted \subseteq Built
  BY ControlFacts DEF IInv, C!TypeOK
<1>3. /\ db \in S!Database /\ S!Accounted(db)
  BY SpoolFacts DEF IInv
<1>4. \A r \in db.batches : r \in db.log /\ r.payload \in Built
  BY <1>3 DEF S!Accounted, IInv, RowsBuilt, RowBuilt
<1>5. rows = {r \in db.batches : r.payload = HeadOf(u)}
  <2>1. \A r \in db.batches : r.payload.checksum = HeadOf(u).checksum => r.payload = HeadOf(u)
    BY <1>1, <1>2, <1>4, ChecksumNames
  <2> QED
    BY <2>1 DEF S!Matching
<1>6. /\ rows # {}
      /\ db' = [db EXCEPT !.batches = @ \ rows, !.acked = @ \cup S!Seqs(rows)]
      /\ durable' = durable /\ pc' = pc /\ draft' = draft /\ boot' = boot
  BY DEF AcknowledgeHead, S!Acknowledge, S!Commit
<1> HIDE DEF rows
<1>7. /\ db'.batches = db.batches \ rows /\ db'.acked = db.acked \cup S!Seqs(rows)
      /\ db'.next_seq = db.next_seq /\ db'.log = db.log /\ db'.gaps = db.gaps
  BY <1>3, <1>6 DEF S!Database
<1>8. PICK r \in rows : r \in db.batches /\ r \in db.log /\ r.payload = HeadOf(u)
  BY <1>4, <1>5, <1>6
<1>9. rows = {r}
  BY <1>4, <1>5, <1>8, PayloadNames
<1>10. S!Seqs(rows) = {r.seq}
  BY <1>9 DEF S!Seqs
<1>11. \A x \in db'.batches : x \in db.batches /\ x.payload # HeadOf(u)
  BY <1>5, <1>7
<1> QED
  BY <1>1, <1>6, <1>7, <1>8, <1>9, <1>10, <1>11

(* An ingest answers with an error and changes nothing, or takes the       *)
(* envelope in, or has it already; then only expired rows leave.           *)
LEMMA ServeEffect ==
  ASSUME IInv, NEW q \in requests, NEW now \in Times, Serve(q, now)
  PROVE  /\ q.envelope \in Built
         /\ limits \in ControlLimits
         /\ \/ /\ reply'.status \in C!Errors
               /\ ingested' = ingested /\ accepted' = accepted /\ undone' = undone
            \/ /\ reply'.status \in C!Acks
               /\ accepted' = accepted \cup {q.envelope}
               /\ C!RowOf(q.envelope) \in ingested'
               /\ undone' = undone \ {q.envelope}
               /\ \A r \in ingested \ ingested' :
                    r.created_at < SaturatingSub(now, limits.max_age_seconds)
<1> DEFINE e == q.envelope
<1>1. e \in Built
  BY DEF IInv, UploadsTyped
<1>2. C!Ingest(e, now)
  BY DEF Serve
<1>3. undone' = IF reply'.status \in C!Acks THEN undone \ {e} ELSE undone
  BY DEF Serve
<1>4. limits \in ControlLimits \cup {Down} /\ accepted \subseteq Built
  BY ControlFacts DEF IInv, C!TypeOK
<1>5. C!Acks \cap C!Errors = {}
  BY DEF C!Acks, C!Errors
<1>6. limits # Down
  BY <1>2 DEF C!Ingest, C!IngestTooLarge, C!IngestInvalid, C!IngestDuplicate,
     C!IngestConflict, C!IngestInserted, C!IngestFull, C!IngestUnstorable
<1>7. \A r \in ingested : r \notin C!KeptBatches(now) =>
        r.created_at < SaturatingSub(now, limits.max_age_seconds)
  BY DEF C!KeptBatches, C!Expired, C!SaturatingSub, SaturatingSub
<1>8. CASE C!IngestInserted(e, now)
  <2>1. /\ ingested' = C!KeptBatches(now) \cup {C!RowOf(e)}
        /\ accepted' = accepted \cup {e} /\ reply'.status = "inserted"
    BY <1>8 DEF C!IngestInserted, C!Commit, C!BatchesWith, C!Answer
  <2> QED
    BY <1>1, <1>3, <1>4, <1>6, <1>7, <2>1 DEF C!Acks
<1>9. CASE C!IngestDuplicate(e, now)
  <2>1. PICK r \in C!SameId(e, now) : r.checksum = e.checksum
    BY <1>9 DEF C!IngestDuplicate
  <2>2. /\ ingested' = C!KeptBatches(now) /\ accepted' = accepted
        /\ reply'.status = "duplicate"
    BY <1>9 DEF C!IngestDuplicate, C!Commit, C!Answer
  <2>3. r \in C!KeptBatches(now) /\ r \in ingested
    BY <2>1 DEF C!SameId, C!KeptBatches
  <2>4. PICK x \in accepted : r = C!RowOf(x)
    BY <2>3, ControlFacts DEF IInv
  <2>5. x = e
    BY <1>1, <1>4, <2>1, <2>4, ChecksumNames DEF C!RowOf
  <2> QED
    BY <1>1, <1>3, <1>4, <1>6, <1>7, <2>2, <2>3, <2>4, <2>5 DEF C!Acks
<1>10. CASE \/ C!IngestTooLarge(e, now) \/ C!IngestInvalid(e, now)
            \/ C!IngestConflict(e, now) \/ C!IngestFull(e, now)
            \/ C!IngestUnstorable(e, now)
  <2>1. ingested' = ingested /\ accepted' = accepted /\ reply'.status \in C!Errors
    BY <1>10 DEF C!IngestTooLarge, C!IngestInvalid, C!IngestConflict, C!IngestFull,
       C!IngestUnstorable, C!Answer, C!store, C!Errors
  <2> QED
    BY <1>1, <1>3, <1>4, <1>5, <1>6, <2>1
<1> QED
  BY <1>2, <1>8, <1>9, <1>10 DEF C!Ingest

-------------------------------------------------------------------------------
(* The steps keep the invariant.                                           *)

(* Whatever is about was built by a writer.                                *)
LEMMA KnownBuilt ==
  ASSUME IInv
  PROVE  Known \subseteq Built
<1>1. accepted \subseteq Built
  BY ControlFacts DEF IInv, C!TypeOK
<1>2. Sent \subseteq Built
  BY DEF IInv, UploadsTyped, Sent
<1>3. Queued \subseteq Built
  BY DEF IInv, UploadsTyped, Queued, Job
<1>4. Payloads(db.log) \subseteq Built /\ Payloads(durable.log) \subseteq Built
  BY DEF IInv, RowsBuilt, RowBuilt, Payloads
<1> QED
  BY <1>1, <1>2, <1>3, <1>4 DEF Known

(* What carries the boot id of this boot has a number below the next one.  *)
LEMMA NumbersGivenOut ==
  ASSUME IInv, OwnBoot, NEW e \in Known, e.body.origin[2] = boot
  PROVE  e.body.seq \in Nat /\ e.body.seq < db.next_seq
<1>1. PICK r \in db.log : r.payload = e
  BY DEF IInv, NewestInFile, Payloads
<1>2. r.seq = e.body.seq
  BY <1>1 DEF IInv, RowsBuilt, RowBuilt
<1>3. r.seq \in 0 .. db.next_seq - 1 /\ db.next_seq \in Nat
  BY SpoolFacts DEF IInv, S!Accounted, S!Seqs, S!Database
<1> QED
  BY <1>2, <1>3

(* At the first boot nothing carries another boot id.                      *)
LEMMA FirstBoot ==
  ASSUME IInv, boot = 0, NEW e \in Known
  PROVE  OwnBoot /\ e.body.origin[2] = boot
<1>1. OwnBoot
  BY DEF OwnBoot
<1>2. e.body.origin[2] <= boot
  BY <1>1 DEF IInv, NewestInFile
<1>3. e \in Built
  BY KnownBuilt
<1>4. MaxBoots \in Nat
  BY AgentAssumption
<1>5. e.body.origin[2] \in Nat
  BY <1>3, <1>4, BuiltEnvelope
<1> QED
  BY <1>1, <1>2, <1>5

(* When nothing new turns up, no name is taken twice and the file has lost *)
(* nothing.                                                                *)
LEMMA KnownKept ==
  ASSUME IInv, boot' = boot, Known' \subseteq Known,
         Payloads(db.log) \subseteq Payloads(db.log)'
  PROVE  NewestInFile' /\ OneInItsPlace'
BY DEF IInv, NewestInFile, OneInItsPlace, OwnBoot

(* A step that leaves the spool alone and adds to what was taken in keeps  *)
(* what is known of the spool's rows.                                      *)
LEMMA SpoolStays ==
  ASSUME IInv, UNCHANGED spool, accepted \subseteq accepted'
  PROVE  RowsBuilt' /\ ForgottenDelivered'
<1>1. /\ db' = db /\ durable' = durable /\ draft' = draft /\ pc' = pc /\ boot' = boot
  BY DEF spool
<1>2. RowsBuilt'
  BY <1>1 DEF IInv, RowsBuilt, RowBuilt, S!Enqueuing, S!OriginOf
<1>3. ForgottenDelivered'
  BY <1>1 DEF IInv, ForgottenDelivered, Forgotten
<1> QED
  BY <1>2, <1>3

(* A step that leaves alone what the control plane stores, and what it     *)
(* answers, keeps what is known of it.                                     *)
LEMMA PlaneStays ==
  ASSUME IInv, OwnBoot' => OwnBoot
  PROVE  /\ UNCHANGED <<ingested, accepted, undone>> => AcceptedHeld'
         /\ UNCHANGED reply => NoConflictSoFar'
<1>1. UNCHANGED <<ingested, accepted, undone>> => AcceptedHeld'
  BY DEF IInv, AcceptedHeld, Outlived, C!RowOf
<1>2. UNCHANGED reply => NoConflictSoFar'
  BY DEF IInv, NoConflictSoFar, NoConflict
<1> QED
  BY <1>1, <1>2

(* A step that leaves the uploads and what was taken in alone keeps what   *)
(* is known of them.                                                       *)
LEMMA UploadsStay ==
  ASSUME IInv, UNCHANGED <<accepted, job, requests, stops, undone>>
  PROVE  UploadsTyped' /\ RequestsAsked' /\ AnswersTrue'
BY DEF IInv, UploadsTyped, RequestsAsked, AnswersTrue, HeadOf

(* An enqueue, or any other step of a writer.                              *)
LEMMA WriterKeeps ==
  ASSUME IInv, SP!IInv', CP!IInv', NEW w \in Writers, S!WriterStep(w),
         UNCHANGED <<control, job, requests, stops, undone>>
  PROVE  IInv'
<1>1. /\ durable' = durable /\ boot' = boot
      /\ \/ db' = db
         \/ w \in S!Enqueuing /\ FileGrows(draft[w])
      /\ \A x \in S!Enqueuing' :
           (x \in S!Enqueuing /\ draft'[x] = draft[x]) \/ Drafted(x)
  BY WriterEffect DEF IInv
<1>2. UploadsTyped' /\ RequestsAsked' /\ AnswersTrue'
  BY UploadsStay DEF control
<1>3. AcceptedHeld' /\ NoConflictSoFar'
  BY <1>1, PlaneStays DEF OwnBoot, control
<1>4. ASSUME NEW x \in S!Enqueuing'
      PROVE  (RowBuilt(draft[x]) /\ draft[x].payload.body.origin = S!OriginOf(x))'
  <2>1. S!OriginOf(x)' = S!OriginOf(x) /\ x \in Writers
    BY <1>1 DEF S!OriginOf, S!Enqueuing
  <2>2. CASE x \in S!Enqueuing /\ draft'[x] = draft[x]
    BY <2>1, <2>2 DEF IInv, RowsBuilt, RowBuilt
  <2>3. CASE Drafted(x)
    <3>1. RowBuilt(draft'[x]) /\ draft'[x].payload.body.origin = S!OriginOf(x)
      BY <2>1, <2>3, DraftedBuilt DEF IInv
    <3> QED
      BY <2>1, <3>1 DEF RowBuilt
  <2> QED
    BY <1>1, <2>2, <2>3
<1>5. CASE db' = db
  <2>1. RowsBuilt'
    <3>1. (\A r \in db.log \cup durable.log : RowBuilt(r))'
      BY <1>1, <1>5 DEF IInv, RowsBuilt, RowBuilt
    <3> QED
      BY <1>4, <3>1 DEF RowsBuilt
  <2>2. ForgottenDelivered'
    BY <1>1, <1>5 DEF IInv, ForgottenDelivered, Forgotten, control
  <2>3. Known' = Known /\ Payloads(db.log)' = Payloads(db.log)
    BY <1>1, <1>5 DEF Known, Payloads, Sent, Queued, control
  <2>4. NewestInFile' /\ OneInItsPlace'
    BY <1>1, <2>3, KnownKept
  <2>5. SnapshotsWhole' /\ NothingOlder'
    BY <1>1, <1>5 DEF IInv, SnapshotsWhole, NothingOlder, Sent, control
  <2> QED
    BY <1>2, <1>3, <2>1, <2>2, <2>4, <2>5 DEF IInv
<1>6. CASE w \in S!Enqueuing /\ FileGrows(draft[w])
  <2> DEFINE row == draft[w]
             e   == row.payload
  <2>1. /\ db'.next_seq = db.next_seq + 1
        /\ db'.log = db.log \cup {row} /\ db'.acked = db.acked
        /\ db'.batches \subseteq db.batches \cup {row}
        /\ row.seq = db.next_seq
    BY <1>6 DEF FileGrows
  <2>2. RowBuilt(row) /\ e.body.origin = S!OriginOf(w)
    BY <1>6 DEF IInv, RowsBuilt
  <2>3. e \in Built /\ e.body.seq = db.next_seq
    BY <2>1, <2>2 DEF RowBuilt
  <2>4. boot \in Nat /\ (OwnBoot => e.body.origin[2] = boot)
    <3>1. boot \in 0 .. MaxBoots
      BY SpoolFacts DEF IInv, S!TypeOK
    <3> QED
      BY <2>2, <3>1 DEF S!OriginOf, OwnBoot
  <2>5. /\ Known' = Known \cup {e}
        /\ Payloads(db.log)' = Payloads(db.log) \cup {e}
    <3>1. Payloads(db.log)' = Payloads(db.log) \cup {e}
      BY <2>1 DEF Payloads
    <3>2. Payloads(durable.log)' = Payloads(durable.log)
      BY <1>1
    <3>3. accepted' = accepted /\ Queued' = Queued /\ Sent' = Sent
      BY DEF control, Queued, Sent
    <3> QED
      BY <3>1, <3>2, <3>3 DEF Known
  <2> HIDE DEF row, e
  <2>6. OwnBoot' = OwnBoot
    BY <1>1 DEF OwnBoot
  <2>7. RowsBuilt'
    <3>1. (\A r \in db.log \cup durable.log : RowBuilt(r))'
      BY <1>1, <2>1, <2>2 DEF IInv, RowsBuilt, RowBuilt
    <3> QED
      BY <1>4, <3>1 DEF RowsBuilt
  <2>8. ForgottenDelivered'
    <3>1. row.seq \notin db'.acked
      BY <2>1, SpoolFacts DEF IInv, S!Accounted, S!Database
    <3>2. Forgotten(db)'
      BY <2>1, <3>1 DEF IInv, ForgottenDelivered, Forgotten, control
    <3> QED
      BY <1>1, <2>1, <3>2 DEF IInv, ForgottenDelivered, Forgotten, control
  <2>9. NewestInFile'
    BY <1>1, <2>4, <2>5, <2>6 DEF IInv, NewestInFile
  <2>10. OneInItsPlace'
    <3>1. ASSUME OwnBoot, NEW x \in Known, x.body.origin = e.body.origin
          PROVE  x.body.seq # e.body.seq
      BY <2>3, <2>4, <3>1, NumbersGivenOut
    <3> QED
      BY <2>5, <2>6, <3>1 DEF IInv, OneInItsPlace
  <2>11. ASSUME boot = 0, NEW x \in Known
         PROVE  x.body.seq \in Nat /\ x.body.seq < row.seq
    BY <2>1, <2>11, FirstBoot, NumbersGivenOut
  <2>12. SnapshotsWhole'
    <3> SUFFICES ASSUME boot = 0, NEW r \in db'.batches, NEW u \in Uploaders,
                        NEW x \in job[u].todo, r.seq < x.body.seq
                 PROVE  r.payload \in job[u].todo
      BY <1>1 DEF SnapshotsWhole
    <3>1. x \in Known
      BY DEF Known, Queued
    <3>2. r \in db.batches
      BY <2>1, <2>11, <3>1, SpoolFacts DEF IInv, S!Database
    <3> QED
      BY <3>2 DEF IInv, SnapshotsWhole
  <2>13. NothingOlder'
    <3> SUFFICES ASSUME boot = 0, NEW r \in db'.batches,
                        NEW x \in accepted \cup Sent
                 PROVE  x.body.seq <= r.seq
      BY <1>1 DEF NothingOlder, Sent, control
    <3>1. x \in Known
      BY DEF Known
    <3>2. CASE r = row
      BY <2>1, <2>11, <3>1, <3>2, SpoolFacts DEF IInv, S!Database
    <3> QED
      BY <2>1, <3>2 DEF IInv, NothingOlder
  <2> QED
    BY <1>2, <1>3, <2>7, <2>8, <2>9, <2>10, <2>12, <2>13 DEF IInv
<1> QED
  BY <1>1, <1>5, <1>6

(* The file reaches the disk.                                              *)
LEMMA SyncKeeps ==
  ASSUME IInv, SP!IInv', CP!IInv', S!Sync,
         UNCHANGED <<control, job, requests, stops, undone>>
  PROVE  IInv'
<1>1. durable' = db /\ db' = db /\ pc' = pc /\ draft' = draft /\ boot' = boot
  BY DEF S!Sync
<1>2. UploadsTyped' /\ RequestsAsked' /\ AnswersTrue'
  BY UploadsStay DEF control
<1>3. AcceptedHeld' /\ NoConflictSoFar'
  BY <1>1, PlaneStays DEF OwnBoot, control
<1>4. RowsBuilt'
  BY <1>1 DEF IInv, RowsBuilt, RowBuilt, S!Enqueuing, S!OriginOf
<1>5. ForgottenDelivered'
  BY <1>1 DEF IInv, ForgottenDelivered, Forgotten, control
<1>6. Known' \subseteq Known /\ Payloads(db.log)' = Payloads(db.log)
  BY <1>1 DEF Known, Payloads, Sent, Queued, control
<1>7. NewestInFile' /\ OneInItsPlace'
  BY <1>1, <1>6, KnownKept
<1>8. SnapshotsWhole' /\ NothingOlder'
  BY <1>1 DEF IInv, SnapshotsWhole, NothingOlder, Sent, control
<1> QED
  BY <1>2, <1>3, <1>4, <1>5, <1>7, <1>8 DEF IInv

(* The agent loses power: the processes are gone, and what was sent before *)
(* may still arrive.                                                       *)
LEMMA AgentPowerLossKeeps ==
  ASSUME IInv, SP!IInv', CP!IInv', AgentPowerLoss
  PROVE  IInv'
<1>1. /\ boot \in Nat /\ boot' = boot + 1
      /\ db' = durable /\ durable' = durable
      /\ pc' = [w \in Writers |-> "idle"]
      /\ job' = [u \in Uploaders |-> Idle]
      /\ requests' = {[r EXCEPT !.from = Nobody] : r \in requests}
      /\ UNCHANGED <<control, stops, undone>>
  <2>1. boot \in 0 .. MaxBoots
    BY SpoolFacts DEF IInv, S!TypeOK
  <2> QED
    BY <2>1 DEF AgentPowerLoss, S!PowerLoss
<1>2. /\ requests \subseteq [from : Uploaders \cup {Nobody}, envelope : Built]
      /\ Nobody \notin Uploaders
  BY UploadAssumption DEF IInv, UploadsTyped
<1>3. \A q \in requests' : /\ q.from = Nobody /\ q.envelope \in {x.envelope : x \in requests}
                           /\ q \in [from : Uploaders \cup {Nobody}, envelope : Built]
  BY <1>1, <1>2
<1>4. \A u \in Uploaders : job'[u] = Idle
  BY <1>1
<1>5. S!Enqueuing' = {}
  BY <1>1 DEF S!Enqueuing
<1>6. UploadsTyped'
  <2>1. Idle \in Job
    BY DEF Idle, Job
  <2> QED
    BY <1>1, <1>3, <2>1 DEF IInv, UploadsTyped, control
<1>7. RequestsAsked' /\ AnswersTrue'
  BY <1>2, <1>3, <1>4 DEF RequestsAsked, AnswersTrue, Idle
<1>8. RowsBuilt'
  BY <1>1, <1>5 DEF IInv, RowsBuilt, RowBuilt
<1>9. ForgottenDelivered'
  BY <1>1 DEF IInv, ForgottenDelivered, Forgotten, control
<1>10. AcceptedHeld' /\ NoConflictSoFar'
  BY <1>1, PlaneStays DEF OwnBoot, control
<1>11. Known' \subseteq Known
  <2>1. Queued' = {}
    BY <1>4 DEF Idle, Queued
  <2>2. Sent' \subseteq Sent
    BY <1>3 DEF Sent
  <2>3. Payloads(db.log)' = Payloads(durable.log) /\ Payloads(durable.log)' = Payloads(durable.log)
    BY <1>1
  <2>4. accepted' = accepted
    BY <1>1 DEF control
  <2> QED
    BY <2>1, <2>2, <2>3, <2>4 DEF Known
<1>12. OwnBoot' => OwnBoot
  BY <1>1 DEF OwnBoot
<1>13. NewestInFile'
  <2>1. \A e \in Known : OwnBoot => e.body.origin[2] <= boot /\ e.body.origin[2] \in Nat
    BY KnownBuilt, BuiltEnvelope, AgentAssumption DEF IInv, NewestInFile
  <2> QED
    BY <1>1, <1>11, <1>12, <2>1 DEF NewestInFile
<1>14. OneInItsPlace'
  BY <1>11, <1>12 DEF IInv, OneInItsPlace
<1>15. SnapshotsWhole' /\ NothingOlder'
  BY <1>1 DEF SnapshotsWhole, NothingOlder
<1> QED
  BY <1>6, <1>7, <1>8, <1>9, <1>10, <1>13, <1>14, <1>15 DEF IInv

(* The head of what is left of an upload is one of its oldest batches.     *)
LEMMA HeadIsOldest ==
  ASSUME IInv, NEW u \in Uploaders, job[u].todo # {}
  PROVE  HeadOf(u) \in job[u].todo /\ \A f \in job[u].todo : HeadOf(u).body.seq <= f.body.seq
<1> DEFINE seqs == {f.body.seq : f \in job[u].todo}
<1>1. job[u].todo \subseteq Built
  BY DEF IInv, UploadsTyped, Job
<1>2. seqs \in SUBSET Nat /\ seqs # {}
  BY <1>1, BuiltEnvelope
<1>3. PICK m \in seqs : \A n \in seqs : m <= n
  BY <1>2, SP!MinIsLeast, AgentAssumption
<1>4. PICK e \in job[u].todo : e.body.seq = m
  BY <1>3
<1>5. \A f \in job[u].todo : e.body.seq <= f.body.seq
  BY <1>3, <1>4
<1> QED
  BY <1>5 DEF HeadOf

(* The number of the rows before a row does not grow towards the front.    *)
LEMMA FewerBefore ==
  ASSUME IInv, NEW x \in db.batches, NEW r \in db.batches, r.seq < x.seq
  PROVE  S!Cardinality({y \in db.batches : y.seq < r.seq})
           <= S!Cardinality({y \in db.batches : y.seq < x.seq})
<1> DEFINE before(z) == {y \in db.batches : y.seq < z.seq}
<1>1. \A y \in db.batches : y.seq \in Nat
  BY SpoolFacts DEF IInv, S!Database, S!Row
<1>2. before(r) \subseteq before(x)
  BY <1>1
<1>3. IsFiniteSet(before(x))
  BY SpoolFacts, FS_Subset DEF IInv
<1>4. Cardinality(before(r)) <= Cardinality(before(x))
  BY <1>2, <1>3, FS_Subset
<1> QED
  BY <1>4 DEF Cardinality, S!Cardinality

(* A step of the uploads alone: what they come to hold is from the file,   *)
(* and what they send is what they hold.                                   *)
LEMMA UploadsAlone ==
  ASSUME IInv, SP!IInv', CP!IInv', UNCHANGED <<spool, accepted, reply>>,
         Queued' \subseteq Queued \cup Payloads(db.log), Sent' \subseteq Sent \cup Queued,
         UploadsTyped', RequestsAsked', AnswersTrue', AcceptedHeld',
         SnapshotsWhole', NothingOlder'
  PROVE  IInv'
<1>1. db' = db /\ durable' = durable /\ boot' = boot
  BY DEF spool
<1>2. RowsBuilt' /\ ForgottenDelivered'
  BY SpoolStays
<1>3. NoConflictSoFar'
  BY <1>1, PlaneStays DEF OwnBoot
<1>4. Payloads(db.log)' = Payloads(db.log) /\ Payloads(durable.log)' = Payloads(durable.log)
  BY <1>1
<1>5. Known' \subseteq Known
  BY <1>4 DEF Known
<1>6. NewestInFile' /\ OneInItsPlace'
  BY <1>1, <1>4, <1>5, KnownKept
<1> QED
  BY <1>2, <1>3, <1>6 DEF IInv

(* An upload begins.                                                       *)
LEMMA StartKeeps ==
  ASSUME IInv, SP!IInv', CP!IInv', NEW u \in Uploaders, StartUpload(u)
  PROVE  IInv'
<1> DEFINE todo == S!Pending(UploadLimit)
<1>1. /\ job[u].phase = "idle"
      /\ job' = [job EXCEPT ![u] = [phase |-> "ready", todo |-> todo, answer |-> NoAnswer]]
      /\ UNCHANGED <<spool, control, requests, stops, undone>>
  BY DEF StartUpload
<1>2. todo = {r.payload : r \in {x \in db.batches :
                S!Cardinality({y \in db.batches : y.seq < x.seq}) < UploadLimit}}
  BY DEF S!Pending
<1>3. /\ db.batches \subseteq db.log
      /\ \A r \in db.batches : RowBuilt(r)
  BY SpoolFacts DEF IInv, S!Accounted, RowsBuilt
<1>4. todo \subseteq Built /\ todo \subseteq Payloads(db.log)
  BY <1>2, <1>3 DEF RowBuilt, Payloads
<1>5. /\ db' = db /\ boot' = boot /\ accepted' = accepted /\ requests' = requests
      /\ stops' = stops /\ undone' = undone
  BY <1>1 DEF spool, control
<1>6. \A r \in db.batches, e \in todo : r.seq < e.body.seq => r.payload \in todo
  <2> SUFFICES ASSUME NEW r \in db.batches, NEW e \in todo, r.seq < e.body.seq
               PROVE  r.payload \in todo
    OBVIOUS
  <2>1. PICK x \in db.batches :
          /\ e = x.payload
          /\ S!Cardinality({y \in db.batches : y.seq < x.seq}) < UploadLimit
    BY <1>2
  <2>2. r.seq < x.seq
    BY <1>3, <2>1 DEF RowBuilt
  <2> DEFINE below(z) == {y \in db.batches : y.seq < z.seq}
  <2>3. S!Cardinality(below(r)) <= S!Cardinality(below(x))
    BY <2>2, FewerBefore
  <2>4. \A z : S!Cardinality(below(z)) \in Nat
    <3> SUFFICES ASSUME NEW z
                 PROVE  S!Cardinality(below(z)) \in Nat
      OBVIOUS
    <3>1. IsFiniteSet(below(z))
      BY SpoolFacts, FS_Subset DEF IInv
    <3>2. Cardinality(below(z)) \in Nat
      BY <3>1, FS_CardinalityType
    <3> QED
      BY <3>2 DEF Cardinality, S!Cardinality
  <2>5. S!Cardinality(below(r)) < UploadLimit
    <3>1. S!Cardinality(below(r)) \in Nat /\ S!Cardinality(below(x)) \in Nat
      BY <2>4
    <3>2. S!Cardinality(below(x)) < UploadLimit
      BY <2>1
    <3> HIDE DEF below
    <3> QED
      BY <2>3, <3>1, <3>2, UploadAssumption
  <2> QED
    BY <1>2, <2>5
<1> HIDE DEF todo
<1>7. /\ job \in [Uploaders -> Job]
      /\ job' \in [Uploaders -> Job]
      /\ job'[u] = [phase |-> "ready", todo |-> todo, answer |-> NoAnswer]
      /\ \A v \in Uploaders \ {u} : job'[v] = job[v]
  BY <1>1, <1>4 DEF IInv, UploadsTyped, Job
<1>8. UploadsTyped'
  BY <1>5, <1>7 DEF IInv, UploadsTyped
<1>9. \A v \in Uploaders \ {u} : HeadOf(v)' = HeadOf(v)
  BY <1>7 DEF HeadOf
<1>10. RequestsAsked'
  BY <1>1, <1>5, <1>7, <1>9 DEF IInv, RequestsAsked
<1>11. AnswersTrue'
  BY <1>5, <1>7, <1>9 DEF IInv, AnswersTrue
<1>12. SnapshotsWhole'
  BY <1>5, <1>6, <1>7 DEF IInv, SnapshotsWhole
<1>13. NothingOlder'
  BY <1>5 DEF IInv, NothingOlder, Sent
<1>14. Queued' \subseteq Queued \cup Payloads(db.log) /\ Sent' \subseteq Sent \cup Queued
  BY <1>4, <1>5, <1>7 DEF Queued, Sent
<1>15. AcceptedHeld'
  BY <1>1, <1>5, PlaneStays DEF OwnBoot, control
<1> QED
  BY <1>1, <1>8, <1>10, <1>11, <1>12, <1>13, <1>14, <1>15,
     UploadsAlone DEF control

(* A batch is posted: the oldest that is left, and nothing older than it   *)
(* is pending.                                                             *)
LEMMA PostKeeps ==
  ASSUME IInv, SP!IInv', CP!IInv', NEW u \in Uploaders, Post(u)
  PROVE  IInv'
<1>1. /\ job[u].phase = "ready" /\ job[u].todo # {}
      /\ requests' = requests \cup {[from |-> u, envelope |-> HeadOf(u)]}
      /\ job' = [job EXCEPT ![u].phase = "waiting"]
      /\ UNCHANGED <<spool, control, stops, undone>>
  BY DEF Post
<1>2. /\ db' = db /\ boot' = boot /\ accepted' = accepted
      /\ stops' = stops /\ undone' = undone
  BY <1>1 DEF spool, control
<1>3. /\ HeadOf(u) \in job[u].todo
      /\ \A f \in job[u].todo : HeadOf(u).body.seq <= f.body.seq
  BY <1>1, HeadIsOldest
<1>4. HeadOf(u) \in Built /\ HeadOf(u) \in Queued
  BY <1>3 DEF IInv, UploadsTyped, Queued, Job
<1>5. /\ job' \in [Uploaders -> Job]
      /\ job'[u].phase = "waiting"
      /\ \A v \in Uploaders : job'[v].todo = job[v].todo
      /\ \A v \in Uploaders \ {u} : job'[v] = job[v]
  BY <1>1 DEF IInv, UploadsTyped, Job
<1>6. UploadsTyped'
  BY <1>1, <1>2, <1>4, <1>5 DEF IInv, UploadsTyped
<1>7. \A v \in Uploaders : HeadOf(v)' = HeadOf(v)
  BY <1>5 DEF HeadOf
<1>8. RequestsAsked'
  BY <1>1, <1>5, <1>7 DEF IInv, RequestsAsked
<1>9. AnswersTrue'
  BY <1>2, <1>5, <1>7 DEF IInv, AnswersTrue
<1>10. SnapshotsWhole'
  BY <1>2, <1>5 DEF IInv, SnapshotsWhole
<1>11. Sent' = Sent \cup {HeadOf(u)}
  <2> DEFINE new == [from |-> u, envelope |-> HeadOf(u)]
  <2>1. new.envelope = HeadOf(u) /\ requests' = requests \cup {new}
    BY <1>1
  <2> HIDE DEF new
  <2> QED
    BY <2>1 DEF Sent
<1>12. ASSUME boot = 0, NEW r \in db.batches
       PROVE  HeadOf(u).body.seq <= r.seq
  <2>1. r.seq \in Nat /\ RowBuilt(r) /\ HeadOf(u).body.seq \in Nat
    BY <1>4, BuiltEnvelope, SpoolFacts DEF IInv, RowsBuilt, S!Accounted, S!Database, S!Row
  <2>2. r.seq < HeadOf(u).body.seq => r.payload \in job[u].todo
    BY <1>3, <1>12 DEF IInv, SnapshotsWhole
  <2> QED
    BY <1>3, <2>1, <2>2 DEF RowBuilt
<1>13. NothingOlder'
  BY <1>2, <1>11, <1>12 DEF IInv, NothingOlder
<1>14. Queued' \subseteq Queued \cup Payloads(db.log) /\ Sent' \subseteq Sent \cup Queued
  BY <1>4, <1>5, <1>11 DEF Queued
<1>15. AcceptedHeld'
  BY <1>1, <1>2, PlaneStays DEF OwnBoot, control
<1> QED
  BY <1>1, <1>6, <1>8, <1>9, <1>10, <1>13, <1>14, <1>15,
     UploadsAlone DEF control

(* An upload ends, as it should or not, and what it had sent has arrived,  *)
(* is dropped, or goes on without it.                                      *)
LEMMA EndKeeps ==
  ASSUME IInv, SP!IInv', CP!IInv', NEW u \in Uploaders,
         \/ AcknowledgeMismatch(u) \/ Refused(u) \/ Done(u) \/ AbortUpload(u)
  PROVE  IInv'
<1>1. /\ job' = [job EXCEPT ![u] = Idle]
      /\ UNCHANGED <<spool, control, stops, undone>>
  BY DEF AcknowledgeMismatch, Refused, Done, AbortUpload
<1>2. /\ db' = db /\ boot' = boot /\ accepted' = accepted
      /\ stops' = stops /\ undone' = undone
  BY <1>1 DEF spool, control
<1>3. /\ requests \subseteq [from : Uploaders \cup {Nobody}, envelope : Built]
      /\ Nobody \notin Uploaders
  BY UploadAssumption DEF IInv, UploadsTyped
<1>4. \A q \in requests' :
        \/ q \in requests /\ q.from # u
        \/ q.from = Nobody /\ \E x \in requests : q = [x EXCEPT !.from = Nobody]
  <2>1. CASE requests' = requests /\ job[u].phase # "waiting"
    BY <2>1 DEF IInv, RequestsAsked
  <2>2. CASE AbortUpload(u)
    BY <1>3, <2>2 DEF AbortUpload, Orphan
  <2> QED
    BY <2>1, <2>2 DEF AcknowledgeMismatch, Refused, Done
<1>5. \A q \in requests' :
        /\ q \in [from : Uploaders \cup {Nobody}, envelope : Built]
        /\ q.envelope \in Sent
        /\ q.from \in Uploaders => q \in requests /\ q.from # u
  BY <1>3, <1>4 DEF Sent
<1>6. /\ job' \in [Uploaders -> Job]
      /\ job'[u] = Idle
      /\ \A v \in Uploaders \ {u} : job'[v] = job[v]
  BY <1>1 DEF IInv, UploadsTyped, Idle, Job
<1>7. UploadsTyped'
  BY <1>2, <1>5, <1>6 DEF IInv, UploadsTyped
<1>8. \A v \in Uploaders \ {u} : HeadOf(v)' = HeadOf(v)
  BY <1>6 DEF HeadOf
<1>9. RequestsAsked'
  BY <1>5, <1>6, <1>8 DEF IInv, RequestsAsked
<1>10. AnswersTrue'
  BY <1>2, <1>6, <1>8 DEF IInv, AnswersTrue, Idle
<1>11. SnapshotsWhole'
  BY <1>2, <1>6 DEF IInv, SnapshotsWhole, Idle
<1>12. Sent' \subseteq Sent
  BY <1>5 DEF Sent
<1>13. NothingOlder'
  BY <1>2, <1>12 DEF IInv, NothingOlder
<1>14. Queued' \subseteq Queued \cup Payloads(db.log) /\ Sent' \subseteq Sent \cup Queued
  BY <1>6, <1>12 DEF Queued, Idle
<1>15. AcceptedHeld'
  BY <1>1, <1>2, PlaneStays DEF OwnBoot, control
<1> QED
  BY <1>1, <1>7, <1>9, <1>10, <1>11, <1>13, <1>14, <1>15,
     UploadsAlone DEF control

(* A request is lost.                                                      *)
LEMMA LoseKeeps ==
  ASSUME IInv, SP!IInv', CP!IInv', NEW q \in requests, LoseOrphan(q)
  PROVE  IInv'
<1>1. /\ requests' = requests \ {q} /\ job' = job
      /\ UNCHANGED <<spool, control, stops, undone>>
  BY DEF LoseOrphan
<1>2. db' = db /\ boot' = boot /\ accepted' = accepted
  BY <1>1 DEF spool, control
<1>3. UploadsTyped'
  BY <1>1, <1>2 DEF IInv, UploadsTyped
<1>4. RequestsAsked' /\ AnswersTrue'
  BY <1>1, <1>2 DEF IInv, RequestsAsked, AnswersTrue, HeadOf
<1>5. Sent' \subseteq Sent /\ Queued' = Queued
  BY <1>1 DEF Sent, Queued
<1>6. SnapshotsWhole' /\ NothingOlder'
  BY <1>1, <1>2, <1>5 DEF IInv, SnapshotsWhole, NothingOlder
<1>7. AcceptedHeld'
  BY <1>1, <1>2, PlaneStays DEF OwnBoot, control
<1> QED
  BY <1>1, <1>3, <1>4, <1>5, <1>6, <1>7,
     UploadsAlone DEF control

(* An acknowledgement: the row that leaves the spool is that of the head,  *)
(* which has been taken in.                                                *)
LEMMA AcknowledgeKeeps ==
  ASSUME IInv, SP!IInv', CP!IInv', NEW u \in Uploaders, AcknowledgeHead(u)
  PROVE  IInv'
<1>1. PICK x \in db.log : /\ x.payload = HeadOf(u) /\ HeadOf(u) \in accepted
                         /\ db'.acked = db.acked \cup {x.seq}
  BY AcknowledgeEffect
<1>2. /\ db'.log = db.log /\ durable' = durable /\ pc' = pc /\ draft' = draft
      /\ boot' = boot
      /\ \A r \in db'.batches : r \in db.batches /\ r.payload # HeadOf(u)
  BY AcknowledgeEffect
<1>3. /\ job[u].phase = "answered"
      /\ job' = [job EXCEPT ![u] = [phase |-> "ready", todo |-> @.todo \ {HeadOf(u)},
                                   answer |-> NoAnswer]]
      /\ UNCHANGED <<control, requests, stops, undone>>
  BY DEF AcknowledgeHead
<1>4. /\ job' \in [Uploaders -> Job]
      /\ job'[u].todo = job[u].todo \ {HeadOf(u)} /\ job'[u].phase = "ready"
      /\ \A v \in Uploaders \ {u} : job'[v] = job[v]
  BY <1>3 DEF IInv, UploadsTyped, Job
<1>5. accepted' = accepted /\ requests' = requests /\ stops' = stops /\ undone' = undone
  BY <1>3 DEF control
<1>6. UploadsTyped'
  BY <1>4, <1>5 DEF IInv, UploadsTyped
<1>7. \A v \in Uploaders \ {u} : HeadOf(v)' = HeadOf(v)
  BY <1>4 DEF HeadOf
<1>8. RequestsAsked'
  BY <1>3, <1>4, <1>5, <1>7 DEF IInv, RequestsAsked
<1>9. AnswersTrue'
  BY <1>4, <1>5, <1>7 DEF IInv, AnswersTrue
<1>10. AcceptedHeld' /\ NoConflictSoFar'
  BY <1>2, <1>3, PlaneStays DEF OwnBoot, control
<1>11. RowsBuilt'
  BY <1>2 DEF IInv, RowsBuilt, RowBuilt, S!Enqueuing, S!OriginOf
<1>12. ForgottenDelivered'
  <2>1. \A r \in db.log : r.seq = x.seq => r.payload \in accepted
    BY <1>1, SpoolFacts DEF IInv, S!Accounted
  <2>2. Forgotten(db)'
    BY <1>1, <1>2, <1>5, <2>1 DEF IInv, ForgottenDelivered, Forgotten
  <2> QED
    BY <1>1, <1>2, <1>5, <2>2 DEF IInv, ForgottenDelivered, Forgotten
<1>13. Known' \subseteq Known /\ Payloads(db.log)' = Payloads(db.log)
  <2>1. Queued' \subseteq Queued /\ Sent' = Sent
    BY <1>4, <1>5 DEF Queued, Sent
  <2>2. /\ Payloads(db.log)' = Payloads(db.log)
        /\ Payloads(durable.log)' = Payloads(durable.log)
    BY <1>2 DEF Payloads
  <2> QED
    BY <1>5, <2>1, <2>2 DEF Known
<1>14. NewestInFile' /\ OneInItsPlace'
  BY <1>2, <1>13, KnownKept
<1>15. SnapshotsWhole'
  BY <1>2, <1>4 DEF IInv, SnapshotsWhole
<1>16. NothingOlder'
  BY <1>2, <1>5 DEF IInv, NothingOlder, Sent
<1> QED
  BY <1>6, <1>8, <1>9, <1>10, <1>11, <1>12, <1>14, <1>15, <1>16 DEF IInv

(* With one batch in every place no posted batch conflicts with a stored   *)
(* one.                                                                    *)
LEMMA NeverConflicts ==
  ASSUME IInv, OwnBoot, NEW e \in Known, NEW now
  PROVE  ~ C!IngestConflict(e, now)
<1>1. e \in Built
  BY KnownBuilt
<1>2. ASSUME NEW r \in C!KeptBatches(now)
      PROVE  \E x \in accepted : x \in Built /\ x \in Known /\ r = C!RowOf(x)
  <2>1. r \in ingested
    BY DEF C!KeptBatches
  <2>2. accepted \subseteq Known
    BY DEF Known
  <2> QED
    BY <2>1, <2>2, KnownBuilt, ControlFacts DEF IInv
<1>3. ASSUME NEW r \in C!SameId(e, now)
      PROVE  r.checksum = e.checksum
  <2>1. r \in C!KeptBatches(now) /\ r.batch_id = e.batch_id
    BY DEF C!SameId
  <2>2. PICK x \in Built : r = C!RowOf(x)
    BY <1>2, <2>1
  <2>3. x.batch_id = e.batch_id /\ r.checksum = x.checksum
    BY <2>1, <2>2 DEF C!RowOf
  <2>4. /\ e.batch_id = <<e.body.origin, e.body.seq, e.checksum>>
        /\ x.batch_id = <<x.body.origin, x.body.seq, x.checksum>>
    BY <1>1, BuiltEnvelope
  <2> QED
    BY <2>3, <2>4
<1>4. ASSUME NEW r \in C!SameSeq(e, now)
      PROVE  r \in C!SameId(e, now)
  <2>1. r \in C!KeptBatches(now) /\ r.origin = e.body.origin /\ r.seq = e.body.seq
    BY DEF C!SameSeq
  <2>2. PICK x \in Known : r = C!RowOf(x)
    BY <1>2, <2>1
  <2>3. x.body.origin = e.body.origin /\ x.body.seq = e.body.seq /\ r.batch_id = x.batch_id
    BY <2>1, <2>2 DEF C!RowOf
  <2>4. x = e
    BY <2>3 DEF IInv, OneInItsPlace
  <2> QED
    BY <2>1, <2>3, <2>4 DEF C!SameId
<1> QED
  BY <1>3, <1>4 DEF C!IngestConflict

(* A request is served.                                                    *)
LEMMA ServeKeeps ==
  ASSUME IInv, SP!IInv', CP!IInv', NEW q \in requests, NEW now \in Times, Serve(q, now)
  PROVE  IInv'
<1> DEFINE e == q.envelope
<1>1. /\ requests' = requests \ {q}
      /\ job' = [u \in Uploaders |->
                   IF u = q.from
                     THEN [job[u] EXCEPT !.phase = "answered", !.answer = reply'.status]
                     ELSE job[u]]
      /\ UNCHANGED <<spool, stops>>
  BY DEF Serve
<1>2. /\ e \in Built /\ limits \in ControlLimits
      /\ \/ /\ reply'.status \in C!Errors
            /\ ingested' = ingested /\ accepted' = accepted /\ undone' = undone
         \/ /\ reply'.status \in C!Acks
            /\ accepted' = accepted \cup {e}
            /\ C!RowOf(e) \in ingested'
            /\ undone' = undone \ {e}
            /\ \A r \in ingested \ ingested' :
                 r.created_at < SaturatingSub(now, limits.max_age_seconds)
  BY ServeEffect
<1>3. db' = db /\ durable' = durable /\ boot' = boot
  BY <1>1 DEF spool
<1>4. /\ requests \subseteq [from : Uploaders \cup {Nobody}, envelope : Built]
      /\ \A x \in requests : x.from \in Uploaders =>
           job[x.from].phase = "waiting" /\ x.envelope = HeadOf(x.from)
  BY DEF IInv, UploadsTyped, RequestsAsked
<1>5. /\ job' \in [Uploaders -> Job]
      /\ \A v \in Uploaders : job'[v].todo = job[v].todo
      /\ \A v \in Uploaders \ {q.from} : job'[v] = job[v]
      /\ q.from \in Uploaders => job'[q.from].answer = reply'.status
  <2>1. reply'.status \in C!Acks \cup C!Errors
    BY <1>2
  <2>2. \A v \in Uploaders : job[v] \in Job
    BY DEF IInv, UploadsTyped
  <2>3. q.from \in Uploaders =>
          /\ job'[q.from].todo = job[q.from].todo /\ job'[q.from].answer = reply'.status
          /\ job'[q.from] \in Job
    <3> SUFFICES ASSUME q.from \in Uploaders
                 PROVE  /\ job'[q.from].todo = job[q.from].todo
                        /\ job'[q.from].answer = reply'.status
                        /\ job'[q.from] \in Job
      OBVIOUS
    <3> DEFINE was == job[q.from]
    <3>1. /\ job'[q.from] = [was EXCEPT !.phase = "answered", !.answer = reply'.status]
          /\ was \in Job
      BY <1>1, <2>2
    <3> HIDE DEF was
    <3> QED
      BY <2>1, <3>1 DEF Job, was
  <2>4. \A v \in Uploaders \ {q.from} : job'[v] = job[v]
    BY <1>1
  <2> QED
    BY <1>1, <2>2, <2>3, <2>4
<1>6. \A v \in Uploaders : HeadOf(v)' = HeadOf(v)
  BY <1>5 DEF HeadOf
<1>7. UploadsTyped'
  BY <1>1, <1>2, <1>4, <1>5 DEF IInv, UploadsTyped
<1>8. RequestsAsked'
  <2> SUFFICES ASSUME NEW x \in requests', x.from \in Uploaders
               PROVE  job'[x.from].phase = "waiting" /\ x.envelope = HeadOf(x.from)'
    BY DEF RequestsAsked
  <2>1. x \in requests /\ x # q
    BY <1>1
  <2>2. x.from # q.from
    <3>1. x.from = q.from => x.envelope = q.envelope
      BY <1>4, <2>1
    <3> QED
      BY <1>4, <2>1, <3>1
  <2> QED
    BY <1>4, <1>5, <1>6, <2>1, <2>2
<1>9. AnswersTrue'
  <2> SUFFICES ASSUME NEW u \in Uploaders, job'[u].phase = "answered",
                      job'[u].answer \in C!Acks
               PROVE  HeadOf(u) \in accepted'
    BY <1>6 DEF AnswersTrue
  <2>1. CASE u = q.from
    <3>1. reply'.status \in C!Acks
      BY <1>5, <2>1
    <3>2. e \in accepted'
      BY <1>2, <3>1 DEF C!Acks, C!Errors
    <3> QED
      BY <1>4, <2>1, <3>2
  <2>2. CASE u # q.from
    <3>1. HeadOf(u) \in accepted
      BY <1>5, <2>2 DEF IInv, AnswersTrue
    <3> QED
      BY <1>2, <3>1
  <2> QED
    BY <2>1, <2>2
<1>10. RowsBuilt' /\ ForgottenDelivered'
  BY <1>1, <1>2, SpoolStays
<1>11. AcceptedHeld'
  <2> SUFFICES ASSUME NEW x \in accepted'
               PROVE  C!RowOf(x) \in ingested' \/ x \in undone' \/ Outlived(x)
    BY DEF AcceptedHeld, C!RowOf, Outlived
  <2>1. CASE x \in accepted /\ C!RowOf(x) \in ingested \ ingested'
    <3>1. C!RowOf(x).created_at < SaturatingSub(now, limits.max_age_seconds)
      BY <1>2, <2>1
    <3>2. C!RowOf(x).created_at = x.body.created_at
      BY DEF C!RowOf
    <3> QED
      BY <1>2, <3>1, <3>2 DEF Outlived
  <2> QED
    BY <1>2, <2>1 DEF IInv, AcceptedHeld
<1>12. e \in Known /\ e \in Sent
  BY DEF Known, Sent
<1>13. Sent' \subseteq Sent /\ Queued' = Queued
  <2>1. Sent' \subseteq Sent
    BY <1>1 DEF Sent
  <2>2. Queued' = Queued
    BY <1>5 DEF Queued
  <2> QED
    BY <2>1, <2>2
<1>14. accepted' \subseteq accepted \cup Sent
  BY <1>2, <1>12
<1>15. NewestInFile' /\ OneInItsPlace'
  <2>1. /\ Payloads(db.log)' = Payloads(db.log)
        /\ Payloads(durable.log)' = Payloads(durable.log)
    BY <1>3
  <2>2. Known' \subseteq Known
    BY <1>13, <1>14, <2>1 DEF Known
  <2> QED
    BY <1>3, <2>1, <2>2, KnownKept
<1>16. NoConflictSoFar'
  <2>1. OwnBoot => ~ C!IngestConflict(e, now)
    BY <1>12, NeverConflicts
  <2>2. C!Ingest(e, now)
    BY DEF Serve
  <2>3. reply'.status = "conflict" => C!IngestConflict(e, now)
    BY <2>2 DEF C!Ingest, C!IngestTooLarge, C!IngestInvalid, C!IngestDuplicate,
       C!IngestInserted, C!IngestFull, C!IngestUnstorable, C!Answer
  <2> QED
    BY <1>3, <2>1, <2>3 DEF NoConflictSoFar, NoConflict, OwnBoot
<1>17. SnapshotsWhole'
  BY <1>3, <1>5 DEF IInv, SnapshotsWhole
<1>18. NothingOlder'
  BY <1>3, <1>13, <1>14 DEF IInv, NothingOlder
<1> QED
  BY <1>7, <1>8, <1>9, <1>10, <1>11, <1>15, <1>16, <1>17, <1>18 DEF IInv

(* The control plane stops, also with a loss of power: its connections     *)
(* break, and what it had taken in but not yet on its disk is undone.      *)
LEMMA PlaneStopsKeeps ==
  ASSUME IInv, SP!IInv', CP!IInv', ControlStop \/ ControlPowerLoss
  PROVE  IInv'
<1>1. /\ job' = job /\ requests' = {} /\ stops' = stops + 1 /\ stops < MaxStops
      /\ UNCHANGED <<spool, accepted, reply>>
  BY UploadAssumption DEF IInv, UploadsTyped, ControlStop, ControlPowerLoss, C!Stop, C!PowerLoss
<1>2. undone \subseteq undone' /\ undone' \subseteq accepted
  BY DEF IInv, UploadsTyped, ControlStop, ControlPowerLoss
<1>3. UploadsTyped'
  BY <1>1, <1>2, UploadAssumption DEF IInv, UploadsTyped
<1>4. RequestsAsked' /\ AnswersTrue'
  <2>1. RequestsAsked'
    BY <1>1 DEF RequestsAsked
  <2>2. \A u : HeadOf(u)' = HeadOf(u)
    BY <1>1 DEF HeadOf
  <2>3. AnswersTrue'
    BY <1>1, <2>2 DEF IInv, AnswersTrue
  <2> QED
    BY <2>1, <2>3
<1>5. AcceptedHeld'
  <2>1. \A x \in accepted : C!RowOf(x) \in ingested \ ingested' => x \in undone'
    BY DEF ControlStop, ControlPowerLoss, C!Stop, C!store
  <2> QED
    BY <1>1, <1>2, <2>1 DEF IInv, AcceptedHeld, Outlived, C!RowOf
<1>6. Queued' = Queued /\ Sent' = {} /\ db' = db /\ boot' = boot
  BY <1>1 DEF Queued, Sent, spool
<1>7. SnapshotsWhole' /\ NothingOlder'
  BY <1>1, <1>6 DEF IInv, SnapshotsWhole, NothingOlder
<1> QED
  BY <1>1, <1>3, <1>4, <1>5, <1>6, <1>7, UploadsAlone

(* The control plane starts again, its file reaches the disk, or nothing   *)
(* happens.                                                                *)
LEMMA PlaneRestKeeps ==
  ASSUME IInv, SP!IInv', CP!IInv', ControlOpen \/ ControlSync \/ UNCHANGED vars
  PROVE  IInv'
<1>1. UNCHANGED <<spool, ingested, accepted, reply, job, requests, stops, undone>>
  BY DEF ControlOpen, ControlSync, C!Open, C!Sync, C!store, vars, control
<1>2. UploadsTyped' /\ RequestsAsked' /\ AnswersTrue'
  BY <1>1, UploadsStay
<1>3. Queued' = Queued /\ Sent' = Sent /\ db' = db /\ boot' = boot
  BY <1>1 DEF Queued, Sent, spool
<1>4. AcceptedHeld'
  BY <1>1, <1>3, PlaneStays DEF OwnBoot
<1>5. SnapshotsWhole' /\ NothingOlder'
  BY <1>1, <1>3 DEF IInv, SnapshotsWhole, NothingOlder
<1> QED
  BY <1>1, <1>2, <1>3, <1>4, <1>5, UploadsAlone

(* Every step keeps it.                                                    *)
LEMMA NextIInv == IInv /\ [Next]_vars => IInv'
<1> SUFFICES ASSUME IInv, [Next]_vars
             PROVE  IInv'
  OBVIOUS
<1>1. SP!IInv' /\ CP!IInv'
  BY StepsOfSpool, StepsOfControl, SpoolKept, ControlKept DEF IInv
<1>2. CASE SpoolStep
  BY <1>1, <1>2, WriterKeeps, SyncKeeps DEF SpoolStep
<1>3. CASE AgentPowerLoss
  BY <1>1, <1>3, AgentPowerLossKeeps
<1>4. ASSUME NEW u \in Uploaders, UploadStep(u)
      PROVE  IInv'
  BY <1>1, <1>4, StartKeeps, PostKeeps, AcknowledgeKeeps, EndKeeps DEF UploadStep
<1>5. ASSUME NEW q \in requests, LoseOrphan(q)
      PROVE  IInv'
  BY <1>1, <1>5, LoseKeeps
<1>6. ASSUME NEW q \in requests, NEW now \in Times, Serve(q, now)
      PROVE  IInv'
  BY <1>1, <1>6, ServeKeeps
<1>7. CASE ControlStop \/ ControlPowerLoss
  BY <1>1, <1>7, PlaneStopsKeeps
<1>8. CASE ControlOpen \/ ControlSync \/ UNCHANGED vars
  BY <1>1, <1>8, PlaneRestKeeps
<1> QED
  BY <1>2, <1>3, <1>4, <1>5, <1>6, <1>7, <1>8 DEF Next

(* Nothing is about at the beginning.                                      *)
LEMMA InitIInv == Init => IInv
<1> SUFFICES ASSUME Init
             PROVE  IInv
  OBVIOUS
<1>1. /\ db = [next_seq |-> 0, batches |-> {}, gaps |-> {}, log |-> {}, acked |-> {}]
      /\ durable = db /\ pc = [w \in Writers |-> "idle"]
      /\ ingested = {} /\ accepted = {} /\ reply = NoReply
      /\ job = [u \in Uploaders |-> Idle] /\ requests = {} /\ stops = 0 /\ undone = {}
  BY DEF Init, S!Init, C!Init
<1>2. /\ S!Enqueuing = {} /\ db.log = {} /\ durable.log = {} /\ db.batches = {}
      /\ durable.acked = db.acked
  BY <1>1 DEF S!Enqueuing
<1>3. \A u \in Uploaders : job[u] = Idle
  BY <1>1
<1>4. Known = {}
  <2>1. Payloads(db.log) = {} /\ Payloads(durable.log) = {}
    BY <1>2 DEF Payloads
  <2>2. Queued = {} /\ Sent = {}
    BY <1>1, <1>3 DEF Queued, Sent, Idle
  <2> QED
    BY <1>1, <2>1, <2>2 DEF Known
<1>5. UploadsTyped
  BY <1>1, UploadAssumption DEF UploadsTyped, Idle, Job
<1>6. RequestsAsked /\ AnswersTrue
  BY <1>1, <1>3 DEF RequestsAsked, AnswersTrue, Idle
<1>7. RowsBuilt /\ ForgottenDelivered /\ AcceptedHeld
  BY <1>1, <1>2 DEF RowsBuilt, ForgottenDelivered, Forgotten, AcceptedHeld
<1>8. NewestInFile /\ OneInItsPlace /\ NoConflictSoFar
  BY <1>1, <1>4 DEF NewestInFile, OneInItsPlace, NoConflictSoFar, NoConflict
<1>9. SnapshotsWhole /\ NothingOlder
  BY <1>2 DEF SnapshotsWhole, NothingOlder
<1> QED
  BY <1>5, <1>6, <1>7, <1>8, <1>9, ComponentsInit DEF IInv

-------------------------------------------------------------------------------
(* Invariants.                                                             *)

(* Every reachable state satisfies the inductive invariant.                *)
THEOREM PipelineInvariant == Spec => []IInv
BY InitIInv, NextIInv, PTL DEF Spec

(* Every variable of the composition keeps its type.                       *)
THEOREM PipelineTypeOK == Spec => []TypeOK
<1>1. IInv => TypeOK
  BY SpoolFacts, ControlFacts DEF IInv, UploadsTyped, TypeOK, Job
<1> QED
  BY <1>1, PipelineInvariant, PTL

(* The agent deletes a batch as acknowledged only if the control plane has *)
(* taken in that very batch.                                               *)
THEOREM PipelineForgottenOnlyIfDelivered == Spec => []ForgottenOnlyIfDelivered
<1>1. IInv => ForgottenOnlyIfDelivered
  BY DEF IInv, ForgottenDelivered, Forgotten, ForgottenOnlyIfDelivered
<1> QED
  BY <1>1, PipelineInvariant, PTL

(* What the agent has forgotten is stored, may have expired, or was undone *)
(* by a power loss of the control plane.                                   *)
THEOREM PipelineForgottenIsStored == Spec => []ForgottenIsStored
<1>1. ASSUME IInv, NEW r \in db.log, r.seq \in db.acked
      PROVE  \/ C!RowOf(r.payload) \in ingested
             \/ r.payload \in undone
             \/ \E now \in Times, l \in ControlLimits :
                  r.created_at < SaturatingSub(now, l.max_age_seconds)
  <2>1. r.payload \in accepted /\ r.payload.body.created_at = r.created_at
    BY <1>1 DEF IInv, ForgottenDelivered, Forgotten, RowsBuilt, RowBuilt
  <2> QED
    BY <1>1, <2>1 DEF IInv, AcceptedHeld, Outlived
<1>2. IInv => ForgottenIsStored
  BY <1>1 DEF ForgottenIsStored
<1> QED
  BY <1>2, PipelineInvariant, PTL

(* Until the first power loss batches arrive in the order of their numbers.*)
THEOREM PipelineDeliveredInOrder == Spec => []DeliveredInOrder
<1>1. ASSUME IInv, boot = 0, NEW r1 \in db.batches, NEW r2 \in db.batches,
             r2.payload \in accepted
      PROVE  ~ (r1.seq < r2.seq)
  <2>1. r2.payload.body.seq <= r1.seq
    BY <1>1 DEF IInv, NothingOlder
  <2>2. r2.payload.body.seq = r2.seq /\ r1.seq \in Nat /\ r2.seq \in Nat
    BY <1>1, SpoolFacts DEF IInv, RowsBuilt, RowBuilt, S!Accounted, S!Database, S!Row
  <2> QED
    BY <2>1, <2>2
<1>2. IInv => DeliveredInOrder
  BY <1>1 DEF DeliveredInOrder
<1> QED
  BY <1>2, PipelineInvariant, PTL

(* While every boot has its own boot id, no batch of an agent is refused   *)
(* as a conflict; with a fixed one none is until the first power loss.     *)
THEOREM PipelineNoConflictSoFar == Spec => []NoConflictSoFar
<1>1. IInv => NoConflictSoFar
  BY DEF IInv
<1> QED
  BY <1>1, PipelineInvariant, PTL

(* With the kernel's boot id no batch of an agent is ever refused as a     *)
(* conflict.                                                               *)
THEOREM PipelineNoConflict ==
  ASSUME ~ FixedBootId
  PROVE  Spec => []NoConflict
<1>1. NoConflictSoFar => NoConflict
  BY DEF NoConflictSoFar, OwnBoot
<1> QED
  BY <1>1, PipelineNoConflictSoFar, PTL

-------------------------------------------------------------------------------
(* What is counted.                                                        *)

(* The folds over the buckets of a batch, over the batches, and over the   *)
(* flow rows are sums.                                                     *)
LEMMA BucketsAdd ==
  ASSUME NEW content, IsFiniteSet(1 .. Len(BucketsOf[content])), NEW v,
         \A i \in 1 .. Len(BucketsOf[content]) : v[i] = BucketsOf[content][i].packets
  PROVE  PacketsIn(content) = Sum(v, 1 .. Len(BucketsOf[content]))
<1> DEFINE places == 1 .. Len(BucketsOf[content])
           Folds(g) == g = [s \in SUBSET places |->
                              IF s = {} THEN 0
                              ELSE BucketsOf[content][Pick(s)].packets + g[Rest(s)]]
           h == CHOOSE g : Folds(g)
<1>1. PacketsIn(content) = h[places]
  BY DEF PacketsIn, MapThenSumSet, MapThenFoldSet, Pick, Rest
<1>2. \A s \in SUBSET places : s # {} => v[Pick(s)] = BucketsOf[content][Pick(s)].packets
  BY DEF Pick
<1> HIDE DEF places
<1>3. \A g : Folds(g) <=> Sums(v, places, g)
  BY <1>2 DEF Sums
<1> HIDE DEF Folds
<1>4. Sums(v, places, h)
  BY <1>3, SumsExist DEF places
<1> QED
  BY <1>1, <1>4, SumValue DEF places

(* The same for the batches.                                               *)
LEMMA BatchesAdd ==
  ASSUME NEW held, IsFiniteSet(held), NEW v,
         \A e \in held : v[e] = PacketsIn(e.body.buckets)
  PROVE  MapThenSumSet(LAMBDA e : PacketsIn(e.body.buckets), held) = Sum(v, held)
<1> DEFINE Folds(g) == g = [s \in SUBSET held |->
                              IF s = {} THEN 0
                              ELSE PacketsIn(Pick(s).body.buckets) + g[Rest(s)]]
           h == CHOOSE g : Folds(g)
<1>1. MapThenSumSet(LAMBDA e : PacketsIn(e.body.buckets), held) = h[held]
  BY DEF MapThenSumSet, MapThenFoldSet, Pick, Rest
<1>2. \A s \in SUBSET held : s # {} => v[Pick(s)] = PacketsIn(Pick(s).body.buckets)
  BY DEF Pick
<1>3. \A g : Folds(g) <=> Sums(v, held, g)
  BY <1>2 DEF Sums
<1> HIDE DEF Folds
<1>4. Sums(v, held, h)
  BY <1>3, SumsExist
<1> QED
  BY <1>1, <1>4, SumValue

(* The same for the flow rows of the control plane.                        *)
LEMMA RowsAdd ==
  ASSUME NEW rows, IsFiniteSet(rows), NEW v, \A f \in rows : v[f] = f.bucket.packets
  PROVE  C!Packets(rows) = Sum(v, rows)
<1> DEFINE Folds(g) == g = [s \in SUBSET rows |->
                              IF s = {} THEN 0 ELSE Pick(s).bucket.packets + g[Rest(s)]]
           h == CHOOSE g : Folds(g)
<1>1. C!Packets(rows) = h[rows]
  BY DEF C!Packets, C!MapThenSumSet, C!MapThenFoldSet, Pick, Rest
<1>2. \A s \in SUBSET rows : s # {} => v[Pick(s)] = Pick(s).bucket.packets
  BY DEF Pick
<1>3. \A g : Folds(g) <=> Sums(v, rows, g)
  BY <1>2 DEF Sums
<1> HIDE DEF Folds
<1>4. Sums(v, rows, h)
  BY <1>3, SumsExist
<1> QED
  BY <1>1, <1>4, SumValue

(* What the control plane's invariant says of its rows, and of the batches *)
(* they are from.                                                          *)
LEMMA StoreFacts ==
  ASSUME CP!IInv
  PROVE  /\ IsFiniteSet(ingested) /\ IsFiniteSet(flow_buckets)
         /\ accepted \subseteq Built
         /\ \A f \in flow_buckets : f.bucket.packets \in Nat
         /\ \A f \in flow_buckets : \E r \in ingested : r.batch_id = f.batch_id
         /\ \A r \in ingested : \E e \in accepted :
              /\ r = C!RowOf(e)
              /\ {f \in flow_buckets : f.batch_id = r.batch_id} = C!FlowRowsOf(e)
<1>1. CP!TypeOK /\ CP!StoredWhole
  BY DEF CP!IInv
<1>2. /\ CP!IsFiniteSet(ingested) /\ CP!IsFiniteSet(flow_buckets)
      /\ flow_buckets \subseteq CP!FlowRow /\ accepted \subseteq Built
  BY <1>1 DEF CP!TypeOK
<1>3. IsFiniteSet(ingested) /\ IsFiniteSet(flow_buckets)
  BY <1>2 DEF CP!IsFiniteSet, IsFiniteSet
<1>4. \A f \in flow_buckets : f.bucket.packets \in Nat
  BY <1>2 DEF CP!FlowRow, CP!FlowBucket
<1>5. /\ \A f \in flow_buckets : \E r \in ingested : r.batch_id = f.batch_id
      /\ \A r \in ingested : \E e \in accepted :
           /\ r = C!RowOf(e)
           /\ {f \in flow_buckets : f.batch_id = r.batch_id} = C!FlowRowsOf(e)
  BY <1>1 DEF CP!StoredWhole, CP!Whole, CP!RowOf, C!RowOf, CP!FlowRowsOf, C!FlowRowsOf,
     CP!InsertedRows, C!InsertedRows, CP!Cardinality, C!Cardinality
<1> QED
  BY <1>2, <1>3, <1>4, <1>5

(* The flow rows of a batch are one for each place in its buckets, though  *)
(* the buckets in two places may be equal: so they carry their packets.    *)
LEMMA BatchRowsAdd ==
  ASSUME NEW e \in Built, NEW rows, rows = C!FlowRowsOf(e), NEW v,
         \A f \in rows : v[f] = f.bucket.packets
  PROVE  Sum(v, rows) = PacketsIn(e.body.buckets) /\ PacketsIn(e.body.buckets) \in Nat
<1> DEFINE buckets == BucketsOf[e.body.buckets]
           places  == 1 .. Len(buckets)
           packets == [i \in places |-> buckets[i].packets]
           row     == [i \in places |->
                         [batch_id |-> e.batch_id, node_id |-> e.body.origin[1],
                          bucket |-> buckets[i], rowid |-> 0 + i]]
<1>1. IsFiniteSet(places) /\ \A i \in places : buckets[i].packets \in Nat /\ i \in Nat
  <2>1. buckets \in Seq(CP!FlowBucket)
    BY BuiltEnvelope, PlaneFacts
  <2>2. /\ Len(buckets) \in Nat
        /\ \A i \in places : buckets[i].packets \in Nat /\ i \in Nat
    <3> HIDE DEF buckets
    <3>1. Len(buckets) \in Nat
      BY <2>1
    <3>2. ASSUME NEW i \in places
          PROVE  buckets[i].packets \in Nat /\ i \in Nat
      <4>1. buckets[i] \in CP!FlowBucket
        BY <2>1
      <4> QED
        BY <4>1 DEF CP!FlowBucket
    <3> QED
      BY <3>1, <3>2
  <2> QED
    BY <2>2, FS_Interval
<1>2. PacketsIn(e.body.buckets) = Sum(packets, places)
  BY <1>1, BucketsAdd
<1>3. rows = {row[i] : i \in places}
  <2>1. C!Cardinality({f \in {} : f.batch_id = e.batch_id}) = 0
    <3>1. {f \in {} : f.batch_id = e.batch_id} = {} /\ Cardinality({}) = 0
      BY FS_EmptySet
    <3> QED
      BY <3>1 DEF C!Cardinality, Cardinality
  <2>2. rows = {[batch_id |-> e.batch_id, node_id |-> e.body.origin[1],
                 bucket |-> buckets[i], rowid |-> 0 + i] : i \in places}
    BY <2>1 DEF C!FlowRowsOf, C!InsertedRows
  <2> QED
    BY <2>2
<1>4. \A i \in places : row[i] \in rows /\ row[i].bucket = buckets[i] /\ row[i].rowid = i
  BY <1>1, <1>3
<1>5. \A i \in places : packets[i] = v[row[i]] /\ packets[i] \in Nat
  BY <1>1, <1>4
<1> HIDE DEF buckets, places, packets, row
<1>6. \A i, j \in places : row[i] = row[j] => i = j
  BY <1>4
<1>7. Sum(packets, places) = Sum(v, rows)
  BY <1>1, <1>3, <1>5, <1>6, SumRenamed
<1>8. Sum(packets, places) \in Nat
  BY <1>1, <1>5, SumNat
<1> QED
  BY <1>2, <1>7, <1>8

(* The control plane counts every packet it holds once.                    *)
THEOREM PipelineCountedOnce == Spec => []CountedOnce
<1>1. ASSUME IInv, NEW w \in Writers, C!stats(w).status = "ok"
      PROVE  LET held == {e \in accepted : e.body.origin[1] = w /\ C!RowOf(e) \in ingested}
             IN  C!stats(w).body.packets
                   = MapThenSumSet(LAMBDA e : PacketsIn(e.body.buckets), held)
  <2> DEFINE held  == {e \in accepted : e.body.origin[1] = w /\ C!RowOf(e) \in ingested}
             rows  == C!FlowsOfNode(w)
             of    == [f \in rows |-> CHOOSE e \in held : e.batch_id = f.batch_id]
             count == [f \in rows |-> f.bucket.packets]
             carry == [e \in held |-> PacketsIn(e.body.buckets)]
             part  == [e \in Groups(of, rows) |-> Sum(count, Group(of, rows, e))]
  <2>1. /\ IsFiniteSet(ingested) /\ IsFiniteSet(flow_buckets) /\ accepted \subseteq Built
        /\ \A f \in flow_buckets : f.bucket.packets \in Nat
        /\ \A f \in flow_buckets : \E r \in ingested : r.batch_id = f.batch_id
        /\ \A r \in ingested : \E e \in accepted :
             /\ r = C!RowOf(e)
             /\ {f \in flow_buckets : f.batch_id = r.batch_id} = C!FlowRowsOf(e)
    BY <1>1, StoreFacts DEF IInv
  <2>2. C!stats(w).body.packets = C!Packets(rows)
    BY <1>1 DEF C!stats, C!StatsOf, C!Success, C!Failure, C!Totals
  <2>3. rows = {f \in flow_buckets : f.node_id = w}
    BY DEF C!FlowsOfNode
  <2>4. \A e \in accepted, x \in accepted : e.batch_id = x.batch_id => e = x
    <3> TAKE e \in accepted, x \in accepted
    <3> HAVE e.batch_id = x.batch_id
    <3>1. e \in Built /\ x \in Built
      BY <2>1
    <3>2. /\ e.batch_id = <<e.body.origin, e.body.seq, e.checksum>>
          /\ x.batch_id = <<x.body.origin, x.body.seq, x.checksum>>
      BY <3>1, BuiltEnvelope
    <3>3. <<e.body.origin, e.body.seq, e.checksum>> = <<x.body.origin, x.body.seq, x.checksum>>
      BY <3>2
    <3>4. e.checksum = x.checksum
      BY <3>3
    <3> QED
      BY <3>1, <3>4, ChecksumNames
  <2>5. ASSUME NEW e \in held
        PROVE  /\ e \in Built
               /\ C!FlowRowsOf(e) = {f \in rows : f.batch_id = e.batch_id}
    <3>1. PICK x \in accepted :
            /\ C!RowOf(e) = C!RowOf(x)
            /\ {f \in flow_buckets : f.batch_id = C!RowOf(e).batch_id} = C!FlowRowsOf(x)
      BY <2>1
    <3>2. x.batch_id = e.batch_id /\ C!RowOf(e).batch_id = e.batch_id
      BY <3>1 DEF C!RowOf
    <3>3. x = e
      BY <2>4, <3>2
    <3>4. \A f \in C!FlowRowsOf(e) : f.node_id = w
      BY DEF C!FlowRowsOf, C!InsertedRows
    <3> QED
      BY <2>1, <2>3, <3>1, <3>2, <3>3, <3>4
  <2>6. ASSUME NEW f \in rows
        PROVE  of[f] \in held /\ of[f].batch_id = f.batch_id
    <3>1. PICK r \in ingested : r.batch_id = f.batch_id
      BY <2>1, <2>3
    <3>2. PICK x \in accepted :
            /\ r = C!RowOf(x)
            /\ {y \in flow_buckets : y.batch_id = r.batch_id} = C!FlowRowsOf(x)
      BY <2>1
    <3>3. f \in C!FlowRowsOf(x) /\ f.node_id = w
      BY <2>3, <3>1, <3>2
    <3>4. x.body.origin[1] = w /\ x.batch_id = f.batch_id
      BY <3>3 DEF C!FlowRowsOf, C!InsertedRows
    <3>5. x \in held
      BY <3>2, <3>4
    <3> HIDE DEF held
    <3> QED
      BY <3>4, <3>5
  <2>7. IsFiniteSet(rows) /\ \A f \in rows : count[f] = f.bucket.packets /\ count[f] \in Nat
    BY <2>1, <2>3, FS_Subset
  <2>8. IsFiniteSet(held)
    <3> DEFINE here == {C!RowOf(e) : e \in held}
               back == [r \in here |-> CHOOSE e \in held : C!RowOf(e) = r]
    <3>1. here \subseteq ingested
      OBVIOUS
    <3>2. IsFiniteSet(here)
      BY <2>1, <3>1, FS_Subset
    <3>3. ASSUME NEW e \in held
          PROVE  C!RowOf(e) \in here /\ back[C!RowOf(e)] = e
      <4>1. C!RowOf(e) \in here
        OBVIOUS
      <4>2. back[C!RowOf(e)] \in held /\ C!RowOf(back[C!RowOf(e)]) = C!RowOf(e)
        BY <4>1
      <4>3. back[C!RowOf(e)].batch_id = e.batch_id
        BY <4>2 DEF C!RowOf
      <4> QED
        BY <2>4, <4>1, <4>2, <4>3
    <3>4. IsFiniteSet({back[r] : r \in here})
      <4> HIDE DEF here, back
      <4> QED
        BY <3>2, FiniteImage
    <3>5. held \subseteq {back[r] : r \in here}
      <4> HIDE DEF held, here, back
      <4> QED
        BY <3>3
    <3> HIDE DEF held, here, back
    <3> QED
      BY <3>4, <3>5, FS_Subset
  <2>9. \A e \in held : carry[e] = PacketsIn(e.body.buckets)
    OBVIOUS
  <2>10. \A e \in Groups(of, rows) : part[e] = Sum(count, Group(of, rows, e))
    OBVIOUS
  <2> HIDE DEF held, rows, of, count, carry, part
  <2>11. ASSUME NEW e \in held
         PROVE  /\ carry[e] = Sum(count, Group(of, rows, e)) /\ carry[e] \in Nat
                /\ e \notin Groups(of, rows) => Group(of, rows, e) = {}
    <3>1. Group(of, rows, e) = C!FlowRowsOf(e)
      <4>1. \A f \in rows : f.batch_id = e.batch_id => of[f] = e
        <5> TAKE f \in rows
        <5> HAVE f.batch_id = e.batch_id
        <5>1. of[f] \in accepted /\ e \in accepted /\ of[f].batch_id = e.batch_id
          BY <2>6 DEF held
        <5> QED
          BY <2>4, <5>1
      <4>2. \A f \in rows : of[f] = e => f.batch_id = e.batch_id
        BY <2>6
      <4> QED
        BY <2>5, <4>1, <4>2 DEF Group
    <3>2. \A f \in Group(of, rows, e) : count[f] = f.bucket.packets
      BY <2>7 DEF Group
    <3>3. /\ Sum(count, Group(of, rows, e)) = PacketsIn(e.body.buckets)
          /\ PacketsIn(e.body.buckets) \in Nat
      BY <2>5, <3>1, <3>2, BatchRowsAdd
    <3>4. e \notin Groups(of, rows) => Group(of, rows, e) = {}
      BY DEF Groups, Group
    <3> QED
      BY <2>9, <3>3, <3>4
  <2>12. Groups(of, rows) \in SUBSET held
    BY <2>6 DEF Groups
  <2>13. IsFiniteSet(Groups(of, rows)) /\ Sum(part, Groups(of, rows)) = Sum(count, rows)
    BY <2>7, SumGroups DEF part
  <2>14. Sum(carry, held) = Sum(carry, Groups(of, rows))
    <3>1. \A e \in held \ Groups(of, rows) : carry[e] = 0
      BY <2>11, SumEmpty
    <3> QED
      BY <2>8, <2>11, <2>12, <3>1, SumSupport
  <2>15. Sum(carry, Groups(of, rows)) = Sum(part, Groups(of, rows))
    <3>1. \A e \in Groups(of, rows) : carry[e] = part[e]
      BY <2>10, <2>11, <2>12
    <3> QED
      BY <2>13, <3>1, SumSame
  <2>16. C!Packets(rows) = Sum(count, rows)
    BY <2>7, RowsAdd
  <2>17. MapThenSumSet(LAMBDA e : PacketsIn(e.body.buckets), held) = Sum(carry, held)
    BY <2>8, <2>9, BatchesAdd
  <2> QED
    BY <2>2, <2>13, <2>14, <2>15, <2>16, <2>17 DEF held
<1>2. IInv => CountedOnce
  BY <1>1 DEF CountedOnce
<1> QED
  BY <1>2, PipelineInvariant, PTL

-------------------------------------------------------------------------------
(* Action properties.                                                      *)

(* A row that an acknowledgement deletes is the head of the upload that    *)
(* deletes it, and that upload goes on.                                    *)
THEOREM PipelineAcknowledgesItsOwn == Spec => AcknowledgesItsOwn
<1> DEFINE Own(r) ==
      \E u \in Uploaders : /\ job[u].answer \in C!Acks /\ HeadOf(u) = r.payload
                          /\ job'[u].phase = "ready"
<1>1. ASSUME IInv, [Next]_vars, NEW r \in db.batches, r.seq \in db'.acked \ db.acked
      PROVE  Own(r)
  <2>1. S!Accounted(db) /\ r \in db.log
    BY <1>1, SpoolFacts DEF IInv, S!Accounted
  <2>2. ASSUME NEW w \in Writers, S!WriterStep(w)
        PROVE  db'.acked = db.acked
    BY <1>1, <2>2, WriterEffect DEF IInv, FileGrows
  <2>3. ASSUME S!Sync \/ UNCHANGED spool
        PROVE  db'.acked = db.acked
    BY <2>3 DEF S!Sync, spool
  <2>4. ASSUME AgentPowerLoss
        PROVE  db'.acked \subseteq db.acked
    BY <1>1, <2>4 DEF AgentPowerLoss, S!PowerLoss, IInv, ForgottenDelivered
  <2>5. ASSUME NEW u \in Uploaders, AcknowledgeHead(u)
        PROVE  Own(r)
    <3>1. PICK x \in db.log : x.payload = HeadOf(u) /\ db'.acked = db.acked \cup {x.seq}
      BY <1>1, <2>5, AcknowledgeEffect
    <3>2. x = r
      BY <1>1, <2>1, <3>1 DEF S!Accounted
    <3>3. job[u].answer \in C!Acks /\ job'[u].phase = "ready"
      BY <1>1, <2>5 DEF AcknowledgeHead, IInv, UploadsTyped
    <3> QED
      BY <3>1, <3>2, <3>3
  <2>6. ASSUME NEW u \in Uploaders, UploadStep(u)
        PROVE  AcknowledgeHead(u) \/ UNCHANGED spool
    BY <2>6 DEF UploadStep, StartUpload, Post, AcknowledgeMismatch, Refused, Done, AbortUpload
  <2>7. ASSUME \/ \E q \in requests : LoseOrphan(q) \/ \E now \in Times : Serve(q, now)
               \/ ControlStop \/ ControlOpen \/ ControlSync \/ ControlPowerLoss
               \/ UNCHANGED vars
        PROVE  UNCHANGED spool
    BY <2>7 DEF LoseOrphan, Serve, ControlStop, ControlOpen, ControlSync, ControlPowerLoss,
                vars
  <2> HIDE DEF Own
  <2> QED
    BY <1>1, <2>2, <2>3, <2>4, <2>5, <2>6, <2>7 DEF Next, SpoolStep
<1>2. IInv /\ [Next]_vars =>
        [\A r \in db.batches : r.seq \in db'.acked \ db.acked =>
           \E u \in Uploaders :
             /\ job[u].answer \in C!Acks /\ HeadOf(u) = r.payload
             /\ job'[u].phase = "ready"]_vars
  BY <1>1
<1> QED
  BY <1>2, PipelineInvariant, PTL DEF Spec, AcknowledgesItsOwn

-------------------------------------------------------------------------------
(* Refinement.                                                             *)

(* The composition is a behaviour of its spool: SpoolProofs' theorems are  *)
(* true of the spool with its uploaders.                                   *)
THEOREM PipelineRefinesSpool == Spec => S!Spec
<1>1. Init => S!Init
  BY DEF Init
<1>2. SP!AcknowledgeAny <=> S!AcknowledgeAny
  BY SpoolSame DEF SP!AcknowledgeAny, S!AcknowledgeAny
<1>3. SP!Next <=> S!Next
  BY <1>2, WriterStepSame, SpoolSame DEF SP!Next, S!Next
<1>4. IInv /\ [Next]_vars => [S!Next]_(S!vars)
  BY <1>3, StepsOfSpool DEF SP!vars, S!vars
<1> QED
  BY <1>1, <1>4, PipelineInvariant, PTL DEF Spec, S!Spec

(* The composition is a behaviour of its control plane, with the uploaders *)
(* for its clients.                                                        *)
THEOREM PipelineRefinesControl == Spec => C!Spec
<1>1. Init => C!Init
  BY DEF Init
<1>2. CP!Next <=> C!Next
  BY IngestSame, ControlSame DEF CP!Next, C!Next
<1>3. IInv /\ [Next]_vars => [C!Next]_(C!vars)
  BY <1>2, StepsOfControl DEF CP!vars, C!vars, CP!store, C!store
<1> QED
  BY <1>1, <1>3, PipelineInvariant, PTL DEF Spec, C!Spec

(* The rows of a file that it has recorded as gaps.                        *)
LostRows(d) == {x \in d.log : x.seq \in S!Seqs(d.gaps)}

(* They are those that are neither pending nor acknowledged.               *)
LEMMA LostAreTheRest ==
  ASSUME NEW d, S!Accounted(d)
  PROVE  LostRows(d) = {x \in d.log : x \notin d.batches /\ x.seq \notin d.acked}
<1>1. \A x \in d.log : x.seq \in S!Seqs(d.batches) \cup S!Seqs(d.gaps) \cup d.acked
  BY DEF S!Accounted, S!Seqs
<1>2. \A x \in d.log : x.seq \in S!Seqs(d.batches) <=> x \in d.batches
  BY DEF S!Accounted, S!Seqs
<1>3. \A n \in S!Seqs(d.gaps) : n \notin S!Seqs(d.batches) /\ n \notin d.acked
  BY DEF S!Accounted
<1> QED
  BY <1>1, <1>2, <1>3 DEF LostRows

(* The state of Delivery that a state of the composition stands for.       *)
LEMMA Abstraction ==
  /\ D!vars = <<Payloads(db.batches), accepted, Payloads(LostRows(db))>>
  /\ D!Known = Payloads(db.batches) \cup accepted \cup Payloads(LostRows(db))
BY DEF D!vars, D!Known, Payloads, LostRows, S!Gaps

(* An enqueue, whatever it evicts, is an enqueue of Delivery.              *)
LEMMA EnqueueRefines ==
  ASSUME IInv, SP!IInv', OwnBoot, boot' = boot, accepted' = accepted,
         NEW w \in S!Enqueuing, FileGrows(draft[w])
  PROVE  D!Next
<1> DEFINE row     == draft[w]
           e       == row.payload
           dropped == (db.batches \cup {row}) \ db'.batches
<1>1. /\ db'.log = db.log \cup {row} /\ db'.acked = db.acked
      /\ db'.batches \subseteq db.batches \cup {row}
      /\ row.seq = db.next_seq
  BY DEF FileGrows
<1>2. S!Accounted(db) /\ db.next_seq \in Nat /\ boot \in 0 .. MaxBoots
  BY SpoolFacts DEF IInv, S!Database, S!TypeOK
<1>3. S!Accounted(db')
  BY DEF SP!IInv, SP!Sound, SP!Accounted, SP!Seqs, S!Accounted, S!Seqs
<1>4. RowBuilt(row) /\ e.body.origin = S!OriginOf(w)
  BY DEF IInv, RowsBuilt
<1>5. e \in Built /\ e.body.seq = db.next_seq
  BY <1>1, <1>4 DEF RowBuilt
<1>6. e.body.origin[2] = boot
  BY <1>2, <1>4 DEF S!OriginOf, OwnBoot
<1> HIDE DEF row
<1>7. e \notin Known
  <2>1. SUFFICES ASSUME e \in Known
                 PROVE  FALSE
    OBVIOUS
  <2>2. e.body.seq \in Nat /\ e.body.seq < db.next_seq
    BY <1>6, <2>1, NumbersGivenOut
  <2> QED
    BY <1>2, <1>5, <2>2
<1>8. e \notin D!Known
  <2>1. Payloads(db.batches) \subseteq Known /\ Payloads(LostRows(db)) \subseteq Known
    BY <1>2 DEF Payloads, LostRows, Known, S!Accounted
  <2>2. accepted \subseteq Known
    BY DEF Known
  <2> QED
    BY <1>7, <2>1, <2>2, Abstraction
<1>9. \A x, y \in db.log \cup {row} : x.payload = y.payload => x = y
  <2>1. \A x \in db.log \cup {row} : x.payload.body.seq = x.seq
    BY <1>4 DEF IInv, RowsBuilt, RowBuilt
  <2>2. \A x, y \in db'.log : x.seq = y.seq => x = y
    BY <1>3 DEF S!Accounted
  <2> QED
    BY <1>1, <2>1, <2>2
<1>10. db.batches \subseteq db.log /\ \A x \in db.batches : x.seq \notin db.acked
  BY <1>2 DEF S!Accounted, S!Seqs
<1>11. row.seq \notin db.acked /\ row \notin db.log
  BY <1>1, <1>2 DEF S!Accounted, S!Seqs
<1>12. Payloads(db.batches)' = (Payloads(db.batches) \cup {e}) \ Payloads(dropped)
  <2>1. db'.batches = (db.batches \cup {row}) \ dropped
    BY <1>1
  <2>2. dropped \subseteq db.batches \cup {row}
    OBVIOUS
  <2> HIDE DEF dropped
  <2> QED
    BY <1>9, <1>10, <2>1, <2>2 DEF Payloads
<1>13. LostRows(db') = LostRows(db) \cup dropped
  <2>1. LostRows(db') = {x \in db'.log : x \notin db'.batches /\ x.seq \notin db'.acked}
    BY <1>3, LostAreTheRest
  <2>2. LostRows(db) = {x \in db.log : x \notin db.batches /\ x.seq \notin db.acked}
    BY <1>2, LostAreTheRest
  <2> QED
    BY <1>1, <1>10, <1>11, <2>1, <2>2
<1>14. Payloads(LostRows(db))' = Payloads(LostRows(db)) \cup Payloads(dropped)
  <2>1. LostRows(db)' = LostRows(db) \cup dropped
    BY <1>13 DEF LostRows, S!Seqs
  <2> HIDE DEF dropped
  <2> QED
    BY <2>1 DEF Payloads
<1>15. Payloads(dropped) \in SUBSET (Payloads(db.batches) \cup {e})
  BY DEF Payloads
<1> HIDE DEF dropped, e
<1>16. PICK batch \in Built : batch = e
  BY <1>5
<1>17. D!Enqueue(batch)
  BY <1>8, <1>12, <1>14, <1>15, <1>16 DEF D!Enqueue, Payloads, LostRows, S!Gaps
<1> QED
  BY <1>17 DEF D!Next

(* An acknowledgement is a Forget of Delivery.                             *)
LEMMA AcknowledgeRefines ==
  ASSUME IInv, NEW u \in Uploaders, AcknowledgeHead(u)
  PROVE  D!Next
<1> DEFINE e == HeadOf(u)
<1>1. PICK r \in db.batches :
        /\ r \in db.log /\ r.payload = e /\ db'.batches = db.batches \ {r}
  BY AcknowledgeEffect
<1>2. /\ e \in accepted /\ db'.log = db.log /\ db'.gaps = db.gaps
      /\ \A x \in db'.batches : x.payload # e
  BY AcknowledgeEffect
<1>3. accepted' = accepted /\ e \in Built
  BY <1>2, ControlFacts DEF IInv, C!TypeOK, AcknowledgeHead, control
<1> HIDE DEF e
<1>4. Payloads(db.batches)' = Payloads(db.batches) \ {e} /\ e \in Payloads(db.batches)
  BY <1>1, <1>2 DEF Payloads
<1>5. Payloads(LostRows(db))' = Payloads(LostRows(db))
  BY <1>2 DEF Payloads, LostRows, S!Seqs
<1>6. PICK batch \in Built : batch = e
  BY <1>3
<1>7. D!Forget(batch)
  BY <1>2, <1>3, <1>4, <1>5, <1>6 DEF D!Forget, Payloads, LostRows, S!Gaps
<1> QED
  BY <1>7 DEF D!Next

(* Until a power loss of the agent a batch that arrives for the first time *)
(* is pending or lost: a Deliver of Delivery.                              *)
LEMMA ServeRefines ==
  ASSUME IInv, boot = 0, NEW q \in requests, NEW now \in Times, Serve(q, now)
  PROVE  [D!Next]_(D!vars)
<1> DEFINE e == q.envelope
<1>1. e \in Built /\ (accepted' = accepted \/ accepted' = accepted \cup {e})
  BY ServeEffect
<1>2. db' = db
  BY DEF Serve, spool
<1>3. /\ Payloads(db.batches)' = Payloads(db.batches)
      /\ Payloads(LostRows(db))' = Payloads(LostRows(db))
  BY <1>2 DEF Payloads, LostRows, S!Seqs
<1>4. CASE accepted' = accepted
  BY <1>3, <1>4, Abstraction DEF D!vars, Payloads, LostRows, S!Gaps
<1>5. CASE e \notin accepted /\ accepted' = accepted \cup {e}
  <2>1. e \in Known
    BY DEF Known, Sent
  <2>2. PICK r \in db.log : r.payload = e
    BY <2>1, FirstBoot DEF IInv, NewestInFile, Payloads
  <2>3. r.seq \notin db.acked
    BY <1>5, <2>2 DEF IInv, ForgottenDelivered, Forgotten
  <2>4. r \in db.batches \/ r \in LostRows(db)
    BY <2>2, <2>3, LostAreTheRest, SpoolFacts DEF IInv
  <2>5. e \in D!Known \ accepted
    BY <1>5, <2>2, <2>4, Abstraction DEF Payloads
  <2>6. D!Deliver(e)
    BY <1>3, <1>5, <2>5 DEF D!Deliver, Payloads, LostRows, S!Gaps
  <2> QED
    BY <1>1, <2>6 DEF D!Next
<1> QED
  BY <1>1, <1>4, <1>5

(* Until a power loss of the agent every step is one of Delivery.          *)
LEMMA StepsOfDelivery ==
  ASSUME IInv, [Next]_vars, boot' = 0
  PROVE  [D!Next]_(D!vars)
<1>1. SP!IInv'
  BY StepsOfSpool, SpoolKept DEF IInv
<1>2. ASSUME db' = db, accepted' = accepted
      PROVE  UNCHANGED D!vars
  BY <1>2 DEF D!vars, S!Gaps, S!Seqs
<1>3. ASSUME NEW w \in Writers, S!WriterStep(w), UNCHANGED control
      PROVE  [D!Next]_(D!vars)
  <2>1. boot' = boot /\ accepted' = accepted
    BY <1>3, WriterEffect DEF IInv, control
  <2>2. db' = db \/ (w \in S!Enqueuing /\ FileGrows(draft[w]))
    BY <1>3, WriterEffect DEF IInv
  <2>3. OwnBoot
    BY <2>1 DEF OwnBoot
  <2> QED
    BY <1>1, <1>2, <2>1, <2>2, <2>3, EnqueueRefines
<1>4. CASE SpoolStep
  BY <1>2, <1>3, <1>4 DEF SpoolStep, S!Sync, control
<1>5. CASE AgentPowerLoss
  <2>1. boot' = boot + 1 /\ boot \in 0 .. MaxBoots
    BY <1>5, SpoolFacts DEF IInv, AgentPowerLoss, S!PowerLoss, S!TypeOK
  <2> QED
    BY <2>1
<1>6. ASSUME NEW q \in requests, NEW now \in Times, Serve(q, now)
      PROVE  [D!Next]_(D!vars)
  BY <1>6, ServeRefines DEF Serve, spool
<1>7. ASSUME NEW u \in Uploaders, UploadStep(u)
      PROVE  AcknowledgeHead(u) \/ (db' = db /\ accepted' = accepted)
  BY <1>7 DEF UploadStep, StartUpload, Post, AcknowledgeMismatch, Refused, Done, AbortUpload,
              spool, control
<1>8. ASSUME NEW u \in Uploaders, UploadStep(u)
      PROVE  [D!Next]_(D!vars)
  BY <1>2, <1>7, <1>8, AcknowledgeRefines
<1>9. ASSUME \/ \E q \in requests : LoseOrphan(q)
             \/ ControlStop \/ ControlOpen \/ ControlSync \/ ControlPowerLoss
             \/ UNCHANGED vars
      PROVE  db' = db /\ accepted' = accepted
  BY <1>9 DEF LoseOrphan, ControlStop, ControlOpen, ControlSync, ControlPowerLoss, C!Stop,
              C!Open, C!Sync, C!PowerLoss, vars, spool, control
<1> QED
  BY <1>2, <1>4, <1>5, <1>6, <1>8, <1>9 DEF Next

(* Until the first power loss of the agent the spool, the uploaders and    *)
(* the control plane deliver every batch at least once or report it lost.  *)
THEOREM PipelineDelivers ==
  Spec => D!Init /\ [][boot' = 0 => [D!Next]_(D!vars)]_vars
<1>1. Init => D!Init
  BY DEF Init, S!Init, C!Init, D!Init
<1>2. IInv /\ [Next]_vars => [boot' = 0 => [D!Next]_(D!vars)]_vars
  BY StepsOfDelivery
<1> QED
  BY <1>1, <1>2, PipelineInvariant, PTL DEF Spec

(* So they implement Delivery while the agent's machine keeps its power.   *)
THEOREM PipelineImplementsDelivery ==
  ASSUME MaxBoots = 0
  PROVE  Spec => ImplementsDelivery
<1>1. Init => D!Init
  BY DEF Init, S!Init, C!Init, D!Init
<1>2. ASSUME IInv, IInv', [Next]_vars
      PROVE  [D!Next]_(D!vars)
  <2>1. SP!IInv'
    BY <1>2 DEF IInv
  <2>2. boot' \in 0 .. MaxBoots
    BY <2>1 DEF SP!IInv, SP!TypeOK
  <2> QED
    BY <1>2, <2>2, StepsOfDelivery
<1>3. IInv /\ IInv' /\ [Next]_vars => [D!Next]_(D!vars)
  BY <1>2
<1> QED
  BY <1>1, <1>3, PipelineInvariant, PTL DEF Spec, ImplementsDelivery, D!Spec

===============================================================================
