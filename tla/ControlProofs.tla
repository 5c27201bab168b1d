------------------------------ MODULE ControlProofs ---------------------------
(***************************************************************************)
(* Theorems about the control plane's store, for every set of envelopes a  *)
(* client may post, every set of limits and every clock.                   *)
(***************************************************************************)
EXTENDS Control, SumProofs

-------------------------------------------------------------------------------
(* The inductive invariant.                                                *)

(* Only envelopes that were read whole, are valid and fit the columns are  *)
(* taken in.                                                               *)
AcceptedValid ==
  \A e \in accepted : /\ Valid(e) /\ Storable(e)
                      /\ SizeOf[e.body.buckets] <= BodyLimit

(* The rows fit in the file: a commit that only prunes cannot grow it.     *)
RowsInFile == Pages(ingested, flow_buckets) <= file_pages

(* What a power loss leaves is as sound as what is committed.              *)
DurableSound ==
  /\ IsFiniteSet(durable[1]) /\ IsFiniteSet(durable[2])
  /\ Once(durable[1]) /\ Whole(durable[1], durable[2])
  /\ Pages(durable[1], durable[2]) <= durable[3]

IInv ==
  /\ TypeOK /\ AcceptedValid /\ RowsInFile /\ DurableSound
  /\ StoredOnce /\ StoredWhole /\ FileWithinLimit

-------------------------------------------------------------------------------
(* Rows and pages.                                                         *)

(* Where no row is under a batch's id, its rows are counted from one.      *)
LEMMA FreshRows ==
  ASSUME NEW e, NEW flows, \A f \in flows : f.batch_id # e.batch_id
  PROVE  InsertedRows(e, flows) = FlowRowsOf(e)
<1>1. {f \in flows : f.batch_id = e.batch_id} = {}
  OBVIOUS
<1>2. {f \in {} : f.batch_id = e.batch_id} = {}
  OBVIOUS
<1> QED
  BY <1>1, <1>2 DEF FlowRowsOf, InsertedRows

(* The rows of an envelope that can be posted are well formed, one for     *)
(* each of its buckets.                                                    *)
LEMMA RowTypes ==
  ASSUME NEW e \in Posted
  PROVE  /\ RowOf(e) \in IngestedRow
         /\ FlowRowsOf(e) \subseteq FlowRow
         /\ IsFiniteSet(FlowRowsOf(e))
         /\ \A f \in FlowRowsOf(e) :
              /\ f.batch_id = e.batch_id /\ f.node_id = e.body.origin[1]
              /\ \E i \in 1 .. Len(BucketsOf[e.body.buckets]) :
                   f.bucket = BucketsOf[e.body.buckets][i]
<1>1. e \in BatchEnvelope
  BY PostedAssumption
<1>2. RowOf(e) \in IngestedRow
  BY <1>1 DEF BatchEnvelope, BatchBody, RowOf, IngestedRow
<1>3. e.body.origin \in Origin /\ e.body.buckets \in Content /\ e.batch_id \in BatchId
  BY <1>1 DEF BatchEnvelope, BatchBody
<1> DEFINE buckets == BucketsOf[e.body.buckets]
           places  == 1 .. Len(buckets)
           row     == [i \in places |->
                         [batch_id |-> e.batch_id, node_id |-> e.body.origin[1],
                          bucket |-> buckets[i], rowid |-> 0 + i]]
<1>4. buckets \in Seq(FlowBucket)
  BY <1>3, PostedAssumption
<1>5. /\ Len(buckets) \in Nat /\ IsFiniteSet(places)
      /\ \A i \in places : buckets[i] \in FlowBucket /\ 0 + i \in Nat
  <2>1. Len(buckets) \in Nat /\ \A i \in places : buckets[i] \in FlowBucket /\ 0 + i \in Nat
    BY <1>4
  <2> QED
    BY <2>1, FS_Interval
<1>6. FlowRowsOf(e) = {row[i] : i \in places}
  <2>1. Cardinality({f \in {} : f.batch_id = e.batch_id}) = 0
    <3>1. {f \in {} : f.batch_id = e.batch_id} = {}
      OBVIOUS
    <3> QED
      BY <3>1, FS_EmptySet
  <2>2. FlowRowsOf(e) =
          {[batch_id |-> e.batch_id, node_id |-> e.body.origin[1],
            bucket |-> buckets[i], rowid |-> 0 + i] : i \in places}
    BY <2>1 DEF FlowRowsOf, InsertedRows
  <2> QED
    BY <2>2
<1>7. \A i \in places :
        /\ row[i] \in FlowRow /\ row[i].batch_id = e.batch_id
        /\ row[i].node_id = e.body.origin[1] /\ row[i].bucket = buckets[i]
  BY <1>3, <1>5 DEF FlowRow
<1> HIDE DEF row, places, buckets
<1>8. FlowRowsOf(e) \subseteq FlowRow
  BY <1>6, <1>7
<1>9. IsFiniteSet(FlowRowsOf(e))
  BY <1>5, <1>6, FiniteImage
<1>10. \A f \in FlowRowsOf(e) :
         /\ f.batch_id = e.batch_id /\ f.node_id = e.body.origin[1]
         /\ \E i \in places : f.bucket = buckets[i]
  BY <1>6, <1>7
<1> QED
  BY <1>2, <1>8, <1>9, <1>10 DEF places, buckets

(* The row of a batch names its body: two valid envelopes with the same    *)
(* checksum have the same body.                                            *)
LEMMA SameChecksumSameBody ==
  ASSUME NEW e1 \in Posted, NEW e2 \in Posted, Valid(e1), Valid(e2),
         e1.checksum = e2.checksum
  PROVE  e1.body = e2.body
BY DEF Valid, has_valid_checksum, body_checksum

(* Pages are a number, and fewer rows take no more of them.                *)
LEMMA PagesMonotone ==
  ASSUME NEW B, IsFiniteSet(B), NEW F, IsFiniteSet(F),
         NEW b \in SUBSET B, NEW f \in SUBSET F
  PROVE  /\ Pages(B, F) \in Nat /\ Pages(b, f) \in Nat
         /\ Pages(b, f) <= Pages(B, F)
<1>1. /\ IsFiniteSet(b) /\ Cardinality(b) <= Cardinality(B)
      /\ IsFiniteSet(f) /\ Cardinality(f) <= Cardinality(F)
  BY FS_Subset
<1>2. /\ Cardinality(B) \in Nat /\ Cardinality(F) \in Nat
      /\ Cardinality(b) \in Nat /\ Cardinality(f) \in Nat
  BY <1>1, FS_CardinalityType
<1>3. BatchCost \in Nat /\ FlowCost \in Nat
  BY ControlAssumption
<1>4. ASSUME NEW c \in Nat, NEW m \in Nat, NEW n \in Nat, m <= n
      PROVE  c * m \in Nat /\ c * n \in Nat /\ c * m <= c * n
  BY <1>4
<1>5. /\ BatchCost * Cardinality(b) \in Nat /\ BatchCost * Cardinality(B) \in Nat
      /\ BatchCost * Cardinality(b) <= BatchCost * Cardinality(B)
  BY <1>1, <1>2, <1>3, <1>4
<1>6. /\ FlowCost * Cardinality(f) \in Nat /\ FlowCost * Cardinality(F) \in Nat
      /\ FlowCost * Cardinality(f) <= FlowCost * Cardinality(F)
  BY <1>1, <1>2, <1>3, <1>4
<1> QED
  BY <1>5, <1>6 DEF Pages

(* The larger one of two numbers.                                          *)
LEMMA LargerOfTwo ==
  ASSUME NEW m \in Nat, NEW n \in Nat
  PROVE  Max({m, n}) = IF m >= n THEN m ELSE n
BY DEF Max

-------------------------------------------------------------------------------
(* Pruning.                                                                *)

(* Pruning removes rows only, and keeps a batch with all its flow rows or  *)
(* removes it with all of them.                                            *)
LEMMA PruningWhole ==
  ASSUME StoredOnce, StoredWhole, NEW now
  PROVE  /\ KeptBatches(now) \subseteq ingested
         /\ KeptFlows(now) \subseteq flow_buckets
         /\ \A r \in KeptBatches(now) :
              {f \in KeptFlows(now) : f.batch_id = r.batch_id}
                = {f \in flow_buckets : f.batch_id = r.batch_id}
         /\ \A f \in KeptFlows(now) : \E r \in KeptBatches(now) : r.batch_id = f.batch_id
<1>1. /\ KeptBatches(now) \subseteq ingested
      /\ KeptFlows(now) \subseteq flow_buckets
  BY DEF KeptBatches, KeptFlows
<1>2. ASSUME NEW r \in KeptBatches(now)
      PROVE  {f \in KeptFlows(now) : f.batch_id = r.batch_id}
               = {f \in flow_buckets : f.batch_id = r.batch_id}
  <2>1. r \in ingested /\ ~Expired(r, now)
    BY <1>2 DEF KeptBatches
  <2>2. \A x \in ingested : x.batch_id = r.batch_id => x = r
    BY <2>1 DEF StoredOnce, Once
  <2> QED
    BY <2>1, <2>2 DEF KeptFlows
<1>3. ASSUME NEW f \in KeptFlows(now)
      PROVE  \E r \in KeptBatches(now) : r.batch_id = f.batch_id
  <2>1. PICK r \in ingested : r.batch_id = f.batch_id
    BY <1>1, <1>3 DEF StoredWhole, Whole
  <2>2. ~Expired(r, now)
    BY <1>3, <2>1 DEF KeptFlows
  <2> QED
    BY <2>1, <2>2 DEF KeptBatches
<1> QED
  BY <1>1, <1>2, <1>3

(* More accepted envelopes make a durable file no less sound.              *)
LEMMA DurableKept ==
  ASSUME DurableSound, durable' = durable, accepted \subseteq accepted'
  PROVE  DurableSound'
BY DEF DurableSound, Once, Whole, Pages

(* An ingest of a repeated batch commits the pruning.                      *)
LEMMA DuplicateStep ==
  ASSUME IInv, NEW e \in Posted, NEW now \in Times, IngestDuplicate(e, now)
  PROVE  IInv'
<1> DEFINE batches == KeptBatches(now)
           flows == KeptFlows(now)
<1>1. /\ TypeOK /\ AcceptedValid /\ RowsInFile /\ DurableSound
      /\ StoredOnce /\ StoredWhole /\ FileWithinLimit
  BY DEF IInv
<1>2. /\ ingested' = batches /\ flow_buckets' = flows
      /\ file_pages' = Max({file_pages, Pages(batches, flows)})
      /\ reply' = [envelope |-> e, now |-> now, status |-> "duplicate"]
      /\ UNCHANGED <<durable, limits, accepted>>
  BY DEF IngestDuplicate, Commit, Answer
<1>3. /\ batches \subseteq ingested /\ flows \subseteq flow_buckets
      /\ \A r \in batches : {f \in flows : f.batch_id = r.batch_id}
                              = {f \in flow_buckets : f.batch_id = r.batch_id}
      /\ \A f \in flows : \E r \in batches : r.batch_id = f.batch_id
  BY <1>1, PruningWhole
<1> HIDE DEF batches, flows
<1>4. IsFiniteSet(batches) /\ IsFiniteSet(flows)
  BY <1>1, <1>3, FS_Subset DEF TypeOK
<1>5. Pages(batches, flows) \in Nat /\ Pages(batches, flows) <= file_pages
      /\ file_pages \in Nat
  BY <1>1, <1>3, PagesMonotone DEF TypeOK, RowsInFile
<1>6. file_pages' = file_pages
  BY <1>2, <1>5, LargerOfTwo
<1>7. TypeOK'
  <2>1. reply' \in [envelope : Posted, now : Times, status : Acks \cup Errors]
    BY <1>2 DEF Acks
  <2> QED
    BY <1>1, <1>2, <1>3, <1>4, <1>6, <2>1 DEF TypeOK
<1>8. AcceptedValid' /\ RowsInFile' /\ FileWithinLimit'
  BY <1>1, <1>2, <1>5, <1>6 DEF AcceptedValid, RowsInFile, FileWithinLimit, Valid, Storable
<1>9. StoredOnce'
  BY <1>1, <1>2, <1>3 DEF StoredOnce, Once
<1>10. StoredWhole'
  BY <1>1, <1>2, <1>3 DEF StoredWhole, Whole
<1>11. DurableSound'
  BY <1>1, <1>2, DurableKept
<1> QED
  BY <1>7, <1>8, <1>9, <1>10, <1>11 DEF IInv

(* An ingest of a new batch stores it beside what is kept: neither its id  *)
(* nor its sequence number is among those rows, and so none of the flow    *)
(* rows that are kept is under its id either.                              *)
LEMMA InsertedStep ==
  ASSUME IInv, NEW e \in Posted, NEW now \in Times, IngestInserted(e, now),
         SizeOf[e.body.buckets] <= BodyLimit
  PROVE  IInv'
<1> DEFINE batches == KeptBatches(now)
           flows == KeptFlows(now)
           row == RowOf(e)
           pages == Pages(batches \cup {row}, flows \cup FlowRowsOf(e))
<1>1. /\ TypeOK /\ AcceptedValid /\ RowsInFile /\ DurableSound
      /\ StoredOnce /\ StoredWhole /\ FileWithinLimit
  BY DEF IInv
<1>2. /\ ingested' = batches \cup {row} /\ flow_buckets' = flows \cup FlowRowsOf(e)
      /\ file_pages' = Max({file_pages, pages}) /\ pages <= limits.max_pages
      /\ reply' = [envelope |-> e, now |-> now, status |-> "inserted"]
      /\ accepted' = accepted \cup {e} /\ limits' = limits /\ limits # Down
      /\ durable' = durable /\ Valid(e) /\ Storable(e)
  <2>1. \A r \in batches : r.batch_id # e.batch_id
    BY DEF IngestInserted, New, SameId
  <2>2. \A f \in flows : f.batch_id # e.batch_id
    BY <1>1, <2>1, PruningWhole
  <2>3. FlowsWith(e, now) = flows \cup FlowRowsOf(e)
    BY <2>2, FreshRows DEF FlowsWith
  <2> QED
    BY <2>3 DEF IngestInserted, Commit, Answer, New, HasRoom, BatchesWith
<1>3. /\ batches \subseteq ingested /\ flows \subseteq flow_buckets
      /\ \A r \in batches : {f \in flows : f.batch_id = r.batch_id}
                              = {f \in flow_buckets : f.batch_id = r.batch_id}
      /\ \A f \in flows : \E r \in batches : r.batch_id = f.batch_id
  BY <1>1, PruningWhole
<1>4. /\ \A r \in batches : r.batch_id # e.batch_id
      /\ \A r \in batches : ~(r.origin = e.body.origin /\ r.seq = e.body.seq)
  BY DEF IngestInserted, New, SameId, SameSeq
<1>5. /\ row.batch_id = e.batch_id /\ row.origin = e.body.origin /\ row.seq = e.body.seq
      /\ \A f \in FlowRowsOf(e) : f.batch_id = e.batch_id
  BY RowTypes DEF RowOf
<1>6. /\ row \in IngestedRow /\ FlowRowsOf(e) \subseteq FlowRow
      /\ IsFiniteSet(FlowRowsOf(e))
  BY RowTypes
<1> HIDE DEF batches, flows, row
<1>7. IsFiniteSet(batches \cup {row}) /\ IsFiniteSet(flows \cup FlowRowsOf(e))
  <2>1. IsFiniteSet(batches) /\ IsFiniteSet(flows)
    BY <1>1, <1>3, FS_Subset DEF TypeOK
  <2> QED
    BY <1>6, <2>1, FS_AddElement, FS_Union
<1>8. pages \in Nat /\ file_pages \in Nat
  BY <1>1, <1>7, PagesMonotone DEF TypeOK
<1>9. file_pages' \in Nat /\ pages <= file_pages'
      /\ (file_pages' = pages \/ file_pages' = file_pages)
  <2>1. Max({file_pages, pages}) = IF file_pages >= pages THEN file_pages ELSE pages
    BY <1>8, LargerOfTwo
  <2> HIDE DEF pages
  <2> QED
    BY <1>2, <1>8, <2>1
<1>10. TypeOK'
  <2>1. reply' \in [envelope : Posted, now : Times, status : Acks \cup Errors]
    BY <1>2 DEF Acks
  <2> QED
    BY <1>1, <1>2, <1>3, <1>6, <1>7, <1>9, <2>1 DEF TypeOK
<1>11. AcceptedValid'
  BY <1>1, <1>2 DEF AcceptedValid, Valid, Storable
<1>12. RowsInFile'
  BY <1>2, <1>9 DEF RowsInFile
<1>13. FileWithinLimit'
  BY <1>1, <1>2, <1>9 DEF FileWithinLimit
<1>14. StoredOnce'
  BY <1>1, <1>2, <1>3, <1>4, <1>5 DEF StoredOnce, Once
<1>15. StoredWhole'
  <2>1. \A f \in flows : f.batch_id # e.batch_id
    BY <1>3, <1>4
  <2>2. ASSUME NEW r \in ingested'
        PROVE  \E x \in accepted' :
                 /\ r = RowOf(x)
                 /\ {f \in flow_buckets' : f.batch_id = r.batch_id} = FlowRowsOf(x)
    <3>1. CASE r = row
      <4>1. {f \in flow_buckets' : f.batch_id = r.batch_id} = FlowRowsOf(e)
        BY <1>2, <1>5, <2>1, <3>1
      <4> QED
        BY <1>2, <3>1, <4>1 DEF row
    <3>2. CASE r \in batches
      <4>1. PICK x \in accepted :
              /\ r = RowOf(x)
              /\ {f \in flow_buckets : f.batch_id = r.batch_id} = FlowRowsOf(x)
        BY <1>1, <1>3, <3>2 DEF StoredWhole, Whole
      <4>2. {f \in flow_buckets' : f.batch_id = r.batch_id}
              = {f \in flows : f.batch_id = r.batch_id}
        BY <1>2, <1>4, <1>5, <3>2
      <4>3. {f \in flow_buckets' : f.batch_id = r.batch_id} = FlowRowsOf(x)
        BY <1>3, <3>2, <4>1, <4>2
      <4> QED
        BY <1>2, <4>1, <4>3
    <3> QED
      BY <1>2, <2>2, <3>1, <3>2
  <2>3. ASSUME NEW f \in flow_buckets'
        PROVE  \E r \in ingested' : r.batch_id = f.batch_id
    BY <1>2, <1>3, <1>5, <2>3
  <2> QED
    BY <2>2, <2>3 DEF StoredWhole, Whole
<1>16. DurableSound'
  BY <1>1, <1>2, DurableKept
<1> QED
  BY <1>10, <1>11, <1>12, <1>13, <1>14, <1>15, <1>16 DEF IInv

-------------------------------------------------------------------------------
(* The invariant.                                                          *)

(* An empty store satisfies the invariant.                                 *)
LEMMA InitIInv == Init => IInv
<1> SUFFICES ASSUME Init
             PROVE  IInv
  OBVIOUS
<1>1. /\ ingested = {} /\ flow_buckets = {} /\ file_pages = 0
      /\ durable = <<{}, {}, 0>>
      /\ limits \in ControlLimits /\ reply = NoReply /\ accepted = {}
  BY DEF Init, store
<1>2. IsFiniteSet({}) /\ Cardinality({}) = 0
  BY FS_EmptySet
<1>3. TypeOK /\ AcceptedValid /\ StoredOnce /\ StoredWhole
  BY <1>1, <1>2 DEF TypeOK, AcceptedValid, StoredOnce, StoredWhole, Once, Whole
<1>4. RowsInFile /\ DurableSound
  BY <1>1, <1>2, ControlAssumption DEF RowsInFile, DurableSound, Pages, Once, Whole
<1>5. FileWithinLimit
  BY <1>1, ControlAssumption DEF FileWithinLimit
<1> QED
  BY <1>3, <1>4, <1>5 DEF IInv

(* A step that leaves the store and the history alone keeps what is said   *)
(* of them.                                                                *)
LEMMA StoreUnchanged ==
  ASSUME IInv, UNCHANGED <<store, accepted>>
  PROVE  /\ AcceptedValid' /\ RowsInFile' /\ StoredOnce' /\ StoredWhole'
         /\ durable' = durable => DurableSound'
<1>1. AcceptedValid /\ RowsInFile /\ StoredOnce /\ StoredWhole /\ DurableSound
  BY DEF IInv
<1>2. ingested' = ingested /\ flow_buckets' = flow_buckets /\ file_pages' = file_pages
      /\ accepted' = accepted
  BY DEF store
<1>3. durable' = durable => DurableSound'
  BY <1>1, <1>2, DurableKept
<1> QED
  BY <1>1, <1>2, <1>3 DEF AcceptedValid, RowsInFile, StoredOnce, StoredWhole, Once, Whole,
     Pages, Valid, Storable

(* The ingests that are answered with an error leave everything else as it *)
(* was.                                                                    *)
Refusing(e, now) ==
  \/ IngestTooLarge(e, now) \/ IngestInvalid(e, now) \/ IngestConflict(e, now)
  \/ IngestFull(e, now) \/ IngestUnstorable(e, now)

(* A refused ingest keeps the invariant.                                   *)
LEMMA RefusedStep ==
  ASSUME IInv, NEW e \in Posted, NEW now \in Times, Refusing(e, now)
  PROVE  /\ IInv'
         /\ UNCHANGED <<store, accepted>>
         /\ \E status \in Errors : Answer(e, now, status)
<1>1. /\ UNCHANGED <<store, durable, limits, accepted>>
      /\ \E status \in Errors : Answer(e, now, status)
  BY DEF Refusing, IngestTooLarge, IngestInvalid, IngestConflict, IngestFull,
         IngestUnstorable, Errors
<1>2. reply' \in [envelope : Posted, now : Times, status : Acks \cup Errors]
  BY <1>1 DEF Answer
<1>3. TypeOK' /\ FileWithinLimit'
  BY <1>1, <1>2 DEF IInv, TypeOK, FileWithinLimit, store
<1>4. AcceptedValid' /\ RowsInFile' /\ StoredOnce' /\ StoredWhole' /\ DurableSound'
  BY <1>1, StoreUnchanged
<1> QED
  BY <1>1, <1>3, <1>4 DEF IInv

(* The committed file, which is sound, becomes the durable one.            *)
LEMMA SyncStep ==
  ASSUME IInv, Sync
  PROVE  IInv'
<1>1. /\ durable' = <<ingested, flow_buckets, file_pages>>
      /\ UNCHANGED <<store, accepted>> /\ UNCHANGED <<limits, reply>>
  BY DEF Sync, store
<1>2. TypeOK' /\ FileWithinLimit'
  BY <1>1 DEF IInv, TypeOK, FileWithinLimit, store
<1>3. AcceptedValid' /\ RowsInFile' /\ StoredOnce' /\ StoredWhole'
  BY <1>1, StoreUnchanged
<1>4. IsFiniteSet(ingested) /\ IsFiniteSet(flow_buckets)
  BY DEF IInv, TypeOK
<1>5. durable'[1] = ingested' /\ durable'[2] = flow_buckets' /\ durable'[3] = file_pages'
  BY <1>1 DEF store
<1>6. DurableSound'
  BY <1>1, <1>3, <1>4, <1>5 DEF DurableSound, RowsInFile, StoredOnce, StoredWhole, store
<1> QED
  BY <1>2, <1>3, <1>6 DEF IInv

(* The durable file becomes the committed one, and no process runs.        *)
LEMMA PowerLossStep ==
  ASSUME IInv, PowerLoss
  PROVE  IInv'
<1>1. /\ ingested' = durable[1] /\ flow_buckets' = durable[2] /\ file_pages' = durable[3]
      /\ limits' = Down /\ UNCHANGED <<durable, reply, accepted>>
  BY DEF PowerLoss
<1>2. TypeOK /\ AcceptedValid /\ DurableSound
  BY DEF IInv
<1>3. TypeOK' /\ AcceptedValid' /\ FileWithinLimit'
  BY <1>1, <1>2 DEF TypeOK, DurableSound, AcceptedValid, FileWithinLimit, Valid, Storable
<1>4. DurableSound'
  BY <1>1, <1>2, DurableKept
<1>5. RowsInFile' /\ StoredOnce' /\ StoredWhole'
  BY <1>1, <1>4 DEF DurableSound, RowsInFile, StoredOnce, StoredWhole
<1> QED
  BY <1>3, <1>4, <1>5 DEF IInv

(* Every step preserves the invariant.                                     *)
LEMMA NextIInv == IInv /\ [Next]_vars => IInv'
<1> SUFFICES ASSUME IInv, [Next]_vars
             PROVE  IInv'
  OBVIOUS
<1>1. ASSUME NEW e \in Posted, NEW now \in Times, Ingest(e, now)
      PROVE  IInv'
  <2>1. CASE Refusing(e, now)
    BY <2>1, RefusedStep
  <2>2. CASE IngestDuplicate(e, now)
    BY <2>2, DuplicateStep
  <2>3. CASE IngestInserted(e, now) /\ SizeOf[e.body.buckets] <= BodyLimit
    BY <2>3, InsertedStep
  <2> QED
    BY <1>1, <2>1, <2>2, <2>3 DEF Ingest, Refusing
<1>2. CASE Stop
  <2>1. limits' = Down /\ UNCHANGED <<store, durable, reply, accepted>>
    BY <1>2 DEF Stop
  <2>2. TypeOK' /\ FileWithinLimit'
    BY <2>1 DEF IInv, TypeOK, FileWithinLimit, store
  <2> QED
    BY <2>1, <2>2, StoreUnchanged DEF IInv
<1>3. ASSUME NEW newlimits \in ControlLimits, Open(newlimits)
      PROVE  IInv'
  <2>1. /\ limits' = newlimits /\ file_pages <= newlimits.max_pages
        /\ UNCHANGED <<store, durable, reply, accepted>>
    BY <1>3 DEF Open
  <2>2. TypeOK' /\ FileWithinLimit'
    BY <2>1 DEF IInv, TypeOK, FileWithinLimit, store
  <2> QED
    BY <2>1, <2>2, StoreUnchanged DEF IInv
<1>4. CASE Sync
  BY <1>4, SyncStep
<1>5. CASE PowerLoss
  BY <1>5, PowerLossStep
<1>6. CASE UNCHANGED vars
  <2>1. UNCHANGED <<store, accepted>> /\ UNCHANGED <<durable, limits, reply>>
    BY <1>6 DEF vars, store
  <2>2. TypeOK' /\ FileWithinLimit'
    BY <2>1 DEF IInv, TypeOK, FileWithinLimit, store
  <2> QED
    BY <2>1, <2>2, StoreUnchanged DEF IInv
<1> QED
  BY <1>1, <1>2, <1>3, <1>4, <1>5, <1>6 DEF Next

(* Every reachable state of the control plane satisfies the invariant.     *)
THEOREM ControlInvariant == Spec => []IInv
BY InitIInv, NextIInv, PTL DEF Spec

(* Every variable of the control plane keeps its type.                     *)
THEOREM ControlTypeOK == Spec => []TypeOK
<1>1. IInv => TypeOK
  BY DEF IInv
<1> QED
  BY <1>1, ControlInvariant, PTL

(* An id, and a place in an origin's sequence, name one stored batch.      *)
THEOREM ControlStoredOnce == Spec => []StoredOnce
<1>1. IInv => StoredOnce
  BY DEF IInv
<1> QED
  BY <1>1, ControlInvariant, PTL

(* Every batch is stored whole or not at all.                              *)
THEOREM ControlStoredWhole == Spec => []StoredWhole
<1>1. IInv => StoredWhole
  BY DEF IInv
<1> QED
  BY <1>1, ControlInvariant, PTL

(* The file never outgrows the limit of the process that runs.             *)
THEOREM ControlFileWithinLimit == Spec => []FileWithinLimit
<1>1. IInv => FileWithinLimit
  BY DEF IInv
<1> QED
  BY <1>1, ControlInvariant, PTL

-------------------------------------------------------------------------------
(* The answers.                                                            *)

(* A step that answers is an ingest: of what it answers, at its time.      *)
LEMMA AnsweringStep ==
  ASSUME [Next]_vars, reply' # reply
  PROVE  \E e \in Posted, now \in Times :
           /\ \/ Refusing(e, now)
              \/ IngestDuplicate(e, now)
              \/ IngestInserted(e, now) /\ SizeOf[e.body.buckets] <= BodyLimit
           /\ reply'.envelope = e /\ reply'.now = now
<1>1. /\ ~Stop /\ ~(\E newlimits \in ControlLimits : Open(newlimits))
      /\ ~Sync /\ ~PowerLoss /\ ~UNCHANGED vars
  BY DEF Stop, Open, Sync, PowerLoss, vars
<1>2. PICK e \in Posted, now \in Times : Ingest(e, now)
  BY <1>1 DEF Next
<1>3. \/ Refusing(e, now)
      \/ IngestDuplicate(e, now)
      \/ IngestInserted(e, now) /\ SizeOf[e.body.buckets] <= BodyLimit
  BY <1>2 DEF Ingest, Refusing
<1>4. \E status \in Acks \cup Errors : Answer(e, now, status)
  BY <1>3 DEF Refusing, IngestTooLarge, IngestInvalid, IngestConflict, IngestFull,
              IngestUnstorable, IngestDuplicate, IngestInserted, Acks, Errors
<1>5. reply'.envelope = e /\ reply'.now = now
  BY <1>4 DEF Answer
<1> QED
  BY <1>3, <1>5

(* The stored row with an envelope's id and checksum is its own row, with  *)
(* its flow rows: the checksum was verified for both, and covers the body. *)
LEMMA StoredIsPosted ==
  ASSUME IInv, NEW e \in Posted, Valid(e), NEW r \in ingested,
         r.batch_id = e.batch_id, r.checksum = e.checksum
  PROVE  /\ r = RowOf(e)
         /\ {f \in flow_buckets : f.batch_id = r.batch_id} = FlowRowsOf(e)
         /\ SizeOf[e.body.buckets] <= BodyLimit
<1>1. PICK x \in accepted :
        /\ r = RowOf(x)
        /\ {f \in flow_buckets : f.batch_id = r.batch_id} = FlowRowsOf(x)
  BY DEF IInv, StoredWhole, Whole
<1>2. x \in Posted /\ Valid(x) /\ SizeOf[x.body.buckets] <= BodyLimit
  BY DEF IInv, TypeOK, AcceptedValid
<1>3. x.checksum = e.checksum /\ x.batch_id = e.batch_id
  BY <1>1 DEF RowOf
<1>4. x.body = e.body
  BY <1>2, <1>3, SameChecksumSameBody
<1>5. RowOf(x) = RowOf(e) /\ FlowRowsOf(x) = FlowRowsOf(e)
  BY <1>3, <1>4 DEF RowOf, FlowRowsOf, InsertedRows
<1> QED
  BY <1>1, <1>2, <1>4, <1>5

(* An acknowledged envelope is stored, row by row, when the answer leaves. *)
THEOREM ControlAckMeansStored == Spec => AckMeansStored
<1> DEFINE Stored(e) == RowOf(e) \in ingested' /\ FlowRowsOf(e) \subseteq flow_buckets'
<1>1. ASSUME IInv, [Next]_vars, NEW e \in Posted, AnswersTo(e, Acks)
      PROVE  Stored(e)
  <2>1. reply' # reply /\ reply'.envelope = e /\ reply'.status \in Acks
    BY <1>1 DEF AnswersTo
  <2>2. PICK x \in Posted, now \in Times :
          /\ \/ Refusing(x, now)
             \/ IngestDuplicate(x, now)
             \/ IngestInserted(x, now) /\ SizeOf[x.body.buckets] <= BodyLimit
          /\ reply'.envelope = x /\ reply'.now = now
    BY <1>1, <2>1, AnsweringStep
  <2>3. x = e
    BY <2>1, <2>2
  <2>4. CASE Refusing(e, now)
    <3>1. PICK status \in Errors : Answer(e, now, status)
      BY <1>1, <2>4, RefusedStep
    <3>2. reply'.status = status
      BY <3>1 DEF Answer
    <3> QED
      BY <2>1, <3>1, <3>2 DEF Acks, Errors
  <2>5. CASE IngestInserted(e, now)
    <3>1. /\ ingested' = BatchesWith(e, now) /\ flow_buckets' = FlowsWith(e, now)
          /\ SameId(e, now) = {}
      BY <2>5 DEF IngestInserted, Commit, New
    <3>2. \A f \in KeptFlows(now) : f.batch_id # e.batch_id
      BY <1>1, <3>1, PruningWhole DEF SameId, IInv
    <3>3. InsertedRows(e, KeptFlows(now)) = FlowRowsOf(e)
      BY <3>2, FreshRows
    <3> QED
      BY <3>1, <3>3 DEF BatchesWith, FlowsWith
  <2>6. CASE IngestDuplicate(e, now)
    <3>1. PICK r \in SameId(e, now) : r.checksum = e.checksum
      BY <2>6 DEF IngestDuplicate
    <3>2. /\ r \in KeptBatches(now) /\ r.batch_id = e.batch_id
          /\ ingested' = KeptBatches(now) /\ flow_buckets' = KeptFlows(now) /\ Valid(e)
      BY <2>6, <3>1 DEF IngestDuplicate, SameId, Commit
    <3>3. /\ r \in ingested
          /\ {f \in KeptFlows(now) : f.batch_id = r.batch_id}
               = {f \in flow_buckets : f.batch_id = r.batch_id}
      BY <1>1, <3>2, PruningWhole DEF IInv
    <3>4. /\ r = RowOf(e)
          /\ {f \in flow_buckets : f.batch_id = r.batch_id} = FlowRowsOf(e)
      BY <1>1, <3>1, <3>2, <3>3, StoredIsPosted
    <3> QED
      BY <3>2, <3>3, <3>4
  <2> QED
    BY <2>2, <2>3, <2>4, <2>5, <2>6
<1>2. IInv /\ [Next]_vars => \A e \in Posted : AnswersTo(e, Acks) => Stored(e)
  BY <1>1
<1> QED
  BY <1>2, ControlInvariant, PTL DEF Spec, AckMeansStored

(* A batch leaves the store only in an ingest that finds it expired, or in *)
(* a power loss that finds it not yet on the disk.                         *)
THEOREM ControlOnlyExpiredLeave == Spec => OnlyExpiredLeave
<1> DEFINE Left(r) ==
      \/ limits' # Down /\ reply'.status \in Acks /\ Expired(r, reply'.now)
      \/ limits' = Down /\ r \notin durable[1]
<1>1. ASSUME IInv, [Next]_vars, NEW r \in ingested \ ingested'
      PROVE  Left(r)
  <2>1. ingested' # ingested
    BY <1>1
  <2>2. /\ ~Stop /\ ~(\E newlimits \in ControlLimits : Open(newlimits))
        /\ ~Sync /\ ~UNCHANGED vars
    BY <2>1 DEF Stop, Open, Sync, vars, store
  <2>3. CASE PowerLoss
    BY <1>1, <2>3 DEF PowerLoss
  <2>4. CASE \E e \in Posted, now \in Times : Ingest(e, now)
    <3>1. PICK e \in Posted, now \in Times : Ingest(e, now)
      BY <2>4
    <3>2. ~Refusing(e, now)
      BY <1>1, <2>1, RefusedStep DEF store
    <3>3. IngestDuplicate(e, now) \/ IngestInserted(e, now)
      BY <3>1, <3>2 DEF Ingest, Refusing
    <3>4. /\ KeptBatches(now) \subseteq ingested' /\ limits' # Down
          /\ \E status \in Acks : Answer(e, now, status)
      BY <3>3 DEF IngestDuplicate, IngestInserted, Commit, BatchesWith, Acks
    <3>5. reply'.status \in Acks /\ reply'.now = now
      BY <3>4 DEF Answer
    <3>6. r \in ingested /\ r \notin KeptBatches(now)
      BY <1>1, <3>4
    <3>7. Expired(r, now)
      BY <3>6 DEF KeptBatches
    <3> QED
      BY <3>4, <3>5, <3>7
  <2> QED
    BY <1>1, <2>2, <2>3, <2>4 DEF Next
<1>2. IInv /\ [Next]_vars => \A r \in ingested \ ingested' : Left(r)
  BY <1>1
<1> QED
  BY <1>2, ControlInvariant, PTL DEF Spec, OnlyExpiredLeave

(* Posting a stored batch again is acknowledged until it expires.          *)
THEOREM ControlRetryIsAcknowledged == Spec => RetryIsAcknowledged
<1> DEFINE Again(e) ==
      /\ Valid(e)
      /\ AnswersTo(e, Acks \cup Errors)
      /\ RowOf(e) \in ingested /\ ~Expired(RowOf(e), reply'.now)
<1>1. ASSUME IInv, [Next]_vars, NEW e \in Posted, Again(e)
      PROVE  reply'.status = "duplicate"
  <2>1. /\ Valid(e) /\ reply' # reply /\ reply'.envelope = e
        /\ RowOf(e) \in ingested /\ ~Expired(RowOf(e), reply'.now)
    BY <1>1 DEF AnswersTo
  <2>2. PICK x \in Posted, now \in Times :
          /\ \/ Refusing(x, now)
             \/ IngestDuplicate(x, now)
             \/ IngestInserted(x, now) /\ SizeOf[x.body.buckets] <= BodyLimit
          /\ reply'.envelope = x /\ reply'.now = now
    BY <1>1, <2>1, AnsweringStep
  <2>3. x = e
    BY <2>1, <2>2
  <2>4. RowOf(e).batch_id = e.batch_id /\ RowOf(e).checksum = e.checksum
    BY DEF RowOf
  <2>5. RowOf(e) \in SameId(e, now)
    BY <2>1, <2>2, <2>4 DEF SameId, KeptBatches
  <2>6. SizeOf[e.body.buckets] <= BodyLimit
    BY <1>1, <2>1, <2>4, StoredIsPosted
  <2>7. ~IngestTooLarge(e, now)
    <3>1. SizeOf[e.body.buckets] \in Nat /\ BodyLimit \in Nat
      BY PostedAssumption DEF BatchEnvelope, BatchBody
    <3> QED
      BY <2>6, <3>1 DEF IngestTooLarge
  <2>8. ~IngestInvalid(e, now)
    BY <2>1 DEF IngestInvalid
  <2>9. ~IngestConflict(e, now)
    BY <2>4, <2>5 DEF IngestConflict
  <2>10. ~New(e, now)
    BY <2>5 DEF New
  <2>11. IngestDuplicate(e, now)
    BY <2>2, <2>3, <2>7, <2>8, <2>9, <2>10
       DEF Refusing, IngestFull, IngestUnstorable, IngestInserted
  <2> QED
    BY <2>11 DEF IngestDuplicate, Answer
<1>2. IInv /\ [Next]_vars => \A e \in Posted : Again(e) => reply'.status = "duplicate"
  BY <1>1
<1> QED
  BY <1>2, ControlInvariant, PTL DEF Spec, RetryIsAcknowledged

-------------------------------------------------------------------------------
(* The queries.                                                            *)

(* The folds of the queries are sums: whatever function gives each element *)
(* the value that is folded.                                               *)
LEMMA PacketsAdd ==
  ASSUME NEW rows, IsFiniteSet(rows), NEW v, \A f \in rows : v[f] = f.bucket.packets
  PROVE  Packets(rows) = Sum(v, rows)
<1> DEFINE Folds(g) == g = [s \in SUBSET rows |->
                              IF s = {} THEN 0 ELSE Pick(s).bucket.packets + g[Rest(s)]]
           h == CHOOSE g : Folds(g)
<1>1. Packets(rows) = h[rows]
  BY DEF Packets, MapThenSumSet, MapThenFoldSet, Pick, Rest
<1>2. \A s \in SUBSET rows : s # {} => v[Pick(s)] = Pick(s).bucket.packets
  BY DEF Pick
<1>3. \A g : Folds(g) <=> Sums(v, rows, g)
  BY <1>2 DEF Sums
<1> HIDE DEF Folds
<1>4. Sums(v, rows, h)
  BY <1>3, SumsExist
<1> QED
  BY <1>1, <1>4, SumValue

(* The same for bytes.                                                     *)
LEMMA BytesAdd ==
  ASSUME NEW rows, IsFiniteSet(rows), NEW v, \A f \in rows : v[f] = f.bucket.bytes
  PROVE  Bytes(rows) = Sum(v, rows)
<1> DEFINE Folds(g) == g = [s \in SUBSET rows |->
                              IF s = {} THEN 0 ELSE Pick(s).bucket.bytes + g[Rest(s)]]
           h == CHOOSE g : Folds(g)
<1>1. Bytes(rows) = h[rows]
  BY DEF Bytes, MapThenSumSet, MapThenFoldSet, Pick, Rest
<1>2. \A s \in SUBSET rows : s # {} => v[Pick(s)] = Pick(s).bucket.bytes
  BY DEF Pick
<1>3. \A g : Folds(g) <=> Sums(v, rows, g)
  BY <1>2 DEF Sums
<1> HIDE DEF Folds
<1>4. Sums(v, rows, h)
  BY <1>3, SumsExist
<1> QED
  BY <1>1, <1>4, SumValue

(* The same for a field of the points of a series.                         *)
LEMMA PointsAdd ==
  ASSUME NEW field, NEW points, IsFiniteSet(points), NEW v,
         \A p \in points : v[p] = p[field],
         NEW total, Sum(v, points) = total[field]
  PROVE  Adds(field, points, total)
<1> DEFINE Folds(g) == g = [s \in SUBSET points |->
                              IF s = {} THEN 0 ELSE Pick(s)[field] + g[Rest(s)]]
           h == CHOOSE g : Folds(g)
<1>1. Adds(field, points, total) <=> h[points] = total[field]
  BY DEF Adds, MapThenSumSet, MapThenFoldSet, Pick, Rest
<1>2. \A s \in SUBSET points : s # {} => v[Pick(s)] = Pick(s)[field]
  BY DEF Pick
<1>3. \A g : Folds(g) <=> Sums(v, points, g)
  BY <1>2 DEF Sums
<1> HIDE DEF Folds
<1>4. Sums(v, points, h)
  BY <1>3, SumsExist
<1> QED
  BY <1>1, <1>4, SumValue

(* The same for a field of the totals of the places.                       *)
LEMMA PartsAdd ==
  ASSUME NEW field, NEW parts, IsFiniteSet(parts), NEW v,
         \A p \in parts : v[p] = p[2].body[field]
  PROVE  MapThenSumSet(LAMBDA p : p[2].body[field], parts) = Sum(v, parts)
<1> DEFINE Folds(g) == g = [s \in SUBSET parts |->
                              IF s = {} THEN 0 ELSE Pick(s)[2].body[field] + g[Rest(s)]]
           h == CHOOSE g : Folds(g)
<1>1. MapThenSumSet(LAMBDA p : p[2].body[field], parts) = h[parts]
  BY DEF MapThenSumSet, MapThenFoldSet, Pick, Rest
<1>2. \A s \in SUBSET parts : s # {} => v[Pick(s)] = Pick(s)[2].body[field]
  BY DEF Pick
<1>3. \A g : Folds(g) <=> Sums(v, parts, g)
  BY <1>2 DEF Sums
<1> HIDE DEF Folds
<1>4. Sums(v, parts, h)
  BY <1>3, SumsExist
<1> QED
  BY <1>1, <1>4, SumValue

(* What is added up of a row.                                              *)
PacketsOf(rows) == [f \in rows |-> f.bucket.packets]
BytesOf(rows)   == [f \in rows |-> f.bucket.bytes]
OneOf(rows)     == [f \in rows |-> 1]

(* The totals of some rows are sums, and those of a part are not more.     *)
LEMMA RowTotals ==
  ASSUME NEW rows \in SUBSET FlowRow, IsFiniteSet(rows), NEW part \in SUBSET rows
  PROVE  /\ IsFiniteSet(part)
         /\ Packets(part) = Sum(PacketsOf(rows), part) /\ Packets(part) \in Nat
         /\ Bytes(part) = Sum(BytesOf(rows), part) /\ Bytes(part) \in Nat
         /\ Cardinality(part) = Sum(OneOf(rows), part) /\ Cardinality(part) \in Nat
         /\ Packets(part) <= Packets(rows) /\ Bytes(part) <= Bytes(rows)
<1>1. IsFiniteSet(part)
  BY FS_Subset
<1>2. \A f \in rows : /\ PacketsOf(rows)[f] = f.bucket.packets /\ f.bucket.packets \in Nat
                      /\ BytesOf(rows)[f] = f.bucket.bytes /\ f.bucket.bytes \in Nat
                      /\ OneOf(rows)[f] = 1
  BY DEF PacketsOf, BytesOf, OneOf, FlowRow, FlowBucket
<1>3. /\ Packets(part) = Sum(PacketsOf(rows), part)
      /\ Packets(rows) = Sum(PacketsOf(rows), rows)
  BY <1>1, <1>2, PacketsAdd
<1>4. /\ Bytes(part) = Sum(BytesOf(rows), part)
      /\ Bytes(rows) = Sum(BytesOf(rows), rows)
  BY <1>1, <1>2, BytesAdd
<1>5. Cardinality(part) = Sum(OneOf(rows), part) /\ Cardinality(part) \in Nat
  BY <1>1, <1>2, SumOnes, FS_CardinalityType
<1>6. /\ Sum(PacketsOf(rows), part) \in Nat
      /\ Sum(PacketsOf(rows), part) <= Sum(PacketsOf(rows), rows)
  BY <1>2, SumPart
<1>7. /\ Sum(BytesOf(rows), part) \in Nat
      /\ Sum(BytesOf(rows), part) <= Sum(BytesOf(rows), rows)
  BY <1>2, SumPart
<1> QED
  BY <1>1, <1>3, <1>4, <1>5, <1>6, <1>7

(* A series over the whole time range of some rows whose totals can be     *)
(* added up is answered, and adds up to them.                              *)
LEMMA SeriesAdds ==
  ASSUME NEW rows \in SUBSET FlowRow, IsFiniteSet(rows), Summable(rows),
         NEW from \in Nat, NEW to \in Nat, from <= to, to <= SqlMax,
         \A f \in rows : f.bucket.bucket_start \in from .. to,
         NEW total, total.packets = Packets(rows), total.bytes = Bytes(rows)
  PROVE  /\ series(rows, from, to).status = "ok"
         /\ Adds("packets", series(rows, from, to).body, total)
         /\ Adds("bytes", series(rows, from, to).body, total)
<1> DEFINE start  == [f \in rows |-> f.bucket.bucket_start]
           at(s)  == {f \in rows : f.bucket.bucket_start = s}
           point  == [s \in Starts(rows) |->
                        [bucket_start |-> s, packets |-> Packets(at(s)), bytes |-> Bytes(at(s))]]
           points == {point[s] : s \in Starts(rows)}
<1>1. {f \in rows : f.bucket.bucket_start \in from .. to} = rows
  OBVIOUS
<1>2. ASSUME NEW s
      PROVE  /\ at(s) \in SUBSET rows /\ at(s) = Group(start, rows, s)
             /\ IsFiniteSet(at(s)) /\ Summable(at(s))
             /\ Packets(at(s)) = Sum(PacketsOf(rows), at(s))
             /\ Bytes(at(s)) = Sum(BytesOf(rows), at(s))
  <2>1. at(s) \in SUBSET rows /\ at(s) = Group(start, rows, s)
    BY DEF Group
  <2> HIDE DEF at, start
  <2>2. /\ IsFiniteSet(at(s))
        /\ Packets(at(s)) \in Nat /\ Packets(at(s)) <= Packets(rows)
        /\ Bytes(at(s)) \in Nat /\ Bytes(at(s)) <= Bytes(rows)
        /\ Packets(at(s)) = Sum(PacketsOf(rows), at(s))
        /\ Bytes(at(s)) = Sum(BytesOf(rows), at(s))
    BY <2>1, RowTotals
  <2>3. Packets(rows) \in Nat /\ Bytes(rows) \in Nat /\ SqlMax \in Nat
    BY RowTotals, ControlAssumption
  <2>4. Summable(at(s))
    BY <2>2, <2>3 DEF Summable
  <2> QED
    BY <2>1, <2>2, <2>4
<1>3. series(rows, from, to) = Success(points)
  <2>1. \A s \in Starts(rows) : Summable(at(s))
    BY <1>2
  <2> QED
    BY <1>1, <2>1 DEF series
<1>4. Starts(rows) = Groups(start, rows)
  BY DEF Starts, Groups
<1>5. /\ points = {point[s] : s \in Groups(start, rows)}
      /\ \A r, s \in Groups(start, rows) : point[r] = point[s] => r = s
      /\ \A s \in Groups(start, rows) :
           /\ point[s].packets = Sum(PacketsOf(rows), Group(start, rows, s))
           /\ point[s].bytes = Sum(BytesOf(rows), Group(start, rows, s))
  <2>1. points = {point[s] : s \in Groups(start, rows)}
    BY <1>4
  <2>2. ASSUME NEW r \in Starts(rows), NEW s \in Starts(rows), point[r] = point[s]
        PROVE  r = s
    <3>1. point[r].bucket_start = r /\ point[s].bucket_start = s
      OBVIOUS
    <3> QED
      BY <2>2, <3>1
  <2>3. ASSUME NEW s \in Starts(rows)
        PROVE  /\ point[s].packets = Sum(PacketsOf(rows), Group(start, rows, s))
               /\ point[s].bytes = Sum(BytesOf(rows), Group(start, rows, s))
    BY <1>2
  <2> HIDE DEF point, start
  <2> QED
    BY <1>4, <2>1, <2>2, <2>3
<1> HIDE DEF start, point, at
<1>6. IsFiniteSet(points)
  <2>1. IsFiniteSet(Groups(start, rows))
    <3>1. \A f \in rows : OneOf(rows)[f] \in Nat
      BY DEF OneOf
    <3> QED
      BY <3>1, SumGroups
  <2>2. IsFiniteSet({point[s] : s \in Groups(start, rows)})
    BY <2>1, FiniteImage
  <2> QED
    BY <1>5, <2>2
<1> DEFINE packets == [p \in points |-> p.packets]
           bytes   == [p \in points |-> p.bytes]
<1>7. /\ \A f \in rows : PacketsOf(rows)[f] \in Nat
      /\ \A f \in rows : BytesOf(rows)[f] \in Nat
  BY DEF PacketsOf, BytesOf, FlowRow, FlowBucket
<1>8. Sum(packets, points) = Sum(PacketsOf(rows), rows)
  <2>1. \A s \in Groups(start, rows) :
          packets[point[s]] = Sum(PacketsOf(rows), Group(start, rows, s))
    BY <1>5
  <2> HIDE DEF packets, points
  <2> QED
    BY <1>5, <1>7, <2>1, SumNamedGroups
<1>9. Sum(bytes, points) = Sum(BytesOf(rows), rows)
  <2>1. \A s \in Groups(start, rows) :
          bytes[point[s]] = Sum(BytesOf(rows), Group(start, rows, s))
    BY <1>5
  <2> HIDE DEF bytes, points
  <2> QED
    BY <1>5, <1>7, <2>1, SumNamedGroups
<1>10. Sum(PacketsOf(rows), rows) = Packets(rows) /\ Sum(BytesOf(rows), rows) = Bytes(rows)
  BY RowTotals
<1>11. Adds("packets", points, total) /\ Adds("bytes", points, total)
  <2>1. (\A p \in points : packets[p] = p.packets) /\ (\A p \in points : bytes[p] = p.bytes)
    OBVIOUS
  <2> HIDE DEF packets, bytes, points
  <2> QED
    BY <1>6, <1>8, <1>9, <1>10, <2>1, PointsAdd
<1> QED
  BY <1>3, <1>11 DEF Success

(* The stored flow rows of a node: their times fit a column, and there is  *)
(* a stored batch of that node for each.                                   *)
LEMMA StoredRows ==
  ASSUME IInv
  PROVE  /\ flow_buckets \in SUBSET FlowRow /\ IsFiniteSet(flow_buckets)
         /\ \A f \in flow_buckets :
              /\ f.bucket.bucket_start \in 0 .. SqlMax
              /\ \E r \in ingested : r.batch_id = f.batch_id /\ r.origin[1] = f.node_id
<1>1. ASSUME NEW f \in flow_buckets
      PROVE  /\ f.bucket.bucket_start \in 0 .. SqlMax
             /\ \E r \in ingested : r.batch_id = f.batch_id /\ r.origin[1] = f.node_id
  <2>1. PICK r \in ingested : r.batch_id = f.batch_id
    BY DEF IInv, StoredWhole, Whole
  <2>2. PICK e \in accepted :
          /\ r = RowOf(e)
          /\ {x \in flow_buckets : x.batch_id = r.batch_id} = FlowRowsOf(e)
    BY DEF IInv, StoredWhole, Whole
  <2>3. f \in FlowRowsOf(e)
    BY <2>1, <2>2
  <2>4. /\ e \in Posted /\ Storable(e)
    BY DEF IInv, TypeOK, AcceptedValid
  <2>5. PICK i \in 1 .. Len(BucketsOf[e.body.buckets]) :
          /\ f.node_id = e.body.origin[1]
          /\ f.bucket = BucketsOf[e.body.buckets][i]
    BY <2>3, <2>4, RowTypes
  <2>6. r.origin = e.body.origin /\ BucketsOf[e.body.buckets][i].bucket_start <= SqlMax
    BY <2>2, <2>4 DEF RowOf, Storable
  <2>7. f.bucket.bucket_start \in Nat
    BY DEF IInv, TypeOK, FlowRow, FlowBucket
  <2> QED
    BY <2>1, <2>5, <2>6, <2>7, ControlAssumption
<1> QED
  BY <1>1 DEF IInv, TypeOK

(* The node's totals are those of its places together, and of its series.  *)
LEMMA NodeAgrees ==
  ASSUME IInv, NEW node, stats(node).status = "ok"
  PROVE  LET places == {n.capture_point : n \in {x \in nodes : x.node_id = node}}
             parts  == {<<p, stats_at(node, p)>> : p \in places}
             line   == series(FlowsOfNode(node), 0, SqlMax)
         IN  /\ line.status = "ok" /\ \A p \in parts : p[2].status = "ok"
             /\ \A field \in {"flow_buckets", "packets", "bytes"} :
                  MapThenSumSet(LAMBDA p : p[2].body[field], parts)
                    = stats(node).body[field]
             /\ Adds("bytes", line.body, stats(node).body)
<1> DEFINE rows   == FlowsOfNode(node)
           point  == [f \in rows |-> PointOf(f)]
           places == Groups(point, rows)
           part(p) == Group(point, rows, p)
           named  == [p \in places |-> <<p, stats_at(node, p)>>]
           parts  == {named[p] : p \in places}
<1>1. /\ rows \in SUBSET FlowRow /\ IsFiniteSet(rows)
      /\ \A f \in rows : f.bucket.bucket_start \in 0 .. SqlMax
  <2>1. rows \subseteq flow_buckets
    BY DEF FlowsOfNode
  <2> QED
    BY <2>1, StoredRows, FS_Subset
<1>2. {n.capture_point : n \in {x \in nodes : x.node_id = node}} = places
  <2>1. ASSUME NEW n \in nodes, n.node_id = node
        PROVE  n.capture_point \in places
    <3>1. PICK f \in flow_buckets : n.node_id = f.node_id /\ n.capture_point = PointOf(f)
      BY DEF nodes
    <3> QED
      BY <2>1, <3>1 DEF FlowsOfNode, Groups
  <2>2. ASSUME NEW p \in places
        PROVE  \E n \in nodes : n.node_id = node /\ n.capture_point = p
    <3>1. PICK f \in rows : p = PointOf(f)
      BY DEF Groups
    <3>2. f \in flow_buckets /\ f.node_id = node
      BY DEF FlowsOfNode
    <3> DEFINE at == FlowsAt(f.node_id, PointOf(f))
               n  == [node_id |-> f.node_id, capture_point |-> PointOf(f),
                      first_bucket_start |-> Min(Starts(at)),
                      last_bucket_start  |-> Max(Starts(at))]
    <3>3. n \in nodes
      BY <3>2 DEF nodes
    <3>4. n.node_id = node /\ n.capture_point = p
      BY <3>1, <3>2
    <3> QED
      BY <3>3, <3>4
  <2> HIDE DEF places
  <2> QED
    BY <2>1, <2>2
<1>3. /\ Summable(rows)
      /\ stats(node).body.flow_buckets = Cardinality(rows)
      /\ stats(node).body.packets = Packets(rows)
      /\ stats(node).body.bytes = Bytes(rows)
  BY DEF stats, StatsOf, Success, Failure, Totals
<1>4. ASSUME NEW p \in places
      PROVE  /\ stats_at(node, p).status = "ok"
             /\ stats_at(node, p).body.flow_buckets = Sum(OneOf(rows), part(p))
             /\ stats_at(node, p).body.packets = Sum(PacketsOf(rows), part(p))
             /\ stats_at(node, p).body.bytes = Sum(BytesOf(rows), part(p))
  <2>1. FlowsAt(node, p) = part(p) /\ part(p) \in SUBSET rows
    BY DEF FlowsAt, Group
  <2> HIDE DEF part, rows
  <2>2. /\ Packets(part(p)) \in Nat /\ Packets(part(p)) <= Packets(rows)
        /\ Bytes(part(p)) \in Nat /\ Bytes(part(p)) <= Bytes(rows)
        /\ Packets(part(p)) = Sum(PacketsOf(rows), part(p))
        /\ Bytes(part(p)) = Sum(BytesOf(rows), part(p))
        /\ Cardinality(part(p)) = Sum(OneOf(rows), part(p))
    BY <1>1, <2>1, RowTotals
  <2>3. Packets(rows) \in Nat /\ Bytes(rows) \in Nat /\ SqlMax \in Nat
    BY <1>1, RowTotals, ControlAssumption
  <2>4. Summable(part(p))
    BY <1>3, <2>2, <2>3 DEF Summable
  <2> QED
    BY <2>1, <2>2, <2>4 DEF stats_at, StatsOf, Success, Totals
<1>5. /\ \A p \in places : named[p][2] = stats_at(node, p)
      /\ \A p, q \in places : named[p] = named[q] => p = q
  <2>1. \A p \in places : named[p] = <<p, stats_at(node, p)>>
    OBVIOUS
  <2>2. ASSUME NEW p \in places, NEW q \in places, named[p] = named[q]
        PROVE  p = q
    BY <2>1, <2>2
  <2> HIDE DEF named, places
  <2> QED
    BY <2>1, <2>2
<1>6. {<<p, stats_at(node, p)>> : p \in places} = parts
  OBVIOUS
<1>7. \A p \in parts : p[2].status = "ok"
  <2>1. \A p \in places : <<p, stats_at(node, p)>>[2].status = "ok"
    BY <1>4
  <2> HIDE DEF places
  <2> QED
    BY <1>6, <2>1
<1>8. /\ series(rows, 0, SqlMax).status = "ok"
      /\ Adds("bytes", series(rows, 0, SqlMax).body, stats(node).body)
  <2>1. SqlMax \in Nat
    BY ControlAssumption
  <2> HIDE DEF rows
  <2> QED
    BY <1>1, <1>3, <2>1, SeriesAdds
<1>9. /\ \A f \in rows : OneOf(rows)[f] \in Nat
      /\ \A f \in rows : PacketsOf(rows)[f] \in Nat
      /\ \A f \in rows : BytesOf(rows)[f] \in Nat
  BY <1>1 DEF PacketsOf, BytesOf, OneOf, FlowRow, FlowBucket
<1>10. IsFiniteSet(parts)
  <2> HIDE DEF rows, point, named
  <2>1. IsFiniteSet(places)
    BY <1>1, <1>9, SumGroups
  <2> HIDE DEF places
  <2> QED
    BY <2>1, FiniteImage
<1> DEFINE v(field) == [p \in parts |-> p[2].body[field]]
<1>11. ASSUME NEW field, NEW f, \A x \in rows : f[x] \in Nat,
              \A p \in places : stats_at(node, p).body[field] = Sum(f, part(p))
       PROVE  Sum(v(field), parts) = Sum(f, rows)
  <2>1. \A p \in places : v(field)[named[p]] = Sum(f, part(p))
    BY <1>5, <1>11
  <2> HIDE DEF v, named, point, rows
  <2> QED
    BY <1>1, <1>5, <1>11, <2>1, SumNamedGroups
<1>12. /\ Sum(OneOf(rows), rows) = Cardinality(rows)
       /\ Sum(PacketsOf(rows), rows) = Packets(rows)
       /\ Sum(BytesOf(rows), rows) = Bytes(rows)
  BY <1>1, RowTotals
<1>13. ASSUME NEW field \in {"flow_buckets", "packets", "bytes"}
       PROVE  MapThenSumSet(LAMBDA p : p[2].body[field], parts) = stats(node).body[field]
  <2>1. MapThenSumSet(LAMBDA p : p[2].body[field], parts) = Sum(v(field), parts)
    BY <1>10, PartsAdd
  <2> HIDE DEF v, parts, places, part, point, named, rows
  <2>2. CASE field = "flow_buckets"
    <3>1. Sum(v(field), parts) = Sum(OneOf(rows), rows)
      BY <1>4, <1>9, <1>11, <2>2
    <3> QED
      BY <1>3, <1>12, <2>1, <2>2, <3>1
  <2>3. CASE field = "packets"
    <3>1. Sum(v(field), parts) = Sum(PacketsOf(rows), rows)
      BY <1>4, <1>9, <1>11, <2>3
    <3> QED
      BY <1>3, <1>12, <2>1, <2>3, <3>1
  <2>4. CASE field = "bytes"
    <3>1. Sum(v(field), parts) = Sum(BytesOf(rows), rows)
      BY <1>4, <1>9, <1>11, <2>4
    <3> QED
      BY <1>3, <1>12, <2>1, <2>4, <3>1
  <2> QED
    BY <2>2, <2>3, <2>4
<1> HIDE DEF parts, places
<1> QED
  BY <1>2, <1>6, <1>7, <1>8, <1>13

(* The times of some rows that the inventory gives are those of a row      *)
(* each, and the times of all rows are between them.                       *)
LEMMA Span ==
  ASSUME NEW rows \in SUBSET FlowRow, IsFiniteSet(rows), rows # {}
  PROVE  /\ Min(Starts(rows)) \in Starts(rows) /\ Max(Starts(rows)) \in Starts(rows)
         /\ \A f \in rows : /\ Min(Starts(rows)) <= f.bucket.bucket_start
                            /\ f.bucket.bucket_start <= Max(Starts(rows))
<1> DEFINE start == [f \in rows |-> f.bucket.bucket_start]
           S     == {start[f] : f \in rows}
<1>1. S = Starts(rows)
  BY DEF Starts
<1>2. IsFiniteSet(S)
  <2> HIDE DEF start
  <2> QED
    BY FiniteImage
<1>3. S # {} /\ \A s \in S : s \in Nat
  BY DEF FlowRow, FlowBucket
<1>4. \A f \in rows : f.bucket.bucket_start \in Starts(rows)
  BY DEF Starts
<1> HIDE DEF S
<1>5. /\ Min(S) \in S /\ Max(S) \in S
      /\ \A s \in S : Min(S) <= s /\ s <= Max(S)
  BY <1>2, <1>3, Extremes
<1> QED
  BY <1>1, <1>4, <1>5

(* The totals of a place are those of its series, and it has no more       *)
(* batches than its node.                                                  *)
LEMMA PlaceAgrees ==
  ASSUME IInv, NEW n \in nodes, stats_at(n.node_id, n.capture_point).status = "ok"
  PROVE  LET place == stats_at(n.node_id, n.capture_point)
             line  == series(FlowsAt(n.node_id, n.capture_point),
                             n.first_bucket_start, n.last_bucket_start)
         IN  /\ line.status = "ok" /\ Adds("packets", line.body, place.body)
             /\ place.body.batches <= Cardinality({r \in ingested : r.origin[1] = n.node_id})
<1> DEFINE rows  == FlowsAt(n.node_id, n.capture_point)
           place == stats_at(n.node_id, n.capture_point)
           ids   == {f.batch_id : f \in rows}
           batches == {r \in ingested : r.origin[1] = n.node_id}
<1>1. PICK x \in flow_buckets :
        n = [node_id |-> x.node_id, capture_point |-> PointOf(x),
             first_bucket_start |-> Min(Starts(FlowsAt(x.node_id, PointOf(x)))),
             last_bucket_start  |-> Max(Starts(FlowsAt(x.node_id, PointOf(x))))]
  BY DEF nodes
<1>2. /\ n.node_id = x.node_id /\ n.capture_point = PointOf(x)
      /\ n.first_bucket_start = Min(Starts(rows)) /\ n.last_bucket_start = Max(Starts(rows))
  BY <1>1
<1>3. x \in rows /\ \A f \in rows : f \in flow_buckets /\ f.node_id = n.node_id
  BY <1>2 DEF FlowsAt, FlowsOfNode
<1>4. /\ rows \in SUBSET FlowRow /\ IsFiniteSet(rows)
      /\ \A f \in rows : f.bucket.bucket_start \in 0 .. SqlMax
      /\ \A f \in rows : \E r \in batches : r.batch_id = f.batch_id
  <2>1. rows \in SUBSET flow_buckets
    BY <1>3
  <2>2. ASSUME NEW f \in rows
        PROVE  \E r \in batches : r.batch_id = f.batch_id
    <3>1. PICK r \in ingested : r.batch_id = f.batch_id /\ r.origin[1] = f.node_id
      BY <2>1, StoredRows
    <3> QED
      BY <1>3, <3>1
  <2> HIDE DEF rows, batches
  <2> QED
    BY <2>1, <2>2, StoredRows, FS_Subset
<1>5. Summable(rows) /\ place.body = Totals(ids, rows)
  BY DEF stats_at, StatsOf, Success, Failure
<1> HIDE DEF rows, place
<1>6. /\ Min(Starts(rows)) \in Starts(rows) /\ Max(Starts(rows)) \in Starts(rows)
      /\ \A f \in rows : /\ Min(Starts(rows)) <= f.bucket.bucket_start
                         /\ f.bucket.bucket_start <= Max(Starts(rows))
  BY <1>3, <1>4, Span
<1>7. \A s \in Starts(rows) : s \in Nat /\ s <= SqlMax
  BY <1>4, ControlAssumption DEF Starts
<1> DEFINE first == n.first_bucket_start
           last  == n.last_bucket_start
<1>8. /\ first \in Nat /\ last \in Nat /\ first <= last /\ last <= SqlMax
      /\ \A f \in rows : f.bucket.bucket_start \in first .. last
  <2>1. first \in Nat /\ last \in Nat /\ last <= SqlMax
    BY <1>2, <1>6, <1>7
  <2>2. \A f \in rows : /\ f.bucket.bucket_start \in Nat
                        /\ first <= f.bucket.bucket_start
                        /\ f.bucket.bucket_start <= last
    BY <1>2, <1>4, <1>6 DEF FlowRow, FlowBucket
  <2> HIDE DEF first, last
  <2> QED
    BY <1>3, <2>1, <2>2
<1>9. place.body.packets = Packets(rows) /\ place.body.bytes = Bytes(rows)
      /\ place.body.batches = Cardinality(ids)
  BY <1>5 DEF Totals
<1>10. /\ series(rows, first, last).status = "ok"
       /\ Adds("packets", series(rows, first, last).body, place.body)
  <2> HIDE DEF first, last
  <2> QED
    BY <1>4, <1>5, <1>8, <1>9, SeriesAdds
<1>11. Cardinality(ids) <= Cardinality(batches)
  <2> DEFINE id  == [r \in batches |-> r.batch_id]
             all == {id[r] : r \in batches}
  <2>1. IsFiniteSet(batches)
    BY FS_Subset DEF IInv, TypeOK
  <2>2. ids \in SUBSET all
    BY <1>4
  <2> HIDE DEF id, ids, batches
  <2>3. IsFiniteSet(all) /\ Cardinality(all) <= Cardinality(batches)
    BY <2>1, FiniteImage
  <2> HIDE DEF all
  <2>4. Cardinality(ids) <= Cardinality(all) /\ IsFiniteSet(ids)
    BY <2>2, <2>3, FS_Subset
  <2>5. Cardinality(ids) \in Nat /\ Cardinality(all) \in Nat /\ Cardinality(batches) \in Nat
    BY <2>1, <2>3, <2>4, FS_CardinalityType
  <2> QED
    BY <2>3, <2>4, <2>5
<1> QED
  BY <1>9, <1>10, <1>11 DEF rows, place

(* The inventory, the totals and the series tell one story.                *)
THEOREM ControlQueriesAgree == Spec => []QueriesAgree
<1>1. IInv => QueriesAgree
  BY NodeAgrees, PlaceAgrees DEF QueriesAgree
<1> QED
  BY <1>1, ControlInvariant, PTL
===============================================================================
