------------------------------ MODULE SpoolProofs -----------------------------
(***************************************************************************)
(* Theorems about the spool, for every set of writers, limits, contents    *)
(* and bounds.                                                             *)
(***************************************************************************)
EXTENDS SpoolEviction, SumProofs

-------------------------------------------------------------------------------
(* Smallest and largest members.                                           *)

(* Min of a set of naturals that is not empty is its least member.         *)
LEMMA MinIsLeast ==
  ASSUME NEW S \in SUBSET Nat, S # {}
  PROVE  Min(S) \in S /\ \A y \in S : Min(S) <= y
<1> DEFINE Less == OpToRel(<, Nat)
<1>1. IsWellFoundedOn(Less, Nat)
  BY NatLessThanWellFounded
<1>2. \A x, y \in Nat : y < x => <<y, x>> \in Less
  BY DEF OpToRel
<1> HIDE DEF Less
<1>3. PICK x \in S : \A y \in S : ~ (<<y, x>> \in Less)
  BY <1>1, WFMin
<1>4. x \in Nat /\ \A y \in S : y \in Nat /\ ~ (y < x)
  BY <1>2, <1>3
<1>5. \A y \in S : x <= y
  BY <1>4
<1> QED
  BY <1>5 DEF Min

(* Max of a bounded set of naturals that is not empty is its greatest      *)
(* member: the least of its upper bounds belongs to it.                    *)
LEMMA MaxIsGreatest ==
  ASSUME NEW n \in Nat, NEW S \in SUBSET (0 .. n), S # {}
  PROVE  Max(S) \in S /\ \A y \in S : y <= Max(S)
<1> DEFINE Bounds == {m \in Nat : \A y \in S : y <= m}
<1>1. Bounds \in SUBSET Nat /\ n \in Bounds
  OBVIOUS
<1>2. Min(Bounds) \in Bounds /\ \A m \in Bounds : Min(Bounds) <= m
  BY <1>1, MinIsLeast
<1>3. Min(Bounds) \in S
  <2>1. SUFFICES ASSUME Min(Bounds) \notin S
                 PROVE  FALSE
    OBVIOUS
  <2>2. PICK x \in S : TRUE
    OBVIOUS
  <2>3. Min(Bounds) \in Nat /\ \A y \in S : y <= Min(Bounds)
    BY <1>2
  <2>4. \A y \in S : y \in Nat /\ y <= Min(Bounds) - 1
    BY <2>1, <2>3
  <2>5. Min(Bounds) - 1 \in Bounds
    BY <2>2, <2>3, <2>4
  <2> QED
    BY <1>2, <2>3, <2>5
<1> QED
  BY <1>2, <1>3 DEF Max

(* bucket_range of a content is a pair of times.                           *)
LEMMA BucketRange ==
  ASSUME NEW content \in Content
  PROVE  Min(StartsOf[content]) \in Nat /\ Max(StartsOf[content]) \in Nat
<1>1. /\ SqlMax \in Nat
      /\ StartsOf[content] \in SUBSET (0 .. SqlMax)
      /\ StartsOf[content] # {}
  BY ContentAssumption
<1>2. Min(StartsOf[content]) \in StartsOf[content]
  BY <1>1, MinIsLeast
<1>3. Max(StartsOf[content]) \in StartsOf[content]
  BY <1>1, MaxIsGreatest
<1> QED
  BY <1>1, <1>2, <1>3

-------------------------------------------------------------------------------
(* Rows and gap events.                                                    *)

(* The row an enqueue drafts is well formed and carries the number read.   *)
LEMMA DraftRow ==
  ASSUME NEW w \in Writers, boot \in 0 .. MaxBoots, NEW seq \in Nat,
         NEW now \in Times, NEW content \in Content
  PROVE  LET row == NewRow(NewEnvelope(OriginOf(w), seq, now, content))
         IN  row \in Row /\ row.seq = seq /\ row.created_at = now
<1> DEFINE body == [schema_version |-> SCHEMA_VERSION, origin |-> OriginOf(w),
                    seq |-> seq, created_at |-> now, buckets |-> content]
           envelope == NewEnvelope(OriginOf(w), seq, now, content)
<1>1. OriginOf(w) \in Origin
  BY WriterAssumption DEF OriginOf
<1>2. now \in Nat /\ SizeOf[content] \in Nat
  BY CostAssumption, ContentAssumption
<1>3. body \in BatchBody
  BY <1>1, <1>2 DEF BatchBody, SCHEMA_VERSION
<1>4. body_checksum(body) \in Digest
  BY <1>3 DEF body_checksum, Digest
<1>5. envelope \in BatchEnvelope /\ envelope.body = body
  BY <1>1, <1>3, <1>4 DEF NewEnvelope, BatchEnvelope, BatchId
<1>6. /\ envelope.body.seq = seq
      /\ envelope.body.created_at = now
      /\ envelope.body.buckets = content
  BY <1>5
<1> HIDE DEF envelope
<1> QED
  BY <1>2, <1>5, <1>6, BucketRange DEF NewRow, Row, envelope

(* A gap event made from a row is well formed and describes the row.       *)
LEMMA GapOfRow ==
  ASSUME NEW row \in Row, NEW reason \in Reason, NEW now \in Nat
  PROVE  /\ Gap(row, reason, now) \in GapEvent
         /\ Describes(Gap(row, reason, now), row)
BY DEF Gap, GapEvent, Row, Describes

-------------------------------------------------------------------------------
(* Stored bytes.                                                           *)

(* Finitely many rows hold finitely many bytes.                            *)
LEMMA StoredFinite ==
  ASSUME NEW rows \in SUBSET Row, IsFiniteSet(rows)
  PROVE  IsFiniteSet(StoredBytes(rows)) /\ PayloadBytes(rows) \in Nat
<1> DEFINE bytes == [r \in rows |-> {r.seq} \X (1 .. r.payload_bytes)]
           parts == {bytes[r] : r \in rows}
<1>1. IsFiniteSet(parts)
  <2>1. bytes \in Surjection(rows, parts)
    BY DEF Surjection
  <2> QED
    BY <2>1, FS_Surjection
<1>2. ASSUME NEW r \in rows
      PROVE  IsFiniteSet(bytes[r])
  <2>1. r.payload_bytes \in Nat
    BY DEF Row
  <2>2. IsFiniteSet({r.seq})
    BY FS_Singleton
  <2>3. IsFiniteSet(1 .. r.payload_bytes)
    BY <2>1, FS_Interval
  <2>4. IsFiniteSet({r.seq} \X (1 .. r.payload_bytes))
    BY <2>2, <2>3, FS_Product
  <2> QED
    BY <2>4
<1>3. StoredBytes(rows) = UNION parts
  BY DEF StoredBytes
<1>4. IsFiniteSet(StoredBytes(rows))
  <2>1. \A part \in parts : IsFiniteSet(part)
    BY <1>2
  <2> QED
    BY <1>1, <1>3, <2>1, FS_UNION
<1> QED
  BY <1>4, FS_CardinalityType DEF PayloadBytes

(* Fewer rows hold no more bytes.                                          *)
LEMMA PayloadMonotone ==
  ASSUME NEW rows \in SUBSET Row, IsFiniteSet(rows), NEW some \in SUBSET rows
  PROVE  PayloadBytes(some) <= PayloadBytes(rows)
<1>1. IsFiniteSet(StoredBytes(rows))
  BY StoredFinite
<1>2. StoredBytes(some) \subseteq StoredBytes(rows)
  BY DEF StoredBytes
<1> QED
  BY <1>1, <1>2, FS_Subset DEF PayloadBytes

(* One row holds its payload_bytes.                                        *)
LEMMA PayloadOfOne ==
  ASSUME NEW row \in Row
  PROVE  PayloadBytes({row}) = row.payload_bytes
<1> DEFINE n == row.payload_bytes
<1>1. n \in Nat
  BY DEF Row
<1>2. IsFiniteSet({row.seq}) /\ Cardinality({row.seq}) = 1
  BY FS_Singleton
<1>3. IsFiniteSet(1 .. n) /\ Cardinality(1 .. n) = IF 1 > n THEN 0 ELSE n - 1 + 1
  BY <1>1, FS_Interval, SMTT(30)
<1>4. Cardinality({row.seq} \X (1 .. n)) = Cardinality({row.seq}) * Cardinality(1 .. n)
  BY <1>2, <1>3, FS_Product
<1>5. Cardinality({row.seq} \X (1 .. n)) = n
  BY <1>1, <1>2, <1>3, <1>4
<1>6. StoredBytes({row}) = {row.seq} \X (1 .. n)
  BY DEF StoredBytes
<1> QED
  BY <1>5, <1>6 DEF PayloadBytes

(* What enforce_limits leaves fits in the byte limit: it is part of the    *)
(* rows from the oldest survivor on, which fit.                            *)
LEMMA SurvivorsFit ==
  ASSUME NEW w \in Writers, NEW now \in Nat,
         NEW rows \in SUBSET Row, IsFiniteSet(rows)
  PROVE  PayloadBytes(Survivors(w, now, rows)) <= Limits[w].max_payload_bytes
<1> DEFINE kept == Survivors(w, now, rows)
<1>0. kept \subseteq rows
  BY DEF Survivors
<1>1. CASE kept = {}
  <2>1. StoredBytes({}) = {}
    BY DEF StoredBytes
  <2>2. PayloadBytes({}) = 0
    BY <2>1, FS_EmptySet DEF PayloadBytes
  <2>3. Limits[w].max_payload_bytes \in Nat
    BY LimitAssumption
  <2> QED
    BY <1>1, <2>2, <2>3
<1>2. CASE kept # {}
  <2>1. Seqs(kept) \in SUBSET Nat /\ Seqs(kept) # {}
    BY <1>0, <1>2 DEF Seqs, Row
  <2>2. Min(Seqs(kept)) \in Seqs(kept) /\ \A s \in Seqs(kept) : Min(Seqs(kept)) <= s
    BY <2>1, MinIsLeast
  <2>3. PICK oldest \in kept : \A r \in kept : r.seq >= oldest.seq
    <3>1. PICK oldest \in kept : oldest.seq = Min(Seqs(kept))
      BY <2>2 DEF Seqs
    <3>2. \A r \in kept : r.seq \in Seqs(kept)
      BY DEF Seqs
    <3>3. \A r \in kept : r.seq >= oldest.seq
      BY <2>1, <2>2, <3>1, <3>2
    <3> QED
      BY <3>3
  <2>4. kept \subseteq NewerOrSame(oldest, rows)
    BY <1>0, <2>3 DEF NewerOrSame
  <2>5. NewerOrSame(oldest, rows) \in SUBSET rows
    BY DEF NewerOrSame
  <2>6. IsFiniteSet(NewerOrSame(oldest, rows))
    BY <2>5, FS_Subset
  <2>7. PayloadBytes(kept) <= PayloadBytes(NewerOrSame(oldest, rows))
    BY <2>4, <2>5, <2>6, PayloadMonotone
  <2>8. PayloadBytes(NewerOrSame(oldest, rows)) <= Limits[w].max_payload_bytes
    BY <2>3 DEF Survivors
  <2>9. /\ PayloadBytes(kept) \in Nat
        /\ PayloadBytes(NewerOrSame(oldest, rows)) \in Nat
        /\ Limits[w].max_payload_bytes \in Nat
    <3>1. IsFiniteSet(kept)
      BY <1>0, FS_Subset
    <3> QED
      BY <1>0, <2>5, <2>6, <3>1, StoredFinite, LimitAssumption
  <2> QED
    BY <2>7, <2>8, <2>9
<1> QED
  BY <1>1, <1>2

(* The newest row survives when it fits in the byte limit by itself and is *)
(* as old as the clock that decides.                                       *)
LEMMA NewestSurvives ==
  ASSUME NEW w \in Writers, NEW now \in Nat,
         NEW rows \in SUBSET Row, NEW row \in rows,
         \A r \in rows : r # row => r.seq < row.seq,
         row.created_at = now,
         row.payload_bytes <= Limits[w].max_payload_bytes
  PROVE  row \in Survivors(w, now, rows)
<1>1. NewerOrSame(row, rows) = {row}
  BY DEF NewerOrSame, Row
<1>2. PayloadBytes(NewerOrSame(row, rows)) = row.payload_bytes
  BY <1>1, PayloadOfOne
<1>3. ~ Expired(w, now, row)
  BY LimitAssumption DEF Expired, Cutoff, SaturatingSub
<1> QED
  BY <1>2, <1>3 DEF Survivors

-------------------------------------------------------------------------------
(* The inductive invariant: what holds of the file and of what has reached *)
(* the disk, and that a transaction whose snapshot is current has read the *)
(* number the next batch gets.                                             *)

Sound(d) ==
  /\ d \in Database
  /\ IsFiniteSet(d.batches)
  /\ Accounted(d)
  /\ Recorded(d)
  /\ \E w \in Writers : PayloadBytes(d.batches) <= Limits[w].max_payload_bytes

DraftsCurrent ==
  \A w \in Enqueuing :
    /\ draft[w] \in Row
    /\ w \notin stale => draft[w].seq = db.next_seq

IInv == TypeOK /\ Sound(db) /\ Sound(durable) /\ DraftsCurrent

(* The database after each of the three commits.                           *)
Recording(d, row, gap) ==
  [d EXCEPT !.next_seq = @ + 1, !.gaps = @ \cup {gap}, !.log = @ \cup {row}]

Evictions(w, now, gone) == {Gap(r, EvictionReason(w, now, r), now) : r \in gone}

Storing(d, w, row) ==
  LET rows == d.batches \cup {row}
      kept == Survivors(w, row.created_at, rows)
  IN  [d EXCEPT !.next_seq = @ + 1,
                !.batches = kept,
                !.gaps = @ \cup Evictions(w, row.created_at, rows \ kept),
                !.log = @ \cup {row}]

Acknowledging(d, rows) ==
  [d EXCEPT !.batches = @ \ rows, !.acked = @ \cup Seqs(rows)]

(* Columns of the right type make a database.                              *)
LEMMA DatabaseExcept ==
  ASSUME NEW d \in Database, NEW n \in Nat, NEW rows \in SUBSET Row,
         NEW lost \in SUBSET GapEvent, NEW all \in SUBSET Row, NEW done \in SUBSET Nat
  PROVE  /\ [d EXCEPT !.next_seq = n, !.gaps = lost, !.log = all] \in Database
         /\ [d EXCEPT !.next_seq = n, !.batches = rows, !.gaps = lost, !.log = all]
              \in Database
         /\ [d EXCEPT !.batches = rows, !.acked = done] \in Database
BY DEF Database

(* An oversized batch becomes a gap.                                       *)
LEMMA RecordingSound ==
  ASSUME NEW d, Sound(d), NEW row \in Row, row.seq = d.next_seq,
         NEW reason \in Reason, NEW now \in Nat
  PROVE  Sound(Recording(d, row, Gap(row, reason, now)))
<1> DEFINE gap == Gap(row, reason, now)
           e == Recording(d, row, gap)
<1>1. d \in Database
  BY DEF Sound
<1>2. gap \in GapEvent /\ Describes(gap, row) /\ gap.seq = row.seq
  BY GapOfRow DEF Describes
<1> HIDE DEF gap
<1>3. /\ e.next_seq = d.next_seq + 1
      /\ e.batches = d.batches /\ e.acked = d.acked
      /\ e.gaps = d.gaps \cup {gap} /\ e.log = d.log \cup {row}
      /\ e \in Database
  <2>1. /\ e.next_seq = d.next_seq + 1
        /\ e.batches = d.batches /\ e.acked = d.acked
        /\ e.gaps = d.gaps \cup {gap} /\ e.log = d.log \cup {row}
    BY <1>1 DEF Recording, Database
  <2>2. /\ e.next_seq \in Nat /\ e.batches \in SUBSET Row
        /\ e.gaps \in SUBSET GapEvent /\ e.log \in SUBSET Row
        /\ e.acked \in SUBSET Nat
    BY <1>1, <1>2, <2>1 DEF Database
  <2>3. e = [d EXCEPT !.next_seq = e.next_seq, !.gaps = e.gaps, !.log = e.log]
    BY <2>1 DEF Recording
  <2> HIDE DEF e
  <2>4. [d EXCEPT !.next_seq = e.next_seq, !.gaps = e.gaps, !.log = e.log] \in Database
    BY <1>1, <2>2, DatabaseExcept
  <2>5. e \in Database
    BY <2>3, <2>4, Zenon
  <2> QED
    BY <2>1, <2>5
<1>4. 0 .. e.next_seq - 1 = (0 .. d.next_seq - 1) \cup {d.next_seq}
  BY <1>1, <1>3 DEF Database
<1>5. d.next_seq \notin 0 .. d.next_seq - 1
  BY <1>1 DEF Database
<1> HIDE DEF e
<1>6. Seqs(e.log) = Seqs(d.log) \cup {row.seq} /\ Seqs(e.gaps) = Seqs(d.gaps) \cup {row.seq}
  BY <1>2, <1>3 DEF Seqs
<1>7. Accounted(d)
  BY DEF Sound
<1>8. Accounted(e)
  <2>1. \A r \in d.log : r.seq # row.seq
    BY <1>5, <1>7 DEF Accounted, Seqs
  <2>2. \A r1, r2 \in e.log : r1.seq = r2.seq => r1 = r2
    BY <1>3, <1>7, <2>1 DEF Accounted
  <2>3. Seqs(e.log) = 0 .. e.next_seq - 1
    BY <1>4, <1>6, <1>7 DEF Accounted
  <2>4. e.batches \subseteq e.log
    BY <1>3, <1>7 DEF Accounted
  <2>5. Seqs(e.batches) \cup Seqs(e.gaps) \cup e.acked = 0 .. e.next_seq - 1
    BY <1>3, <1>4, <1>6, <1>7 DEF Accounted
  <2>6. row.seq \notin Seqs(d.batches) /\ row.seq \notin d.acked
    BY <1>5, <1>7 DEF Accounted
  <2>7. Seqs(e.batches) \cap Seqs(e.gaps) = {}
    BY <1>3, <1>6, <1>7, <2>6 DEF Accounted
  <2>8. e.acked \cap (Seqs(e.batches) \cup Seqs(e.gaps)) = {}
    BY <1>3, <1>6, <1>7, <2>6 DEF Accounted
  <2> QED
    BY <2>2, <2>3, <2>4, <2>5, <2>7, <2>8 DEF Accounted
<1>9. Recorded(e)
  <2>1. Recorded(d)
    BY DEF Sound
  <2>2. \A g \in d.gaps : g.seq # gap.seq
    BY <1>2, <1>5, <1>7 DEF Accounted, Seqs
  <2> QED
    BY <1>2, <1>3, <2>1, <2>2 DEF Recorded
<1>10. IsFiniteSet(e.batches)
  BY <1>3 DEF Sound
<1>11. \E w \in Writers : PayloadBytes(e.batches) <= Limits[w].max_payload_bytes
  BY <1>3 DEF Sound
<1>12. Sound(e)
  BY <1>3, <1>8, <1>9, <1>10, <1>11 DEF Sound
<1> QED
  BY <1>12 DEF e, gap

(* A batch is stored and the limits are enforced.                          *)
LEMMA StoringSound ==
  ASSUME NEW d, Sound(d), NEW row \in Row, row.seq = d.next_seq, NEW w \in Writers
  PROVE  Sound(Storing(d, w, row))
<1> DEFINE now  == row.created_at
           rows == d.batches \cup {row}
           kept == Survivors(w, now, rows)
           gone == rows \ kept
           lost == Evictions(w, now, gone)
           e    == Storing(d, w, row)
<1>1. d \in Database /\ Accounted(d) /\ Recorded(d) /\ IsFiniteSet(d.batches)
  BY DEF Sound
<1>2. now \in Nat /\ rows \in SUBSET Row /\ IsFiniteSet(rows)
  BY <1>1, FS_AddElement DEF Database, Row
<1>3. kept \in SUBSET rows
  BY DEF Survivors
<1>4. PayloadBytes(kept) <= Limits[w].max_payload_bytes
  BY <1>2, SurvivorsFit
<1>5. IsFiniteSet(kept)
  BY <1>2, <1>3, FS_Subset
<1>6. \A r \in gone : /\ Gap(r, EvictionReason(w, now, r), now) \in GapEvent
                      /\ Describes(Gap(r, EvictionReason(w, now, r), now), r)
  <2>1. \A r \in gone : EvictionReason(w, now, r) \in Reason
    BY DEF EvictionReason, Reason
  <2> QED
    BY <1>2, <2>1, GapOfRow
<1> HIDE DEF kept
<1>7. /\ lost \in SUBSET GapEvent
      /\ \A g \in lost : \E r \in gone : Describes(g, r)
      /\ \A r \in gone : \E g \in lost : Describes(g, r)
      /\ Seqs(lost) = Seqs(gone)
  BY <1>6 DEF Evictions, Describes, Seqs
<1>8. \A r1, r2 \in gone : r1.seq = r2.seq => r1 = r2
  BY <1>1 DEF Accounted, Seqs, Database
<1>9. \A g1, g2 \in lost : g1.seq = g2.seq => g1 = g2
  BY <1>6, <1>8 DEF Evictions, Describes
<1> HIDE DEF lost
<1>10. /\ e.next_seq = d.next_seq + 1
       /\ e.batches = kept /\ e.acked = d.acked
       /\ e.gaps = d.gaps \cup lost /\ e.log = d.log \cup {row}
  BY <1>1 DEF Storing, Database, kept, lost
<1>11. e = [d EXCEPT !.next_seq = e.next_seq, !.batches = e.batches,
                     !.gaps = e.gaps, !.log = e.log]
  BY <1>10 DEF Storing, kept, lost
<1>12. /\ e.next_seq \in Nat /\ e.batches \in SUBSET Row
       /\ e.gaps \in SUBSET GapEvent /\ e.log \in SUBSET Row
  BY <1>1, <1>2, <1>3, <1>7, <1>10 DEF Database
<1> HIDE DEF e
<1>13. e \in Database
  <2>1. [d EXCEPT !.next_seq = e.next_seq, !.batches = e.batches,
                  !.gaps = e.gaps, !.log = e.log] \in Database
    <3>1. {} \in SUBSET Nat
      OBVIOUS
    <3> QED
      BY <1>1, <1>12, <3>1, DatabaseExcept
  <2> QED
    BY <1>11, <2>1, Zenon
<1>14. /\ 0 .. e.next_seq - 1 = (0 .. d.next_seq - 1) \cup {row.seq}
       /\ row.seq \notin 0 .. d.next_seq - 1
  BY <1>1, <1>10 DEF Database
<1>15. \A r \in d.log : r.seq # row.seq
  BY <1>1, <1>14 DEF Accounted, Seqs
<1>16. Seqs(rows) = Seqs(d.batches) \cup {row.seq}
  BY DEF Seqs
<1>17. \A r1, r2 \in rows : r1.seq = r2.seq => r1 = r2
  BY <1>1, <1>15 DEF Accounted
<1>18. /\ Seqs(kept) \cup Seqs(gone) = Seqs(rows)
       /\ Seqs(kept) \cap Seqs(gone) = {}
  BY <1>3, <1>17 DEF Seqs
<1>19. Seqs(e.gaps) = Seqs(d.gaps) \cup Seqs(gone)
  BY <1>7, <1>10 DEF Seqs
<1>20. /\ row.seq \notin Seqs(d.gaps) /\ row.seq \notin d.acked
  BY <1>1, <1>14 DEF Accounted
<1> HIDE DEF gone, rows, now
<1>21. Accounted(e)
  <2>1. Seqs(e.log) = 0 .. e.next_seq - 1
    BY <1>1, <1>10, <1>14 DEF Accounted, Seqs
  <2>2. \A r1, r2 \in e.log : r1.seq = r2.seq => r1 = r2
    BY <1>1, <1>10, <1>15 DEF Accounted
  <2>3. e.batches \subseteq e.log
    BY <1>1, <1>3, <1>10 DEF Accounted, rows
  <2>4. Seqs(e.batches) \cup Seqs(e.gaps) \cup e.acked = 0 .. e.next_seq - 1
    BY <1>1, <1>10, <1>14, <1>16, <1>18, <1>19 DEF Accounted
  <2>5. Seqs(e.batches) \cap Seqs(e.gaps) = {}
    BY <1>1, <1>10, <1>16, <1>18, <1>19, <1>20 DEF Accounted
  <2>6. e.acked \cap (Seqs(e.batches) \cup Seqs(e.gaps)) = {}
    BY <1>1, <1>10, <1>16, <1>18, <1>19, <1>20 DEF Accounted
  <2> QED
    BY <2>1, <2>2, <2>3, <2>4, <2>5, <2>6 DEF Accounted
<1>22. Recorded(e)
  <2>1. \A g1 \in e.gaps : \E r \in e.log : Describes(g1, r)
    <3>1. gone \subseteq e.log
      BY <1>1, <1>10 DEF Accounted, gone, rows
    <3> QED
      BY <1>1, <1>7, <1>10, <3>1 DEF Recorded
  <2>2. Seqs(d.gaps) \cap Seqs(lost) = {}
    BY <1>1, <1>7, <1>16, <1>18, <1>20 DEF Accounted
  <2>3. \A g1, g2 \in e.gaps : g1.seq = g2.seq => g1 = g2
    BY <1>1, <1>9, <1>10, <2>2 DEF Recorded, Seqs
  <2> QED
    BY <2>1, <2>3 DEF Recorded
<1> QED
  BY <1>4, <1>5, <1>10, <1>13, <1>21, <1>22 DEF Sound, e

(* Acknowledged rows leave the spool.                                      *)
LEMMA AcknowledgingSound ==
  ASSUME NEW d, Sound(d), NEW rows \in SUBSET d.batches
  PROVE  Sound(Acknowledging(d, rows))
<1> DEFINE e == Acknowledging(d, rows)
<1>1. d \in Database /\ Accounted(d) /\ Recorded(d) /\ IsFiniteSet(d.batches)
  BY DEF Sound
<1>2. /\ e.next_seq = d.next_seq /\ e.gaps = d.gaps /\ e.log = d.log
      /\ e.batches = d.batches \ rows /\ e.acked = d.acked \cup Seqs(rows)
  BY <1>1 DEF Acknowledging, Database
<1>3. e = [d EXCEPT !.batches = e.batches, !.acked = e.acked]
  BY <1>2 DEF Acknowledging
<1>4. Seqs(rows) \in SUBSET Nat /\ d.batches \in SUBSET Row
  BY <1>1 DEF Database, Seqs, Row
<1>5. e.batches \in SUBSET Row /\ e.acked \in SUBSET Nat
  BY <1>1, <1>2, <1>4 DEF Database
<1> HIDE DEF e
<1>6. e \in Database
  <2>1. [d EXCEPT !.batches = e.batches, !.acked = e.acked] \in Database
    <3>1. 0 \in Nat /\ {} \in SUBSET GapEvent /\ {} \in SUBSET Row
      OBVIOUS
    <3> QED
      BY <1>1, <1>5, <3>1, DatabaseExcept
  <2> QED
    BY <1>3, <2>1, Zenon
<1>7. Accounted(e)
  <2>1. /\ Seqs(rows) \cup Seqs(e.batches) = Seqs(d.batches)
        /\ Seqs(rows) \cap Seqs(e.batches) = {}
    BY <1>1, <1>2 DEF Accounted, Seqs
  <2>2. Seqs(e.batches) \cup Seqs(e.gaps) \cup e.acked = 0 .. e.next_seq - 1
    BY <1>1, <1>2, <2>1 DEF Accounted
  <2>3. Seqs(e.batches) \cap Seqs(e.gaps) = {}
    BY <1>1, <1>2, <2>1 DEF Accounted
  <2>4. e.acked \cap (Seqs(e.batches) \cup Seqs(e.gaps)) = {}
    BY <1>1, <1>2, <2>1 DEF Accounted
  <2> QED
    BY <1>1, <1>2, <2>2, <2>3, <2>4 DEF Accounted
<1>8. Recorded(e)
  BY <1>1, <1>2 DEF Recorded
<1>9. IsFiniteSet(e.batches)
  BY <1>1, <1>2, FS_Subset
<1>10. \E w \in Writers : PayloadBytes(e.batches) <= Limits[w].max_payload_bytes
  <2>1. PICK w \in Writers : PayloadBytes(d.batches) <= Limits[w].max_payload_bytes
    BY DEF Sound
  <2>2. PayloadBytes(e.batches) <= PayloadBytes(d.batches)
    BY <1>1, <1>2, <1>4, PayloadMonotone
  <2>3. /\ PayloadBytes(e.batches) \in Nat /\ PayloadBytes(d.batches) \in Nat
        /\ Limits[w].max_payload_bytes \in Nat
    BY <1>1, <1>4, <1>5, <1>9, StoredFinite, LimitAssumption
  <2> QED
    BY <2>1, <2>2, <2>3
<1> QED
  BY <1>6, <1>7, <1>8, <1>9, <1>10 DEF Sound, e

-------------------------------------------------------------------------------
(* The specification.                                                      *)

(* The file starts empty, and every process idle.                          *)
LEMMA InitIInv == Init => IInv
<1> SUFFICES ASSUME Init
             PROVE  IInv
  OBVIOUS
<1> DEFINE empty == [next_seq |-> 0, batches |-> {}, gaps |-> {}, log |-> {}, acked |-> {}]
<1>1. db = empty /\ durable = empty
  BY DEF Init
<1>2. empty \in Database
  BY DEF Database
<1>3. Accounted(empty) /\ Recorded(empty)
  BY DEF Accounted, Recorded, Seqs
<1>4. IsFiniteSet(empty.batches)
  BY FS_EmptySet
<1>5. \E w \in Writers : PayloadBytes(empty.batches) <= Limits[w].max_payload_bytes
  <2>1. PICK w \in Writers : Limits[w].max_payload_bytes \in Nat
    BY WriterAssumption, LimitAssumption
  <2>2. StoredBytes({}) = {}
    BY DEF StoredBytes
  <2>3. PayloadBytes({}) = 0
    BY <2>2, FS_EmptySet DEF PayloadBytes
  <2> QED
    BY <2>1, <2>3
<1>6. Sound(empty)
  BY <1>2, <1>3, <1>4, <1>5 DEF Sound
<1> HIDE DEF empty
<1>7. TypeOK
  BY <1>1, <1>2, WriterAssumption DEF Init, TypeOK, Enqueuing
<1>8. DraftsCurrent
  BY DEF Init, DraftsCurrent, Enqueuing
<1> QED
  BY <1>1, <1>6, <1>7, <1>8 DEF IInv

(* The part of a step that the three commits of enqueue and acknowledge    *)
(* share: if the new database is sound and either it gives out no new      *)
(* number or every open snapshot becomes stale, the invariant is kept.     *)
LEMMA FinishKeeps ==
  ASSUME IInv, NEW w \in Writers, pc[w] = "enqueuing",
         NEW state \in {"idle", "busy", "full"},
         Finish(w, state), stale' \subseteq Enqueuing \ {w},
         Sound(db'), UNCHANGED <<durable, boot>>,
         \/ db' = db /\ stale \ {w} \subseteq stale'
         \/ Enqueuing \ {w} \subseteq stale'
  PROVE  IInv'
<1>1. /\ TypeOK /\ Sound(durable) /\ DraftsCurrent
  BY DEF IInv
<1>2. /\ pc' \in [Writers -> {"idle", "enqueuing", "busy", "full"}]
      /\ draft' \in [Writers -> Row \cup {NoDraft}]
  BY <1>1 DEF TypeOK, Finish
<1>3. Enqueuing' = Enqueuing \ {w}
  BY <1>1 DEF TypeOK, Finish, Enqueuing
<1>4. TypeOK'
  BY <1>1, <1>2, <1>3 DEF TypeOK, Sound
<1>5. \A v \in Enqueuing' : draft'[v] = draft[v] /\ v \in Enqueuing
  BY <1>1, <1>3 DEF TypeOK, Finish, Enqueuing
<1>6. DraftsCurrent'
  BY <1>1, <1>3, <1>5 DEF DraftsCurrent
<1>7. Sound(durable)'
  BY <1>1 DEF Sound, Accounted, Recorded
<1> QED
  BY <1>4, <1>6, <1>7 DEF IInv

(* Every step keeps the invariant.                                         *)
LEMMA NextIInv == IInv /\ [Next]_vars => IInv'
<1> SUFFICES ASSUME IInv, [Next]_vars
             PROVE  IInv'
  OBVIOUS
<1>0. /\ TypeOK /\ Sound(db) /\ Sound(durable) /\ DraftsCurrent
  BY DEF IInv
<1>1. ASSUME NEW w \in Writers, NEW now \in Times, NEW content \in Content,
             BeginEnqueue(w, now, content)
      PROVE  IInv'
  <2> DEFINE row == NewRow(NewEnvelope(OriginOf(w), db.next_seq, now, content))
  <2>1. row \in Row /\ row.seq = db.next_seq
    BY <1>0, DraftRow DEF TypeOK, Database
  <2> HIDE DEF row
  <2>2. /\ draft' = [draft EXCEPT ![w] = row]
        /\ pc' = [pc EXCEPT ![w] = "enqueuing"]
        /\ w \notin Enqueuing
        /\ UNCHANGED <<db, durable, stale, boot>>
    BY <1>1 DEF BeginEnqueue, row, Enqueuing
  <2>3. Enqueuing' = Enqueuing \cup {w}
    BY <1>0, <2>2 DEF TypeOK, Enqueuing
  <2>4. TypeOK'
    BY <1>0, <2>1, <2>2, <2>3 DEF TypeOK
  <2>5. DraftsCurrent'
    BY <1>0, <2>1, <2>2, <2>3 DEF DraftsCurrent, TypeOK, Enqueuing
  <2> QED
    BY <1>0, <2>2, <2>4, <2>5 DEF IInv
<1>2. ASSUME NEW w \in Writers, EnqueueOversized(w)
      PROVE  IInv'
  <2> DEFINE row == draft[w]
             gap == Gap(row, "batch_exceeds_spool_limit", row.created_at)
  <2>1. w \in Enqueuing /\ w \notin stale /\ row \in Row /\ row.seq = db.next_seq
    BY <1>0, <1>2 DEF EnqueueOversized, DraftsCurrent, Enqueuing
  <2>2. "batch_exceeds_spool_limit" \in Reason /\ row.created_at \in Nat
    BY <2>1 DEF Reason, Row
  <2>3. db' = Recording(db, row, gap)
    BY <1>2 DEF EnqueueOversized, Commit, Recording
  <2>4. Sound(db')
    BY <1>0, <2>1, <2>2, <2>3, RecordingSound
  <2>5. /\ Finish(w, "idle") /\ stale' = (stale \cup Enqueuing) \ {w}
        /\ UNCHANGED <<durable, boot>> /\ pc[w] = "enqueuing"
    BY <1>2 DEF EnqueueOversized, Commit
  <2>6. stale \subseteq Enqueuing
    BY <1>0 DEF TypeOK
  <2> QED
    BY <2>4, <2>5, <2>6, FinishKeeps
<1>3. ASSUME NEW w \in Writers, EnqueueStored(w)
      PROVE  IInv'
  <2>1. w \in Enqueuing /\ w \notin stale /\ draft[w] \in Row
        /\ draft[w].seq = db.next_seq
    BY <1>0, <1>3 DEF EnqueueStored, DraftsCurrent, Enqueuing
  <2>2. db' = Storing(db, w, draft[w])
    BY <1>3 DEF EnqueueStored, Commit, Storing, Evictions
  <2>3. Sound(db')
    BY <1>0, <2>1, <2>2, StoringSound
  <2>4. /\ Finish(w, "idle") /\ stale' = (stale \cup Enqueuing) \ {w}
        /\ UNCHANGED <<durable, boot>> /\ pc[w] = "enqueuing"
    BY <1>3 DEF EnqueueStored, Commit
  <2>5. stale \subseteq Enqueuing
    BY <1>0 DEF TypeOK
  <2> QED
    BY <2>3, <2>4, <2>5, FinishKeeps
<1>4. ASSUME NEW w \in Writers, EnqueueFull(w)
      PROVE  IInv'
  <2>1. /\ Finish(w, "full") /\ UNCHANGED <<db, durable, stale, boot>>
        /\ pc[w] = "enqueuing" /\ w \notin stale
    BY <1>4 DEF EnqueueFull
  <2>2. stale' \subseteq Enqueuing \ {w} /\ Sound(db')
    BY <1>0, <2>1 DEF TypeOK
  <2> QED
    BY <2>1, <2>2, FinishKeeps
<1>5. ASSUME NEW w \in Writers, EnqueueBusy(w) \/ Crash(w)
      PROVE  IInv'
  <2>1. /\ \E state \in {"idle", "busy", "full"} : Finish(w, state)
        /\ stale' = stale \ {w}
        /\ UNCHANGED <<db, durable, boot>> /\ pc[w] = "enqueuing"
    BY <1>5 DEF EnqueueBusy, Crash
  <2>2. stale' \subseteq Enqueuing \ {w} /\ Sound(db')
    BY <1>0, <2>1 DEF TypeOK
  <2> QED
    BY <2>1, <2>2, FinishKeeps
<1>6. ASSUME NEW w \in Writers, Restart(w)
      PROVE  IInv'
  <2>1. Enqueuing' = Enqueuing
    BY <1>0, <1>6 DEF Restart, Finish, Enqueuing, TypeOK
  <2>2. TypeOK'
    BY <1>0, <1>6, <2>1 DEF Restart, Finish, TypeOK
  <2>3. \A v \in Enqueuing : draft'[v] = draft[v]
    BY <1>0, <1>6 DEF Restart, Finish, Enqueuing, TypeOK
  <2>4. DraftsCurrent'
    BY <1>0, <1>6, <2>1, <2>3 DEF DraftsCurrent, Restart
  <2> QED
    BY <1>0, <1>6, <2>2, <2>4 DEF IInv, Restart
<1>7. CASE AcknowledgeAny
  <2>1. PICK r \in db.log : Acknowledge(r.payload.batch_id, r.payload.checksum)
    BY <1>7 DEF AcknowledgeAny
  <2> DEFINE rows == Matching(r.payload.batch_id, r.payload.checksum)
  <2>2. db' = Acknowledging(db, rows) /\ rows \in SUBSET db.batches
    BY <2>1 DEF Acknowledge, Commit, Acknowledging, Matching
  <2> HIDE DEF rows
  <2>3. Sound(db')
    BY <1>0, <2>2, AcknowledgingSound
  <2>4. stale' = stale \cup Enqueuing /\ UNCHANGED <<durable, pc, draft, boot>>
    BY <2>1 DEF Acknowledge, Commit
  <2>5. Enqueuing' = Enqueuing
    BY <2>4 DEF Enqueuing
  <2>6. TypeOK'
    BY <1>0, <2>3, <2>4, <2>5 DEF TypeOK, Sound
  <2>7. DraftsCurrent'
    BY <1>0, <2>4, <2>5 DEF DraftsCurrent
  <2> QED
    BY <1>0, <2>3, <2>4, <2>6, <2>7 DEF IInv
<1>8. CASE Sync
  BY <1>0, <1>8 DEF Sync, IInv, TypeOK, DraftsCurrent, Enqueuing
<1>9. CASE PowerLoss
  <2>1. /\ boot' = boot + 1 /\ boot < MaxBoots /\ db' = durable /\ stale' = {}
        /\ pc' = [w \in Writers |-> "idle"] /\ draft' = [w \in Writers |-> NoDraft]
        /\ UNCHANGED durable
    BY <1>9 DEF PowerLoss
  <2>2. TypeOK'
    BY <1>0, <2>1, WriterAssumption DEF TypeOK
  <2>3. DraftsCurrent'
    BY <2>1 DEF DraftsCurrent, Enqueuing
  <2> QED
    BY <1>0, <2>1, <2>2, <2>3 DEF IInv
<1>10. CASE UNCHANGED vars
  BY <1>0, <1>10 DEF vars, IInv, TypeOK, DraftsCurrent, Enqueuing
<1> QED
  BY <1>1, <1>2, <1>3, <1>4, <1>5, <1>6, <1>7, <1>8, <1>9, <1>10 DEF Next, WriterStep

(* Every reachable state satisfies the inductive invariant.                *)
THEOREM SpoolInvariant == Spec => []IInv
<1>1. Init => IInv
  BY InitIInv
<1>2. IInv /\ [Next]_vars => IInv'
  BY NextIInv
<1> QED
  BY <1>1, <1>2, PTL DEF Spec

(* Every variable of the spool keeps its type.                             *)
THEOREM SpoolTypeOK == Spec => []TypeOK
<1>1. IInv => TypeOK
  BY DEF IInv
<1> QED
  BY <1>1, SpoolInvariant, PTL

(* No batch is lost without a trace: each is pending, acknowledged or a    *)
(* gap, and only one of the three, in the file and on the disk.            *)
THEOREM SpoolAccounting == Spec => []EveryBatchAccounted
<1>1. IInv => EveryBatchAccounted
  BY DEF IInv, Sound, EveryBatchAccounted
<1> QED
  BY <1>1, SpoolInvariant, PTL

(* Each gap event tells the range and the size of the batch that was lost. *)
THEOREM SpoolGaps == Spec => []GapsFaithful
<1>1. IInv => GapsFaithful
  BY DEF IInv, Sound, GapsFaithful
<1> QED
  BY <1>1, SpoolInvariant, PTL

(* The spool never holds more payload than the largest byte limit.         *)
THEOREM SpoolPayload == Spec => []PayloadWithinLimit
<1>1. IInv => PayloadWithinLimit
  BY DEF IInv, Sound, PayloadWithinLimit, Status
<1> QED
  BY <1>1, SpoolInvariant, PTL

-------------------------------------------------------------------------------
(* Action properties.                                                      *)

(* The only steps that give out a number and leave no gap for it are       *)
(* EnqueueStored steps of the writer.                                      *)
LEMMA OnlyStoredEnqueues ==
  ASSUME IInv, [Next]_vars, NEW w \in Writers, EnqueuesRow(w)
  PROVE  EnqueueStored(w)
<1>1. /\ TypeOK /\ DraftsCurrent /\ db.next_seq + 1 # db.next_seq
  BY DEF IInv, TypeOK, Database
<1>2. /\ db'.next_seq = db.next_seq + 1 /\ pc[w] = "enqueuing" /\ pc'[w] = "idle"
      /\ draft[w].seq \notin Seqs(db'.gaps) /\ boot' = boot
  BY DEF EnqueuesRow
<1>3. db' # db
  BY <1>1, <1>2
<1>4. ~ Sync /\ ~ UNCHANGED vars /\ ~ AcknowledgeAny /\ ~ PowerLoss
  <2>1. ~ Sync /\ ~ UNCHANGED vars
    BY <1>3 DEF Sync, vars
  <2>2. ~ AcknowledgeAny
    BY <1>2 DEF AcknowledgeAny, Acknowledge
  <2>3. ~ PowerLoss
    BY <1>1, <1>2 DEF PowerLoss, TypeOK
  <2> QED
    BY <2>1, <2>2, <2>3
<1>5. PICK v \in Writers : WriterStep(v)
  BY <1>4 DEF Next
<1>6. v = w
  <2>1. \E state : pc' = [pc EXCEPT ![v] = state]
    BY <1>5 DEF WriterStep, BeginEnqueue, EnqueueOversized, EnqueueStored, EnqueueFull,
                EnqueueBusy, Crash, Restart, Finish
  <2> QED
    BY <1>1, <1>2, <2>1 DEF TypeOK
<1>7. ~ EnqueueOversized(w)
  <2>1. SUFFICES ASSUME EnqueueOversized(w)
                 PROVE  FALSE
    OBVIOUS
  <2> DEFINE gap == Gap(draft[w], "batch_exceeds_spool_limit", draft[w].created_at)
  <2>2. db'.gaps = db.gaps \cup {gap}
    BY <1>1, <2>1 DEF EnqueueOversized, Commit, TypeOK, Database
  <2>3. gap.seq = draft[w].seq
    BY DEF Gap
  <2> QED
    BY <1>2, <2>2, <2>3 DEF Seqs
<1>8. ~ (\E now \in Times, content \in Content : BeginEnqueue(w, now, content))
      /\ ~ EnqueueFull(w) /\ ~ EnqueueBusy(w) /\ ~ Crash(w) /\ ~ Restart(w)
  BY <1>3 DEF BeginEnqueue, EnqueueFull, EnqueueBusy, Crash, Restart
<1> QED
  BY <1>5, <1>6, <1>7, <1>8 DEF WriterStep

(* After a successful enqueue the spool is within the limits of the        *)
(* process that enqueued, and still holds the batch.                       *)
THEOREM SpoolEnqueueRestoresLimits == Spec => EnqueueRestoresLimits
<1> DEFINE Restored(w) ==
      /\ draft[w] \in db'.batches
      /\ PayloadBytes(db'.batches) <= Limits[w].max_payload_bytes
      /\ \A r \in db'.batches : ~Expired(w, draft[w].created_at, r)
<1>1. ASSUME IInv, [Next]_vars, NEW w \in Writers, EnqueuesRow(w)
      PROVE  Restored(w)
  <2> DEFINE row == draft[w]
             now == row.created_at
             rows == db.batches \cup {row}
  <2>1. EnqueueStored(w)
    BY <1>1, OnlyStoredEnqueues
  <2>2. /\ TypeOK /\ DraftsCurrent /\ Sound(db)
    BY <1>1 DEF IInv
  <2>3. /\ row \in Row /\ row.seq = db.next_seq /\ now \in Nat
        /\ row.payload_bytes <= Limits[w].max_payload_bytes
    BY <2>1, <2>2 DEF EnqueueStored, DraftsCurrent, Enqueuing, Row
  <2>4. rows \in SUBSET Row /\ IsFiniteSet(rows)
    BY <2>2, <2>3, FS_AddElement DEF Sound, Database
  <2>5. db'.batches = Survivors(w, now, rows)
    BY <2>1, <2>2 DEF EnqueueStored, Commit, Sound, Database
  <2>6. \A r \in rows : r # row => r.seq < row.seq
    BY <2>2, <2>3 DEF Sound, Accounted, Database, Seqs
  <2>7. row \in Survivors(w, now, rows)
    BY <2>3, <2>4, <2>6, NewestSurvives
  <2>8. PayloadBytes(Survivors(w, now, rows)) <= Limits[w].max_payload_bytes
    BY <2>3, <2>4, SurvivorsFit
  <2>9. \A r \in Survivors(w, now, rows) : ~Expired(w, now, r)
    BY DEF Survivors
  <2> QED
    BY <2>5, <2>7, <2>8, <2>9
<1>2. IInv /\ [Next]_vars => \A w \in Writers : EnqueuesRow(w) => Restored(w)
  BY <1>1
<1> QED
  BY <1>2, SpoolInvariant, PTL DEF Spec, EnqueueRestoresLimits

(* Gap events are only ever added to the file: what has reached the disk   *)
(* has no others.                                                          *)
DurableGaps == durable.gaps \subseteq db.gaps

(* A step other than a power loss keeps the gap events, and only a step of *)
(* EnqueueStored or EnqueueOversized adds any.                             *)
LEMMA GapsGrow ==
  ASSUME IInv, [Next]_vars, ~PowerLoss
  PROVE  /\ db.gaps \subseteq db'.gaps
         /\ \/ db'.gaps = db.gaps
            \/ \E w \in Writers : EnqueueStored(w) \/ EnqueueOversized(w)
<1>1. db \in Database
  BY DEF IInv, TypeOK
<1>2. ASSUME NEW w \in Writers, WriterStep(w)
      PROVE  /\ db.gaps \subseteq db'.gaps
             /\ db'.gaps = db.gaps \/ EnqueueStored(w) \/ EnqueueOversized(w)
  <2>1. CASE EnqueueStored(w)
    BY <1>1, <2>1 DEF EnqueueStored, Commit, Database
  <2>2. CASE EnqueueOversized(w)
    BY <1>1, <2>2 DEF EnqueueOversized, Commit, Database
  <2>3. CASE ~EnqueueStored(w) /\ ~EnqueueOversized(w)
    BY <1>2, <2>3 DEF WriterStep, BeginEnqueue, EnqueueFull, EnqueueBusy, Crash, Restart
  <2> QED
    BY <2>1, <2>2, <2>3
<1>3. CASE AcknowledgeAny
  BY <1>1, <1>3 DEF AcknowledgeAny, Acknowledge, Commit, Database
<1>4. CASE Sync \/ UNCHANGED vars
  BY <1>4 DEF Sync, vars
<1> QED
  BY <1>2, <1>3, <1>4 DEF Next

(* Every step keeps the gaps of the disk among those of the file.          *)
LEMMA NextDurableGaps == IInv /\ DurableGaps /\ [Next]_vars => DurableGaps'
<1> SUFFICES ASSUME IInv, DurableGaps, [Next]_vars
             PROVE  DurableGaps'
  OBVIOUS
<1>1. CASE PowerLoss
  BY <1>1 DEF PowerLoss, DurableGaps
<1>2. CASE ~PowerLoss
  <2>1. db.gaps \subseteq db'.gaps
    BY <1>2, GapsGrow
  <2>2. durable' = durable \/ (durable' = db /\ db' = db)
    BY <1>2 DEF Next, WriterStep, BeginEnqueue, EnqueueOversized, EnqueueStored,
                EnqueueFull, EnqueueBusy, Crash, Restart, AcknowledgeAny, Acknowledge,
                Sync, vars
  <2> QED
    BY <2>1, <2>2 DEF DurableGaps
<1> QED
  BY <1>1, <1>2

(* When a row does not fit together with those after it, a row that does   *)
(* fit is newer.                                                           *)
LEMMA FittingIsNewer ==
  ASSUME NEW limit \in Nat, NEW rows \in SUBSET Row, IsFiniteSet(rows),
         NEW gone \in rows, ~(PayloadBytes(NewerOrSame(gone, rows)) <= limit),
         NEW kept \in rows, PayloadBytes(NewerOrSame(kept, rows)) <= limit
  PROVE  kept.seq > gone.seq
<1> DEFINE after(row) == NewerOrSame(row, rows)
<1>1. gone.seq \in Nat /\ kept.seq \in Nat
  BY DEF Row
<1>2. SUFFICES ASSUME kept.seq <= gone.seq
               PROVE  FALSE
  BY <1>1
<1>3. after(kept) \in SUBSET Row /\ after(gone) \subseteq after(kept)
  BY <1>1, <1>2 DEF NewerOrSame, Row
<1>4. IsFiniteSet(after(kept))
  BY FS_Subset DEF NewerOrSame
<1>5. /\ PayloadBytes(after(gone)) <= PayloadBytes(after(kept))
      /\ PayloadBytes(after(kept)) \in Nat
  BY <1>3, <1>4, PayloadMonotone, StoredFinite
<1>6. PayloadBytes(after(gone)) \in Nat
  <2>1. IsFiniteSet(after(gone))
    BY <1>3, <1>4, FS_Subset
  <2> QED
    BY <1>3, <2>1, StoredFinite
<1> QED
  BY <1>5, <1>6

(* What is evicted for its bytes is older than all that stays pending.     *)
THEOREM SpoolOldestEvictedFirst == Spec => OldestEvictedFirst
<1> DEFINE Oldest(gap) ==
      gap.reason = "spool_byte_limit" => \A r \in db'.batches : r.seq > gap.seq
<1>1. ASSUME IInv, DurableGaps, [Next]_vars, NEW gap \in db'.gaps \ db.gaps
      PROVE  Oldest(gap)
  <2>1. ~PowerLoss
    BY <1>1 DEF PowerLoss, DurableGaps
  <2>2. PICK w \in Writers : EnqueueStored(w) \/ EnqueueOversized(w)
    BY <1>1, <2>1, GapsGrow
  <2>3. TypeOK /\ DraftsCurrent /\ Sound(db)
    BY <1>1 DEF IInv
  <2>4. CASE EnqueueOversized(w)
    <3>1. gap.reason = "batch_exceeds_spool_limit"
      BY <1>1, <2>3, <2>4 DEF EnqueueOversized, Commit, Gap, TypeOK, Database
    <3> QED
      BY <3>1
  <2>5. CASE EnqueueStored(w)
    <3> DEFINE now == draft[w].created_at
               rows == db.batches \cup {draft[w]}
               kept == Survivors(w, now, rows)
               limit == Limits[w].max_payload_bytes
    <3>1. draft[w] \in Row
      BY <2>3, <2>5 DEF EnqueueStored, DraftsCurrent, Enqueuing
    <3>2. rows \in SUBSET Row /\ IsFiniteSet(rows)
      BY <2>3, <3>1, FS_AddElement DEF Sound, Database
    <3>3. /\ db'.batches = kept
          /\ db'.gaps = db.gaps \cup
               {Gap(r, EvictionReason(w, now, r), now) : r \in rows \ kept}
      BY <2>3, <2>5 DEF EnqueueStored, Commit, TypeOK, Database
    <3> HIDE DEF kept
    <3>4. PICK r \in rows \ kept : gap = Gap(r, EvictionReason(w, now, r), now)
      BY <1>1, <3>3
    <3>5. gap.seq = r.seq /\ gap.reason = EvictionReason(w, now, r)
      BY <3>4 DEF Gap
    <3>6. SUFFICES ASSUME gap.reason = "spool_byte_limit", NEW x \in kept
                   PROVE  x.seq > r.seq
      BY <3>3, <3>5
    <3>7. ~Expired(w, now, r)
      BY <3>5, <3>6 DEF EvictionReason
    <3>8. ~(PayloadBytes(NewerOrSame(r, rows)) <= limit)
      BY <3>4, <3>7 DEF kept, Survivors
    <3>9. x \in rows /\ PayloadBytes(NewerOrSame(x, rows)) <= limit
      BY <3>6 DEF kept, Survivors
    <3>10. limit \in Nat
      BY LimitAssumption
    <3> HIDE DEF rows, limit
    <3> QED
      BY <3>2, <3>4, <3>8, <3>9, <3>10, FittingIsNewer
  <2> QED
    BY <2>2, <2>4, <2>5
<1>2. IInv /\ DurableGaps /\ [Next]_vars => \A gap \in db'.gaps \ db.gaps : Oldest(gap)
  BY <1>1
<1>3. Init => DurableGaps
  BY DEF Init, DurableGaps
<1> QED
  BY <1>2, <1>3, NextDurableGaps, SpoolInvariant, PTL DEF Spec, OldestEvictedFirst

-------------------------------------------------------------------------------
(* The eviction loop.                                                      *)

(* While the loop finds a row to delete it deletes one that does not       *)
(* survive, and the survivors of what is left are the same; when it finds  *)
(* none, all that is left survives.                                        *)
LEMMA LoopStep ==
  ASSUME NEW w \in Writers, NEW now, NEW rows \in SUBSET Row, IsFiniteSet(rows),
         \A x, y \in rows : x.seq = y.seq => x = y
  PROVE  LET chosen == Candidates(w, now, rows)
             row    == FirstRow(chosen)
         IN  IF chosen = {}
               THEN Survivors(w, now, rows) = rows
               ELSE /\ row \in rows
                    /\ row \notin Survivors(w, now, rows)
                    /\ Survivors(w, now, rows \ {row}) = Survivors(w, now, rows)
<1> DEFINE chosen == Candidates(w, now, rows)
           row    == FirstRow(chosen)
           limit  == Limits[w].max_payload_bytes
           rest   == rows \ {row}
<1>1. PayloadBytes(rows) \in Nat /\ limit \in Nat
  BY StoredFinite, LimitAssumption
<1>2. ASSUME NEW some \in SUBSET rows
      PROVE  PayloadBytes(some) \in Nat /\ PayloadBytes(some) <= PayloadBytes(rows)
  <2>1. IsFiniteSet(some) /\ some \in SUBSET Row
    BY FS_Subset
  <2> QED
    BY <2>1, StoredFinite, PayloadMonotone
<1>3. chosen = {r \in rows : Expired(w, now, r) \/ PayloadBytes(rows) > limit}
  BY DEF Candidates
<1>4. \A r \in rows : NewerOrSame(r, rows) \in SUBSET rows
                      /\ NewerOrSame(r, rest) \in SUBSET rows
  BY DEF NewerOrSame
<1>5. CASE chosen = {}
  <2>1. ASSUME NEW r \in rows
        PROVE  r \in Survivors(w, now, rows)
    <3>1. ~Expired(w, now, r) /\ PayloadBytes(rows) <= limit
      BY <1>1, <1>3, <1>5
    <3>2. PayloadBytes(NewerOrSame(r, rows)) <= limit
      BY <1>1, <1>2, <1>4, <3>1
    <3> QED
      BY <3>1, <3>2 DEF Survivors
  <2> QED
    BY <1>5, <2>1 DEF Survivors
<1>6. CASE chosen # {}
  <2>1. \A r \in rows : r.seq \in Nat
    BY DEF Row
  <2>2. row \in chosen /\ \A r \in chosen : row.seq <= r.seq
    <3>1. Seqs(chosen) \in SUBSET Nat /\ Seqs(chosen) # {}
      BY <1>3, <1>6, <2>1 DEF Seqs
    <3>2. Min(Seqs(chosen)) \in Seqs(chosen) /\ \A s \in Seqs(chosen) : Min(Seqs(chosen)) <= s
      BY <3>1, MinIsLeast
    <3>3. \E r \in chosen : r.seq = Min(Seqs(chosen))
      BY <3>2 DEF Seqs
    <3>4. row \in chosen /\ row.seq = Min(Seqs(chosen))
      BY <3>3 DEF FirstRow
    <3> HIDE DEF row, chosen
    <3> QED
      BY <3>2, <3>4 DEF Seqs
  <2> HIDE DEF row, chosen
  <2>3. row \in rows
    BY <1>3, <2>2
  <2>4. CASE PayloadBytes(rows) > limit
    <3>1. \A r \in rows : r # row => row.seq < r.seq
      BY <1>3, <2>1, <2>2, <2>3, <2>4
    <3>2. NewerOrSame(row, rows) = rows
      BY <2>1, <2>3, <3>1 DEF NewerOrSame
    <3>3. row \notin Survivors(w, now, rows)
      BY <1>1, <2>4, <3>2 DEF Survivors
    <3>4. \A r \in rest : NewerOrSame(r, rest) = NewerOrSame(r, rows)
      BY <2>1, <2>3, <3>1 DEF NewerOrSame
    <3>5. Survivors(w, now, rest) = Survivors(w, now, rows)
      BY <3>3, <3>4 DEF Survivors
    <3> QED
      BY <1>6, <2>3, <3>3, <3>5 DEF row, chosen
  <2>5. CASE PayloadBytes(rows) <= limit
    <3>1. Expired(w, now, row)
      BY <1>1, <1>3, <2>2, <2>5
    <3>2. row \notin Survivors(w, now, rows)
      BY <3>1 DEF Survivors
    <3>3. ASSUME NEW r \in rest
          PROVE  /\ PayloadBytes(NewerOrSame(r, rest)) <= limit
                 /\ PayloadBytes(NewerOrSame(r, rows)) <= limit
      <4>1. r \in rows
        OBVIOUS
      <4> HIDE DEF rest, limit
      <4> QED
        BY <1>1, <1>2, <1>4, <2>5, <4>1
    <3>4. Survivors(w, now, rest) = Survivors(w, now, rows)
      BY <3>2, <3>3 DEF Survivors
    <3> QED
      BY <1>6, <2>3, <3>2, <3>4 DEF row, chosen
  <2> QED
    BY <1>1, <2>4, <2>5
<1> QED
  BY <1>5, <1>6

Evicted(w, now, rows) == Evictions(w, now, rows \ Survivors(w, now, rows))

(* The loop ends with the survivors, and with a gap for every other row.   *)
LEMMA LoopEnds ==
  ASSUME NEW w \in Writers, NEW now, NEW rows \in SUBSET Row, IsFiniteSet(rows),
         \A x, y \in rows : x.seq = y.seq => x = y, NEW gaps
  PROVE  EnforceLimits(w, now, rows, gaps) =
           [batches |-> Survivors(w, now, rows), gaps |-> gaps \cup Evicted(w, now, rows)]
<1> DEFINE chosen(left) == Candidates(w, now, left)
           row(left)    == FirstRow(chosen(left))
           gap(r)       == Gap(r, EvictionReason(w, now, r), now)
           Loops(g) == g = [left \in SUBSET rows |->
             IF chosen(left) = {}
               THEN [batches |-> left, gaps |-> {}]
               ELSE [batches |-> g[left \ {row(left)}].batches,
                     gaps    |-> g[left \ {row(left)}].gaps \cup {gap(row(left))}]]
           loop   == CHOOSE g : Loops(g)
           closed == [left \in SUBSET rows |->
                        [batches |-> Survivors(w, now, left), gaps |-> Evicted(w, now, left)]]
<1>1. EnforceLimits(w, now, rows, gaps) =
        [batches |-> loop[rows].batches, gaps |-> gaps \cup loop[rows].gaps]
  BY DEF EnforceLimits
<1>2. ASSUME NEW left \in SUBSET rows
      PROVE  IF chosen(left) = {}
               THEN Survivors(w, now, left) = left
               ELSE /\ row(left) \in left
                    /\ row(left) \notin Survivors(w, now, left)
                    /\ Survivors(w, now, left \ {row(left)}) = Survivors(w, now, left)
  <2>1. /\ left \in SUBSET Row /\ IsFiniteSet(left)
        /\ \A x, y \in left : x.seq = y.seq => x = y
    BY FS_Subset
  <2> QED
    BY <2>1, LoopStep
<1> HIDE DEF chosen, row
<1>3. Loops(closed)
  <2>1. ASSUME NEW left \in SUBSET rows, chosen(left) = {}
        PROVE  closed[left] = [batches |-> left, gaps |-> {}]
    <3>1. Survivors(w, now, left) = left
      BY <1>2, <2>1
    <3>2. Evicted(w, now, left) = {}
      BY <3>1 DEF Evicted, Evictions
    <3> QED
      BY <3>1, <3>2
  <2>2. ASSUME NEW left \in SUBSET rows, chosen(left) # {}
        PROVE  closed[left] =
                 [batches |-> closed[left \ {row(left)}].batches,
                  gaps    |-> closed[left \ {row(left)}].gaps \cup {gap(row(left))}]
    <3> DEFINE r    == row(left)
               rest == left \ {r}
    <3>1. /\ r \in left /\ r \notin Survivors(w, now, left) /\ rest \in SUBSET rows
          /\ Survivors(w, now, rest) = Survivors(w, now, left)
      BY <1>2, <2>2
    <3>2. left \ Survivors(w, now, left) = (rest \ Survivors(w, now, rest)) \cup {r}
      BY <3>1
    <3>3. Evicted(w, now, left) = Evicted(w, now, rest) \cup {gap(r)}
      BY <3>2 DEF Evicted, Evictions
    <3>4. /\ closed[rest].batches = Survivors(w, now, left)
          /\ closed[rest].gaps = Evicted(w, now, rest)
      BY <3>1
    <3> QED
      BY <3>3, <3>4
  <2> DEFINE e(left) == IF chosen(left) = {}
               THEN [batches |-> left, gaps |-> {}]
               ELSE [batches |-> closed[left \ {row(left)}].batches,
                     gaps    |-> closed[left \ {row(left)}].gaps \cup {gap(row(left))}]
  <2> HIDE DEF closed, gap
  <2>3. ASSUME NEW left \in SUBSET rows
        PROVE  closed[left] = e(left)
    <3>1. CASE chosen(left) = {}
      BY <2>1, <3>1
    <3>2. CASE chosen(left) # {}
      <4>1. e(left) = [batches |-> closed[left \ {row(left)}].batches,
                       gaps    |-> closed[left \ {row(left)}].gaps \cup {gap(row(left))}]
        BY <3>2
      <4> HIDE DEF e
      <4> QED
        BY <2>2, <3>2, <4>1
    <3> QED
      BY <3>1, <3>2
  <2>4. closed = [left \in SUBSET rows |-> closed[left]]
    BY DEF closed
  <2> HIDE DEF e
  <2>5. closed = [left \in SUBSET rows |-> e(left)]
    BY <2>3, <2>4
  <2> QED
    BY <2>5 DEF e
<1>4. Loops(loop)
  <2> HIDE DEF Loops, closed
  <2> QED
    BY <1>3
<1> HIDE DEF loop
<1>5. loop[rows] = closed[rows]
  <2> DEFINE Bad == {left \in SUBSET rows : loop[left] # closed[left]}
  <2>1. SUFFICES ASSUME Bad # {}
                 PROVE  FALSE
    <3>1. rows \notin Bad
      BY <2>1
    <3> QED
      BY <3>1
  <2>2. PICK left \in Bad : \A some \in Bad : ~(some \subseteq left /\ some # left)
    <3>1. Bad \in SUBSET SUBSET rows
      OBVIOUS
    <3> HIDE DEF Bad
    <3> QED
      BY <2>1, <3>1, LeastSubset
  <2>3. left \in SUBSET rows /\ loop[left] # closed[left]
    BY <2>2
  <2>4. \A g : Loops(g) =>
          g[left] = IF chosen(left) = {}
                      THEN [batches |-> left, gaps |-> {}]
                      ELSE [batches |-> g[left \ {row(left)}].batches,
                            gaps    |-> g[left \ {row(left)}].gaps \cup {gap(row(left))}]
    BY <2>3
  <2> HIDE DEF Loops, closed
  <2>5. chosen(left) # {} /\ loop[left \ {row(left)}] # closed[left \ {row(left)}]
    BY <1>3, <1>4, <2>3, <2>4
  <2>6. row(left) \in left
    BY <1>2, <2>3, <2>5
  <2>7. left \ {row(left)} \in Bad
    BY <2>3, <2>5
  <2> QED
    BY <2>2, <2>6, <2>7
<1>6. closed[rows] = [batches |-> Survivors(w, now, rows), gaps |-> Evicted(w, now, rows)]
  OBVIOUS
<1> HIDE DEF closed
<1> QED
  BY <1>1, <1>5, <1>6

(* The eviction loop ends, whenever an enqueue runs it, with the rows and  *)
(* the gaps that the enqueue commits.                                      *)
THEOREM SpoolLoopIsSurvivors == Spec => []LoopIsSurvivors
<1>1. ASSUME IInv, NEW w \in Enqueuing \ stale
      PROVE  LET now  == draft[w].created_at
                 rows == db.batches \cup {draft[w]}
                 kept == Survivors(w, now, rows)
             IN  EnforceLimits(w, now, rows, db.gaps) =
                   [batches |-> kept,
                    gaps |-> db.gaps \cup
                      {Gap(r, EvictionReason(w, now, r), now) : r \in rows \ kept}]
  <2> DEFINE rows == db.batches \cup {draft[w]}
  <2>1. /\ w \in Writers /\ draft[w] \in Row /\ draft[w].seq = db.next_seq
        /\ db.batches \in SUBSET Row /\ IsFiniteSet(db.batches) /\ db.next_seq \in Nat
        /\ \A x, y \in db.batches : x.seq = y.seq => x = y
        /\ \A x \in db.batches : x.seq # db.next_seq
    <3>1. Sound(db) /\ DraftsCurrent /\ w \in Enqueuing /\ w \notin stale
      BY <1>1 DEF IInv
    <3>2. /\ db \in Database /\ IsFiniteSet(db.batches) /\ Accounted(db)
      BY <3>1 DEF Sound
    <3>3. w \in Writers /\ draft[w] \in Row /\ draft[w].seq = db.next_seq
      BY <3>1 DEF DraftsCurrent, Enqueuing
    <3>4. db.batches \in SUBSET Row /\ db.next_seq \in Nat
      BY <3>2 DEF Database
    <3>5. \A x, y \in db.batches : x.seq = y.seq => x = y
      BY <3>2 DEF Accounted
    <3>6. \A x \in db.batches : x.seq \in 0 .. db.next_seq - 1
      BY <3>2 DEF Accounted, Seqs
    <3> QED
      BY <3>2, <3>3, <3>4, <3>5, <3>6
  <2>2. /\ rows \in SUBSET Row /\ IsFiniteSet(rows)
        /\ \A x, y \in rows : x.seq = y.seq => x = y
    BY <2>1, FS_AddElement
  <2> HIDE DEF rows
  <2>3. EnforceLimits(w, draft[w].created_at, rows, db.gaps) =
          [batches |-> Survivors(w, draft[w].created_at, rows),
           gaps |-> db.gaps \cup Evicted(w, draft[w].created_at, rows)]
    BY <2>1, <2>2, LoopEnds
  <2> QED
    BY <2>3 DEF rows, Evicted, Evictions
<1>2. IInv => LoopIsSurvivors
  BY <1>1 DEF LoopIsSurvivors
<1> QED
  BY <1>2, SpoolInvariant, PTL
===============================================================================
