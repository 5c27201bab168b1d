---------------------------- MODULE SpoolEviction -----------------------------
(***************************************************************************)
(* enforce_limits of src/spool.rs as the code writes it, a loop that looks *)
(* for one candidate and deletes it until there is none, next to the       *)
(* closed form Survivors that Spool uses for it.                           *)
(***************************************************************************)
EXTENDS Spool

(* SELECT ... WHERE created_at < cutoff OR total > max ORDER BY seq        *)
Candidates(w, now, rows) ==
  {r \in rows : \/ Expired(w, now, r)
                \/ PayloadBytes(rows) > Limits[w].max_payload_bytes}

(* The first row of the query's answer.                                    *)
FirstRow(rows) == CHOOSE r \in rows : r.seq = Min(Seqs(rows))

(* The loop from left on: the rows it ends with and the gaps it inserts.   *)
EnforceLimits(w, now, rows, gaps) ==
  LET loop[left \in SUBSET rows] ==
        IF Candidates(w, now, left) = {}
          THEN [batches |-> left, gaps |-> {}]
          ELSE LET row == FirstRow(Candidates(w, now, left))
                   end == loop[left \ {row}]
               IN  [batches |-> end.batches,
                    gaps    |-> end.gaps \cup {Gap(row, EvictionReason(w, now, row), now)}]
  IN  [batches |-> loop[rows].batches, gaps |-> gaps \cup loop[rows].gaps]

(* Whenever an enqueue is about to insert its row, the loop ends with the  *)
(* rows and with the gap events that Spool's single step commits.          *)
LoopIsSurvivors ==
  \A w \in Enqueuing \ stale :
    LET now  == draft[w].created_at
        rows == db.batches \cup {draft[w]}
        kept == Survivors(w, now, rows)
    IN  draft[w].payload_bytes <= Limits[w].max_payload_bytes =>
          EnforceLimits(w, now, rows, db.gaps) =
            [batches |-> kept,
             gaps |-> db.gaps \cup
               {Gap(r, EvictionReason(w, now, r), now) : r \in rows \ kept}]
===============================================================================
