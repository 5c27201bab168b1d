------------------------------- MODULE Pipeline -------------------------------
(***************************************************************************)
(* The path of a batch: the agent's spool, the upload-once processes of    *)
(* src/upload.rs that post pending batches and acknowledge them, and the   *)
(* control plane that ingests them.                                        *)
(*                                                                         *)
(* upload_once takes a snapshot of the pending batches and then, batch by  *)
(* batch, posts it, waits for the answer and deletes it from the spool.    *)
(* Between two of these steps everything else may happen: an eviction,     *)
(* another uploader's acknowledgement, a restart of the control plane.     *)
(* A broken connection ends the process; a request that has left may then  *)
(* still be served, later, with nobody waiting for the answer.             *)
(***************************************************************************)
EXTENDS Envelope, FiniteSets, FiniteSetsExt, Sequences

CONSTANTS
  (* of Spool *)
  Writers, Limits, SizeOf, StartsOf, Times, Overhead, RowCost, GapCost,
  FixedBootId, NoDraft, MaxSeq, MaxBoots, SqlMax,
  (* of Control *)
  FlowKey, CapturePointOf, BucketsOf, BodyLimit, ControlLimits, BatchCost,
  FlowCost,
  Down, NoReply,
  Uploaders,     \* the upload-once processes
  UploadLimit,   \* their --limit
  Nobody,        \* the sender of a request whose process has exited
  NoAnswer,      \* no answer has been read yet
  MaxStops,      \* bound on the stops of the control plane
  MaxLosses      \* those among the first of them that may be power losses

ASSUME UploadAssumption ==
  /\ UploadLimit \in Nat \ {0}
  /\ Nobody \notin Uploaders
  /\ MaxStops \in Nat /\ MaxLosses \in 0 .. MaxStops

(* What Spool assumes of the agent's command line, its clock and content.  *)
ASSUME AgentAssumption ==
  /\ Writers # {}
  /\ Origin = Writers \X (0 .. MaxBoots)
  /\ MaxSeq \in Nat /\ MaxBoots \in Nat /\ FixedBootId \in BOOLEAN
  /\ Limits \in [Writers -> [max_payload_bytes : Nat \ {0},
                             max_age_seconds   : Nat \ {0}]]
  /\ SizeOf \in [Content -> Nat \ {0}]
  /\ SqlMax \in Nat
  /\ StartsOf \in [Content -> (SUBSET (0 .. SqlMax)) \ {{}}]
  /\ Times \subseteq Nat
  /\ Overhead \in Nat /\ RowCost \in Nat /\ GapCost \in 0 .. RowCost

(* What Control assumes of its own command line and of the content.        *)
ASSUME PlaneAssumption ==
  /\ BucketsOf \in [Content -> Seq([bucket_start : Nat, key : FlowKey,
                                    packets : Nat, bytes : Nat])]
  /\ DOMAIN CapturePointOf = FlowKey
  /\ BodyLimit \in Nat
  /\ ControlLimits \subseteq [max_pages : Nat \ {0}, max_age_seconds : Nat \ {0}]
  /\ BatchCost \in Nat /\ FlowCost \in Nat
  /\ Down \notin ControlLimits

(* Every envelope that a writer can build.                                 *)
Built == {NewEnvelope(o, s, t, c) :
            o \in Origin, s \in 0 .. MaxSeq - 1, t \in Times, c \in Content}

VARIABLES
  db, durable, pc, draft, stale, boot,             \* Spool
  ingested, flow_buckets, file_pages,              \* Control
  control_durable, limits, reply, accepted,        \* Control
  job,       \* what each uploader is doing
  requests,  \* the requests that have left and are not served yet
  stops,     \* the number of stops of the control plane
  undone     \* history: the insertions that a power loss undid

spool   == <<db, durable, pc, draft, stale, boot>>
control == <<ingested, flow_buckets, file_pages, control_durable, limits, reply,
             accepted>>
vars    == <<spool, control, job, requests, stops, undone>>

S == INSTANCE Spool
C == INSTANCE Control WITH Posted <- Built, durable <- control_durable

Idle == [phase |-> "idle", todo |-> {}, answer |-> NoAnswer]

Init ==
  /\ S!Init /\ C!Init
  /\ job = [u \in Uploaders |-> Idle]
  /\ requests = {}
  /\ stops = 0 /\ undone = {}

-------------------------------------------------------------------------------
(* upload_once.                                                            *)

(* The pending batches are posted in the order of their sequence numbers.  *)
HeadOf(u) ==
  CHOOSE e \in job[u].todo : \A f \in job[u].todo : e.body.seq <= f.body.seq

Orphan(u, dropped) ==
  {r \in requests : r.from # u} \cup
  {[r EXCEPT !.from = Nobody] : r \in {x \in requests : x.from = u} \ dropped}

(* Mutant of StartUpload: rows in the place of envelopes.                  *)
StartWithRows(u) ==
  /\ job[u].phase = "idle"
  /\ db.batches # {}
  /\ job' = [job EXCEPT ![u] = [phase |-> "ready", todo |-> db.batches,
                                answer |-> NoAnswer]]
  /\ UNCHANGED <<spool, control, requests, stops, undone>>

(* The snapshot.  With nothing pending the process returns at once.        *)
StartUpload(u) ==
  /\ job[u].phase = "idle"
  /\ S!Pending(UploadLimit) # {}
  /\ job' = [job EXCEPT ![u] = [phase |-> "ready", todo |-> S!Pending(UploadLimit),
                                answer |-> NoAnswer]]
  /\ UNCHANGED <<spool, control, requests, stops, undone>>

Post(u) ==
  /\ job[u].phase = "ready" /\ job[u].todo # {}
  /\ requests' = requests \cup {[from |-> u, envelope |-> HeadOf(u)]}
  /\ job' = [job EXCEPT ![u].phase = "waiting"]
  /\ UNCHANGED <<spool, control, stops, undone>>

(* The handler of POST /v1/ingest runs, and its answer is on its way.      *)
Serve(request, now) ==
  /\ C!Ingest(request.envelope, now)
  /\ requests' = requests \ {request}
  /\ job' = [u \in Uploaders |->
               IF u = request.from
                 THEN [job[u] EXCEPT !.phase = "answered", !.answer = reply'.status]
                 ELSE job[u]]
  /\ undone' = IF reply'.status \in C!Acks THEN undone \ {request.envelope} ELSE undone
  /\ UNCHANGED <<spool, stops>>

(* Mutant of AcknowledgeHead: the answer is not waited for.                *)
AcknowledgeEarly(u) ==
  /\ job[u].phase \in {"waiting", "answered"}
  /\ S!Acknowledge(HeadOf(u).batch_id, HeadOf(u).checksum)
  /\ job' = [job EXCEPT ![u] = [phase |-> "ready", todo |-> @.todo \ {HeadOf(u)},
                                answer |-> NoAnswer]]
  /\ UNCHANGED <<control, requests, stops, undone>>

(* A 200: the batch is deleted from the spool.                             *)
AcknowledgeHead(u) ==
  /\ job[u].phase = "answered" /\ job[u].answer \in C!Acks
  /\ S!Acknowledge(HeadOf(u).batch_id, HeadOf(u).checksum)
  /\ job' = [job EXCEPT ![u] = [phase |-> "ready", todo |-> @.todo \ {HeadOf(u)},
                                answer |-> NoAnswer]]
  /\ UNCHANGED <<control, requests, stops, undone>>

(* Mutant of AcknowledgeMismatch: the batch is posted again.               *)
MismatchRetries(u) ==
  /\ job[u].phase = "answered" /\ job[u].answer \in C!Acks
  /\ S!Matching(HeadOf(u).batch_id, HeadOf(u).checksum) = {}
  /\ job' = [job EXCEPT ![u].phase = "ready"]
  /\ UNCHANGED <<spool, control, requests, stops, undone>>

(* The batch is no longer in the spool: acknowledge bails.                 *)
AcknowledgeMismatch(u) ==
  /\ job[u].phase = "answered" /\ job[u].answer \in C!Acks
  /\ S!Matching(HeadOf(u).batch_id, HeadOf(u).checksum) = {}
  /\ job' = [job EXCEPT ![u] = Idle]
  /\ UNCHANGED <<spool, control, requests, stops, undone>>

(* Mutant of Refused: the upload goes on with the next batch.              *)
RefusedSkips(u) ==
  /\ job[u].phase = "answered" /\ job[u].answer \in C!Errors
  /\ job' = [job EXCEPT ![u] = [phase |-> "ready", todo |-> @.todo \ {HeadOf(u)},
                                answer |-> NoAnswer]]
  /\ UNCHANGED <<spool, control, requests, stops, undone>>

(* Any other status ends the process; the batches stay pending.            *)
Refused(u) ==
  /\ job[u].phase = "answered" /\ job[u].answer \in C!Errors
  /\ job' = [job EXCEPT ![u] = Idle]
  /\ UNCHANGED <<spool, control, requests, stops, undone>>

Done(u) ==
  /\ job[u].phase = "ready" /\ job[u].todo = {}
  /\ job' = [job EXCEPT ![u] = Idle]
  /\ UNCHANGED <<spool, control, requests, stops, undone>>

(* The connection fails before the answer is read, or the process dies.    *)
AbortUpload(u) ==
  /\ job[u].phase # "idle"
  /\ job' = [job EXCEPT ![u] = Idle]
  /\ \E dropped \in SUBSET {r \in requests : r.from = u} :
       requests' = Orphan(u, dropped)
  /\ UNCHANGED <<spool, control, stops, undone>>

(* A request whose sender is gone never arrives.                           *)
LoseOrphan(request) ==
  /\ request.from = Nobody
  /\ requests' = requests \ {request}
  /\ UNCHANGED <<spool, control, job, stops, undone>>

-------------------------------------------------------------------------------
(* The other steps of the spool and of the control plane.                  *)

SpoolStep ==
  /\ (\E w \in Writers : S!WriterStep(w)) \/ S!Sync
  /\ UNCHANGED <<control, job, requests, stops, undone>>

(* The uploaders run on the agent's machine.                               *)
AgentPowerLoss ==
  /\ S!PowerLoss
  /\ job' = [u \in Uploaders |-> Idle]
  /\ requests' = {[r EXCEPT !.from = Nobody] : r \in requests}
  /\ UNCHANGED <<control, stops, undone>>

(* Stopping the control plane breaks its connections.                      *)
ControlStop ==
  /\ stops < MaxStops
  /\ C!Stop
  /\ stops' = stops + 1
  /\ requests' = {}
  /\ UNCHANGED <<spool, job, undone>>

ControlOpen ==
  /\ \E newlimits \in ControlLimits : C!Open(newlimits)
  /\ UNCHANGED <<spool, job, requests, stops, undone>>

(* After the last power loss of the bound a sync can no longer be seen.    *)
ControlSync ==
  /\ stops < MaxLosses
  /\ C!Sync
  /\ UNCHANGED <<spool, job, requests, stops, undone>>

ControlPowerLoss ==
  /\ stops < MaxLosses
  /\ C!PowerLoss
  /\ stops' = stops + 1
  /\ requests' = {}
  /\ undone' = undone \cup {e \in accepted : C!RowOf(e) \in ingested \ ingested'}
  /\ UNCHANGED <<spool, job>>

UploadStep(u) ==
  \/ StartUpload(u) \/ Post(u) \/ AcknowledgeHead(u) \/ AcknowledgeMismatch(u)
  \/ Refused(u) \/ Done(u) \/ AbortUpload(u)

Next ==
  \/ SpoolStep
  \/ AgentPowerLoss
  \/ \E u \in Uploaders : UploadStep(u)
  \/ \E r \in requests : LoseOrphan(r) \/ \E now \in Times : Serve(r, now)
  \/ ControlStop \/ ControlOpen
  \/ ControlSync \/ ControlPowerLoss

Spec == Init /\ [][Next]_vars

(* Fairness.  A process that can go on does so, and a request is answered  *)
(* or, when it is lost or the control plane is down, its connection breaks.*)
ServeOwn(u) == \E r \in requests, now \in Times : r.from = u /\ Serve(r, now)

BreakConnection(u) ==
  /\ job[u].phase = "waiting"
  /\ limits = Down \/ \A r \in requests : r.from # u
  /\ AbortUpload(u)

Proceed(u) ==
  \/ Post(u) \/ AcknowledgeHead(u) \/ AcknowledgeMismatch(u) \/ Refused(u) \/ Done(u)
  \/ ServeOwn(u) \/ BreakConnection(u)

UploadSpec == Spec /\ \A u \in Uploaders : WF_vars(Proceed(u))

(* The program does not start an upload by itself: upload-once is started  *)
(* again and again from outside, the control plane is started again after  *)
(* a stop, and failures do not hit every attempt at the same place.        *)
RetrySpec ==
  /\ UploadSpec
  /\ WF_vars(ControlOpen)
  /\ \A u \in Uploaders :
       WF_vars(StartUpload(u)) /\ SF_vars(Post(u)) /\ SF_vars(ServeOwn(u))
       /\ SF_vars(AcknowledgeHead(u))

-------------------------------------------------------------------------------
(* Properties.                                                             *)

(* Every variable of the composition holds a value of its type.            *)
TypeOK ==
  /\ S!TypeOK /\ C!TypeOK
  /\ job \in [Uploaders ->
        [phase : {"idle", "ready", "waiting", "answered"}, todo : SUBSET Built,
         answer : C!Acks \cup C!Errors \cup {NoAnswer}]]
  /\ requests \subseteq [from : Uploaders \cup {Nobody}, envelope : Built]
  /\ stops \in 0 .. MaxStops
  /\ undone \subseteq accepted

(* The agent deletes a batch as acknowledged only if the control plane has *)
(* taken in that very batch, though answers are lost, requests arrive late *)
(* or twice, two uploaders run at once, sequence numbers are given out     *)
(* again after a power loss, and the control plane restarts.               *)
ForgottenOnlyIfDelivered ==
  \A r \in db.log : r.seq \in db.acked => r.payload \in accepted

(* What the agent has deleted as acknowledged is in the control plane's    *)
(* store, though it has restarted and taken in other batches since, unless *)
(* a clock and a limit may have put it past the retention or a power loss  *)
(* of the control plane undid its insertion: then it is in neither place.  *)
ForgottenIsStored ==
  \A r \in {x \in db.log : x.seq \in db.acked} :
    \/ C!RowOf(r.payload) \in ingested
    \/ r.payload \in undone
    \/ \E now \in Times, l \in ControlLimits :
         r.created_at < SaturatingSub(now, l.max_age_seconds)

PacketsIn(content) ==
  MapThenSumSet(LAMBDA i : BucketsOf[content][i].packets,
                1 .. Len(BucketsOf[content]))

(* The control plane reports every packet it holds once: the total of a    *)
(* node is the sum over the batches of its that were accepted and are      *)
(* still stored, though a batch is posted again after a lost answer, is    *)
(* served late, comes back after a pruning or a power loss, and one bucket *)
(* of one flow may come in two batches, or twice in one.                   *)
CountedOnce ==
  \A w \in Writers :
    LET held == {e \in accepted : e.body.origin[1] = w /\ C!RowOf(e) \in ingested}
    IN  C!stats(w).status = "ok" =>
          C!stats(w).body.packets
            = MapThenSumSet(LAMBDA e : PacketsIn(e.body.buckets), held)

(* Batches arrive in the order of their sequence: while nothing was rolled *)
(* back, no pending batch has arrived before one that precedes it and is   *)
(* still pending - the uploaders overlap, requests are served late, and a  *)
(* refused batch holds up those behind it.                                 *)
DeliveredInOrder ==
  boot = 0 =>
    \A r1, r2 \in db.batches :
      r1.seq < r2.seq /\ r2.payload \in accepted => r1.payload \in accepted

(* With the kernel's boot id no batch of an agent is ever refused as a     *)
(* conflict, and so no batch blocks the ones behind it for ever.           *)
NoConflict == reply # NoReply => reply.status # "conflict"

(* An acknowledged batch is never taken out of the spool by the answer to  *)
(* another one: a deleted row is the head of the upload that deletes it.   *)
AcknowledgesItsOwn ==
  [][\A r \in db.batches :
       r.seq \in db'.acked \ db.acked =>
         \E u \in Uploaders :
           /\ job[u].answer \in C!Acks /\ HeadOf(u) = r.payload
           /\ job'[u].phase = "ready"]_vars

(* Every run of upload-once comes to an end.                               *)
UploadTerminates ==
  \A u \in Uploaders : job[u].phase # "idle" ~> job[u].phase = "idle"

(* A batch that is refused at every attempt: past the body limit, or given *)
(* a number that the same boot id has used for another batch, as after a   *)
(* power loss under a fixed boot id.                                       *)
Hopeless(r) ==
  \/ SizeOf[r.payload.body.buckets] > BodyLimit
  \/ \E row \in ingested :
       /\ row.origin = r.payload.body.origin /\ row.seq = r.seq
       /\ row.checksum # r.payload.checksum

(* While the control plane has room, every pending batch leaves the spool  *)
(* in the end, delivered or evicted: none stays behind a failed attempt,   *)
(* but for those that are hopeless or queue behind a hopeless one.         *)
EventuallyLeaves ==
  \A seq \in 0 .. MaxSeq - 1 :
    seq \in S!Seqs(db.batches) ~>
      \/ seq \notin S!Seqs(db.batches)
      \/ \E r \in db.batches : r.seq <= seq /\ Hopeless(r)

(* The composition implements at-least-once delivery with explicit loss.   *)
D == INSTANCE Delivery WITH
       Batch     <- Built,
       pending   <- {r.payload : r \in db.batches},
       delivered <- accepted,
       lost      <- {r.payload : r \in {x \in db.log : x.seq \in S!Seqs(S!Gaps)}}

ImplementsDelivery == D!Spec
===============================================================================
