# Verification of flow-observability

This directory holds TLA+ models of flow-observability, the TLC runs that check
them on small instances, and machine-checked proofs (TLAPS) of what holds for
every value of the parameters. Everything is translated from the source under
`src/`; `PROJECT.json` maps each definition to the lines it stands for.

## 1. Inventory

Flow-observability captures traffic on a node, counts packets and bytes per flow
and time bucket, keeps the counts in a bounded spool on the agent, delivers them
to a control plane over HTTP, and shows them on a web page.

```
 kernel ring -> capture.rs -> aggregate.rs -> spool.rs  <- upload.rs -> HTTP -> control.rs -> dashboard.html
                packet.rs                     (SQLite)     upload-once          (SQLite)      (browser)
```

| component | state | operations | talks to |
|---|---|---|---|
| packet parser, `packet.rs` | none | `parse_packet` and its header walks | called per packet by the capture loop |
| aggregator, `aggregate.rs` | map (bucket, flow) -> counters | `push`, `drain_before` | owned by the capture loop |
| capture loop, `capture.rs` | aggregator, error count, last pcap statistics, number of batches | one loop: read or time out, drain, enqueue | libpcap; the spool |
| envelope, `model.rs` | none | `BatchEnvelope::new`, checksum | built by the spool, checked by the control plane |
| spool, `spool.rs` | SQLite tables `metadata(next_seq)`, `batches`, `gaps` | `enqueue` with `enforce_limits`, `pending`, `acknowledge`, `status`, `gaps` | one file shared by several processes: capture, synthetic, upload-once, status |
| uploader, `upload.rs` | a snapshot of pending batches | `upload_once` | reads and deletes in the spool; posts to the control plane |
| control plane, `control.rs` | SQLite tables `ingested_batches`, `flow_buckets` | `ingest_at` with `prune_expired`; `nodes`, `stats`, `series` | HTTP clients |
| dashboard, `dashboard.html` | inventory, selections, generation counter, what is drawn | load, render, answers, controls | the three queries |
| command line, `main.rs` | none | starts one of the above, `default_boot_id` | all |

What is hard about it:

* **The spool is shared by processes.** `enqueue` is a deferred transaction: it
  reads `next_seq` first and takes the write lock only at its first write. Other
  processes commit in between, each with its own limits.
* **Bounded storage in three layers.** A payload limit, an age limit and a page
  limit act in one transaction, in an order that matters (insert, then evict).
* **Delivery over an unreliable network.** Answers are lost, requests outlive
  their sender, uploads overlap with each other and with evictions, and both
  sides may restart. Idempotence rests on ids, checksums and sequence numbers.
* **Power loss.** `synchronous = NORMAL` may undo commits, on the agent, after
  which sequence numbers are handed out a second time, and on the control plane,
  which may then have lost what the agent has already deleted.
* **Batches that are refused at every attempt** hold up all those behind them: a
  batch past the HTTP body limit, or one whose number a fixed boot id has used
  before.
* **Late and dropped packets, wrapping 32-bit counters, timeouts, a clock that
  is set back** in the capture loop.
* **Header arithmetic on truncated captures** in the parser.
* **Answers in any order** on the web page.

What makes each component correct (the properties are named in section 3): the
spool accounts for every sequence number and stays within its limits; the
control plane stores each batch once, whole, and answers truthfully; the agent
forgets only what was delivered or recorded as lost; the capture loop conserves
packets; the parser finds the ports where they are, or reports an error; the
page shows what its controls name. `PROJECT.json` lists the individual hazards,
each at its line.

## 2. Modules and how they correspond to the code

**`Envelope`** (model.rs). A body keeps `schema_version`, origin (the pair
`node_id`, `boot_id`, always used together), `seq`, `created_at`, and one opaque
content for buckets and diagnostics. blake3 is free of collisions: a digest is a
term built from the body.

**`Spool`** (spool.rs). `db` is the committed file and `durable` what has
reached the disk; `draft[w]` is the row an enqueue has built from the `next_seq`
it read. `BeginEnqueue` is the transaction up to that read; `EnqueueStored`,
`EnqueueOversized`, `EnqueueFull` and `EnqueueBusy` are its ends. `stale` holds
the processes whose read snapshot another commit has outdated: SQLite refuses
their upgrade. `Acknowledge`, `Pending` and `Status` are single statements.
`Crash`, `Sync` and `PowerLoss` are the environment. The eviction loop is
modelled by its closed form `Survivors`. History fields `log` and `acked` say
what was ever enqueued and acknowledged in the file; the code does not have them.
They go back with the file at a power loss, so that an enqueue it undoes is not
in them: the agent is told `Ok` and nothing remembers it, which is what
`synchronous = NORMAL` accepts and no property denies.

**`SpoolEviction`** keeps the loop itself, row by row as the code runs it, as a
recursive function, and states that it computes `Survivors`.

**`SpoolProofs`**, **`ControlProofs`**, **`PipelineProofs`**, **`CaptureProofs`**,
**`PacketProofs`** and **`DashboardProofs`** hold the theorems about the modules
they are named for (section 5). **`CaptureCounts`** goes on from `CaptureProofs`
with the properties that add things up, from the lemmas on finite sums in
**`SumProofs`**.

**`Control`** (control.rs). `ingest_at` is one transaction under one mutex, so an
ingest is one step, split by its outcome: `IngestTooLarge` (413, before the
handler), `IngestInvalid` (400), `IngestDuplicate`, `IngestConflict` (409),
`IngestInserted`, `IngestFull` (507), `IngestUnstorable` (500). Pruning belongs
to the transaction: it is committed by a 200 and undone with everything else
otherwise. `durable` is what has reached the disk; `Stop` is the death of the
process, `Sync` and `PowerLoss` are the environment. `nodes`, `stats`,
`stats_at` and `series` are the queries, with their failures: a `SUM` that
overflows is a 500, and every error of a series a 400. `accepted` is history.
`flow_buckets` has no key, so its rows are a bag: a row carries a `rowid`, and
`InsertedRows` adds one row per bucket beside whatever rows the batch has
already. Inserting a batch again doubles its rows, in `COUNT` and in `SUM`, and a
body may carry two equal buckets.

**`Pipeline`** (upload.rs) composes `Spool` and `Control` with upload-once
processes. A request is a record in flight; it is served at any later time, is
lost with its connection, or is orphaned when its sender exits. The check that
the answer names the posted batch is always met by this control plane and is not
a step. Both machines may lose power, each with a durable copy of its own
(`durable` is the spool's, `control_durable` the control plane's). `undone` is
history: the accepted batches whose insertion such a loss undid and that have
not come again.

**`Delivery`** is the abstract specification: batches are pending, delivered or
lost, and a pending batch is forgotten only when delivered. `Pipeline!D` gives
the refinement mapping.

**`Aggregator`** and **`Capture`** (aggregate.rs, capture.rs). The aggregator is
a function and its operations operators. The loop has two program points, in
`next_packet` and after it. Between two steps the clock advances or is set back,
and packets arrive in a bounded ring or are dropped by the interface; pcap's
three counters wrap at `CounterSize`. The kernel and libpcap are external and
modelled as the loop uses them.

**`Packet`** (packet.rs). A frame is a record of headers; the capture keeps a
prefix of it. `parse_packet` gives the flow, `None` or `Error`, with ports
represented by the offset they are read at. Byte values are abstract, lengths
and offsets are not.

**`Dashboard`** (dashboard.html). Each load has a generation number. `Render`,
`ChangePrimary`, `ChangeCompare`, `ChangeMetric`, `Refresh`, `Resize` are the
controls; `NodesArrive`, `NodesEmpty`, `DataArrive`, `Fails`, `Ignore` are what
happens after an `await`. Layout, formatting and drawing are left out.

`MCSpool`, `MCControl`, `MCPipeline`, `MCCapture`, `MCPacket` and `MCDashboard`
give the constants their values. A definition introduced as "Mutant of X" is a
plausible bug in X; replacing X by it makes TLC report the property that
`PROJECT.json` names with it. It is not used otherwise.

## 3. Runs

| run | bounds | what it shows |
|---|---|---|
| `SpoolShared` | 2 processes with different limits, 2 sizes, 2 clock readings, 3 batches, 1 power loss | `EveryBatchAccounted`, `GapsFaithful`, `PayloadWithinLimit`, `EnqueueRestoresLimits`, `OldestEvictedFirst` under every interleaving of enqueues, acknowledgements, busy errors and crashes, in the committed file and in the one that a power loss leaves; `LoopIsSurvivors`: the eviction loop equals its closed form in every reachable state |
| `SpoolOverflow` | 1 process, 3 batches | finding 1 (violation) |
| `Control` | 9 envelopes, of which one has two equal buckets, 2 clock readings, 2 sets of limits, any number of stops and power losses | `StoredOnce`, `StoredWhole`, `FileWithinLimit`, `QueriesAgree`, `AckMeansStored`, `OnlyExpiredLeave`, `RetryIsAcknowledged` |
| `ControlRetention` | as `Control` | finding 2 (violation) |
| `Pipeline` | 2 uploaders, 2 batches, a spool with room for one, a control plane with room for one, 1 stop | `ForgottenOnlyIfDelivered`, `AcknowledgesItsOwn`, `ImplementsDelivery`, `UploadTerminates` |
| `PipelineReboot` | 1 uploader, 2 batches, 2 contents, 1 power loss of the agent, 1 stop | sequence numbers given out again neither conflict (`NoConflict`) nor make the agent forget the wrong batch; batches with different buckets, of which some are equal, are each counted once (`CountedOnce`) |
| `PipelineStore` | 2 uploaders, 2 batches, 2 sizes of which one is past the body limit, 2 clock readings, 1 stop or power loss of the control plane | what the agent has deleted is still stored, or expired, or undone (`ForgottenIsStored`); no row of a batch that comes again, late or after a pruning, is counted twice (`CountedOnce`); no batch overtakes another (`DeliveredInOrder`) |
| `PipelineRetry` | 1 uploader, 2 batches, 3 contents of which one is past the body limit, a fixed boot id, 1 power loss of the agent, 1 stop | `EventuallyLeaves`, with the batches that never can named in it |
| `Capture` | 1 flow, ring of 1, counters modulo 3, 3 packets, clock to 4, set back once, buckets of 2 s, `--max-batches` 2 | `PacketsConserved`, `BatchesClosed`, `DiagnosticsAddUp`, `BucketsLeave` |
| `Packet` | 647 frames, each cut at 0 to 140 bytes | `FindsTheFlow`, `CaptureLengthIrrelevant` |
| `Dashboard` | 2 capture points, 3 inventories, 5 loads | `OnlineShowsSelection`, `BusyAwaitsAnswer`, `ComparisonShared`, `SelectionSurvives`, `RefreshCompletes` |
| `DashboardLock` | as `Dashboard`, 3 loads | finding 3 (violation) |

Why the bounds are enough:

* *Spool.* Two processes suffice for every pairwise race over the snapshot; the
  sizes of `SpoolShared` are one that fits twice or more and one that fits one
  process and not the other, and `SpoolOverflow` has one between them. Three
  batches make one eviction take a row and leave another, and the two clock
  readings are a step past one age limit, or back. The theorems of section 5 remove the bounds.
* *Control.* The envelopes are four that agents of two nodes build, among them
  two with the same sequence number and different contents, of which one has no
  buckets and one of another node two equal ones, and five that should not come: a damaged body, another schema
  version, a reused id, an unstorable number and one past the body limit.
  `SqlMax` is such that the bytes of one batch can be added up and those of two
  cannot. The two limits are such that one store fills up under one
  and is refused by the other at a restart, and one expires what the other keeps.
* *Pipeline.* One pending batch of room forces an eviction during an upload; two
  uploaders force duplicate posts and double acknowledgements; one stop loses
  requests in every phase; the second clock reading lies past both age limits.
  `NoConflict` and the reuse of sequence numbers need one power loss. In
  `PipelineRetry` both ways of being hopeless occur: leaving the second out of
  `Hopeless`, or the first, makes TLC refute `EventuallyLeaves`. In
  `PipelineStore` the clause about `undone` is needed in the same way. Batches
  carry three buckets there, two of them equal; in `PipelineReboot` they differ
  between batches, and share a bucket. The exemption of `ForgottenIsStored` for
  what may have expired is over all clock readings of the run, so in
  `PipelineStore` it is the batches created at the later one that are checked.
* *Capture.* A ring of one packet drops the second; three packets wrap the
  counters; a clock to 4 closes two buckets, so that a packet can be late for a
  bucket that has already been sent. Set back once, from any reading to any
  earlier one, it leaves buckets in the future and opens a sent one again.
* *Packet.* The chains hold every pair of extension headers and go up to and
  past the limit of eight; VLAN tags go past the limit of two; IPv4 header
  lengths go from below the least to the greatest. 140 bytes is longer than the
  longest header sequence among them.
* *Dashboard.* Five loads allow three to overlap and be answered in any order
  after one has been shown; the inventories shrink, reorder, empty, and change
  a place's time range.

`CHECK_DEADLOCK FALSE` stands where a bound (batches, packets, loads, snapshot
length) or an exit of the process ends the behaviours. `Control` never stops.

### Fairness

* `UploadSpec` (run `Pipeline`): a process that can take its next step takes it,
  a request in flight is answered, and a connection whose request was lost or
  whose server is down is reported broken. The code relies on the operating
  system for the last: ureq is used without a read timeout, and a peer that goes
  silent without closing would keep `upload_once` waiting. Nothing is assumed of
  writers, evictions or restarts.
* `RetrySpec` (run `PipelineRetry`) adds what the program leaves to its
  operator: upload-once is started again and again (cron, or by hand), a stopped
  control plane is started again, and an attempt is not broken at the same place
  for ever (strong fairness of posting, serving and acknowledging).
  `EventuallyLeaves` excepts what no retry can help: the batches that are refused
  at every attempt and those behind them, until they are evicted.
* `FairSpec` of `Capture`: the loop is the process's only thread and
  `next_packet` returns within its timeout of one second.
* `FairSpec` of `Dashboard`: a browser ends each fetch with an answer or an
  error.

## 4. Findings

1. `SpoolOverflow`. `enqueue` inserts before it evicts, with `max_page_count`
   leaving a fixed headroom that gap records use up for ever. A batch within the
   byte limit can end in `SQLITE_FULL`; nothing is evicted then, and the next
   attempt fails the same way. README.md:59 says that overflow evicts the oldest
   batch and records a gap.
2. `ControlRetention`. Pruning is part of the ingest transaction and is undone
   when the ingest is refused; nothing else prunes. While every ingest ends in a
   conflict or in a full store, batches past the retention stay and are served.
   README.md:58 promises a 48-hour retention by default.
3. `DashboardLock`. A refresh disables only its button ("Lock UI during
   refresh", dashboard.html:844). A change of a select supersedes it and its
   answer is dropped. At the first load this leaves the page without an
   inventory and with the badge at "Refreshing…" until Refresh is clicked.

## 5. Proofs

`SpoolProofs` proves, for all sets of processes, limits, sizes, clocks, page
costs and bounds on batches and power losses:

| theorem | statement |
|---|---|
| `SpoolInvariant` | `Spec => []IInv` |
| `SpoolTypeOK` | `Spec => []TypeOK` |
| `SpoolAccounting` | `Spec => []EveryBatchAccounted` |
| `SpoolGaps` | `Spec => []GapsFaithful` |
| `SpoolPayload` | `Spec => []PayloadWithinLimit` |
| `SpoolEnqueueRestoresLimits` | `Spec => EnqueueRestoresLimits` |
| `SpoolOldestEvictedFirst` | `Spec => OldestEvictedFirst` |
| `SpoolLoopIsSurvivors` | `Spec => []LoopIsSurvivors` |

`IInv` is `TypeOK`, `Sound(db)`, `Sound(durable)` and `DraftsCurrent`.
`EveryBatchAccounted` alone is not inductive: an enqueue stores a row whose
sequence number was read in an earlier step, so the invariant must say that this
number is still `next_seq` while the process's snapshot is not stale
(`DraftsCurrent`), which is exactly what SQLite's refusal of the upgrade
provides. `Sound` adds to the accounting that the sets are finite, that a gap
describes the logged row of its number, and that the payload is within some
process's limit; it is stated of `durable` too because a power loss makes that
the file. An enqueue is then one lemma on sets of rows (`Survivors` is a subset
that meets the byte limit, the new row survives its own eviction, what is not
kept becomes a gap), and every other action changes at most one field.

The proofs rest on the named assumptions in `Spool`: limits and sizes are
positive, `Origin` is writers times boots, costs are natural numbers. TLC
evaluates them in every run.

`OldestEvictedFirst` compares a row that did not fit with one that did
(`FittingIsNewer`: a larger set of newer rows holds at least as many bytes). It
also needs `DurableGaps`, that the disk has no gap record the file has not, so
that a power loss adds none.

`LoopIsSurvivors` is what makes the closed form of the eviction more than an
assumption of the model. Its step is that the row the loop deletes does not
survive, and that what is left has the same survivors (`LoopStep`): a row that
goes for its bytes is the oldest, so that no set of newer rows changes, and a
row that goes for its age goes when all that is left fits. The closed form
therefore satisfies the loop's recursion, and two functions that do are the same
(`LoopEnds`, by a least set of rows where they differ). That sequence numbers
are distinct comes from `IInv`.

`ControlProofs` proves, for all envelopes that clients may post, valid or not,
and all limits, costs and clocks:

| theorem | statement |
|---|---|
| `ControlInvariant` | `Spec => []IInv` |
| `ControlTypeOK`, `ControlStoredOnce`, `ControlStoredWhole`, `ControlFileWithinLimit` | `Spec => []` of the invariant each is named for |
| `ControlAckMeansStored`, `ControlOnlyExpiredLeave`, `ControlRetryIsAcknowledged` | `Spec =>` the action property each is named for |
| `ControlQueriesAgree` | `Spec => []QueriesAgree` |

Here `IInv` is the four invariants with three more. `DurableSound` says of the
file on the disk what the others say of the committed one, since a power loss
makes the one the other; an ingest keeps it because `accepted` only grows.
`RowsInFile` says that the
stored rows fit in the file's pages; without it the file could seem to grow when
a duplicate only prunes. `AcceptedValid` says that what was taken in had a valid
checksum, was within the body limit and has numbers that fit their columns; the action properties need it to
conclude from an equal id and checksum that it is the posted body that is
stored. `StoredWhole` and `StoredOnce` depend on each other: pruning keeps a
batch with all its flow rows because no other row has its id
(`PruningWhole`), and an insert puts flow rows under an id that no kept flow row
has because each of those belongs to a kept batch. That is also why they are
there once: the table would take them a second time, and `FreshRows` is where the
lookup of the id is needed.

`QueriesAgree` is about what the queries add up. `RowTotals` turns their folds
into sums, and a sum over the rows of a node is the sum over its places of the
sums over their rows, or over its points in time (`SumGroups` of `SumProofs`,
below). That the parts are answered whenever the whole is, which is that no part
overflows a column, is `SumPart`; that a place has no more batches than its node
counts the ids its rows name; and that a row's times fit a column comes from
`AcceptedValid`, as a batch with others is not accepted.

The assumptions: what is posted is an envelope by type (serde), contents are
sequences of buckets, equal ones allowed, limits are positive, costs are natural numbers.

`PipelineProofs` proves, for any number of writers, uploaders and batches, any
loss of messages, and stops and power losses on both sides:

| theorem | statement |
|---|---|
| `PipelineInvariant` | `Spec => []IInv` |
| `PipelineTypeOK`, `PipelineForgottenOnlyIfDelivered`, `PipelineForgottenIsStored`, `PipelineCountedOnce`, `PipelineDeliveredInOrder` | `Spec => []` of the invariant each is named for |
| `PipelineNoConflict` | the same for `NoConflict`, with the kernel's boot id (`~FixedBootId`) |
| `PipelineNoConflictSoFar` | `NoConflict` with any boot id until the agent first loses power |
| `PipelineAcknowledgesItsOwn` | `Spec => AcknowledgesItsOwn` |
| `PipelineRefinesSpool`, `PipelineRefinesControl` | `Spec => S!Spec`, `Spec => C!Spec` |
| `PipelineDelivers` | `Spec` implies `Delivery`'s `Init`, and its steps until the agent first loses power |
| `PipelineImplementsDelivery` | `Spec => ImplementsDelivery` where the agent loses none (`MaxBoots = 0`) |

The components are instances in `Pipeline`, and so are their proof modules here:
each step of the composition is a step or a stutter of each component, so their
invariants hold of it without being proved again, and the composition is shown
to implement both. What is new is about the relation of the two. `AnswersTrue`
(an uploader that was told yes has a head that is accepted) and `RequestsAsked`
(who waits has one request on its way, for its head) carry the yes from the
control plane to the acknowledgement, and `RowsBuilt` (a row holds what a writer
built under the row's number) makes the row deleted the one that was posted;
together they give `ForgottenDelivered`, of the file and of what a power loss
leaves. `AcceptedHeld` follows an accepted batch to its row, its expiry or its
undoing.

`NoConflict` needs a history argument: everything that has left a transaction
and may turn up again (`Known`: accepted, on its way, in a snapshot, in either
file) is from this boot and then in the file, or from an earlier one
(`NewestInFile`), so that two batches in the same place are the same
(`OneInItsPlace`). With a fixed boot id the second half of this is lost at the
first power loss, which is what `PipelineRetry` is about, and so the parts are
conditional on `OwnBoot`. `DeliveredInOrder` is not inductive because an
uploader posts from a snapshot: `SnapshotsWhole` (with a batch a snapshot holds
whatever older one is still pending) and `NothingOlder` (nothing pending is
older than what was posted or taken in) are, as long as numbers are not given
out again. `ForgottenIsStored` and `DeliveredInOrder` are then consequences, and
`CountedOnce` follows from the control plane's `StoredWhole` and `StoredOnce`:
the rows it adds up are those of the batches it holds, none of them of two, and
of each batch there is one row for each place in its buckets (`BatchRowsAdd`).

The refinement of `Delivery` stops at the agent's first power loss for a reason
that is not a weakness of the proof: a batch that was posted and whose row was
then undone may still arrive, and is delivered without ever having been pending
in the file that is left. `Pipeline` is checked against `Delivery` where the
agent loses no power, and the theorem says that nothing more is needed.

The assumptions are those of the components, stated in `Pipeline` as
`AgentAssumption` and `PlaneAssumption`, and `UploadAssumption`. TLC evaluates
them in the four runs.

`DashboardProofs` proves, for all inventories and every order of answers:

| theorem | statement |
|---|---|
| `DashboardInvariant` | `Spec => []IInv` |
| `DashboardTypeOK`, `DashboardOnlineShowsSelection`, `DashboardBusyAwaitsAnswer`, `DashboardComparisonShared` | `Spec => []` of the invariant each is named for |
| `DashboardSelectionSurvives` | `Spec => SelectionSurvives` |

`OnlineShowsSelection` is about what is drawn, and an answer draws what its load
asked for, so `IInv` says of the one load whose number is current that it asked
for what the page selects now (`CurrentFits`); every control counts the number
up or starts that load. `LoadsTyped` keeps a comparison from being one of a
place with itself, `EmptyIsEmpty` and `OnlineMetric` tie the message and the
metric to the badge.

`CaptureProofs` proves, for every bucket width, ring, counter width and clock:

| theorem | statement |
|---|---|
| `CaptureInvariant` | `Spec => []IInv` |
| `CaptureTypeOK`, `CaptureBatchesClosed` | `Spec => []` of the invariant each is named for |

A batch is closed because a drain takes what starts before the current bucket,
and a bucket that starts before another one ends by then. The latter is about
multiples of the width (`BucketsApart`), so `IInv` says that the aggregator holds
counters under such starts only (`Aggregate`), which pushing and splitting keep.

`CaptureCounts` adds to that, under the same assumptions:

| theorem | statement |
|---|---|
| `CapturePacketsConserved` | `Spec => []PacketsConserved` |
| `CaptureDiagnosticsAddUp` | `Spec => []DiagnosticsAddUp` |

Both are about sums over finite sets, which the community modules define as
folds, that is by recursion over subsets. `SumProofs` proves of them what these
and the other proofs need: a sum splits at an element, over a union and into
groups, depends only on the values it adds, is not less than its parts, and
survives a renaming; `CaptureCounts` adds the ends of a sequence.
The library's induction rules cannot be used, as they take an operator as a
parameter; instead each lemma supposes a counterexample and takes a least one
under strict inclusion (`LeastSubset`), which exists because strict inclusion of
finite sets is well founded. The recursion itself is shown to have a solution,
and only one, in the same way (`SumsExist`, `SumsAgree`).

Conservation is proved once for any `Quantity` that a packet carries and a
bucket adds up, and then of packets and of bytes. `Conserved` is inductive
together with `Countable`: the map and what was lost with it are finite, and
never both there, so that a bucket of one is not mistaken for a bucket of the
other. Of a counter that wraps, `DiagnosticsAddUp` speaks of the last reading
only, which is a remainder; the invariant names the count it was read from
(`Accounted`), which the batches do not exceed, and `WrapsDown` says that the
saturating difference of two remainders is never more than that of the counts.
`ErrorsKept` does the same for packets that cannot be parsed.

`PacketProofs` proves, for every frame and snapshot length:

| theorem | statement |
|---|---|
| `PacketCaptureLengthIrrelevant` | `Spec => CaptureLengthIrrelevant` |
| `PacketFindsTheFlow` | `Spec => []FindsTheFlow` |

The first needs of the walk over IPv6 extension headers only that the positions
it requires do not depend on how much was captured. For the second the walk,
which is a fold over the chain, and the length of a chain in the reference,
which is another, get the closed forms `Walked` and a sum (`WalkIsWalked`,
`ChainAdds`): a fold is whatever satisfies its recursion (`FoldsAgree`). The
walk then ends where the headers do and requires nothing behind that
(`WalkReaches`). The one assumption is on the frames: an extension header is as
long as its length field can say.

Only model-checked: liveness (`UploadTerminates`, `EventuallyLeaves`,
`BucketsLeave`, `RefreshCompletes`), as fairness and ENABLED are outside the
prover's reach. Every invariant and every action property of the runs is a
theorem; `NoConflict` under the assumption that the boot id is the kernel's, and
`ImplementsDelivery` under the one that the agent loses no power, as the runs
that check them have it.

## 6. Not modelled, and why

* Limits multiplied without a check in `main.rs`: only absurd arguments reach it.
* The boot id `process-<pid>` that `main.rs` falls back to where the kernel gives
  none: it may come again after a boot, as a fixed boot id does.
* A file larger than the spool's page limit when it is opened: SQLite then keeps
  the limit at the file's size, and `HasRoom` takes it as given.
* Integers past 2^53 on the web page, which JavaScript rounds.
* What the parser makes of a later fragment followed by further headers, and an
  upload whose peer goes silent without closing the connection: both are listed
  as hazards that no property would find.
* Two spools of one node under the same boot id, whose batches would take each
  other's sequence numbers: the conflict they meet is the one that
  `PipelineRetry` reaches with one spool, a fixed boot id and a power loss.
* The outcome of an enqueue is left open in `Capture` rather than composed with
  `Spool`: the loop only sees whether it succeeded, and every failure ends it.
* SQLite, libpcap, axum and ureq beyond what the source relies on. Page
  accounting is linear: a fixed cost per row, pages freed are reused, the control
  plane's file never shrinks.
* `synthetic` and `status` as commands: a synthetic agent is a writer of `Spool`
  with a fixed boot id, and the printing of results changes no state.
* JSON forms of requests and results, chart drawing, formatting, styles.

## 7. Plan

Done: all modules and runs above, and the theorems of section 5.

What is left are refinements of what is proved rather than gaps in it: the
steps towards the liveness properties that need no fairness (that the measures
they decrease by never go up), and `ImplementsDelivery` past a power loss of the
agent, for which `Delivery` would have to know batches that are given out again.
