------------------------------- MODULE Dashboard ------------------------------
(***************************************************************************)
(* The script of the web page, src/dashboard.html: which of the requests   *)
(* it has sent are shown, and what the controls say meanwhile.             *)
(*                                                                         *)
(* Every refresh and every change of a control starts a load of its own    *)
(* and counts currentRenderGen up; a load whose number is no longer the    *)
(* current one is ignored when its answer comes.  Answers come in any      *)
(* order.  The four requests of a render are awaited together and are one  *)
(* load here; layout and formatting are left out.                          *)
(***************************************************************************)
EXTENDS Integers, Sequences, SequencesExt

CONSTANTS
  Item,       \* what /v1/nodes may list
  Answers,    \* the lists it may answer with; they change with the store
  NoItem,     \* no selection, or an index the inventory does not have
  Nothing,    \* nothing was drawn yet
  MaxGen      \* bound on the loads

Metrics == {"bytes", "packets"}

(* nodes() groups by the two columns of an item's place.                   *)
ASSUME InventoryAssumption ==
  /\ Item \subseteq [node_id : STRING, capture_point : STRING,
                     first_bucket_start : Nat, last_bucket_start : Nat]
  /\ NoItem \notin Item
  /\ Answers \subseteq Seq(Item)
  /\ \A a \in Answers : \A i, j \in DOMAIN a :
       a[i].node_id = a[j].node_id /\ a[i].capture_point = a[j].capture_point => i = j
  /\ MaxGen \in Nat \ {0}

VARIABLES
  inventory, currentMetric, currentRenderGen,  \* the script's variables
  lastChartState,  \* what was drawn last, or Nothing
  options,         \* the number of entries of the two selects
  primary,         \* their values, counted from 1; 0 stands for ""
  compare,
  disabled,        \* the entry of the second select that is disabled
  metric,          \* the value of the metric select
  chartMetric,     \* the metric the chart was last drawn in
  badge,           \* the status badge
  busy,            \* the refresh button is disabled
  content, empty,  \* whether the two sections are visible
  loads            \* the loads that are not answered yet

selects == <<options, primary, compare, disabled>>
status  == <<badge, busy, content, empty>>
vars == <<inventory, currentMetric, currentRenderGen, lastChartState, selects,
          metric, chartMetric, status, loads>>

-------------------------------------------------------------------------------
(* inventory[Number(select.value)], or null.                               *)
At(list, index) == IF index \in DOMAIN list THEN list[index] ELSE NoItem

(* Mutant of SamePlace: all fields are compared.                           *)
SameRecord(a, b) == a = b

SamePlace(a, b) ==
  /\ a # NoItem /\ b # NoItem
  /\ a.node_id = b.node_id /\ a.capture_point = b.capture_point

(* findIndex by identity; 0 when there is none.                            *)
Find(list, item) == SelectInSeq(list, LAMBDA i : SamePlace(i, item))

NodesLoad(gen) ==
  [gen |-> gen, kind |-> "nodes",
   primary |-> At(inventory, primary), compare |-> At(inventory, compare)]

DataLoad(gen, pItem, cItem) ==
  [gen |-> gen, kind |-> "data", primary |-> pItem, compare |-> cItem]

(* Mutant of Window: that of the primary alone.                            *)
PrimaryWindow(pItem, cItem) ==
  [from |-> pItem.first_bucket_start, to |-> pItem.last_bucket_start]

(* The time window shared by both places.                                  *)
Window(pItem, cItem) ==
  LET starts == {i.first_bucket_start : i \in {pItem, cItem} \ {NoItem}}
      ends   == {i.last_bucket_start  : i \in {pItem, cItem} \ {NoItem}}
  IN  [from |-> CHOOSE t \in starts : \A s \in starts : t <= s,
       to   |-> CHOOSE t \in ends   : \A s \in ends   : s <= t]

(* The page has just been opened and has called loadInventory.             *)
Init ==
  /\ inventory = <<>> /\ currentMetric = "bytes" /\ currentRenderGen = 1
  /\ lastChartState = Nothing
  /\ options = 0 /\ primary = 0 /\ compare = 0 /\ disabled = 0
  /\ metric = "bytes" /\ chartMetric = "bytes"
  /\ badge = "refreshing" /\ busy = TRUE /\ content = FALSE /\ empty = FALSE
  /\ loads = {NodesLoad(1)}

(* renderDashboardInternal up to its await, with the selects at p, c and m.*)
(* Without a selected place it returns; the badge is left as it is.        *)
StartRender(gen, list, p, c, m, sent) ==
  LET pItem == At(list, p)
      cItem == IF SamePlace(At(list, c), pItem) THEN NoItem ELSE At(list, c)
  IN  /\ primary' = p
      /\ currentMetric' = m
      /\ busy' = (pItem # NoItem)
      /\ IF pItem = NoItem
           THEN compare' = c /\ loads' = sent /\ UNCHANGED disabled
           ELSE /\ compare' = IF SamePlace(At(list, c), pItem) THEN 0 ELSE c
                /\ disabled' = p
                /\ loads' = sent \cup {DataLoad(gen, pItem, cItem)}

-------------------------------------------------------------------------------
(* The controls.  Only the refresh button is ever disabled.                *)

(* renderDashboard.                                                        *)
Render(p, c, m) ==
  /\ currentRenderGen < MaxGen
  /\ currentRenderGen' = currentRenderGen + 1
  /\ badge' = "refreshing"
  /\ metric' = m
  /\ StartRender(currentRenderGen + 1, inventory, p, c, m, loads)
  /\ UNCHANGED <<inventory, lastChartState, options, chartMetric, content, empty>>

ChangePrimary(p) ==
  /\ p \in 1 .. options \ {primary}
  /\ Render(p, IF SamePlace(At(inventory, p), At(inventory, compare)) THEN 0 ELSE compare,
            metric)

ChangeCompare(c) ==
  /\ options > 0
  /\ c \in 0 .. options \ {compare, disabled}
  /\ Render(primary, c, metric)

ChangeMetric == \E m \in Metrics \ {metric} : Render(primary, compare, m)

Refresh ==
  /\ ~busy /\ currentRenderGen < MaxGen
  /\ currentRenderGen' = currentRenderGen + 1
  /\ busy' = TRUE /\ badge' = "refreshing"
  /\ loads' = loads \cup {NodesLoad(currentRenderGen + 1)}
  /\ UNCHANGED <<inventory, currentMetric, lastChartState, selects, metric, chartMetric,
                 content, empty>>

(* The chart is drawn again from what it showed.                           *)
Resize ==
  /\ lastChartState # Nothing
  /\ chartMetric' = currentMetric
  /\ UNCHANGED <<inventory, currentMetric, currentRenderGen, lastChartState, selects,
                 metric, status, loads>>

-------------------------------------------------------------------------------
(* The answers.                                                            *)

(* Mutant of Current: late answers are taken like any other.               *)
AnyLoad(load) == TRUE

Current(load) == load.gen = currentRenderGen

Ignore(load) ==
  /\ ~Current(load)
  /\ loads' = loads \ {load}
  /\ UNCHANGED <<inventory, currentMetric, currentRenderGen, lastChartState, selects,
                 metric, chartMetric, status>>

(* Mutant of NodesEmpty: the button is not enabled again.                  *)
EmptyStaysBusy(load) ==
  /\ load.kind = "nodes" /\ Current(load)
  /\ <<>> \in Answers
  /\ inventory' = <<>>
  /\ empty' = TRUE /\ content' = FALSE /\ badge' = "empty"
  /\ loads' = loads \ {load}
  /\ UNCHANGED <<currentMetric, currentRenderGen, lastChartState, selects, metric,
                 chartMetric, busy>>

(* The inventory is empty; the selects keep their old entries.             *)
NodesEmpty(load) ==
  /\ load.kind = "nodes" /\ Current(load)
  /\ <<>> \in Answers
  /\ inventory' = <<>>
  /\ empty' = TRUE /\ content' = FALSE /\ badge' = "empty" /\ busy' = FALSE
  /\ loads' = loads \ {load}
  /\ UNCHANGED <<currentMetric, currentRenderGen, lastChartState, selects, metric,
                 chartMetric>>

(* Mutant of PrimaryIn: the select keeps its index.                        *)
SameIndex(list, load) == IF primary = 0 THEN 1 ELSE primary

(* The entry for the place that was selected before, or the first one.     *)
PrimaryIn(list, load) ==
  IF Find(list, load.primary) > 0 THEN Find(list, load.primary) ELSE 1

CompareIn(list, load) ==
  LET found == Find(list, load.compare)
  IN  IF found > 0 /\ SamePlace(list[found], list[PrimaryIn(list, load)]) THEN 0 ELSE found

NodesArrive(load, list) ==
  /\ load.kind = "nodes" /\ Current(load)
  /\ list # <<>>
  /\ inventory' = list /\ options' = Len(list)
  /\ empty' = FALSE
  /\ StartRender(load.gen, list, PrimaryIn(list, load), CompareIn(list, load),
                 metric, loads \ {load})
  /\ UNCHANGED <<currentRenderGen, lastChartState, metric, chartMetric, badge, content>>

DataArrive(load) ==
  /\ load.kind = "data" /\ Current(load)
  /\ lastChartState' = [primary |-> load.primary, compare |-> load.compare,
                        window |-> Window(load.primary, load.compare)]
  /\ chartMetric' = currentMetric
  /\ badge' = "success" /\ content' = TRUE /\ busy' = FALSE
  /\ loads' = loads \ {load}
  /\ UNCHANGED <<inventory, currentMetric, currentRenderGen, selects, metric, empty>>

(* Mutant of Fails: the button is not enabled again.                       *)
FailsBusy(load) ==
  /\ Current(load)
  /\ content' = FALSE /\ badge' = "error"
  /\ loads' = loads \ {load}
  /\ UNCHANGED <<inventory, currentMetric, currentRenderGen, lastChartState, selects,
                 metric, chartMetric, empty, busy>>

(* showError.                                                              *)
Fails(load) ==
  /\ Current(load)
  /\ content' = FALSE /\ badge' = "error" /\ busy' = FALSE
  /\ loads' = loads \ {load}
  /\ UNCHANGED <<inventory, currentMetric, currentRenderGen, lastChartState, selects,
                 metric, chartMetric, empty>>

Settle(load) ==
  \/ Ignore(load)
  \/ NodesEmpty(load)
  \/ \E list \in Answers : NodesArrive(load, list)
  \/ DataArrive(load)
  \/ Fails(load)

Next ==
  \/ \E i \in 0 .. options : ChangePrimary(i) \/ ChangeCompare(i)
  \/ ChangeMetric \/ Refresh \/ Resize
  \/ \E load \in loads : Settle(load)

Spec == Init /\ [][Next]_vars

(* The browser ends every fetch, with an answer or with an error.          *)
FairSpec == Spec /\ WF_vars(\E load \in loads : Settle(load))

-------------------------------------------------------------------------------
(* Properties.                                                             *)

(* Every variable holds a value of its type; the selects have the entries  *)
(* they are set to, and those of the inventory unless it is empty.         *)
TypeOK ==
  /\ inventory \in Answers \cup {<<>>}
  /\ inventory # <<>> => options = Len(inventory)
  /\ primary \in 0 .. options /\ compare \in 0 .. options /\ disabled \in 0 .. options
  /\ metric \in Metrics /\ currentMetric \in Metrics /\ chartMetric \in Metrics
  /\ currentRenderGen \in 1 .. MaxGen
  /\ badge \in {"refreshing", "success", "error", "empty"}
  /\ busy \in BOOLEAN /\ content \in BOOLEAN /\ empty \in BOOLEAN
  /\ \A load \in loads : load.gen \in 1 .. MaxGen /\ load.kind \in {"nodes", "data"}

(* While the badge says Online the page shows the places and the metric    *)
(* that its controls name, and no message instead of them, whatever the    *)
(* order in which the answers came.                                        *)
OnlineShowsSelection ==
  badge = "success" =>
    /\ content /\ ~empty /\ ~busy
    /\ lastChartState.primary = At(inventory, primary)
    /\ lastChartState.compare = At(inventory, compare)
    /\ chartMetric = metric

(* The refresh button is disabled only while an answer is awaited that     *)
(* will enable it again.                                                   *)
BusyAwaitsAnswer == busy => \E load \in loads : Current(load)

(* README.md: "comparison views with shared time window provenance".  A    *)
(* comparison is between two places, over all the time of both of them.    *)
ComparisonShared ==
  lastChartState # Nothing =>
    LET shown == {lastChartState.primary, lastChartState.compare} \ {NoItem}
    IN  /\ ~SamePlace(lastChartState.primary, lastChartState.compare)
        /\ \A i \in shown : /\ lastChartState.window.from <= i.first_bucket_start
                            /\ lastChartState.window.to >= i.last_bucket_start

(* A refresh keeps each select on the place it showed, wherever that is    *)
(* now in the list and whatever its time range, as long as it is listed;   *)
(* only a compared place to which the primary select has fallen back,      *)
(* because its own is gone, leaves the compare select.                     *)
SelectionSurvives ==
  [][inventory' # inventory =>
       LET same(a, b)  == /\ a # NoItem /\ b # NoItem
                          /\ a.node_id = b.node_id /\ a.capture_point = b.capture_point
           listed(p)   == \E i \in DOMAIN inventory' : same(inventory'[i], p)
           primaryItem == At(inventory, primary)
           compareItem == At(inventory, compare)
       IN  /\ listed(primaryItem) => same(At(inventory', primary'), primaryItem)
           /\ listed(compareItem) => \/ same(At(inventory', compare'), compareItem)
                                     \/ same(At(inventory', primary'), compareItem)]_vars

(* A load that disabled the refresh button ends and enables it again.      *)
RefreshCompletes == busy ~> ~busy

(* dashboard.html: "Lock UI during refresh".  While a refresh is under way *)
(* no other control starts a load, which would have its answer ignored.    *)
RefreshLocked == \A load \in loads : load.kind = "nodes" => Current(load)
===============================================================================
