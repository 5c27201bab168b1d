---------------------------- MODULE DashboardProofs ----------------------------
(***************************************************************************)
(* Proofs about Dashboard, for every set of items, every list the control  *)
(* plane may answer with and every number of loads.                        *)
(*                                                                         *)
(* The argument is about the one load whose number is current: as long as  *)
(* it is not answered, the page still has the selection that it was sent   *)
(* for, because every change of the selection takes a new number.          *)
(***************************************************************************)
EXTENDS Dashboard, TLAPS, WellFoundedInduction

-------------------------------------------------------------------------------
(* The inductive invariant.                                                *)

(* The loads on their way carry items, and those for data are comparisons  *)
(* of a place with another one.                                            *)
LoadsTyped ==
  \A load \in loads :
    /\ load.gen \in 1 .. currentRenderGen
    /\ load.kind \in {"nodes", "data"}
    /\ load.primary \in Item \cup {NoItem} /\ load.compare \in Item \cup {NoItem}
    /\ load.kind = "data" =>
         /\ load.primary # NoItem
         /\ ~SamePlace(load.primary, load.compare)

(* A load with the current number is the only one, and the page has not    *)
(* changed under it.                                                       *)
CurrentFits ==
  \A load \in loads : Current(load) =>
    /\ \A other \in loads : Current(other) => other = load
    /\ badge = "refreshing"
    /\ load.primary = At(inventory, primary)
    /\ load.compare = At(inventory, compare)
    /\ load.kind = "data" => currentMetric = metric

(* The message about an empty inventory is shown over an empty inventory   *)
(* only.                                                                   *)
EmptyIsEmpty == options \in Nat /\ (empty => inventory = <<>>)

OnlineMetric == badge = "success" => currentMetric = metric

IInv ==
  /\ TypeOK /\ OnlineShowsSelection /\ BusyAwaitsAnswer /\ ComparisonShared
  /\ LoadsTyped /\ CurrentFits /\ EmptyIsEmpty /\ OnlineMetric

-------------------------------------------------------------------------------
(* The operators.                                                          *)

(* The parts of the assumption on the inventory that the proofs use.       *)
LEMMA Inventory ==
  /\ NoItem \notin Item
  /\ \A item \in Item : item.first_bucket_start \in Nat /\ item.last_bucket_start \in Nat
  /\ \A list \in Answers \cup {<<>>} :
       /\ Len(list) \in Nat /\ DOMAIN list = 1 .. Len(list)
       /\ \A i \in 1 .. Len(list) : list[i] \in Item
<1>1. /\ Item \subseteq [node_id : STRING, capture_point : STRING,
                         first_bucket_start : Nat, last_bucket_start : Nat]
      /\ NoItem \notin Item /\ Answers \subseteq Seq(Item)
  BY Zenon, InventoryAssumption
<1>2. \A item \in Item : item.first_bucket_start \in Nat /\ item.last_bucket_start \in Nat
  BY <1>1
<1>3. <<>> \in Seq(Item)
  OBVIOUS
<1>4. \A list \in Seq(Item) :
        /\ Len(list) \in Nat /\ DOMAIN list = 1 .. Len(list)
        /\ \A i \in 1 .. Len(list) : list[i] \in Item
  OBVIOUS
<1> QED
  BY Zenon, <1>1, <1>2, <1>3, <1>4

(* A non-empty set of natural numbers has a least element.                 *)
LEMMA LeastExists ==
  ASSUME NEW S \in SUBSET Nat, S # {}
  PROVE  \E m \in S : \A n \in S : m <= n
<1> DEFINE Less == OpToRel(<, Nat)
<1>1. IsWellFoundedOn(Less, Nat)
  BY NatLessThanWellFounded
<1>2. \A x, y \in Nat : y < x => <<y, x>> \in Less
  BY DEF OpToRel
<1> HIDE DEF Less
<1>3. PICK m \in S : \A n \in S : ~ (<<n, m>> \in Less)
  BY <1>1, WFMin
<1>4. m \in Nat /\ \A n \in S : n \in Nat /\ ~ (n < m)
  BY <1>2, <1>3
<1> QED
  BY <1>4

(* What an index of the inventory stands for is an item, or nothing.       *)
LEMMA AtIsItem ==
  ASSUME NEW list \in Answers \cup {<<>>}, NEW index
  PROVE  /\ At(list, index) \in Item \cup {NoItem}
         /\ At(list, index) # NoItem <=> index \in 1 .. Len(list)
         /\ index \in 1 .. Len(list) => At(list, index) = list[index]
BY Inventory DEF At

(* A place that is listed is found, where it is listed; one that is not is *)
(* found nowhere.                                                          *)
LEMMA FindFinds ==
  ASSUME NEW list \in Answers, NEW item \in Item \cup {NoItem}
  PROVE  /\ Find(list, item) \in 0 .. Len(list)
         /\ Find(list, item) > 0 => SamePlace(list[Find(list, item)], item)
         /\ (\E i \in DOMAIN list : SamePlace(list[i], item)) => Find(list, item) > 0
<1> DEFINE hits == {i \in 1 .. Len(list) : SamePlace(list[i], item)}
<1>1. DOMAIN list = 1 .. Len(list) /\ Len(list) \in Nat
  BY Inventory
<1>2. Find(list, item) = IF hits # {} THEN Min(hits) ELSE 0
  BY DEF Find, SelectInSeq
<1>3. ASSUME hits # {}
      PROVE  Min(hits) \in hits
  <2>1. hits \in SUBSET Nat
    BY <1>1
  <2>2. \E m \in hits : \A n \in hits : m <= n
    BY <1>3, <2>1, LeastExists
  <2> QED
    BY <2>2 DEF Min
<1> HIDE DEF hits
<1>4. CASE hits = {}
  BY <1>1, <1>2, <1>4 DEF hits
<1>5. CASE hits # {}
  <2>1. Find(list, item) \in hits
    BY <1>2, <1>3, <1>5
  <2> QED
    BY <1>1, <2>1 DEF hits
<1> QED
  BY <1>4, <1>5

(* The time window of a comparison spans the times of both places.         *)
LEMMA WindowSpans ==
  ASSUME NEW p \in Item, NEW c \in Item \cup {NoItem},
         NEW i \in {p, c} \ {NoItem}
  PROVE  /\ Window(p, c).from <= i.first_bucket_start
         /\ Window(p, c).to >= i.last_bucket_start
<1> DEFINE shown  == {p, c} \ {NoItem}
           starts == {x.first_bucket_start : x \in shown}
           ends   == {x.last_bucket_start : x \in shown}
<1>1. \A x \in shown : x.first_bucket_start \in Nat /\ x.last_bucket_start \in Nat
  BY Inventory
<1>2. p \in shown /\ shown = IF c = NoItem THEN {p} ELSE {p, c}
  BY Inventory
<1>3. \E t \in starts : \A s \in starts : t <= s
  <2>1. starts \in SUBSET Nat /\ starts # {}
    BY <1>1, <1>2
  <2> QED
    BY <2>1, LeastExists
<1>4. \E t \in ends : \A s \in ends : s <= t
  <2>1. CASE c = NoItem
    <3> p.last_bucket_start \in ends /\ \A s \in ends : s <= p.last_bucket_start
      BY <1>1, <1>2, <2>1
    <3> QED
      OBVIOUS
  <2>2. CASE c # NoItem /\ p.last_bucket_start <= c.last_bucket_start
    <3> c \in shown /\ c.last_bucket_start \in ends
      BY <1>2, <2>2
    <3> \A s \in ends : s <= c.last_bucket_start
      BY <1>1, <1>2, <2>2
    <3> QED
      OBVIOUS
  <2>3. CASE c # NoItem /\ ~(p.last_bucket_start <= c.last_bucket_start)
    <3> p.last_bucket_start \in ends /\ c \in shown
      BY <1>2, <2>3
    <3> \A s \in ends : s <= p.last_bucket_start
      BY <1>1, <1>2, <2>3
    <3> QED
      OBVIOUS
  <2> QED
    BY <2>1, <2>2, <2>3
<1>5. /\ Window(p, c).from = CHOOSE t \in starts : \A s \in starts : t <= s
      /\ Window(p, c).to = CHOOSE t \in ends : \A s \in ends : s <= t
  BY DEF Window
<1> HIDE DEF shown
<1>6. /\ Window(p, c).from \in starts /\ \A s \in starts : Window(p, c).from <= s
      /\ Window(p, c).to \in ends /\ \A s \in ends : s <= Window(p, c).to
  BY <1>3, <1>4, <1>5
<1>7. i.first_bucket_start \in starts /\ i.last_bucket_start \in ends
  BY DEF shown
<1>8. starts \subseteq Nat /\ ends \subseteq Nat
  BY <1>1
<1> QED
  BY <1>6, <1>7, <1>8

-------------------------------------------------------------------------------
(* The steps.                                                              *)

(* A render leaves the selects at what it sends for: without a place it    *)
(* sends nothing, and it never compares a place with itself.               *)
LEMMA RenderSends ==
  ASSUME NEW list \in Answers \cup {<<>>}, NEW gen, NEW p, NEW c, NEW m, NEW sent,
         StartRender(gen, list, p, c, m, sent)
  PROVE  /\ primary' = p /\ compare' \in {c, 0} /\ currentMetric' = m
         /\ ~SamePlace(At(list, c), At(list, p)) => compare' = c
         /\ \/ At(list, p) = NoItem /\ busy' = FALSE /\ loads' = sent
               /\ disabled' = disabled
            \/ /\ At(list, p) # NoItem /\ busy' = TRUE /\ disabled' = p
               /\ loads' = sent \cup {DataLoad(gen, At(list, p), At(list, compare'))}
               /\ ~SamePlace(At(list, p), At(list, compare'))
<1> DEFINE pItem == At(list, p)
           same  == SamePlace(At(list, c), pItem)
           cItem == IF same THEN NoItem ELSE At(list, c)
<1>1. /\ primary' = p /\ currentMetric' = m
      /\ busy' = (pItem # NoItem)
      /\ IF pItem = NoItem
           THEN compare' = c /\ loads' = sent /\ disabled' = disabled
           ELSE /\ compare' = IF same THEN 0 ELSE c
                /\ disabled' = p
                /\ loads' = sent \cup {DataLoad(gen, pItem, cItem)}
  BY DEF StartRender
<1>2. At(list, 0) = NoItem
  BY AtIsItem, Inventory
<1>3. CASE pItem = NoItem
  <2>1. ~same
    BY <1>3 DEF SamePlace
  <2> QED
    BY <1>1, <1>3, <2>1
<1>4. CASE pItem # NoItem
  <2>1. At(list, compare') = cItem
    BY <1>1, <1>2, <1>4
  <2>2. ~SamePlace(pItem, cItem)
    BY DEF SamePlace
  <2> QED
    BY <1>1, <1>4, <2>1, <2>2
<1> QED
  BY <1>3, <1>4

(* A change of a control: the load it starts is the current one.           *)
LEMMA RenderStep ==
  ASSUME IInv, NEW p \in 0 .. options, NEW c \in 0 .. options, NEW m \in Metrics,
         Render(p, c, m)
  PROVE  IInv'
<1> DEFINE gen == currentRenderGen + 1
<1>1. /\ TypeOK /\ LoadsTyped /\ EmptyIsEmpty /\ ComparisonShared
  BY DEF IInv
<1>2. /\ currentRenderGen < MaxGen /\ currentRenderGen' = gen
      /\ badge' = "refreshing" /\ metric' = m
      /\ StartRender(gen, inventory, p, c, m, loads)
      /\ inventory' = inventory /\ lastChartState' = lastChartState
      /\ options' = options /\ chartMetric' = chartMetric
      /\ content' = content /\ empty' = empty
  BY DEF Render
<1>3. /\ primary' = p /\ compare' \in {c, 0} /\ currentMetric' = m
      /\ \/ busy' = FALSE /\ loads' = loads /\ disabled' = disabled
         \/ /\ At(inventory, p) # NoItem /\ busy' = TRUE /\ disabled' = p
            /\ loads' = loads \cup {DataLoad(gen, At(inventory, p), At(inventory, compare'))}
            /\ ~SamePlace(At(inventory, p), At(inventory, compare'))
  BY <1>1, <1>2, RenderSends DEF TypeOK
<1>4. currentRenderGen \in 1 .. MaxGen /\ MaxGen \in Nat /\ options \in Nat
  BY <1>1, InventoryAssumption DEF TypeOK, EmptyIsEmpty
<1>5. /\ At(inventory, p) \in Item \cup {NoItem}
      /\ At(inventory, compare') \in Item \cup {NoItem}
  BY <1>1, AtIsItem DEF TypeOK
<1>6. TypeOK'
  <2>1. /\ primary' \in 0 .. options' /\ compare' \in 0 .. options'
        /\ disabled' \in 0 .. options' /\ currentRenderGen' \in 1 .. MaxGen
    BY <1>1, <1>2, <1>3, <1>4 DEF TypeOK
  <2>2. busy' \in BOOLEAN
    BY <1>3
  <2>3. \A load \in loads' : load.gen \in 1 .. MaxGen /\ load.kind \in {"nodes", "data"}
    BY <1>1, <1>2, <1>3, <1>4 DEF TypeOK, DataLoad
  <2> QED
    BY <1>1, <1>2, <1>3, <2>1, <2>2, <2>3 DEF TypeOK
<1>7. OnlineShowsSelection' /\ OnlineMetric' /\ EmptyIsEmpty'
  BY <1>1, <1>2 DEF OnlineShowsSelection, OnlineMetric, EmptyIsEmpty
<1>8. ComparisonShared'
  BY <1>1, <1>2 DEF ComparisonShared
<1>9. \A load \in loads : load.gen \in 1 .. gen /\ load.gen # gen
  BY <1>1, <1>4 DEF LoadsTyped
<1>10. LoadsTyped'
  BY <1>1, <1>2, <1>3, <1>4, <1>5, <1>9 DEF LoadsTyped, DataLoad
<1>11. \A load \in loads' : load.gen = gen =>
         /\ busy' = TRUE
         /\ load = DataLoad(gen, At(inventory, p), At(inventory, compare'))
  BY <1>3, <1>9
<1>12. BusyAwaitsAnswer'
  <2>1. ASSUME busy' = TRUE
        PROVE  \E load \in loads' : load.gen = gen
    <3>1. DataLoad(gen, At(inventory, p), At(inventory, compare')) \in loads'
      BY <1>3, <2>1
    <3> QED
      BY <3>1 DEF DataLoad
  <2> QED
    BY <1>2, <1>3, <2>1 DEF BusyAwaitsAnswer, Current
<1>13. CurrentFits'
  BY <1>2, <1>3, <1>11 DEF CurrentFits, Current, DataLoad
<1> QED
  BY <1>6, <1>7, <1>8, <1>10, <1>12, <1>13 DEF IInv

(* The refresh button.                                                     *)
LEMMA RefreshStep ==
  ASSUME IInv, Refresh
  PROVE  IInv'
<1> DEFINE gen  == currentRenderGen + 1
           sent == NodesLoad(gen)
<1>1. TypeOK /\ LoadsTyped /\ EmptyIsEmpty /\ ComparisonShared
  BY DEF IInv
<1>2. /\ currentRenderGen < MaxGen /\ currentRenderGen' = gen
      /\ busy' = TRUE /\ badge' = "refreshing"
      /\ loads' = loads \cup {sent}
      /\ inventory' = inventory /\ currentMetric' = currentMetric
      /\ lastChartState' = lastChartState
      /\ options' = options /\ primary' = primary
      /\ compare' = compare /\ disabled' = disabled
      /\ metric' = metric /\ chartMetric' = chartMetric
      /\ content' = content /\ empty' = empty
  BY DEF Refresh, selects
<1>3. currentRenderGen \in 1 .. MaxGen /\ MaxGen \in Nat
  BY <1>1, InventoryAssumption DEF TypeOK
<1>4. /\ sent.gen = gen /\ sent.kind = "nodes"
      /\ sent.primary = At(inventory, primary) /\ sent.primary \in Item \cup {NoItem}
      /\ sent.compare = At(inventory, compare) /\ sent.compare \in Item \cup {NoItem}
  BY <1>1, AtIsItem DEF NodesLoad, TypeOK
<1> HIDE DEF sent
<1>5. TypeOK'
  BY <1>1, <1>2, <1>3, <1>4 DEF TypeOK
<1>6. OnlineShowsSelection' /\ OnlineMetric' /\ EmptyIsEmpty'
  BY <1>1, <1>2 DEF OnlineShowsSelection, OnlineMetric, EmptyIsEmpty
<1>7. ComparisonShared'
  BY <1>1, <1>2 DEF ComparisonShared
<1>8. \A load \in loads : load.gen \in 1 .. gen /\ load.gen # gen
  BY <1>1, <1>3 DEF LoadsTyped
<1>9. LoadsTyped'
  BY <1>1, <1>2, <1>3, <1>4, <1>8 DEF LoadsTyped
<1>10. BusyAwaitsAnswer' /\ CurrentFits'
  BY <1>2, <1>4, <1>8 DEF BusyAwaitsAnswer, CurrentFits, Current
<1> QED
  BY <1>5, <1>6, <1>7, <1>9, <1>10 DEF IInv

(* An answer to a load that is no longer the current one changes nothing   *)
(* but the set of loads.                                                   *)
LEMMA IgnoreStep ==
  ASSUME IInv, NEW load \in loads, Ignore(load)
  PROVE  IInv'
<1>1. /\ TypeOK /\ LoadsTyped /\ CurrentFits /\ EmptyIsEmpty /\ ComparisonShared
      /\ OnlineShowsSelection /\ OnlineMetric /\ BusyAwaitsAnswer
  BY DEF IInv
<1>2. /\ load.gen # currentRenderGen
      /\ loads' = loads \ {load}
      /\ inventory' = inventory /\ currentMetric' = currentMetric
      /\ currentRenderGen' = currentRenderGen /\ lastChartState' = lastChartState
      /\ options' = options /\ primary' = primary
      /\ compare' = compare /\ disabled' = disabled
      /\ metric' = metric /\ chartMetric' = chartMetric
      /\ badge' = badge /\ busy' = busy /\ content' = content /\ empty' = empty
  BY DEF Ignore, Current, selects, status
<1>3. TypeOK'
  BY <1>1, <1>2 DEF TypeOK
<1>4. OnlineShowsSelection' /\ OnlineMetric' /\ EmptyIsEmpty' /\ ComparisonShared'
  BY <1>1, <1>2
     DEF OnlineShowsSelection, OnlineMetric, EmptyIsEmpty, ComparisonShared
<1>5. LoadsTyped' /\ CurrentFits' /\ BusyAwaitsAnswer'
  BY <1>1, <1>2 DEF LoadsTyped, CurrentFits, BusyAwaitsAnswer, Current
<1> QED
  BY <1>3, <1>4, <1>5 DEF IInv

(* When the current load is answered no current load is left, but for the  *)
(* one that the answer itself starts.                                      *)
LEMMA LastCurrent ==
  ASSUME IInv, NEW load \in loads, Current(load)
  PROVE  \A other \in loads \ {load} : other.gen # currentRenderGen
BY DEF IInv, CurrentFits, Current

(* The answer that lists nothing.                                          *)
LEMMA NodesEmptyStep ==
  ASSUME IInv, NEW load \in loads, NodesEmpty(load)
  PROVE  IInv'
<1>1. /\ TypeOK /\ LoadsTyped /\ EmptyIsEmpty /\ ComparisonShared
  BY DEF IInv
<1>2. /\ Current(load)
      /\ inventory' = <<>>
      /\ empty' = TRUE /\ content' = FALSE /\ badge' = "empty" /\ busy' = FALSE
      /\ loads' = loads \ {load}
      /\ currentMetric' = currentMetric
      /\ currentRenderGen' = currentRenderGen /\ lastChartState' = lastChartState
      /\ options' = options /\ primary' = primary
      /\ compare' = compare /\ disabled' = disabled
      /\ metric' = metric /\ chartMetric' = chartMetric
  BY DEF NodesEmpty, selects
<1>3. \A other \in loads' : other \in loads /\ other.gen # currentRenderGen
  BY <1>2, LastCurrent
<1>4. TypeOK'
  BY <1>1, <1>2 DEF TypeOK
<1>5. OnlineShowsSelection' /\ OnlineMetric' /\ EmptyIsEmpty'
  BY <1>1, <1>2 DEF OnlineShowsSelection, OnlineMetric, EmptyIsEmpty
<1>6. ComparisonShared'
  BY <1>1, <1>2 DEF ComparisonShared
<1>7. LoadsTyped' /\ CurrentFits' /\ BusyAwaitsAnswer'
  BY <1>1, <1>2, <1>3 DEF LoadsTyped, CurrentFits, BusyAwaitsAnswer, Current
<1> QED
  BY <1>4, <1>5, <1>6, <1>7 DEF IInv

(* What a non-empty answer selects: an entry of the new list, and for the  *)
(* comparison another one or none.                                         *)
LEMMA Selected ==
  ASSUME IInv, NEW load \in loads, NEW list \in Answers, NodesArrive(load, list)
  PROVE  /\ PrimaryIn(list, load) \in 1 .. Len(list)
         /\ CompareIn(list, load) \in 0 .. Len(list)
         /\ primary' = PrimaryIn(list, load) /\ compare' = CompareIn(list, load)
         /\ Len(list) \in Nat /\ DOMAIN list = 1 .. Len(list)
         /\ currentMetric' = metric /\ busy' = TRUE /\ disabled' = primary'
         /\ At(list, primary') # NoItem
         /\ ~SamePlace(At(list, primary'), At(list, compare'))
         /\ loads' = (loads \ {load}) \cup
                       {DataLoad(load.gen, At(list, primary'), At(list, compare'))}
<1> DEFINE p == PrimaryIn(list, load)
           c == CompareIn(list, load)
<1>1. LoadsTyped
  BY DEF IInv
<1>2. Len(list) \in Nat /\ DOMAIN list = 1 .. Len(list) /\ Len(list) # 0
  <2>1. list # <<>> /\ list \in Seq(Item)
    BY Zenon, InventoryAssumption DEF NodesArrive
  <2> QED
    BY <2>1
<1>3. /\ Find(list, load.primary) \in 0 .. Len(list)
      /\ Find(list, load.compare) \in 0 .. Len(list)
  BY <1>1, FindFinds DEF LoadsTyped
<1>4. p \in 1 .. Len(list)
  BY <1>2, <1>3 DEF PrimaryIn
<1>5. c \in 0 .. Len(list)
  BY <1>2, <1>3 DEF CompareIn
<1>6. At(list, p) # NoItem /\ At(list, p) = list[p]
  BY <1>4, AtIsItem
<1>7. ~SamePlace(At(list, c), At(list, p))
  <2>1. CASE c = 0
    <3>1. At(list, c) = NoItem
      BY <1>2, <2>1, AtIsItem
    <3> QED
      BY <3>1 DEF SamePlace
  <2>2. CASE c # 0
    <3>1. c = Find(list, load.compare) /\ c \in 1 .. Len(list)
      BY <1>2, <1>5, <2>2 DEF CompareIn
    <3>2. ~SamePlace(list[c], list[p])
      BY <1>2, <2>2, <3>1 DEF CompareIn
    <3> QED
      BY <1>6, <3>1, <3>2, AtIsItem
  <2> QED
    BY <2>1, <2>2
<1>8. StartRender(load.gen, list, p, c, metric, loads \ {load})
  BY DEF NodesArrive
<1> HIDE DEF p, c
<1>9. /\ primary' = p /\ compare' = c /\ currentMetric' = metric
      /\ busy' = TRUE /\ disabled' = p
      /\ loads' = (loads \ {load}) \cup
                    {DataLoad(load.gen, At(list, p), At(list, compare'))}
      /\ ~SamePlace(At(list, p), At(list, compare'))
  <2> DEFINE sent == loads \ {load}
  <2>1. StartRender(load.gen, list, p, c, metric, sent)
    BY <1>8
  <2> HIDE DEF sent
  <2>2. /\ primary' = p /\ currentMetric' = metric
        /\ ~SamePlace(At(list, c), At(list, p)) => compare' = c
        /\ \/ At(list, p) = NoItem /\ busy' = FALSE /\ loads' = sent
              /\ disabled' = disabled
           \/ /\ At(list, p) # NoItem /\ busy' = TRUE /\ disabled' = p
              /\ loads' = sent \cup {DataLoad(load.gen, At(list, p), At(list, compare'))}
              /\ ~SamePlace(At(list, p), At(list, compare'))
    BY Zenon, <2>1, RenderSends
  <2> QED
    BY Zenon, <1>6, <1>7, <2>2 DEF sent
<1> QED
  BY <1>2, <1>4, <1>5, <1>6, <1>9 DEF p, c

(* The answer that lists places.                                           *)
LEMMA NodesArriveStep ==
  ASSUME IInv, NEW load \in loads, NEW list \in Answers, NodesArrive(load, list)
  PROVE  IInv'
<1> DEFINE sent == DataLoad(load.gen, At(list, primary'), At(list, compare'))
<1>1. /\ TypeOK /\ LoadsTyped /\ CurrentFits /\ ComparisonShared
  BY DEF IInv
<1>2. /\ load.gen = currentRenderGen
      /\ inventory' = list /\ options' = Len(list)
      /\ empty' = FALSE
      /\ currentRenderGen' = currentRenderGen /\ lastChartState' = lastChartState
      /\ metric' = metric /\ chartMetric' = chartMetric
      /\ badge' = badge /\ content' = content
  BY DEF NodesArrive, Current
<1>3. /\ primary' \in 1 .. Len(list) /\ compare' \in 0 .. Len(list)
      /\ Len(list) \in Nat
      /\ currentMetric' = metric /\ busy' = TRUE /\ disabled' = primary'
      /\ At(list, primary') # NoItem
      /\ ~SamePlace(At(list, primary'), At(list, compare'))
      /\ loads' = (loads \ {load}) \cup {sent}
  BY Selected
<1>4. /\ sent.gen = currentRenderGen /\ sent.kind = "data"
      /\ sent.primary = At(list, primary') /\ sent.primary \in Item \cup {NoItem}
      /\ sent.compare = At(list, compare') /\ sent.compare \in Item \cup {NoItem}
  BY <1>2, AtIsItem DEF DataLoad
<1> HIDE DEF sent
<1>5. badge = "refreshing"
  BY <1>1, <1>2 DEF CurrentFits, Current
<1>6. \A other \in loads \ {load} : other.gen # currentRenderGen
  BY <1>2, LastCurrent DEF Current
<1>7. currentRenderGen \in 1 .. MaxGen /\ MaxGen \in Nat
  BY <1>1, InventoryAssumption DEF TypeOK
<1>8. TypeOK'
  <2>1. /\ primary' \in 0 .. options' /\ compare' \in 0 .. options'
        /\ disabled' \in 0 .. options'
    BY <1>2, <1>3
  <2>2. \A l \in loads' : l.gen \in 1 .. MaxGen /\ l.kind \in {"nodes", "data"}
    BY <1>1, <1>3, <1>4, <1>7 DEF TypeOK
  <2> QED
    BY <1>1, <1>2, <1>3, <2>1, <2>2 DEF TypeOK
<1>9. OnlineShowsSelection' /\ OnlineMetric' /\ EmptyIsEmpty'
  BY <1>2, <1>3, <1>5 DEF OnlineShowsSelection, OnlineMetric, EmptyIsEmpty
<1>10. ComparisonShared'
  BY <1>1, <1>2 DEF ComparisonShared
<1>11. LoadsTyped'
  BY <1>1, <1>2, <1>3, <1>4, <1>7 DEF LoadsTyped
<1>12. BusyAwaitsAnswer'
  BY <1>2, <1>3, <1>4 DEF BusyAwaitsAnswer, Current
<1>13. CurrentFits'
  BY <1>2, <1>3, <1>4, <1>5, <1>6 DEF CurrentFits, Current
<1> QED
  BY <1>8, <1>9, <1>10, <1>11, <1>12, <1>13 DEF IInv

(* The answer that is drawn.                                               *)
LEMMA DataArriveStep ==
  ASSUME IInv, NEW load \in loads, DataArrive(load)
  PROVE  IInv'
<1> DEFINE window == Window(load.primary, load.compare)
<1>1. /\ TypeOK /\ LoadsTyped /\ CurrentFits /\ EmptyIsEmpty
  BY DEF IInv
<1>2. /\ load.kind = "data" /\ Current(load)
      /\ lastChartState' = [primary |-> load.primary, compare |-> load.compare,
                            window |-> window]
      /\ chartMetric' = currentMetric
      /\ badge' = "success" /\ content' = TRUE /\ busy' = FALSE
      /\ loads' = loads \ {load}
      /\ inventory' = inventory /\ currentMetric' = currentMetric
      /\ currentRenderGen' = currentRenderGen
      /\ options' = options /\ primary' = primary
      /\ compare' = compare /\ disabled' = disabled
      /\ metric' = metric /\ empty' = empty
  BY DEF DataArrive, selects
<1>3. \A other \in loads' : other \in loads /\ other.gen # currentRenderGen
  BY <1>2, LastCurrent
<1>4. /\ load.primary \in Item /\ load.compare \in Item \cup {NoItem}
      /\ ~SamePlace(load.primary, load.compare)
  BY <1>1, <1>2 DEF LoadsTyped
<1>5. /\ load.primary = At(inventory, primary) /\ load.compare = At(inventory, compare)
      /\ currentMetric = metric
  BY <1>1, <1>2 DEF CurrentFits
<1>6. \A i \in {load.primary, load.compare} \ {NoItem} :
        window.from <= i.first_bucket_start /\ window.to >= i.last_bucket_start
  BY <1>4, WindowSpans
<1> HIDE DEF window
<1>7. ~empty
  <2>1. inventory # <<>>
    BY <1>4, <1>5, Inventory DEF At
  <2> QED
    BY <1>1, <2>1 DEF EmptyIsEmpty
<1>8. TypeOK'
  BY <1>1, <1>2, <1>3 DEF TypeOK
<1>9. OnlineShowsSelection' /\ OnlineMetric' /\ EmptyIsEmpty'
  BY <1>1, <1>2, <1>5, <1>7 DEF OnlineShowsSelection, OnlineMetric, EmptyIsEmpty
<1>10. ComparisonShared'
  BY <1>2, <1>4, <1>6 DEF ComparisonShared
<1>11. LoadsTyped' /\ CurrentFits' /\ BusyAwaitsAnswer'
  BY <1>1, <1>2, <1>3 DEF LoadsTyped, CurrentFits, BusyAwaitsAnswer, Current
<1> QED
  BY <1>8, <1>9, <1>10, <1>11 DEF IInv

(* An error.                                                               *)
LEMMA FailsStep ==
  ASSUME IInv, NEW load \in loads, Fails(load)
  PROVE  IInv'
<1>1. /\ TypeOK /\ LoadsTyped /\ EmptyIsEmpty /\ ComparisonShared
  BY DEF IInv
<1>2. /\ Current(load)
      /\ content' = FALSE /\ badge' = "error" /\ busy' = FALSE
      /\ loads' = loads \ {load}
      /\ inventory' = inventory /\ currentMetric' = currentMetric
      /\ currentRenderGen' = currentRenderGen /\ lastChartState' = lastChartState
      /\ options' = options /\ primary' = primary
      /\ compare' = compare /\ disabled' = disabled
      /\ metric' = metric /\ chartMetric' = chartMetric /\ empty' = empty
  BY DEF Fails, selects
<1>3. \A other \in loads' : other \in loads /\ other.gen # currentRenderGen
  BY <1>2, LastCurrent
<1>4. TypeOK'
  BY <1>1, <1>2 DEF TypeOK
<1>5. OnlineShowsSelection' /\ OnlineMetric' /\ EmptyIsEmpty' /\ ComparisonShared'
  BY <1>1, <1>2
     DEF OnlineShowsSelection, OnlineMetric, EmptyIsEmpty, ComparisonShared
<1>6. LoadsTyped' /\ CurrentFits' /\ BusyAwaitsAnswer'
  BY <1>1, <1>2, <1>3 DEF LoadsTyped, CurrentFits, BusyAwaitsAnswer, Current
<1> QED
  BY <1>4, <1>5, <1>6 DEF IInv

(* Drawing the chart again, in the metric that is selected.                *)
LEMMA ResizeStep ==
  ASSUME IInv, Resize
  PROVE  IInv'
<1>1. /\ chartMetric' = currentMetric
      /\ inventory' = inventory /\ currentMetric' = currentMetric
      /\ currentRenderGen' = currentRenderGen /\ lastChartState' = lastChartState
      /\ options' = options /\ primary' = primary
      /\ compare' = compare /\ disabled' = disabled /\ metric' = metric
      /\ badge' = badge /\ busy' = busy /\ content' = content /\ empty' = empty
      /\ loads' = loads
  BY DEF Resize, selects, status
<1>2. TypeOK'
  BY <1>1 DEF IInv, TypeOK
<1>3. OnlineShowsSelection'
  BY <1>1 DEF IInv, OnlineShowsSelection, OnlineMetric
<1>4. OnlineMetric' /\ EmptyIsEmpty' /\ ComparisonShared'
  BY <1>1 DEF IInv, OnlineMetric, EmptyIsEmpty, ComparisonShared
<1>5. LoadsTyped' /\ CurrentFits' /\ BusyAwaitsAnswer'
  BY <1>1 DEF IInv, LoadsTyped, CurrentFits, BusyAwaitsAnswer, Current
<1> QED
  BY <1>2, <1>3, <1>4, <1>5 DEF IInv

(* A step that is not the page's.                                          *)
LEMMA StutterStep ==
  ASSUME IInv, UNCHANGED vars
  PROVE  IInv'
<1>1. /\ inventory' = inventory /\ currentMetric' = currentMetric
      /\ currentRenderGen' = currentRenderGen /\ lastChartState' = lastChartState
      /\ options' = options /\ primary' = primary
      /\ compare' = compare /\ disabled' = disabled
      /\ metric' = metric /\ chartMetric' = chartMetric
      /\ badge' = badge /\ busy' = busy /\ content' = content /\ empty' = empty
      /\ loads' = loads
  BY DEF vars, selects, status
<1> QED
  BY <1>1 DEF IInv, TypeOK, OnlineShowsSelection, OnlineMetric, EmptyIsEmpty,
              ComparisonShared, LoadsTyped, CurrentFits, BusyAwaitsAnswer, Current

(* The page has just been opened.                                          *)
LEMMA InitIInv == Init => IInv
<1> SUFFICES ASSUME Init
             PROVE  IInv
  OBVIOUS
<1>1. /\ inventory = <<>> /\ currentMetric = "bytes" /\ currentRenderGen = 1
      /\ lastChartState = Nothing
      /\ options = 0 /\ primary = 0 /\ compare = 0 /\ disabled = 0
      /\ metric = "bytes" /\ chartMetric = "bytes"
      /\ badge = "refreshing" /\ busy = TRUE /\ content = FALSE /\ empty = FALSE
      /\ loads = {NodesLoad(1)}
  BY DEF Init
<1>2. /\ NodesLoad(1).gen = 1 /\ NodesLoad(1).kind = "nodes"
      /\ NodesLoad(1).primary = At(inventory, primary)
      /\ NodesLoad(1).primary \in Item \cup {NoItem}
      /\ NodesLoad(1).compare = At(inventory, compare)
      /\ NodesLoad(1).compare \in Item \cup {NoItem}
  BY <1>1, AtIsItem DEF NodesLoad
<1>3. MaxGen \in Nat \ {0}
  BY InventoryAssumption
<1>4. TypeOK
  <2>1. 0 \in 0 .. options /\ 1 \in 1 .. MaxGen
    BY <1>1, <1>3
  <2>2. \A load \in loads : load.gen \in 1 .. MaxGen /\ load.kind \in {"nodes", "data"}
    BY <1>1, <1>2, <2>1
  <2> QED
    BY <1>1, <2>1, <2>2 DEF TypeOK, Metrics
<1>5. OnlineShowsSelection /\ OnlineMetric /\ EmptyIsEmpty /\ ComparisonShared
  BY <1>1 DEF OnlineShowsSelection, OnlineMetric, EmptyIsEmpty, ComparisonShared
<1>6. LoadsTyped /\ CurrentFits /\ BusyAwaitsAnswer
  BY <1>1, <1>2 DEF LoadsTyped, CurrentFits, BusyAwaitsAnswer, Current
<1> QED
  BY <1>4, <1>5, <1>6 DEF IInv

(* Every step of the page.                                                 *)
LEMMA NextIInv == IInv /\ [Next]_vars => IInv'
<1> SUFFICES ASSUME IInv, [Next]_vars
             PROVE  IInv'
  OBVIOUS
<1>1. /\ options \in Nat /\ primary \in 0 .. options /\ compare \in 0 .. options
      /\ metric \in Metrics
  BY DEF IInv, TypeOK, EmptyIsEmpty
<1>2. ASSUME NEW i \in 0 .. options, ChangePrimary(i)
      PROVE  IInv'
  <2>1. 0 \in 0 .. options
    BY <1>1
  <2>2. \E c \in 0 .. options : Render(i, c, metric)
    BY <1>1, <1>2, <2>1, Zenon DEF ChangePrimary
  <2> QED
    BY <1>1, <2>2, RenderStep
<1>3. ASSUME NEW i \in 0 .. options, ChangeCompare(i)
      PROVE  IInv'
  <2>1. Render(primary, i, metric)
    BY <1>3 DEF ChangeCompare
  <2> QED
    BY <1>1, <2>1, RenderStep
<1>4. CASE ChangeMetric
  <2>1. PICK m \in Metrics : Render(primary, compare, m)
    BY <1>4 DEF ChangeMetric
  <2> QED
    BY <1>1, <2>1, RenderStep
<1>5. ASSUME NEW load \in loads, Settle(load)
      PROVE  IInv'
  BY <1>5, IgnoreStep, NodesEmptyStep, NodesArriveStep, DataArriveStep, FailsStep DEF Settle
<1> QED
  BY <1>2, <1>3, <1>4, <1>5, RefreshStep, ResizeStep, StutterStep DEF Next

-------------------------------------------------------------------------------
(* The theorems.                                                           *)

(* The invariant holds in every reachable state.                           *)
THEOREM DashboardInvariant == Spec => []IInv
BY InitIInv, NextIInv, PTL DEF Spec

(* The page's variables keep their types, and the selects name entries     *)
(* that the page has.                                                      *)
THEOREM DashboardTypeOK == Spec => []TypeOK
<1>1. IInv => TypeOK
  BY DEF IInv
<1> QED
  BY <1>1, DashboardInvariant, PTL

(* What is shown as Online is what the controls name, whatever the order   *)
(* in which any number of answers came.                                    *)
THEOREM DashboardOnlineShowsSelection == Spec => []OnlineShowsSelection
<1>1. IInv => OnlineShowsSelection
  BY DEF IInv
<1> QED
  BY <1>1, DashboardInvariant, PTL

(* The refresh button is never left disabled with nothing to wait for.     *)
THEOREM DashboardBusyAwaitsAnswer == Spec => []BusyAwaitsAnswer
<1>1. IInv => BusyAwaitsAnswer
  BY DEF IInv
<1> QED
  BY <1>1, DashboardInvariant, PTL

(* A comparison is between two places, over all the time of both.          *)
THEOREM DashboardComparisonShared == Spec => []ComparisonShared
<1>1. IInv => ComparisonShared
  BY DEF IInv
<1> QED
  BY <1>1, DashboardInvariant, PTL

(* Only the current answer to a request for the places changes the list.   *)
LEMMA InventoryChanges ==
  ASSUME [Next]_vars, inventory' # inventory
  PROVE  \E load \in loads :
           \/ NodesEmpty(load)
           \/ \E list \in Answers : NodesArrive(load, list)
<1>1. ASSUME NEW p, NEW c, NEW m, Render(p, c, m)
      PROVE  FALSE
  BY <1>1 DEF Render
<1>2. ~(\E i \in 0 .. options : ChangePrimary(i) \/ ChangeCompare(i)) /\ ~ChangeMetric
  BY Zenon, <1>1 DEF ChangePrimary, ChangeCompare, ChangeMetric
<1>3. ~Refresh /\ ~Resize /\ ~UNCHANGED vars
  BY DEF Refresh, Resize, vars
<1>4. \A load \in loads : ~Ignore(load) /\ ~DataArrive(load) /\ ~Fails(load)
  BY DEF Ignore, DataArrive, Fails
<1> QED
  BY <1>2, <1>3, <1>4 DEF Next, Settle

(* Each select stays on its place through a refresh, wherever it is in the *)
(* new list and whatever its times.                                        *)
THEOREM DashboardSelectionSurvives == Spec => SelectionSurvives
<1> DEFINE listed(place) == \E i \in DOMAIN inventory' : SamePlace(inventory'[i], place)
           pItem == At(inventory, primary)
           cItem == At(inventory, compare)
           Kept  ==
             /\ listed(pItem) => SamePlace(At(inventory', primary'), pItem)
             /\ listed(cItem) => \/ SamePlace(At(inventory', compare'), cItem)
                                 \/ SamePlace(At(inventory', primary'), cItem)
<1>1. ASSUME IInv, [Next]_vars, inventory' # inventory
      PROVE  Kept
  <2>1. PICK load \in loads :
          \/ NodesEmpty(load)
          \/ \E list \in Answers : NodesArrive(load, list)
    BY <1>1, InventoryChanges
  <2>2. CASE NodesEmpty(load)
    <3>1. DOMAIN inventory' = {}
      BY <2>2 DEF NodesEmpty
    <3> QED
      BY <3>1
  <2>3. CASE \E list \in Answers : NodesArrive(load, list)
    <3>1. PICK list \in Answers : NodesArrive(load, list)
      BY <2>3
    <3>2. /\ inventory' = list
          /\ load.primary = pItem /\ load.compare = cItem
          /\ load.primary \in Item \cup {NoItem} /\ load.compare \in Item \cup {NoItem}
      BY <1>1, <3>1 DEF NodesArrive, IInv, CurrentFits, LoadsTyped
    <3> DEFINE p     == PrimaryIn(list, load)
               found == Find(list, load.compare)
    <3>3. /\ primary' = p /\ compare' = CompareIn(list, load)
          /\ p \in 1 .. Len(list) /\ Len(list) \in Nat /\ DOMAIN list = 1 .. Len(list)
      BY <1>1, <3>1, Selected
    <3>4. At(inventory', primary') = list[p]
      BY <3>2, <3>3 DEF At
    <3>5. ASSUME listed(pItem)
          PROVE  SamePlace(At(inventory', primary'), pItem)
      <4>1. Find(list, load.primary) > 0 /\ SamePlace(list[Find(list, load.primary)], pItem)
        BY <3>2, <3>5, FindFinds
      <4> QED
        BY <3>4, <4>1 DEF PrimaryIn
    <3>6. ASSUME listed(cItem)
          PROVE  \/ SamePlace(At(inventory', compare'), cItem)
                 \/ SamePlace(At(inventory', primary'), cItem)
      <4>1. found > 0 /\ found \in DOMAIN list /\ SamePlace(list[found], cItem)
        BY <3>2, <3>3, <3>6, FindFinds
      <4>2. CASE SamePlace(list[found], list[p])
        BY <3>4, <4>1, <4>2 DEF SamePlace
      <4>3. CASE ~SamePlace(list[found], list[p])
        <5>1. compare' = found
          BY <3>3, <4>1, <4>3 DEF CompareIn
        <5> QED
          BY <3>2, <4>1, <5>1 DEF At
      <4> QED
        BY <4>2, <4>3
    <3> QED
      BY <3>5, <3>6
  <2> QED
    BY <2>1, <2>2, <2>3
<1>2. IInv /\ [Next]_vars => [inventory' # inventory => Kept]_vars
  BY <1>1
<1> QED
  BY <1>2, DashboardInvariant, PTL DEF Spec, SelectionSurvives, SamePlace

===============================================================================
