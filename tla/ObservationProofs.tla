------------------------- MODULE ObservationProofs -------------------------
(***************************************************************************)
(* Proofs about the collector and the advisory listener, for any streams,  *)
(* page size, cap, settings and number of browsers.                        *)
(***************************************************************************)
EXTENDS ObservationProperties, FiniteSetTheorems, TLAPS

-----------------------------------------------------------------------------
(* The advisory listener *)

ListenerType ==
    listener # None => listener \in [count : Nat, dropped : BOOLEAN]

\* The note of this minute is the one that "dropped" remembers.
NoteRemembered ==
    /\ listener # None /\ listener.dropped = TRUE => noted = TRUE
    /\ missed = TRUE => noted = TRUE
    /\ missed \in BOOLEAN /\ noted \in BOOLEAN

ListenerInvariant == ListenerType /\ NoteRemembered

\* An advisory that is left out sets "dropped" and is noted unless one of its
\* minute was before it (incidents.rs collect).
LEMMA AdvisoryStep ==
  ASSUME ListenerInvariant, NEW kind \in {"audit", "large", "advisory"},
         NEW elapsed \in BOOLEAN, Advisory(kind, elapsed)
  PROVE  ListenerInvariant'
  <1> DEFINE minute == IF elapsed THEN Quiet ELSE listener
             skip   == /\ kind \in {"large", "advisory"}
                       /\ kind = "large" \/ minute.count >= AdvisoryCap
  <1>1. /\ listener # None
        /\ missed' = (skip \/ (missed /\ ~elapsed))
        /\ noted' = ((skip /\ ~minute.dropped) \/ (noted /\ ~elapsed))
        /\ listener' = [count   |-> minute.count + (IF kind = "advisory" /\ ~skip
                                                    THEN 1 ELSE 0),
                        dropped |-> minute.dropped \/ skip]
    BY DEF Advisory
  <1>2. minute \in [count : Nat, dropped : BOOLEAN]
    BY <1>1 DEF ListenerInvariant, ListenerType, Quiet
  <1>3. minute.dropped => ~elapsed /\ noted
    BY <1>1, <1>2 DEF ListenerInvariant, NoteRemembered, Quiet
  <1>4. skip \in BOOLEAN
    OBVIOUS
  <1> HIDE DEF minute, skip
  <1>5. listener' \in [count : Nat, dropped : BOOLEAN]
    BY <1>1, <1>2, <1>4
  <1>6. NoteRemembered'
    BY <1>1, <1>2, <1>3, <1>4 DEF ListenerInvariant, NoteRemembered
  <1> QED BY <1>5, <1>6 DEF ListenerInvariant, ListenerType

\* Every step but those of the listener leaves it alone or takes it down
\* (incidents.rs collect).
LEMMA ListenerNext ==
  ASSUME ListenerInvariant, [Next]_vars
  PROVE  ListenerInvariant'
  <1> USE DEF ListenerInvariant, ListenerType, NoteRemembered
  <1>1. CASE UNCHANGED advisories
    BY <1>1 DEF advisories
  <1>2. CASE Subscribe
    BY <1>2 DEF Subscribe, Quiet
  <1>3. CASE SubscriptionEnds \/ Restart
    BY <1>3 DEF SubscriptionEnds, Restart, Fresh
  <1>4. CASE \E kind \in {"audit", "large", "advisory"}, elapsed \in BOOLEAN :
                 Advisory(kind, elapsed)
    BY <1>4, AdvisoryStep
  <1>5. Collect => UNCHANGED advisories
    BY DEF Collect, Connect, ListPage, ListFails, ConsumersFail, ReadSettings,
           Compare, Publish
  <1>6. (\E r \in Resources : Create(r) \/ Delete(r) \/ Alter(r))
           => UNCHANGED advisories
    BY DEF Create, Delete, Alter
  <1>7. Outage \/ Recovery \/ Node \/ NodeBack \/ MonitorCollect
           => UNCHANGED advisories
    BY DEF Outage, Recovery, Node, NodeBack, MonitorCollect
  <1>8. (\E t \in Tabs : \/ snapshot(t) \/ CacheWrite(t)
                         \/ \E s \in Settings : save_settings(t, s))
           => UNCHANGED advisories
    BY DEF snapshot, CacheWrite, save_settings
  <1>9. UNCHANGED vars => UNCHANGED advisories
    BY DEF vars
  <1> QED BY <1>1, <1>2, <1>3, <1>4, <1>5, <1>6, <1>7, <1>8, <1>9 DEF Next

\* An advisory that is left out is noted in its minute, however messages,
\* minutes, ends of the subscription and restarts follow each other
\* (incidents.rs collect).
THEOREM AdvisoryLossIsVisible == Spec => []AdvisoryLossVisible
  <1>1. Init => ListenerInvariant
    BY DEF Init, ListenerInvariant, ListenerType, NoteRemembered
  <1>2. ListenerInvariant => AdvisoryLossVisible
    BY DEF ListenerInvariant, NoteRemembered, AdvisoryLossVisible
  <1> QED BY <1>1, <1>2, ListenerNext, PTL DEF Spec
-----------------------------------------------------------------------------
(* What the broker lists *)

\* The places of the streams up to one.
UpTo(j) == {i \in Positions : i <= j}

\* Finitely many streams exist.
LEMMA FinitePositions ==
  /\ IsFiniteSet(Positions) /\ Total \in Nat
  /\ \A j : /\ UpTo(j) \subseteq Positions /\ IsFiniteSet(UpTo(j))
           /\ Cardinality(UpTo(j)) \in Nat
           /\ Cardinality(UpTo(j)) <= Total
  <1>1. DOMAIN Order = 1 .. Len(Order) /\ Len(Order) \in Nat
    BY ObservationAssumption
  <1>2. IsFiniteSet(DOMAIN Order)
    BY <1>1, FS_Interval
  <1>3. IsFiniteSet(Positions)
    BY <1>2, FS_Subset DEF Positions
  <1>4. \A j : UpTo(j) \in SUBSET Positions
    BY DEF UpTo
  <1> QED BY <1>3, <1>4, FS_Subset, FS_CardinalityType DEF Total

\* The streams up to one that exists are some, and fewer than up to a later one.
LEMMA RankGrows ==
  ASSUME NEW j \in Positions
  PROVE  /\ Cardinality(UpTo(j)) \in 1 .. Total
         /\ \A i \in Positions : i < j => Cardinality(UpTo(i)) < Cardinality(UpTo(j))
  <1>1. Positions \subseteq Nat
    BY ObservationAssumption DEF Positions
  <1>2. j \in UpTo(j)
    BY <1>1 DEF UpTo
  <1>3. Cardinality(UpTo(j)) # 0
    BY <1>2, FinitePositions, FS_EmptySet
  <1>4. ASSUME NEW i \in Positions, i < j
        PROVE  Cardinality(UpTo(i)) < Cardinality(UpTo(j))
    <2>1. \A k \in UpTo(i) : k \in UpTo(j)
      <3> TAKE k \in UpTo(i)
      <3>1. k \in Positions /\ k <= i /\ k \in Nat /\ i \in Nat /\ j \in Nat
        BY <1>1 DEF UpTo
      <3> QED BY <3>1, <1>4 DEF UpTo
    <2>2. j \notin UpTo(i)
      BY <1>1, <1>4 DEF UpTo
    <2> QED BY <2>1, <2>2, <1>2, FinitePositions, FS_Subset
  <1> QED BY <1>3, <1>4, FinitePositions

\* No two streams have as many up to them.
LEMMA RankInjective ==
  ASSUME NEW i \in Positions, NEW j \in Positions,
         Cardinality(UpTo(i)) = Cardinality(UpTo(j))
  PROVE  i = j
  <1>1. i \in Nat /\ j \in Nat
    BY ObservationAssumption DEF Positions
  <1>2. Cardinality(UpTo(i)) \in Nat
    BY FinitePositions
  <1> QED BY <1>1, <1>2, RankGrows

\* For every number up to that of the streams, one has as many up to it.
LEMMA RankSurjective ==
  ASSUME NEW k \in 1 .. Total
  PROVE  \E j \in Positions : Cardinality(UpTo(j)) = k
  <1> DEFINE N == Total
             rank == [j \in Positions |-> Cardinality(UpTo(j))]
  <1>1. rank \in Injection(Positions, 1 .. N)
    BY RankGrows, RankInjective DEF Injection, IsInjective
  <1>2. IsFiniteSet(1 .. N) /\ Cardinality(1 .. N) = N
    BY FinitePositions, FS_Interval
  <1>3. rank \in Surjection(Positions, 1 .. N)
    BY <1>1, <1>2, FinitePositions, FS_Injection DEF Total
  <1> QED BY <1>3 DEF Surjection

\* The broker lists each stream that exists, at its place.
LEMMA ListedAt ==
  /\ \A j \in Positions : Listed(Cardinality(UpTo(j))) = Order[j]
  /\ \A k \in 1 .. Total :
        \E j \in Positions : Cardinality(UpTo(j)) = k /\ Listed(k) = Order[j]
  <1>1. ASSUME NEW j \in Positions
        PROVE  Listed(Cardinality(UpTo(j))) = Order[j]
    <2>1. Cardinality(UpTo(j)) \in 1 .. Total
      BY RankGrows
    <2>2. (CHOOSE i \in Positions : Cardinality(UpTo(i)) = Cardinality(UpTo(j))) = j
      BY RankInjective
    <2> QED BY <2>1, <2>2 DEF Listed, UpTo
  <1> QED BY <1>1, RankSurjective
-----------------------------------------------------------------------------
(* The listing and the observation made from it *)

Streams == [created : Nat, form : Nat]

Rows == [name : Resources, created : Nat, form : Nat]

Statuses == {"complete", "partial", "unavailable"}

ListingType ==
    /\ inventory \in [Resources -> Streams \cup {None}] /\ events \in Nat
    /\ items \in Seq(Rows)
    /\ snap \in [status : Statuses, seen : Seq(Rows)]
    /\ current \in [status : Statuses, seen : Seq(Rows)]

\* A stream that neither was absent nor shifted is at its place of the listing
\* once the pages are past it, and in the observation if that is complete.
UnmovedListed ==
    /\ phase = "list" =>
          /\ Len(items) <= Cap
          /\ \A j \in DOMAIN Order : ~Cause(Order[j]) =>
                /\ j \in Positions
                /\ Cardinality(UpTo(j)) <= Len(items) =>
                      items[Cardinality(UpTo(j))].name = Order[j]
    /\ phase \in {"sleep", "list"} => snap = Unavailable
    /\ phase # "list" => items = <<>>
    /\ snap.status = "complete" =>
          \A j \in DOMAIN Order : ~Cause(Order[j]) =>
              Order[j] \in Names(snap.seen)

\* The listing so far of an inventory that did not change.
UnchangedListed ==
    phase = "list" /\ changed = {} =>
        /\ Len(items) <= Total
        /\ \A k \in 1 .. Len(items) : items[k] = Row(Listed(k))

ListingInvariant == ListingType /\ UnmovedListed /\ UnchangedListed

\* Before a listing nothing is listed and no observation is made.
LEMMA ListingInit == Init => ListingInvariant
  <1> SUFFICES ASSUME Init PROVE ListingInvariant
    OBVIOUS
  <1>1. ListingType
    BY ObservationAssumption DEF Init, ListingType, Streams, Statuses, Unavailable
  <1> QED
    BY <1>1 DEF Init, ListingInvariant, UnmovedListed, UnchangedListed, Unavailable

\* The rows of a page are the streams at their places (STREAM.LIST).
LEMMA PageRows ==
  ASSUME ListingInvariant, NEW offset \in Nat
  PROVE  /\ Page(offset) \in Seq(Rows)
         /\ Len(Page(offset)) <= PageSize
         /\ offset < Total => Len(Page(offset)) > 0
         /\ Len(Page(offset)) > 0 => offset + Len(Page(offset)) <= Total
         /\ \A k \in 1 .. Len(Page(offset)) : Page(offset)[k] = Row(Listed(offset + k))
  <1> DEFINE rest == Total - offset
             size == IF rest < PageSize THEN rest ELSE PageSize
             n    == IF size < 0 THEN 0 ELSE size
  <1>1. Total \in Nat /\ PageSize \in Nat \ {0}
    BY ListedAt, FinitePositions, ObservationAssumption
  <1>2. ASSUME NEW k \in 1 .. size
        PROVE  Row(Listed(offset + k)) \in Rows
    <2>1. offset + k \in 1 .. Total
      BY <1>1
    <2>2. PICK j \in Positions : Listed(offset + k) = Order[j]
      BY <2>1, ListedAt
    <2>3. Order[j] \in Resources /\ inventory[Order[j]] \in Streams
      BY <2>2, ObservationAssumption
         DEF Positions, Alive, Resources, ToSet, ListingInvariant, ListingType
    <2> QED BY <2>2, <2>3 DEF Row, Rows, Streams
  <1>3. Page(offset) = [k \in 1 .. n |-> Row(Listed(offset + k))]
    <2>1. 1 .. size = 1 .. n /\ n \in Nat
      BY <1>1
    <2> QED BY <2>1 DEF Page
  <1>4. n \in Nat /\ \A k \in 1 .. n : Row(Listed(offset + k)) \in Rows
    <2>1. n \in Nat /\ 1 .. size = 1 .. n
      BY <1>1
    <2> HIDE DEF n, size
    <2> QED BY <1>2, <2>1
  <1> HIDE DEF n
  <1>5. Page(offset) \in Seq(Rows) /\ Len(Page(offset)) = n
    BY <1>3, <1>4
  <1> USE DEF n
  <1> QED BY <1>1, <1>3, <1>5

\* Adding a page keeps what was listed and goes on where it ended, up to the
\* cap (telemetry.rs list).
LEMMA CappedRows ==
  ASSUME ListingInvariant, Len(items) <= Cap,
         NEW list, list = Capped(items \o Page(Len(items)))
  PROVE  /\ list \in Seq(Rows) /\ Len(list) <= Cap /\ Len(items) <= Len(list)
         /\ Len(list) <= Len(items) + Len(Page(Len(items)))
         /\ \A k \in 1 .. Len(items) : list[k] = items[k]
         /\ \A k \in Len(items) + 1 .. Len(list) : list[k] = Row(Listed(k))
  <1> DEFINE page == Page(Len(items))
             all  == items \o page
             n    == IF Len(all) < Cap THEN Len(all) ELSE Cap
  <1>1. items \in Seq(Rows) /\ Len(items) \in Nat /\ Cap \in Nat
    BY ObservationAssumption DEF ListingInvariant, ListingType
  <1>2. /\ page \in Seq(Rows)
        /\ \A k \in 1 .. Len(page) : page[k] = Row(Listed(Len(items) + k))
    BY <1>1, PageRows
  <1> HIDE DEF page
  <1>3. /\ all \in Seq(Rows) /\ Len(all) = Len(items) + Len(page)
        /\ Len(page) \in Nat
        /\ \A k \in 1 .. Len(all) :
              all[k] = IF k <= Len(items) THEN items[k] ELSE page[k - Len(items)]
    BY <1>1, <1>2
  <1> HIDE DEF all
  <1>4. n \in 0 .. Len(all)
    BY <1>1, <1>3
  <1>5. list = SubSeq(all, 1, n)
    BY DEF Capped, all, page
  <1>6. /\ list \in Seq(Rows) /\ Len(list) = n
        /\ \A k \in 1 .. n : list[k] = all[k]
    <2> HIDE DEF n
    <2> QED BY <1>3, <1>4, <1>5
  <1>7. n <= Cap /\ Len(items) <= n /\ n <= Len(items) + Len(page)
    BY <1>1, <1>3
  <1>8. \A k \in 1 .. Len(items) : list[k] = items[k]
    BY <1>1, <1>3, <1>4, <1>6, <1>7
  <1>9. ASSUME NEW k \in Len(items) + 1 .. Len(list)
        PROVE  list[k] = Row(Listed(k))
    <2>1. k - Len(items) \in 1 .. Len(page) /\ ~(k <= Len(items)) /\ k \in 1 .. Len(all)
      BY <1>1, <1>3, <1>6, <1>7
    <2>2. list[k] = page[k - Len(items)]
      BY <2>1, <1>3, <1>6
    <2>3. Len(items) + (k - Len(items)) = k
      BY <1>1
    <2> QED BY <2>1, <2>2, <2>3, <1>2
  <1> QED BY <1>6, <1>7, <1>8, <1>9 DEF page

\* A list that holds the unmoved streams at their places and, of an inventory
\* that did not change, the first streams.
Faithful(list) ==
    /\ list \in Seq(Rows) /\ Len(list) <= Cap
    /\ \A j \in DOMAIN Order : ~Cause(Order[j]) =>
          /\ j \in Positions
          /\ Cardinality(UpTo(j)) <= Len(list) =>
                list[Cardinality(UpTo(j))].name = Order[j]
    /\ changed = {} =>
          /\ Len(list) <= Total
          /\ \A k \in 1 .. Len(list) : list[k] = Row(Listed(k))

\* A page goes on with the listing or ends it, and an observation is complete
\* only if it has as many streams as the broker (telemetry.rs list).
LEMMA ListPageOutcome ==
  ASSUME ListingInvariant, ListPage
  PROVE  \E list :
           /\ Faithful(list)
           /\ \/ items' = list /\ UNCHANGED <<phase, snap>>
              \/ /\ phase' = "observed" /\ items' = <<>>
                 /\ \E status \in {"complete", "partial"} :
                       /\ snap' = [status |-> status, seen |-> list]
                       /\ status = "complete" => Total <= Len(list)
  <1> DEFINE page == Page(Len(items))
             list == Capped(items \o page)
  <1>1. /\ phase = "list" /\ items \in Seq(Rows) /\ Len(items) \in Nat
        /\ Len(items) <= Cap /\ Total \in Nat /\ Faithful(items)
    BY ListedAt, FinitePositions
       DEF ListPage, ListingInvariant, ListingType, UnmovedListed, UnchangedListed,
           Faithful
  <1>2. Faithful(list)
    <2>1. /\ list \in Seq(Rows) /\ Len(list) <= Cap /\ Len(items) <= Len(list)
          /\ Len(list) <= Len(items) + Len(page) /\ Len(list) \in Nat
          /\ \A k \in 1 .. Len(items) : list[k] = items[k]
          /\ \A k \in Len(items) + 1 .. Len(list) : list[k] = Row(Listed(k))
      BY <1>1, CappedRows
    <2>2. /\ Len(page) \in Nat
          /\ Len(page) > 0 => Len(items) + Len(page) <= Total
      BY <1>1, PageRows
    <2> HIDE DEF list, page
    <2>3. ASSUME NEW j \in DOMAIN Order, ~Cause(Order[j]),
                 Cardinality(UpTo(j)) <= Len(list)
          PROVE  j \in Positions /\ list[Cardinality(UpTo(j))].name = Order[j]
      <3> DEFINE c == Cardinality(UpTo(j))
      <3>1. j \in Positions /\ (c <= Len(items) => items[c].name = Order[j])
        BY <1>1, <2>3 DEF Faithful
      <3>2. c \in 1 .. Total /\ Listed(c) = Order[j]
        BY <3>1, RankGrows, ListedAt
      <3>3. Row(Order[j]).name = Order[j]
        BY DEF Row
      <3>4. c \in Nat /\ c >= 1
        BY <3>2, FinitePositions
      <3> HIDE DEF c
      <3>5. CASE c <= Len(items)
        <4>1. list[c].name = Order[j]
          BY <3>1, <3>4, <3>5, <1>1, <2>1
        <4> QED BY <3>1, <4>1 DEF c
      <3>6. CASE ~(c <= Len(items))
        <4>1. c \in Len(items) + 1 .. Len(list)
          BY <3>4, <3>6, <1>1, <2>1, <2>3 DEF c
        <4>2. list[c].name = Order[j]
          BY <4>1, <3>2, <3>3, <2>1
        <4> QED BY <3>1, <4>2 DEF c
      <3> QED BY <3>1, <3>5, <3>6 DEF c
    <2>4. ASSUME changed = {}
          PROVE  /\ Len(list) <= Total
                 /\ \A k \in 1 .. Len(list) : list[k] = Row(Listed(k))
      <3>1. /\ Len(items) <= Total
            /\ \A k \in 1 .. Len(items) : items[k] = Row(Listed(k))
        BY <1>1, <2>4 DEF Faithful
      <3>2. Len(list) <= Total
        BY <3>1, <1>1, <2>1, <2>2
      <3>3. \A k \in 1 .. Len(list) :
              k \in 1 .. Len(items) \/ k \in Len(items) + 1 .. Len(list)
        BY <1>1, <2>1
      <3> QED BY <3>1, <3>2, <3>3, <2>1
    <2>5. \A j \in DOMAIN Order : ~Cause(Order[j]) => j \in Positions
      BY <1>1 DEF Faithful
    <2> QED BY <2>1, <2>3, <2>4, <2>5 DEF Faithful
  <1>3. CASE page = <<>>
    <2> DEFINE status == IF Len(items) < Total THEN "partial" ELSE "complete"
    <2>1. /\ snap' = [status |-> status, seen |-> items]
          /\ items' = <<>> /\ phase' = "observed"
      BY <1>3 DEF ListPage, Observed
    <2>2. status = "complete" => Total <= Len(items)
      BY <1>1
    <2>3. status \in {"complete", "partial"}
      OBVIOUS
    <2> QED BY <2>1, <2>2, <2>3, <1>1
  <1>4. CASE page # <<>> /\ (Len(list) >= Total \/ Len(list) >= Cap)
    <2> DEFINE status == IF Len(list) < Total THEN "partial" ELSE "complete"
    <2>1. /\ snap' = [status |-> status, seen |-> list]
          /\ items' = <<>> /\ phase' = "observed"
      BY <1>4 DEF ListPage, Observed
    <2>2. Len(list) \in Nat
      BY <1>2 DEF Faithful
    <2>3. status = "complete" => Total <= Len(list)
      BY <1>1, <2>2
    <2>4. status \in {"complete", "partial"}
      OBVIOUS
    <2> QED BY <2>1, <2>3, <2>4, <1>2
  <1>5. CASE page # <<>> /\ ~(Len(list) >= Total \/ Len(list) >= Cap)
    <2>1. items' = list /\ UNCHANGED <<phase, snap>>
      BY <1>5 DEF ListPage
    <2> QED BY <2>1, <1>2
  <1> QED BY <1>3, <1>4, <1>5

\* Nothing of the cluster and nothing of the listing changes.
LEMMA ListingKept ==
  ASSUME ListingInvariant,
         UNCHANGED <<inventory, items, phase, snap, absent, changed>>,
         ListingType'
  PROVE  ListingInvariant'
  <1>1. Positions' = Positions /\ Total' = Total /\ \A k : Listed(k)' = Listed(k)
    BY DEF Positions, Alive, Listed, Total
  <1>2. \A j : UpTo(j)' = UpTo(j)
    BY <1>1 DEF UpTo
  <1>3. \A r : Cause(r)' = Cause(r) /\ Row(r)' = Row(r)
    BY DEF Cause, Row
  <1> QED BY <1>1, <1>2, <1>3
          DEF ListingInvariant, UnmovedListed, UnchangedListed

\* A stream that comes, goes or is altered moves only itself and those after it,
\* and all of these have a cause from then on (STREAM.LIST).
LEMMA StreamStep ==
  ASSUME ListingInvariant, NEW r \in Resources,
         Create(r) \/ Delete(r) \/ Alter(r)
  PROVE  ListingInvariant'
  <1> USE DEF ListingInvariant
  <1>1. ListingType' /\ UNCHANGED <<phase, items, snap, current>>
    <2>1. UNCHANGED <<phase, items, snap, current>> /\ events' \in Nat
      BY DEF Create, Delete, Alter, Disturb, ListingType, collector
    <2>2. CASE Create(r)
      <3>1. [created |-> events', form |-> events'] \in Streams
        BY <2>1 DEF Streams
      <3>2. inventory' \in [Resources -> Streams \cup {None}]
        BY <2>2, <3>1 DEF Create, ListingType
      <3> QED BY <2>1, <3>2 DEF ListingType
    <2>3. CASE Delete(r)
      BY <2>1, <2>3 DEF Delete, ListingType
    <2>4. CASE Alter(r)
      <3>1. [inventory[r] EXCEPT !.form = events'] \in Streams
        BY <2>1, <2>4 DEF Alter, Alive, ListingType, Streams
      <3>2. inventory' \in [Resources -> Streams \cup {None}]
        BY <2>4, <3>1 DEF Alter, ListingType
      <3> QED BY <2>1, <3>2 DEF ListingType
    <2> QED BY <2>2, <2>3, <2>4
  <1>2. changed' = IF phase = "list" THEN changed \cup {r} ELSE changed
    BY DEF Create, Delete, Alter
  <1>3. /\ absent \subseteq absent'
        /\ phase # "list" => absent' = absent
    BY DEF Create, Delete, Alter
  <1>4. UnchangedListed'
    BY <1>1, <1>2 DEF UnchangedListed
  <1>5. CASE phase # "list"
    <2>1. \A q : Cause(q)' = Cause(q)
      BY <1>2, <1>3, <1>5 DEF Cause
    <2> QED BY <1>1, <1>4, <1>5, <2>1 DEF UnmovedListed
  <1>6. CASE phase = "list"
    <2>1. \A q : Cause(q) => Cause(q)'
      BY <1>2, <1>3 DEF Cause
    <2>2. ASSUME NEW j \in DOMAIN Order, ~Cause(Order[j])'
          PROVE  /\ j \in Positions' /\ ~Cause(Order[j])
                 /\ UpTo(j)' = UpTo(j)
      <3>1. ~Cause(Order[j]) /\ j \in Positions /\ Alive(Order[j])
        BY <1>6, <2>1, <2>2 DEF UnmovedListed, Positions
      <3>2. \A i \in DOMAIN Order : i < j => Order[i] # r
        BY <1>2, <1>6, <2>2 DEF Cause
      <3>3. \A q \in Resources : q # r => Alive(q)' = Alive(q)
        BY DEF Create, Delete, Alter, Alive, ListingType
      <3>4. Alive(Order[j])'
        <4>1. CASE Order[j] # r
          BY <3>1, <3>3, <4>1 DEF Resources, ToSet
        <4>2. CASE Order[j] = r /\ Create(r)
          BY <3>1, <4>2 DEF Create
        <4>3. CASE Order[j] = r /\ Delete(r)
          BY <1>6, <2>2, <4>3 DEF Delete, Cause
        <4>4. CASE Order[j] = r /\ Alter(r)
          <5>1. inventory'[r] \in Streams
            <6>1. r \in Resources /\ inventory[r] # None
              BY <4>4 DEF Alter, Alive
            <6>2. inventory[r] \in Streams /\ events' \in Nat
              BY <4>4, <6>1 DEF Alter, Disturb, ListingType
            <6>3. inventory'[r] = [inventory[r] EXCEPT !.form = events']
              BY <4>4, <6>1 DEF Alter, ListingType
            <6> QED BY <6>2, <6>3 DEF Streams
          <5> QED BY <5>1, <4>4, ObservationAssumption DEF Alive, Streams
        <4> QED BY <4>1, <4>2, <4>3, <4>4
      <3>5. \A i \in DOMAIN Order : i <= j => Alive(Order[i])' = Alive(Order[i])
        <4> TAKE i \in DOMAIN Order
        <4>1. CASE i = j
          BY <3>1, <3>4, <4>1 DEF Alive
        <4>2. CASE i < j
          BY <3>2, <3>3, <4>2 DEF Resources, ToSet
        <4>3. i \in Int /\ j \in Int
          BY ObservationAssumption
        <4> QED BY <4>1, <4>2, <4>3
      <3>6. UpTo(j)' = UpTo(j)
        BY <3>5 DEF UpTo, Positions
      <3> QED BY <3>1, <3>4, <3>6 DEF Positions
    <2>3. snap' = Unavailable /\ snap'.status # "complete" /\ Len(items)' <= Cap
      BY <1>1, <1>6 DEF UnmovedListed, Unavailable
    <2>4. \A j \in DOMAIN Order : ~Cause(Order[j])' =>
             /\ j \in Positions'
             /\ Cardinality(UpTo(j))' <= Len(items)' =>
                   items'[Cardinality(UpTo(j))'].name = Order[j]
      BY <1>1, <1>6, <2>2 DEF UnmovedListed
    <2> QED BY <1>1, <1>4, <2>3, <2>4 DEF UnmovedListed
  <1> QED BY <1>5, <1>6

\* A listing begins with nothing listed and the streams that are absent
\* (main.rs collect).
LEMMA ConnectStep ==
  ASSUME ListingInvariant, Connect
  PROVE  ListingInvariant'
  <1> USE DEF ListingInvariant
  <1>1. UNCHANGED <<inventory, events, current>> /\ phase = "sleep" /\ snap = Unavailable
    BY DEF Connect, cluster, UnmovedListed
  <1>2. CASE client \/ reachable
    <2>1. /\ phase' = "list" /\ changed' = {} /\ UNCHANGED <<snap, items>>
          /\ absent' = {r \in Resources : ~Alive(r)}
      BY <1>2 DEF Connect
    <2>2. ListingType' /\ items = <<>> /\ items' = <<>>
      BY <1>1, <2>1 DEF ListingType, UnmovedListed
    <2>3. \A j \in DOMAIN Order : ~Cause(Order[j])' => j \in Positions'
      BY <1>1, <2>1 DEF Cause, Positions, Alive, Resources, ToSet
    <2>4. Positions' = Positions /\ \A j : UpTo(j)' = UpTo(j)
      BY <1>1 DEF UpTo, Positions, Alive
    <2>5. \A j \in Positions' : ~(Cardinality(UpTo(j))' <= Len(items)')
      BY <2>2, <2>4, RankGrows, FinitePositions
    <2>6. Cap \in Nat /\ Len(items)' = 0 /\ Total' = Total /\ Total \in Nat
      BY <2>2, <2>4, FinitePositions, ObservationAssumption DEF Total
    <2>7. UnmovedListed'
      BY <1>1, <2>1, <2>2, <2>3, <2>5, <2>6 DEF UnmovedListed, Unavailable
    <2>8. UnchangedListed'
      BY <2>6 DEF UnchangedListed
    <2> QED BY <2>2, <2>7, <2>8
  <1>3. CASE ~(client \/ reachable)
    <2>1. snap' = Unavailable /\ items' = <<>> /\ phase' = "observed"
      BY <1>3 DEF Connect, Observed, Unavailable
    <2>2. ListingType'
      BY <1>1, <2>1 DEF ListingType, Unavailable, Statuses
    <2> QED BY <2>1, <2>2 DEF UnmovedListed, UnchangedListed, Unavailable
  <1> QED BY <1>2, <1>3

\* A page goes on with the listing or ends it (telemetry.rs list).
LEMMA ListPageStep ==
  ASSUME ListingInvariant, ListPage
  PROVE  ListingInvariant'
  <1> USE DEF ListingInvariant
  <1>1. PICK list :
           /\ Faithful(list)
           /\ \/ items' = list /\ UNCHANGED <<phase, snap>>
              \/ /\ phase' = "observed" /\ items' = <<>>
                 /\ \E status \in {"complete", "partial"} :
                       /\ snap' = [status |-> status, seen |-> list]
                       /\ status = "complete" => Total <= Len(list)
    BY ListPageOutcome
  <1>2. phase = "list" /\ UNCHANGED <<inventory, events, current, history>>
    BY DEF ListPage, cluster
  <1>3. Positions' = Positions /\ Total' = Total /\ \A k : Listed(k)' = Listed(k)
    BY <1>2 DEF Positions, Alive, Listed, Total
  <1>4. \A j : UpTo(j)' = UpTo(j)
    BY <1>3 DEF UpTo
  <1>5. \A r : Cause(r)' = Cause(r) /\ Row(r)' = Row(r)
    BY <1>2 DEF Cause, Row, history
  <1>6. CASE items' = list /\ UNCHANGED <<phase, snap>>
    <2>1. ListingType'
      BY <1>1, <1>2, <1>6 DEF ListingType, Faithful
    <2>2. UnmovedListed'
      BY <1>1, <1>2, <1>3, <1>4, <1>5, <1>6 DEF UnmovedListed, Faithful
    <2>3. UnchangedListed'
      BY <1>1, <1>2, <1>3, <1>5, <1>6 DEF UnchangedListed, Faithful, history
    <2> QED BY <2>1, <2>2, <2>3
  <1>7. ASSUME phase' = "observed", items' = <<>>,
               NEW status \in {"complete", "partial"},
               snap' = [status |-> status, seen |-> list],
               status = "complete" => Total <= Len(list)
        PROVE  ListingInvariant'
    <2>1. ListingType'
      BY <1>1, <1>2, <1>7 DEF ListingType, Faithful, Statuses
    <2>2. ASSUME status = "complete", NEW j \in DOMAIN Order, ~Cause(Order[j])
          PROVE  Order[j] \in Names(list)
      <3>1. j \in Positions /\ Cardinality(UpTo(j)) \in 1 .. Total
        BY <1>1, <2>2, RankGrows DEF Faithful
      <3>2. Total \in Nat /\ Len(list) \in Nat /\ DOMAIN list = 1 .. Len(list)
        BY <1>1, FinitePositions DEF Faithful
      <3>3. Cardinality(UpTo(j)) \in DOMAIN list
        BY <1>7, <2>2, <3>1, <3>2
      <3>4. list[Cardinality(UpTo(j))].name = Order[j]
        BY <1>1, <2>2, <3>2, <3>3 DEF Faithful
      <3> QED BY <3>3, <3>4 DEF Names
    <2>3. UnmovedListed'
      BY <1>5, <1>7, <2>2 DEF UnmovedListed, Names
    <2> QED BY <1>7, <2>1, <2>3 DEF UnchangedListed
  <1> QED BY <1>1, <1>6, <1>7

\* The steps of the collector that list nothing keep the observation, or drop
\* it, and the other tasks touch neither (main.rs collect).
LEMMA ListingNext ==
  ASSUME ListingInvariant, [Next]_vars
  PROVE  ListingInvariant'
  <1> USE DEF ListingInvariant
  <1>1. CASE \E r \in Resources : Create(r) \/ Delete(r) \/ Alter(r)
    BY <1>1, StreamStep
  <1>2. CASE Connect
    BY <1>2, ConnectStep
  <1>3. CASE ListPage
    BY <1>3, ListPageStep
  <1>4. CASE UNCHANGED <<inventory, items, phase, snap, current, absent, changed>>
             /\ events' \in Nat
    BY <1>4, ListingKept DEF ListingType
  <1>5. CASE UNCHANGED vars
    BY <1>4, <1>5 DEF vars, collector, cluster, history, ListingType
  <1>6. CASE Outage \/ Recovery \/ Node \/ NodeBack \/ MonitorCollect
    BY <1>4, <1>6 DEF Outage, Recovery, Node, NodeBack, MonitorCollect, Disturb,
                      ListingType, collector, cluster, history
  <1>7. CASE \E t \in Tabs : \/ snapshot(t) \/ CacheWrite(t)
                            \/ \E s \in Settings : save_settings(t, s)
    BY <1>4, <1>7 DEF snapshot, CacheWrite, save_settings, Disturb, ListingType,
                      collector, cluster, history
  <1>8. CASE \/ Subscribe \/ SubscriptionEnds
             \/ \E kind \in {"audit", "large", "advisory"}, elapsed \in BOOLEAN :
                    Advisory(kind, elapsed)
    BY <1>4, <1>8 DEF Subscribe, SubscriptionEnds, Advisory, Disturb, ListingType,
                      collector, cluster, history
  <1>9. ASSUME UNCHANGED <<inventory, absent, changed>>, items' = <<>>,
               phase' # "list", ListingType', snap'.status # "complete",
               phase' = "sleep" => snap' = Unavailable
        PROVE  ListingInvariant'
    BY <1>9 DEF UnmovedListed, UnchangedListed
  <1>10. CASE ListFails
    <2>1. /\ UNCHANGED <<inventory, current, absent, changed>> /\ items' = <<>>
          /\ phase' = "observed" /\ snap' = Unavailable /\ events' \in Nat
      BY <1>10 DEF ListFails, Observed, Unavailable, Disturb, ListingType, cluster,
                   history
    <2>2. ListingType'
      BY <2>1 DEF ListingType, Unavailable, Statuses
    <2> QED BY <2>1, <2>2, <1>9 DEF Unavailable
  <1>11. CASE ConsumersFail
    <2>1. /\ UNCHANGED <<inventory, items, phase, current, absent, changed>>
          /\ phase = "observed" /\ snap' = [snap EXCEPT !.status = "partial"]
          /\ events' \in Nat
      BY <1>11 DEF ConsumersFail, Disturb, ListingType, cluster, history
    <2>2. ListingType' /\ snap'.status = "partial"
      BY <2>1 DEF ListingType, Statuses
    <2>3. items = <<>>
      BY <2>1 DEF UnmovedListed
    <2> QED BY <2>1, <2>2, <2>3, <1>9
  <1>12. CASE ReadSettings \/ Compare
    <2>1. /\ UNCHANGED <<inventory, items, snap, current, absent, changed>>
          /\ phase \in {"observed", "read"} /\ phase' \in {"read", "compared"}
          /\ events' \in Nat
      BY <1>12 DEF ReadSettings, Compare, Fault, Disturb, ListingType, cluster,
                   history
    <2>2. ListingType'
      BY <2>1 DEF ListingType
    <2>3. \A r : Cause(r)' = Cause(r)
      BY <2>1 DEF Cause
    <2> QED BY <2>1, <2>2, <2>3 DEF UnmovedListed, UnchangedListed
  <1>13. CASE Publish
    <2>1. /\ UNCHANGED <<inventory, items, absent, changed, events>>
          /\ phase = "compared" /\ phase' = "sleep"
          /\ current' = snap /\ snap' = Unavailable
      BY <1>13 DEF Publish, cluster, history
    <2>2. ListingType' /\ items = <<>>
      BY <2>1 DEF ListingType, UnmovedListed, Unavailable, Statuses
    <2> QED BY <2>1, <2>2, <1>9 DEF Unavailable
  <1>14. CASE Restart
    <2>1. /\ UNCHANGED <<inventory, absent, changed>> /\ events' \in Nat
          /\ phase' = "sleep" /\ items' = <<>> /\ snap' = Unavailable
          /\ current' = Unavailable
      BY <1>14 DEF Restart, Fresh, Disturb, ListingType, cluster, history
    <2>2. ListingType'
      BY <2>1 DEF ListingType, Unavailable, Statuses
    <2> QED BY <2>1, <2>2, <1>9 DEF Unavailable
  <1> QED BY <1>1, <1>2, <1>3, <1>5, <1>6, <1>7, <1>8, <1>10, <1>11, <1>12, <1>13,
             <1>14 DEF Next, Collect

\* Both observations that are compared are complete, so a stream that only the
\* new one leaves out moved or was absent (incidents.rs changes).
LEMMA ComparedAbsence ==
  ASSUME ListingInvariant, NEW e \in changes, e.kind = "not-observed"
  PROVE  e.about[2]
  <1>1. e \notin NodeChanges(previous_nodes, monitoring)
    BY DEF NodeChanges, Incident
  <1>2. snap.status = "complete" /\ e \in Differences(current.seen, snap.seen)
    BY <1>1 DEF changes, ResourceChanges
  <1>3. PICK name \in Names(current.seen) \ Names(snap.seen) :
            e = Incident("not-observed", <<name, Cause(name)>>)
    BY <1>2 DEF Differences, Incident
  <1>4. PICK k \in DOMAIN current.seen : name = current.seen[k].name
    BY <1>3 DEF Names
  <1>5. current.seen[k] \in Rows
    BY <1>4 DEF ListingInvariant, ListingType
  <1>6. name \in Resources
    BY <1>4, <1>5 DEF Rows
  <1>7. PICK j \in DOMAIN Order : Order[j] = name
    BY <1>6 DEF Resources, ToSet
  <1>8. Cause(name)
    BY <1>2, <1>3, <1>7 DEF ListingInvariant, UnmovedListed
  <1> QED BY <1>3, <1>8 DEF Incident

\* No "not-observed" incident without a cause in the broker, for any streams,
\* page size and cap, whatever comes and goes between two pages (incidents.rs
\* changes, telemetry.rs list).
THEOREM AbsencesHaveCauses == Spec => []AbsenceHasCause
  <1>1. Init => ListingInvariant /\ AbsenceHasCause
    BY ListingInit DEF Init, AbsenceHasCause
  <1>2. ListingInvariant /\ AbsenceHasCause /\ [Next]_vars => AbsenceHasCause'
    <2> SUFFICES ASSUME ListingInvariant, AbsenceHasCause, [Next]_vars
                 PROVE  AbsenceHasCause'
      OBVIOUS
    <2>1. CASE Compare
      <3>1. (log \cup lost)' \subseteq log \cup lost \cup changes
        BY <2>1 DEF Compare
      <3>2. \A r : Cause(r)' = Cause(r)
        BY <2>1 DEF Compare, Cause, history
      <3> QED BY <3>1, <3>2, ComparedAbsence DEF AbsenceHasCause
    <2>2. ~Compare => UNCHANGED <<log, lost>>
      <3>1. Collect /\ ~Compare => UNCHANGED <<log, lost>>
        BY DEF Collect, Connect, ListPage, ListFails, ConsumersFail, ReadSettings,
               Publish, store
      <3>2. (\E r \in Resources : Create(r) \/ Delete(r) \/ Alter(r))
               => UNCHANGED <<log, lost>>
        BY DEF Create, Delete, Alter, store
      <3>3. Outage \/ Recovery \/ Node \/ NodeBack \/ MonitorCollect \/ Restart
               => UNCHANGED <<log, lost>>
        BY DEF Outage, Recovery, Node, NodeBack, MonitorCollect, Restart, store
      <3>4. (\E t \in Tabs : \/ snapshot(t) \/ CacheWrite(t)
                             \/ \E s \in Settings : save_settings(t, s))
               => UNCHANGED <<log, lost>>
        BY DEF snapshot, CacheWrite, save_settings, store
      <3>5. (\/ Subscribe \/ SubscriptionEnds
             \/ \E kind \in {"audit", "large", "advisory"}, elapsed \in BOOLEAN :
                    Advisory(kind, elapsed))
               => UNCHANGED <<log, lost>>
        BY DEF Subscribe, SubscriptionEnds, Advisory, store
      <3>6. UNCHANGED vars => UNCHANGED <<log, lost>>
        BY DEF vars, store
      <3> QED BY <3>1, <3>2, <3>3, <3>4, <3>5, <3>6 DEF Next
    <2> QED BY <2>1, <2>2 DEF AbsenceHasCause
  <1> QED BY <1>1, <1>2, ListingNext, PTL DEF Spec

\* A list of an unchanged inventory that has as many streams as the broker is
\* that inventory (telemetry.rs list).
LEMMA FaithfulExact ==
  ASSUME ListingInvariant, NEW list, Faithful(list), changed = {},
         Total <= Len(list)
  PROVE  /\ ToSet(list) = {Row(r) : r \in {r \in Resources : Alive(r)}}
         /\ IsInjective(list)
  <1>1. /\ Total \in Nat /\ Len(list) = Total /\ DOMAIN list = 1 .. Total
        /\ \A k \in 1 .. Total : list[k] = Row(Listed(k))
    BY FinitePositions DEF Faithful
  <1>2. \A j \in Positions : Order[j] \in Resources /\ Alive(Order[j])
    BY DEF Positions, Resources, ToSet
  <1>3. ASSUME NEW k \in DOMAIN list
        PROVE  \E r \in Resources : Alive(r) /\ list[k] = Row(r)
    <2>1. PICK j \in Positions : Listed(k) = Order[j]
      BY <1>1, ListedAt
    <2> QED BY <1>1, <1>2, <2>1
  <1>4. ASSUME NEW r \in Resources, Alive(r)
        PROVE  \E k \in DOMAIN list : list[k] = Row(r)
    <2>1. PICK j \in Positions : Order[j] = r
      BY <1>4 DEF Resources, ToSet, Positions
    <2>2. Cardinality(UpTo(j)) \in 1 .. Total /\ Listed(Cardinality(UpTo(j))) = r
      BY <2>1, RankGrows, ListedAt
    <2> QED BY <1>1, <2>2
  <1>5. ASSUME NEW a \in DOMAIN list, NEW b \in DOMAIN list, list[a] = list[b]
        PROVE  a = b
    <2>1. Listed(a) = Listed(b)
      BY <1>1, <1>5 DEF Row
    <2>2. PICK i \in Positions : Cardinality(UpTo(i)) = a /\ Listed(a) = Order[i]
      BY <1>1, ListedAt
    <2>3. PICK j \in Positions : Cardinality(UpTo(j)) = b /\ Listed(b) = Order[j]
      BY <1>1, ListedAt
    <2>4. i = j
      BY <2>1, <2>2, <2>3, ObservationAssumption DEF IsInjective, Positions
    <2> QED BY <2>2, <2>3, <2>4
  <1> QED BY <1>3, <1>4, <1>5 DEF ToSet, IsInjective

\* A complete observation of an inventory that did not change while its pages
\* were read is that inventory, each stream once, for any page size and cap
\* (telemetry.rs list).
THEOREM InventoriesAreExact == Spec => InventoryExact
  <1>1. ListingInvariant /\ [Next]_vars =>
            [phase = "list" /\ phase' = "observed" /\ snap'.status = "complete"
               /\ changed = {} =>
                 /\ ToSet(snap'.seen) = {Row(r) : r \in {r \in Resources : Alive(r)}}
                 /\ IsInjective(snap'.seen)]_vars
    <2> SUFFICES ASSUME ListingInvariant, Next, phase = "list",
                        phase' = "observed", snap'.status = "complete", changed = {}
                 PROVE  /\ ToSet(snap'.seen)
                              = {Row(r) : r \in {r \in Resources : Alive(r)}}
                        /\ IsInjective(snap'.seen)
      OBVIOUS
    <2>1. ListPage
      <3>1. ~Connect /\ ~ListFails /\ ~ConsumersFail /\ ~ReadSettings /\ ~Compare
              /\ ~Publish /\ ~Restart
        BY DEF Connect, ListFails, ConsumersFail, ReadSettings, Compare, Publish,
               Restart, Fresh, Observed
      <3>2. (\E r \in Resources : Create(r) \/ Delete(r) \/ Alter(r)) => FALSE
        BY DEF Create, Delete, Alter, collector
      <3>3. ~(Outage \/ Recovery \/ Node \/ NodeBack \/ MonitorCollect)
        BY DEF Outage, Recovery, Node, NodeBack, MonitorCollect, collector
      <3>4. (\E t \in Tabs : \/ snapshot(t) \/ CacheWrite(t)
                             \/ \E s \in Settings : save_settings(t, s)) => FALSE
        BY DEF snapshot, CacheWrite, save_settings, collector
      <3>5. ~(\/ Subscribe \/ SubscriptionEnds
              \/ \E kind \in {"audit", "large", "advisory"}, elapsed \in BOOLEAN :
                     Advisory(kind, elapsed))
        BY DEF Subscribe, SubscriptionEnds, Advisory, collector
      <3> QED BY <3>1, <3>2, <3>3, <3>4, <3>5 DEF Next, Collect
    <2>2. PICK list : Faithful(list) /\ Total <= Len(list) /\ snap'.seen = list
      BY <2>1, ListPageOutcome
    <2> QED BY <2>2, FaithfulExact
  <1> QED BY <1>1, ListingInit, ListingNext, PTL DEF Spec, InventoryExact
=============================================================================
