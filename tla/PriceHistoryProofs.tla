------------------------- MODULE PriceHistoryProofs -------------------------
(***************************************************************************)
(* Proofs about the two tables a scrape run updates row by row: the price  *)
(* history (PriceHistory) for any keys, durations, prices, threshold and   *)
(* number of runs, and the categories with their codes (CategoryCatalog)   *)
(* for any groups, attributes, codes and number of runs.                   *)
(***************************************************************************)
EXTENDS PriceHistory, CategoryCatalog, TLAPS

-----------------------------------------------------------------------------
(* Rounding a quotient to whole cents. *)

\* The stored price per day is the integer nearest to total / days.
LEMMA PerDayNearest ==
    ASSUME NEW t \in Nat, NEW d \in Nat \ {0}
    PROVE  /\ PerDay(t, d) \in Nat
           /\ 2 * d * PerDay(t, d) <= 2 * t + d
           /\ 2 * t + d < 2 * d * PerDay(t, d) + 2 * d
<1> DEFINE a == 2 * t + d
           n == 2 * d
<1>1. a \in Nat /\ n \in Nat \ {0}
  OBVIOUS
<1> HIDE DEF a, n
<1>2. a \div n \in Nat /\ n * (a \div n) <= a /\ a < n * (a \div n) + n
  BY <1>1
<1>3. QED
  BY <1>1, <1>2 DEF PerDay, a, n

\* Division of an inequality by a positive number.
LEMMA CancelFactor ==
    ASSUME NEW x \in Int, NEW y \in Int, NEW d \in Nat \ {0}, d * x < d * y
    PROVE  x < y
<1>1. CASE x >= y
  <2>1. x - y \in Nat
    BY <1>1
  <2>2. d * (x - y) >= 0
    BY <2>1
  <2>3. d * (x - y) = d * x - d * y
    OBVIOUS
  <2> QED BY <2>2, <2>3
<1> QED BY <1>1

\* Rounding never leaves an interval with whole ends: a quotient within m of
\* the heartbeat is stored as a price within m of it.
LEMMA PerDayWithin ==
    ASSUME NEW t \in Nat, NEW d \in Nat \ {0}, NEW b \in Int, NEW m \in Nat,
           t - b * d <= m * d, b * d - t <= m * d
    PROVE  PerDay(t, d) - b <= m /\ b - PerDay(t, d) <= m
<1> DEFINE q == PerDay(t, d)
<1>1. q \in Nat /\ 2 * d * q <= 2 * t + d /\ 2 * t + d < 2 * d * q + 2 * d
  BY PerDayNearest
<1> HIDE DEF q
<1>2. t <= d * (b + m) /\ d * (b - m) <= t
  <2>1. d * (b + m) = b * d + m * d /\ d * (b - m) = b * d - m * d
    OBVIOUS
  <2> QED BY <2>1
<1>3. q - b <= m
  <2>1. d * (2 * q) < d * (2 * (b + m) + 2)
    <3>1. /\ d * (2 * q) = 2 * d * q
          /\ d * (2 * (b + m) + 2) = 2 * (d * (b + m)) + 2 * d
      BY <1>1
    <3> QED BY <1>1, <1>2, <3>1
  <2>2. 2 * q < 2 * (b + m) + 2
    BY <2>1, <1>1, CancelFactor
  <2> QED BY <2>2, <1>1
<1>4. b - q <= m
  <2>1. d * (2 * (b - m)) < d * (2 * q + 2)
    <3>1. /\ d * (2 * q + 2) = 2 * d * q + 2 * d
          /\ d * (2 * (b - m)) = 2 * (d * (b - m))
      BY <1>1
    <3> QED BY <1>1, <1>2, <3>1
  <2>2. 2 * (b - m) < 2 * q + 2
    BY <2>1, <1>1, CancelFactor
  <2> QED BY <2>2, <1>1
<1> QED BY <1>3, <1>4 DEF q

-----------------------------------------------------------------------------
(* One insert_if_changed on one key. *)

CellOK(cell) == (cell.beat = Absent <=> cell.rows = << >>) /\ DriftWithin(cell)

\* Storing a price keeps the shape of a cell.
LEMMA StoreType ==
    ASSUME NEW c \in Cell, NEW t \in Nat, NEW d \in Nat \ {0}, NEW at \in Nat
    PROVE  Store(c, t, d, at) \in Cell
<1>1. PerDay(t, d) \in Nat
  BY PerDayNearest
<1>2. [price |-> PerDay(t, d), at |-> at] \in Row
  BY <1>1 DEF Row
<1>3. Append(c.rows, [price |-> PerDay(t, d), at |-> at]) \in Seq(Row)
  BY <1>2 DEF Cell
<1> QED BY <1>1, <1>3 DEF Store, Cell

\* Storing a price that is not published leaves it within the threshold of
\* the heartbeat it replaces.
LEMMA UnchangedIsNear ==
    ASSUME NEW c \in Cell, NEW t \in Nat, NEW d \in Nat \ {0}, ~Changed(c, t, d)
    PROVE  c.beat \in Nat /\ Within(PerDay(t, d), c.beat, Threshold)
<1>1. c.beat \in Nat
  BY DEF Changed, Cell, Absent
<1> DEFINE b == c.beat
<1>2. t - b * d <= Threshold * d /\ b * d - t <= Threshold * d
  <2>1. b * d \in Int /\ Threshold * d \in Int
    BY <1>1, PricesAssumption
  <2> QED BY <2>1 DEF Changed
<1>3. PerDay(t, d) - b <= Threshold /\ b - PerDay(t, d) <= Threshold
  <2>1. b \in Int /\ Threshold \in Nat
    BY <1>1, PricesAssumption
  <2> HIDE DEF b
  <2> QED BY <1>2, <2>1, PerDayWithin
<1> QED BY <1>1, <1>3 DEF Within

\* Storing a price keeps heartbeat and rows together, and lets the newest row
\* fall behind by at most one threshold more.
LEMMA StoreKeepsCellOK ==
    ASSUME NEW c \in Cell, NEW t \in Nat, NEW d \in Nat \ {0}, NEW at \in Nat, CellOK(c)
    PROVE  CellOK(Store(c, t, d, at))
<1> DEFINE p == PerDay(t, d)
           s == Store(c, t, d, at)
<1>1. p \in Nat
  BY PerDayNearest
<1> HIDE DEF p
<1>2. CASE Changed(c, t, d)
  <2> DEFINE r == [price |-> p, at |-> at]
  <2>1. s = [rows |-> Append(c.rows, r), beat |-> p, skips |-> 0]
    BY <1>2 DEF Store, p
  <2>2. r \in Row /\ c.rows \in Seq(Row)
    BY <1>1 DEF Row, Cell
  <2>3. Append(c.rows, r) # << >> /\ Append(c.rows, r)[Len(Append(c.rows, r))] = r
    BY <2>2
  <2> HIDE DEF r, s
  <2>4. s.beat # Absent /\ s.rows # << >>
    BY <2>1, <2>3, <1>1 DEF Absent
  <2>5. LastPrice(s) = p
    BY <2>1, <2>3 DEF LastPrice, r
  <2>6. Within(LastPrice(s), s.beat, Threshold * s.skips)
    BY <2>1, <2>5, <1>1, PricesAssumption DEF Within
  <2> QED BY <2>4, <2>6 DEF CellOK, DriftWithin, s
<1>3. CASE ~Changed(c, t, d)
  <2>1. c.beat \in Nat /\ Within(p, c.beat, Threshold)
    BY <1>3, UnchangedIsNear DEF p
  <2>2. /\ s.rows = c.rows
        /\ s.beat = p
        /\ s.skips = c.skips + 1
    BY <1>3 DEF Store, p, Cell
  <2>3. c.rows # << >>
    BY <2>1 DEF CellOK, Absent
  <2>4. Within(LastPrice(c), c.beat, Threshold * c.skips)
    BY <2>3 DEF CellOK, DriftWithin
  <2>5. LastPrice(c) \in Nat
    <3>1. Len(c.rows) \in DOMAIN c.rows
      BY <2>3 DEF Cell
    <3>2. c.rows[Len(c.rows)] \in Row
      BY <3>1 DEF Cell
    <3> QED BY <3>2 DEF LastPrice, Row
  <2>6. Threshold * (c.skips + 1) = Threshold * c.skips + Threshold
    BY PricesAssumption DEF Cell
  <2>7. LastPrice(s) = LastPrice(c)
    BY <2>2 DEF LastPrice
  <2> HIDE DEF s
  <2>8. Threshold * c.skips \in Nat /\ Threshold \in Nat
    BY PricesAssumption DEF Cell
  <2>9. Within(LastPrice(s), s.beat, Threshold * s.skips)
    BY <1>1, <2>1, <2>2, <2>4, <2>5, <2>6, <2>7, <2>8 DEF Within
  <2> QED BY <1>1, <2>2, <2>3, <2>9 DEF CellOK, DriftWithin, Absent, s
<1> QED BY <1>2, <1>3

-----------------------------------------------------------------------------
(* Type correctness. *)

\* Every reachable state has the shape of the tables.
THEOREM TypeCorrect == Spec => []TypeOK
<1>0. MaxListings \in Nat /\ [k \in Keys |-> 0] \in [Keys -> 0 .. MaxListings]
  BY PagesAssumption
<1>1. Init => TypeOK
  BY <1>0 DEF Init, TypeOK, NewCell, Cell
<1>2. TypeOK /\ [Next]_vars => TypeOK'
  <2> SUFFICES ASSUME TypeOK, [Next]_vars PROVE TypeOK'
    OBVIOUS
  <2> USE DEF TypeOK
  <2>1. CASE Begin
    BY <1>0, <2>1 DEF Begin
  <2>2. ASSUME NEW k \in Keys, NEW total \in Totals, InsertIfChanged(k, total)
        PROVE  TypeOK'
    <3>1. Store(staged[k], total, Days[k], run) \in Cell
      BY StoreType, KeysAssumption, PricesAssumption
    <3>2. written' \in [Keys -> 0 .. MaxListings]
      <4>1. written[k] \in 0 .. MaxListings /\ written[k] < MaxListings
        BY <2>2 DEF InsertIfChanged
      <4>2. written[k] + 1 \in 0 .. MaxListings
        BY <1>0, <4>1
      <4> QED BY <2>2, <4>2 DEF InsertIfChanged
    <3>3. staged' \in [Keys -> Cell]
      BY <2>2, <3>1 DEF InsertIfChanged
    <3> QED BY <2>2, <3>2, <3>3 DEF InsertIfChanged
  <2>3. CASE Commit
    BY <1>0, <2>3 DEF Commit
  <2>4. CASE Rollback
    BY <1>0, <2>4 DEF Rollback
  <2>5. CASE UNCHANGED vars
    BY <2>5 DEF vars
  <2>6. CASE Finished
    BY <2>6 DEF Finished, vars
  <2> QED BY <2>1, <2>2, <2>3, <2>4, <2>5, <2>6 DEF Next
<1> QED BY <1>1, <1>2, PTL DEF Spec

-----------------------------------------------------------------------------
(* Heartbeats have rows, and drift is bounded. *)

CellsOK == \A k \in Keys : CellOK(committed[k]) /\ CellOK(staged[k])

LEMMA CellsInvariant == Spec => []CellsOK
<1>1. Init => CellsOK
  <2>1. NewCell.rows = << >> /\ NewCell.beat = Absent
    BY DEF NewCell
  <2>2. CellOK(NewCell)
    BY <2>1 DEF CellOK, DriftWithin
  <2> QED BY <2>2 DEF Init, CellsOK
<1>2. TypeOK /\ CellsOK /\ [Next]_vars => CellsOK'
  <2> SUFFICES ASSUME TypeOK, CellsOK, [Next]_vars PROVE CellsOK'
    OBVIOUS
  <2> USE DEF CellsOK
  <2>1. CASE Begin
    BY <2>1 DEF Begin
  <2>2. ASSUME NEW k \in Keys, NEW total \in Totals, InsertIfChanged(k, total)
        PROVE  CellsOK'
    <3>1. CellOK(Store(staged[k], total, Days[k], run))
      BY StoreKeepsCellOK, KeysAssumption, PricesAssumption DEF TypeOK
    <3>2. /\ committed' = committed
          /\ staged' = [staged EXCEPT ![k] = Store(staged[k], total, Days[k], run)]
      BY <2>2 DEF InsertIfChanged
    <3>3. ASSUME NEW j \in Keys PROVE CellOK(staged'[j])
      BY <3>1, <3>2 DEF TypeOK
    <3> QED BY <3>2, <3>3
  <2>3. CASE Commit
    BY <2>3 DEF Commit
  <2>4. CASE Rollback
    BY <2>4 DEF Rollback
  <2>5. CASE UNCHANGED vars
    BY <2>5 DEF vars
  <2>6. CASE Finished
    BY <2>6 DEF Finished, vars
  <2> QED BY <2>1, <2>2, <2>3, <2>4, <2>5, <2>6 DEF Next
<1> QED BY <1>1, <1>2, TypeCorrect, PTL DEF Spec

\* A committed heartbeat always has a published row behind it, whatever runs
\* failed in between.
THEOREM HeartbeatHasRowTheorem == Spec => []HeartbeatHasRow
<1>1. CellsOK => HeartbeatHasRow
  BY DEF CellsOK, CellOK, HeartbeatHasRow
<1> QED BY <1>1, CellsInvariant, PTL

\* The newest row of a key is never further from the last scraped price than
\* one threshold per scrape since that row.
THEOREM DriftBoundedTheorem == Spec => []DriftBounded
<1>1. CellsOK => DriftBounded
  BY DEF CellsOK, CellOK, DriftBounded
<1> QED BY <1>1, CellsInvariant, PTL

-----------------------------------------------------------------------------
(* A run publishes all its prices in one step, however often a page lists a  *)
(* group: what the listings of one run do to a key adds up.                  *)

Far(n) == n * Threshold

\* What n listings of one run made of a key: c is committed, s is staged.
Grown(c, s, n) ==
    /\ s.beat # Absent
    /\ Feed!Extends(s.rows, c.rows, run)
    /\ Len(s.rows) <= Len(c.rows) + n
    /\ IF s.rows = c.rows
       THEN c.beat # Absent /\ Within(s.beat, c.beat, Far(n))
       ELSE s.rows # << >> /\ Within(LastPrice(s), s.beat, Far(n - 1))

KeyInBatch(k) ==
    IF written[k] = 0 THEN staged[k] = committed[k]
                      ELSE Grown(committed[k], staged[k], written[k])

BatchInv == writer = "persisting" => \A k \in Keys : KeyInBatch(k)

\* Thresholds add up.
LEMMA FarAddsUp ==
    ASSUME NEW n \in Nat
    PROVE  /\ Far(n) \in Nat
           /\ Far(n + 1) = Far(n) + Threshold
           /\ \A m \in Nat : n <= m => Far(n) <= Far(m)
<1>1. Threshold \in Nat
  BY PricesAssumption
<1>2. Far(n) \in Nat /\ Far(n + 1) = Far(n) + Threshold
  BY <1>1 DEF Far
<1>3. ASSUME NEW m \in Nat, n <= m PROVE Far(n) <= Far(m)
  <2>1. m - n \in Nat
    BY <1>3
  <2>2. (m - n) * Threshold \in Nat
    BY <2>1, <1>1
  <2>3. m * Threshold = n * Threshold + (m - n) * Threshold
    BY <1>1
  <2>4. n * Threshold \in Nat
    BY <1>1
  <2> QED BY <2>2, <2>3, <2>4 DEF Far
<1> QED BY <1>2, <1>3

\* The rows of a cell are a sequence, and its last row has a price.
LEMMA RowsOfCell ==
    ASSUME NEW c \in Cell
    PROVE  /\ c.rows \in Seq(Row) /\ Len(c.rows) \in Nat
           /\ DOMAIN c.rows = 1 .. Len(c.rows)
           /\ c.beat \in Nat \cup {Absent}
           /\ c.rows # << >> => LastPrice(c) \in Nat
<1>1. c.rows \in Seq(Row) /\ Len(c.rows) \in Nat /\ DOMAIN c.rows = 1 .. Len(c.rows)
  BY DEF Cell
<1>2. ASSUME c.rows # << >> PROVE LastPrice(c) \in Nat
  <2>1. Len(c.rows) \in DOMAIN c.rows
    BY <1>1, <1>2
  <2>2. c.rows[Len(c.rows)] \in Row
    BY <1>1, <2>1
  <2> QED BY <2>2 DEF LastPrice, Row
<1> QED BY <1>1, <1>2 DEF Cell

\* One listing more makes room for one row more.
LEMMA OneMore ==
    ASSUME NEW a \in Nat, NEW b \in Nat, NEW n \in Nat, a <= b + n
    PROVE  a <= b + (n + 1) /\ a + 1 <= b + (n + 1)
OBVIOUS

\* A listing that is published adds one row, with its price.
LEMMA PublishedListing ==
    ASSUME NEW c \in Cell, NEW s \in Cell, NEW n \in Nat, run \in Nat,
           NEW t \in Nat, NEW d \in Nat \ {0}, Changed(s, t, d),
           IF n = 0 THEN s = c ELSE Grown(c, s, n)
    PROVE  Grown(c, Store(s, t, d, run), n + 1)
<1> DEFINE p == PerDay(t, d)
           r == [price |-> p, at |-> run]
           u == Store(s, t, d, run)
<1>1. p \in Nat
  BY PerDayNearest
<1>2. r \in Row /\ r.price = p /\ r.at = run
  BY <1>1 DEF Row
<1>3. u.rows = Append(s.rows, r) /\ u.beat = p
  BY DEF Store
<1> HIDE DEF r, p, u
<1>4. /\ c.rows \in Seq(Row) /\ s.rows \in Seq(Row)
      /\ Len(c.rows) \in Nat /\ Len(s.rows) \in Nat
  BY RowsOfCell
<1>5. /\ Len(u.rows) = Len(s.rows) + 1
      /\ u.rows[Len(s.rows) + 1] = r
      /\ \A i \in 1 .. Len(s.rows) : u.rows[i] = s.rows[i]
  BY <1>2, <1>3, <1>4
<1>6. /\ Feed!Extends(s.rows, c.rows, run)
      /\ Len(s.rows) <= Len(c.rows) + n
  <2>1. CASE n = 0
    BY <2>1, <1>4 DEF Feed!Extends
  <2>2. CASE n # 0
    BY <2>2 DEF Grown
  <2> QED BY <2>1, <2>2
<1>7. /\ Feed!Extends(u.rows, c.rows, run)
      /\ Len(u.rows) <= Len(c.rows) + (n + 1)
      /\ Len(u.rows) # Len(c.rows)
  <2>1. Len(u.rows) \in Nat /\ Len(u.rows) > Len(c.rows)
    BY <1>4, <1>5, <1>6 DEF Feed!Extends
  <2>2. ASSUME NEW i \in 1 .. Len(c.rows) PROVE u.rows[i] = c.rows[i]
    <3>1. i \in 1 .. Len(s.rows)
      BY <1>4, <1>6 DEF Feed!Extends
    <3> QED BY <3>1, <1>5, <1>6 DEF Feed!Extends
  <2>3. ASSUME NEW i \in Len(c.rows) + 1 .. Len(u.rows) PROVE u.rows[i].at = run
    <3>1. CASE i = Len(s.rows) + 1
      BY <3>1, <1>2, <1>5
    <3>2. CASE i # Len(s.rows) + 1
      <4>1. i \in 1 .. Len(s.rows) /\ i \in Len(c.rows) + 1 .. Len(s.rows)
        BY <3>2, <1>4, <1>5
      <4> QED BY <4>1, <1>5, <1>6 DEF Feed!Extends
    <3> QED BY <3>1, <3>2
  <2>4. Len(u.rows) <= Len(c.rows) + (n + 1)
    <3>1. Len(s.rows) <= Len(c.rows) + n
      BY <1>6
    <3>2. Len(u.rows) = Len(s.rows) + 1
      BY <1>5
    <3> QED BY <1>4, <3>1, <3>2, OneMore
  <2>5. Feed!Extends(u.rows, c.rows, run)
    BY <1>4, <2>1, <2>2, <2>3 DEF Feed!Extends
  <2>6. Len(u.rows) # Len(c.rows)
    BY <1>4, <2>1
  <2> QED BY <2>4, <2>5, <2>6
<1>8. u.rows # << >> /\ LastPrice(u) = p
  BY <1>2, <1>4, <1>5 DEF LastPrice
<1>9. Within(p, p, Far(n))
  BY <1>1, FarAddsUp DEF Within
<1>10. u.beat = p /\ p # Absent /\ u.rows # c.rows /\ (n + 1) - 1 = n
  BY <1>1, <1>3, <1>7 DEF Absent
<1>11. Grown(c, u, n + 1)
  BY <1>7, <1>8, <1>9, <1>10 DEF Grown
<1> QED BY <1>11 DEF u

\* A listing that is not published moves the heartbeat by a threshold.
LEMMA UnpublishedListing ==
    ASSUME NEW c \in Cell, NEW s \in Cell, NEW n \in Nat, run \in Nat,
           NEW t \in Nat, NEW d \in Nat \ {0}, ~Changed(s, t, d),
           IF n = 0 THEN s = c ELSE Grown(c, s, n)
    PROVE  Grown(c, Store(s, t, d, run), n + 1)
<1> DEFINE p == PerDay(t, d)
           u == Store(s, t, d, run)
<1>1. p \in Nat
  BY PerDayNearest
<1>2. s.beat \in Nat /\ Within(p, s.beat, Threshold)
  BY UnchangedIsNear
<1>3. u.rows = s.rows /\ u.beat = p
  BY DEF Store
<1> HIDE DEF p, u
<1>4. Threshold \in Nat /\ Far(n) \in Nat /\ Far(n + 1) = Far(n) + Threshold
  BY PricesAssumption, FarAddsUp
<1>5. LastPrice(u) = LastPrice(s) /\ u.beat # Absent
  BY <1>1, <1>3 DEF LastPrice, Absent
<1>6. CASE n = 0
  <2>1. u.rows = c.rows /\ c.beat # Absent /\ Within(p, c.beat, Far(n + 1))
    BY <1>1, <1>2, <1>3, <1>4, <1>6 DEF Within, Absent
  <2>2. /\ Feed!Extends(u.rows, c.rows, run)
        /\ Len(u.rows) <= Len(c.rows) + (n + 1)
    BY <2>1, RowsOfCell DEF Feed!Extends
  <2> QED BY <1>3, <1>5, <2>1, <2>2 DEF Grown, u
<1>7. CASE n # 0
  <2>1. Grown(c, s, n)
    BY <1>7
  <2>2. /\ Feed!Extends(u.rows, c.rows, run)
        /\ Len(u.rows) <= Len(c.rows) + (n + 1)
    <3>1. Len(s.rows) \in Nat /\ Len(c.rows) \in Nat
      BY RowsOfCell
    <3>2. Len(s.rows) <= Len(c.rows) + n /\ Feed!Extends(s.rows, c.rows, run)
      BY <2>1 DEF Grown
    <3>3. Len(u.rows) <= Len(c.rows) + (n + 1)
      <4>1. Len(u.rows) = Len(s.rows)
        BY <1>3
      <4> QED BY <3>1, <3>2, <4>1, OneMore
    <3>4. Feed!Extends(u.rows, c.rows, run)
      BY <1>3, <3>2
    <3> QED BY <3>3, <3>4
  <2>3. CASE s.rows = c.rows
    <3>1. c.beat # Absent /\ Within(s.beat, c.beat, Far(n)) /\ c.beat \in Nat
      BY <2>1, <2>3, RowsOfCell DEF Grown
    <3>2. Within(p, c.beat, Far(n + 1))
      BY <1>1, <1>2, <1>4, <3>1 DEF Within
    <3> QED BY <1>3, <1>5, <2>2, <2>3, <3>1, <3>2 DEF Grown, u
  <2>4. CASE s.rows # c.rows
    <3>1. s.rows # << >> /\ Within(LastPrice(s), s.beat, Far(n - 1))
      BY <2>1, <2>4 DEF Grown
    <3>2. LastPrice(s) \in Nat
      BY <3>1, RowsOfCell
    <3>3. Far(n - 1) \in Nat /\ Far(n) = Far(n - 1) + Threshold
      <4>1. n - 1 \in Nat /\ (n - 1) + 1 = n
        BY <1>7
      <4> QED BY <4>1, FarAddsUp
    <3>4. Within(LastPrice(s), p, Far(n))
      <4>1. /\ p - s.beat <= Threshold /\ s.beat - p <= Threshold
            /\ LastPrice(s) - s.beat <= Far(n - 1) /\ s.beat - LastPrice(s) <= Far(n - 1)
        BY <1>2, <3>1 DEF Within
      <4>2. LastPrice(s) - p <= Far(n) /\ p - LastPrice(s) <= Far(n)
        BY <1>1, <1>2, <1>4, <3>2, <3>3, <4>1
      <4> QED BY <4>2 DEF Within
    <3>5. (n + 1) - 1 = n
      OBVIOUS
    <3> QED BY <1>3, <1>5, <2>2, <2>4, <3>1, <3>4, <3>5 DEF Grown, u
  <2> QED BY <2>3, <2>4
<1> QED BY <1>6, <1>7

LEMMA BatchInvariant == Spec => []BatchInv
<1>1. Init => BatchInv
  BY DEF Init, BatchInv
<1>2. TypeOK /\ BatchInv /\ [Next]_vars => BatchInv'
  <2> SUFFICES ASSUME TypeOK, BatchInv, [Next]_vars PROVE BatchInv'
    OBVIOUS
  <2>1. CASE Begin
    BY <2>1 DEF Begin, BatchInv, KeyInBatch
  <2>2. ASSUME NEW k \in Keys, NEW total \in Totals, InsertIfChanged(k, total)
        PROVE  BatchInv'
    <3>1. /\ writer = "persisting"
          /\ staged' = [staged EXCEPT ![k] = Store(staged[k], total, Days[k], run)]
          /\ written' = [written EXCEPT ![k] = written[k] + 1]
          /\ committed' = committed /\ run' = run
      BY <2>2 DEF InsertIfChanged
    <3>2. /\ committed[k] \in Cell /\ staged[k] \in Cell /\ written[k] \in Nat
          /\ run \in Nat /\ total \in Nat /\ Days[k] \in Nat \ {0}
      BY KeysAssumption, PricesAssumption, PagesAssumption DEF TypeOK
    <3>3. IF written[k] = 0 THEN staged[k] = committed[k]
                            ELSE Grown(committed[k], staged[k], written[k])
      BY <3>1 DEF BatchInv, KeyInBatch
    <3>4. Grown(committed[k], Store(staged[k], total, Days[k], run), written[k] + 1)
      <4>1. CASE Changed(staged[k], total, Days[k])
        BY <4>1, <3>2, <3>3, PublishedListing
      <4>2. CASE ~Changed(staged[k], total, Days[k])
        BY <4>2, <3>2, <3>3, UnpublishedListing
      <4> QED BY <4>1, <4>2
    <3>5. /\ staged'[k] = Store(staged[k], total, Days[k], run)
          /\ written'[k] = written[k] + 1 /\ written'[k] # 0
      BY <3>1, <3>2 DEF TypeOK
    <3>6. KeyInBatch(k)'
      BY <3>1, <3>4, <3>5 DEF KeyInBatch, Grown
    <3>7. ASSUME NEW j \in Keys, j # k PROVE KeyInBatch(j)'
      <4>1. staged'[j] = staged[j] /\ written'[j] = written[j]
        BY <3>1, <3>7 DEF TypeOK
      <4>2. KeyInBatch(j)
        BY <3>1 DEF BatchInv
      <4> QED BY <3>1, <4>1, <4>2 DEF KeyInBatch, Grown
    <3> QED BY <3>6, <3>7 DEF BatchInv
  <2>3. CASE Commit
    BY <2>3 DEF Commit, BatchInv
  <2>4. CASE Rollback
    BY <2>4 DEF Rollback, BatchInv
  <2>5. CASE UNCHANGED vars
    BY <2>5 DEF vars, BatchInv, KeyInBatch, Grown
  <2>6. CASE Finished
    BY <2>6 DEF Finished, vars, BatchInv, KeyInBatch, Grown
  <2> QED BY <2>1, <2>2, <2>3, <2>4, <2>5, <2>6 DEF Next
<1> QED BY <1>1, <1>2, TypeCorrect, PTL DEF Spec

\* For a reader a scrape run is one step of PriceFeed: its prices appear all
\* together or not at all, no row is changed, and what stays unpublished is
\* within one threshold per listing of the price last seen.
THEOREM PublishesAtomicallyTheorem == Spec => PublishesAtomically
<1> DEFINE feed == [k \in Keys |-> committed[k].rows]
           seen == [k \in Keys |-> committed[k].beat]
           ended == IF writer = "persisting" THEN run - 1 ELSE run
<1>1. Init => Feed!Init
  BY DEF Init, Feed!Init, NewCell
<1>2. TypeOK /\ BatchInv /\ [Next]_vars => [Feed!Next]_<<feed, seen, ended>>
  <2> SUFFICES ASSUME TypeOK, BatchInv, [Next]_vars
               PROVE  [Feed!Next]_<<feed, seen, ended>>
    OBVIOUS
  <2>1. CASE Begin
    BY <2>1 DEF Begin, TypeOK
  <2>2. ASSUME NEW k \in Keys, NEW total \in Totals, InsertIfChanged(k, total)
        PROVE  UNCHANGED <<feed, seen, ended>>
    BY <2>2 DEF InsertIfChanged
  <2>3. CASE Commit
    <3>1. writer = "persisting" /\ committed' = staged /\ ended' = run /\ ended' = ended + 1
      BY <2>3 DEF Commit, TypeOK
    <3>2. ASSUME NEW k \in Keys
          PROVE  \/ feed'[k] = feed[k] /\ seen'[k] = seen[k]
                 \/ Feed!Refreshed(k, ended')
      <4>1. /\ feed[k] = committed[k].rows /\ seen[k] = committed[k].beat
            /\ feed'[k] = staged[k].rows /\ seen'[k] = staged[k].beat
        BY <3>1
      <4>2. KeyInBatch(k)
        BY <3>1 DEF BatchInv
      <4>3. CASE written[k] = 0
        BY <3>1, <4>1, <4>2, <4>3 DEF KeyInBatch
      <4>4. CASE written[k] # 0
        <5> DEFINE n == written[k]
                   c == committed[k]
                   s == staged[k]
        <5>1. /\ n \in Nat /\ n - 1 \in Nat /\ MaxListings \in Nat /\ MaxListings - 1 \in Nat
              /\ n <= MaxListings /\ n - 1 <= MaxListings - 1
          BY <4>4, PagesAssumption DEF TypeOK
        <5>2. c \in Cell /\ s \in Cell /\ Grown(c, s, n)
          BY <4>2, <4>4 DEF TypeOK, KeyInBatch
        <5> HIDE DEF n, c, s
        <5>3. /\ Far(n) \in Nat /\ Far(n) <= Far(MaxListings) /\ Far(MaxListings) \in Nat
              /\ Far(n - 1) \in Nat /\ Far(n - 1) <= Far(MaxListings - 1)
              /\ Far(MaxListings - 1) \in Nat
          BY <5>1, FarAddsUp
        <5>4. IF s.rows = c.rows
              THEN c.beat # Absent /\ Feed!Near(s.beat, c.beat, MaxListings * Threshold)
              ELSE Feed!Near(s.rows[Len(s.rows)].price, s.beat, (MaxListings - 1) * Threshold)
          <6>1. CASE s.rows = c.rows
            <7>1. c.beat # Absent /\ Within(s.beat, c.beat, Far(n)) /\ s.beat # Absent
              BY <5>2, <6>1 DEF Grown
            <7>2. c.beat \in Nat /\ s.beat \in Nat
              BY <5>2, <7>1, RowsOfCell
            <7>3. Within(s.beat, c.beat, Far(MaxListings))
              BY <5>3, <7>1, <7>2 DEF Within
            <7> QED BY <6>1, <7>1, <7>3 DEF Within, Feed!Near, Far
          <6>2. CASE s.rows # c.rows
            <7>1. s.rows # << >> /\ Within(LastPrice(s), s.beat, Far(n - 1)) /\ s.beat # Absent
              BY <5>2, <6>2 DEF Grown
            <7>2. LastPrice(s) \in Nat /\ s.beat \in Nat
              BY <5>2, <7>1, RowsOfCell
            <7>3. Within(LastPrice(s), s.beat, Far(MaxListings - 1))
              BY <5>3, <7>1, <7>2 DEF Within
            <7> QED BY <6>2, <7>3 DEF Within, Feed!Near, Far, LastPrice
          <6> QED BY <6>1, <6>2
        <5>5. Len(s.rows) <= Len(c.rows) + MaxListings
          <6>1. Len(s.rows) <= Len(c.rows) + n /\ Len(s.rows) \in Nat /\ Len(c.rows) \in Nat
            BY <5>2, RowsOfCell DEF Grown
          <6> QED BY <6>1, <5>1
        <5>6. ended' = run
          BY <3>1
        <5> HIDE DEF ended
        <5>7. Feed!Refreshed(k, ended')
          BY <4>1, <5>2, <5>4, <5>5, <5>6 DEF Grown, Feed!Refreshed, c, s
        <5> QED BY <5>7
      <4> QED BY <4>3, <4>4
    <3>3. Feed!Publish
      BY <3>1, <3>2 DEF Feed!Publish
    <3> QED BY <3>3 DEF Feed!Next
  <2>4. CASE Rollback
    BY <2>4 DEF Rollback, TypeOK, Feed!Next, Feed!GiveUp
  <2>5. CASE UNCHANGED vars
    BY <2>5 DEF vars
  <2>6. CASE Finished
    BY <2>6 DEF Finished, vars
  <2> QED BY <2>1, <2>2, <2>3, <2>4, <2>5, <2>6 DEF Next
<1>3. Spec => [](TypeOK /\ BatchInv)
  BY TypeCorrect, BatchInvariant, PTL
<1> QED BY <1>1, <1>2, <1>3, PTL DEF Spec, PublishesAtomically, Feed!Spec

-----------------------------------------------------------------------------
(* The catalogue of categories: what a run carries from its classification   *)
(* to its two writes, while the operator's script writes in between.         *)

\* Results say of which attributes a certain code is, or the group is counted.
ResultFits(g) ==
    results[g].certain =>
        results[g].code # None /\ (results[g].of = listed[g] \/ g \in reused \cap unsettled)
ResultsFit ==
    pc \in {"pvcs", "extract"} => \A g \in Groups :
        IF listed[g] = None THEN results[g] = None
        ELSE results[g] \in Result /\ ResultFits(g)

\* The script has read only rows that are still there.
LoadedExist ==
    loaded # None => \A g \in Groups : loaded[g] # None => pvc[g] \in CategoryRow

CatalogInv == CatalogTypeOK /\ CertainCodeFits /\ ResultsFit /\ LoadedExist

LEMMA CatalogInitHolds == CatalogInit => CatalogInv
<1> SUFFICES ASSUME CatalogInit PROVE CatalogInv
  OBVIOUS
<1> USE DEF CatalogInit
<1>1. CatalogTypeOK
  BY CatalogAssumption DEF CatalogTypeOK, Pages
<1>2. CertainCodeFits
  BY DEF CertainCodeFits, Existing
<1>3. ResultsFit /\ LoadedExist
  BY DEF ResultsFit, LoadedExist
<1> QED BY <1>1, <1>2, <1>3 DEF CatalogInv

\* What an upsert makes of a row: a certain code of the result, or no certainty.
LEMMA UpsertFits ==
    ASSUME NEW row \in CategoryRow \cup {None}, NEW attrs \in Attrs,
           NEW result \in Result
    PROVE  LET new == UpsertSeen(row, attrs, result)
           IN  /\ new \in CategoryRow
               /\ new.certain => /\ result.certain
                                 /\ new.code = result.code
                                 /\ new.of = result.of
                                 /\ new.attrs = attrs
  BY DEF UpsertSeen, CategoryRow, Result

\* A code survives an upsert unless a surer one replaces it.
LEMMA UpsertKeeps ==
    ASSUME NEW row \in CategoryRow, row # None, row.code # None, NEW attrs \in Attrs,
           NEW result \in Result, result.certain => result.code # None
    PROVE  LET new == UpsertSeen(row, attrs, result)
           IN  new.code # None /\ (new.code # row.code => new.certain)
  BY DEF UpsertSeen, CategoryRow, Result

\* What the classifier answers: it is only sure of a code.
LEMMA VerdictsOfCodes ==
    ASSUME NEW verdict \in [Groups -> Verdicts], NEW g \in Groups
    PROVE  /\ verdict[g].code \in Codes \cup {None} /\ verdict[g].certain \in BOOLEAN
           /\ verdict[g].certain => verdict[g].code # None
<1>1. verdict[g] \in Verdicts
  OBVIOUS
<1>2. CASE verdict[g] \in [code : Codes, certain : BOOLEAN]
  BY <1>2, CatalogAssumption
<1>3. CASE verdict[g] = [code |-> None, certain |-> FALSE]
  <2>1. verdict[g].code = None /\ verdict[g].certain = FALSE
    BY <1>3
  <2> QED BY <2>1
<1> QED BY <1>1, <1>2, <1>3 DEF Verdicts

LEMMA ProbeKeeps ==
    ASSUME CatalogInv, NEW page \in Pages, Probe(page)
    PROVE  CatalogInv'
<1> USE DEF CatalogInv
<1>1. CatalogTypeOK'
  BY CatalogAssumption DEF CatalogTypeOK, Probe
<1>2. CertainCodeFits'
  BY DEF CertainCodeFits, Existing, Probe
<1>3. ResultsFit' /\ LoadedExist'
  BY DEF ResultsFit, LoadedExist, Probe
<1> QED BY <1>1, <1>2, <1>3

LEMMA ClassifyKeeps ==
    ASSUME CatalogInv, NEW verdict \in [Groups -> Verdicts],
           Classify(verdict)
    PROVE  CatalogInv'
<1> USE DEF CatalogInv
<1>1. \A g \in Groups :
          IF listed'[g] = None THEN results'[g] = None
          ELSE results'[g] \in Result /\ ResultFits(g)'
  <2> SUFFICES ASSUME NEW g \in Groups
               PROVE  IF listed'[g] = None THEN results'[g] = None
                      ELSE results'[g] \in Result /\ ResultFits(g)'
    OBVIOUS
  <2>1. CASE listed[g] = None
    BY <2>1 DEF Classify
  <2>2. CASE listed[g] # None /\ g \in reused'
    <3>1. /\ pvc[g] # None /\ pvc[g] \in CategoryRow /\ pvc[g].code # None
          /\ pvc[g].attrs = listed[g]
      BY <2>2 DEF Classify, Reusable, Existing, CatalogTypeOK
    <3>2. results'[g] = [code |-> pvc[g].code, certain |-> pvc[g].certain, of |-> pvc[g].of]
      BY <2>2 DEF Classify
    <3>3. results'[g] \in Result
      BY <3>1, <3>2 DEF CategoryRow, Result
    <3>4. pvc[g].certain => pvc[g].of = listed[g] \/ g \in unsettled
      BY <3>1 DEF CertainCodeFits, Existing
    <3>5. ResultFits(g)'
      BY <2>2, <3>1, <3>2, <3>4 DEF ResultFits, Classify
    <3> QED BY <2>2, <3>3, <3>5 DEF Classify
  <2>3. CASE listed[g] # None /\ g \notin reused'
    <3>1. results'[g] = [code |-> verdict[g].code, certain |-> verdict[g].certain,
                         of |-> OfVerdict(verdict[g], listed[g])]
      BY <2>3 DEF Classify
    <3>2. /\ verdict[g].code \in Codes \cup {None} /\ verdict[g].certain \in BOOLEAN
          /\ verdict[g].certain => verdict[g].code # None
      BY VerdictsOfCodes
    <3>3. listed[g] \in Attrs
      BY <2>3 DEF CatalogTypeOK, Pages
    <3>4. results'[g] \in Result
      BY <3>1, <3>2, <3>3 DEF Result, OfVerdict
    <3>5. ResultFits(g)'
      BY <3>1, <3>2 DEF ResultFits, OfVerdict, Classify
    <3> QED BY <2>3, <3>4, <3>5 DEF Classify
  <2> QED BY <2>1, <2>2, <2>3
<1>2. results' \in [Groups -> Result \cup {None}]
  <2>1. results' = [g \in Groups |-> results'[g]]
    BY DEF Classify
  <2>2. \A g \in Groups : results'[g] \in Result \cup {None}
    BY <1>1
  <2> QED BY <2>1, <2>2
<1>3. CatalogTypeOK'
  BY <1>2 DEF CatalogTypeOK, Classify
<1>4. CertainCodeFits'
  BY DEF CertainCodeFits, Existing, Classify
<1>5. ResultsFit'
  BY <1>1 DEF ResultsFit
<1>6. LoadedExist'
  BY DEF LoadedExist, Classify
<1> QED BY <1>3, <1>4, <1>5, <1>6

LEMMA PersistPvcsKeeps ==
    ASSUME CatalogInv, PersistPvcs
    PROVE  CatalogInv'
<1> USE DEF CatalogInv
<1> DEFINE new(g) == UpsertSeen(pvc[g], listed[g], results[g])
<1>1. \A g \in Groups : pvc'[g] = IF listed[g] = None THEN pvc[g] ELSE new(g)
  BY DEF PersistPvcs
<1>2. \A g \in Groups : listed[g] # None =>
          /\ new(g) \in CategoryRow
          /\ new(g).certain => /\ results[g].certain
                               /\ new(g).code = results[g].code
                               /\ new(g).of = results[g].of
                               /\ new(g).attrs = listed[g]
  <2> SUFFICES ASSUME NEW g \in Groups, listed[g] # None
               PROVE  /\ new(g) \in CategoryRow
                      /\ new(g).certain => /\ results[g].certain
                                           /\ new(g).code = results[g].code
                                           /\ new(g).of = results[g].of
                                           /\ new(g).attrs = listed[g]
    OBVIOUS
  <2>1. /\ pvc[g] \in CategoryRow \cup {None}
        /\ listed[g] \in Attrs
        /\ results[g] \in Result
    BY DEF CatalogTypeOK, Pages, ResultsFit, PersistPvcs
  <2> QED BY <2>1, UpsertFits
<1> HIDE DEF new
<1>3. CatalogTypeOK'
  <2>1. pvc' \in [Groups -> CategoryRow \cup {None}]
    <3>1. \A g \in Groups : pvc'[g] \in CategoryRow \cup {None}
      BY <1>1, <1>2 DEF CatalogTypeOK
    <3>2. pvc' = [g \in Groups |-> pvc'[g]]
      BY DEF PersistPvcs
    <3> QED BY <3>1, <3>2
  <2> QED BY <2>1 DEF CatalogTypeOK, PersistPvcs
<1>4. CertainCodeFits'
  <2> SUFFICES ASSUME NEW g \in Groups, pvc'[g] # None, g \notin unsettled', pvc'[g].certain
               PROVE  pvc'[g].code # None /\ pvc'[g].of = pvc'[g].attrs
    BY DEF CertainCodeFits, Existing
  <2>1. CASE listed[g] = None
    <3>1. pvc'[g] = pvc[g] /\ g \notin unsettled
      BY <2>1, <1>1 DEF PersistPvcs
    <3> QED BY <3>1 DEF CertainCodeFits, Existing
  <2>2. CASE listed[g] # None
    <3>1. ResultFits(g) /\ g \notin reused \cap unsettled
      BY <2>2 DEF ResultsFit, PersistPvcs
    <3> QED BY <2>2, <3>1, <1>1, <1>2 DEF ResultFits
  <2> QED BY <2>1, <2>2
<1>5. ResultsFit'
  BY DEF ResultsFit, ResultFits, PersistPvcs
<1>6. LoadedExist'
  BY <1>1, <1>2 DEF LoadedExist, PersistPvcs
<1> QED BY <1>3, <1>4, <1>5, <1>6

LEMMA PersistObservationsKeeps ==
    ASSUME CatalogInv, NEW page \in Pages, PersistObservations(page)
    PROVE  CatalogInv'
<1> USE DEF CatalogInv
<1> DEFINE result(g) == IF results[g] # None THEN results[g] ELSE Pending
           new(g) == UpsertSeen(pvc[g], page[g], result(g))
<1>1. \A g \in Groups : pvc'[g] = IF page[g] = None THEN pvc[g] ELSE new(g)
  BY DEF PersistObservations
<1>2. \A g \in Groups : page[g] # None =>
          /\ new(g) \in CategoryRow
          /\ new(g).certain => /\ result(g).certain
                               /\ new(g).code = result(g).code
                               /\ new(g).of = result(g).of
                               /\ new(g).attrs = page[g]
  <2> SUFFICES ASSUME NEW g \in Groups, page[g] # None
               PROVE  /\ new(g) \in CategoryRow
                      /\ new(g).certain => /\ result(g).certain
                                           /\ new(g).code = result(g).code
                                           /\ new(g).of = result(g).of
                                           /\ new(g).attrs = page[g]
    OBVIOUS
  <2>1. /\ pvc[g] \in CategoryRow \cup {None}
        /\ page[g] \in Attrs
        /\ results[g] \in Result \cup {None}
    BY DEF CatalogTypeOK, Pages
  <2>2. Pending \in Result
    BY DEF Pending, Result
  <2>3. result(g) \in Result
    BY <2>1, <2>2
  <2> HIDE DEF result
  <2> QED BY <2>1, <2>3, UpsertFits
<1>3. \A g \in Groups : result(g).certain => results[g] # None /\ result(g) = results[g]
  BY DEF Pending
<1> HIDE DEF new, result
<1>4. CatalogTypeOK'
  <2>1. pvc' \in [Groups -> CategoryRow \cup {None}]
    <3>1. \A g \in Groups : pvc'[g] \in CategoryRow \cup {None}
      BY <1>1, <1>2 DEF CatalogTypeOK
    <3>2. pvc' = [g \in Groups |-> pvc'[g]]
      BY DEF PersistObservations
    <3> QED BY <3>1, <3>2
  <2> QED BY <2>1 DEF CatalogTypeOK, PersistObservations
<1>5. CertainCodeFits'
  <2> SUFFICES ASSUME NEW g \in Groups, pvc'[g] # None, g \notin unsettled', pvc'[g].certain
               PROVE  pvc'[g].code # None /\ pvc'[g].of = pvc'[g].attrs
    BY DEF CertainCodeFits, Existing
  <2>1. g \notin unsettled
    BY DEF PersistObservations
  <2>2. CASE page[g] = None
    BY <2>1, <2>2, <1>1 DEF CertainCodeFits, Existing
  <2>3. CASE page[g] # None
    <3>1. result(g).certain /\ results[g] # None /\ result(g) = results[g]
      BY <2>3, <1>1, <1>2, <1>3
    <3>2. listed[g] # None /\ ResultFits(g)
      BY <3>1 DEF ResultsFit, PersistObservations
    <3>3. page[g] = listed[g]
      BY <2>3, <3>2 DEF PersistObservations
    <3> QED BY <2>1, <2>3, <3>1, <3>2, <3>3, <1>1, <1>2 DEF ResultFits
  <2> QED BY <2>2, <2>3
<1>6. ResultsFit'
  BY DEF ResultsFit, PersistObservations
<1>7. LoadedExist'
  BY <1>1, <1>2 DEF LoadedExist, PersistObservations
<1> QED BY <1>4, <1>5, <1>6, <1>7

LEMMA AbortKeeps ==
    ASSUME CatalogInv, Abort
    PROVE  CatalogInv'
<1> USE DEF CatalogInv, Abort
<1>1. CatalogTypeOK' /\ CertainCodeFits'
  BY DEF CatalogTypeOK, CertainCodeFits, Existing
<1>2. ResultsFit' /\ LoadedExist'
  BY DEF ResultsFit, LoadedExist
<1> QED BY <1>1, <1>2

LEMMA OperatorReadsKeeps ==
    ASSUME CatalogInv, OperatorReads
    PROVE  CatalogInv'
<1> USE DEF CatalogInv, OperatorReads
<1>1. CatalogTypeOK' /\ CertainCodeFits'
  BY DEF CatalogTypeOK, CertainCodeFits, Existing
<1>2. ResultsFit'
  BY DEF ResultsFit, ResultFits
<1>3. LoadedExist'
  BY DEF LoadedExist, CatalogTypeOK
<1> QED BY <1>1, <1>2, <1>3

LEMMA OperatorWritesKeeps ==
    ASSUME CatalogInv, NEW verdict \in [Groups -> Verdicts],
           OperatorWrites(verdict)
    PROVE  CatalogInv'
<1> USE DEF CatalogInv
<1> DEFINE moved(g) == verdict[g].code # loaded[g].code
           flagged(g) == verdict[g].certain # loaded[g].certain
           refit(g) == moved(g) \/ pvc[g].code = verdict[g].code
           of(g) == OfVerdict(verdict[g], loaded[g].attrs)
           Same(g) == [attrs   |-> pvc[g].attrs,
                       code    |-> IF moved(g) THEN verdict[g].code ELSE pvc[g].code,
                       certain |-> IF flagged(g) THEN verdict[g].certain ELSE pvc[g].certain,
                       of      |-> IF refit(g) THEN of(g) ELSE pvc[g].of]
<1>1. loaded # None /\ loaded \in [Groups -> CategoryRow \cup {None}] /\ loaded' = None
  BY DEF OperatorWrites, CatalogTypeOK
<1>2. \A g \in Groups : loaded[g] = None => pvc'[g] = pvc[g]
  BY DEF OperatorWrites
<1>3. \A g \in Groups : loaded[g] # None => pvc'[g] = Same(g)
  <2> SUFFICES ASSUME NEW g \in Groups, loaded[g] # None PROVE pvc'[g] = Same(g)
    OBVIOUS
  <2>1. pvc[g] \in CategoryRow
    BY <1>1 DEF LoadedExist
  <2>2. pvc'[g] = [pvc[g] EXCEPT !.code = IF moved(g) THEN verdict[g].code ELSE @,
                                 !.certain = IF flagged(g) THEN verdict[g].certain ELSE @,
                                 !.of = IF refit(g) THEN of(g) ELSE @]
    BY DEF OperatorWrites
  <2> QED BY <2>1, <2>2 DEF CategoryRow
<1>4. \A g \in Groups : /\ verdict[g].code \in Codes \cup {None}
                        /\ verdict[g].certain \in BOOLEAN
                        /\ verdict[g].certain => verdict[g].code # None
  BY VerdictsOfCodes
<1>5. \A g \in Groups : loaded[g] # None => pvc'[g] \in CategoryRow
  <2> SUFFICES ASSUME NEW g \in Groups, loaded[g] # None PROVE Same(g) \in CategoryRow
    BY <1>3
  <2>1. pvc[g] \in CategoryRow /\ loaded[g] \in CategoryRow
    BY <1>1 DEF LoadedExist
  <2>2. of(g) \in Attrs \cup {None}
    BY <2>1 DEF OfVerdict, CategoryRow
  <2> QED BY <2>1, <2>2, <1>4 DEF CategoryRow
<1>6. CatalogTypeOK'
  <2>1. pvc' \in [Groups -> CategoryRow \cup {None}]
    <3>1. \A g \in Groups : pvc'[g] \in CategoryRow \cup {None}
      BY <1>2, <1>5 DEF CatalogTypeOK
    <3>2. pvc' = [g \in Groups |-> pvc'[g]]
      BY DEF OperatorWrites
    <3> QED BY <3>1, <3>2
  <2> QED BY <2>1 DEF CatalogTypeOK, OperatorWrites
<1>7. CertainCodeFits'
  <2> SUFFICES ASSUME NEW g \in Groups, pvc'[g] # None, g \notin unsettled', pvc'[g].certain
               PROVE  pvc'[g].code # None /\ pvc'[g].of = pvc'[g].attrs
    BY DEF CertainCodeFits, Existing
  <2>1. g \notin unsettled
    BY DEF OperatorWrites
  <2>2. CASE loaded[g] = None
    BY <2>1, <2>2, <1>2 DEF CertainCodeFits, Existing
  <2>3. CASE loaded[g] # None
    <3>1. pvc[g] = loaded[g] /\ pvc[g] \in CategoryRow
      BY <2>3, <1>1 DEF OperatorWrites, LoadedExist
    <3>2. pvc'[g] = Same(g)
      BY <2>3, <1>3
    <3>3. pvc'[g].certain = verdict[g].certain
      <4>1. pvc'[g].certain = IF flagged(g) THEN verdict[g].certain ELSE loaded[g].certain
        <5>1. Same(g).certain = IF flagged(g) THEN verdict[g].certain ELSE pvc[g].certain
          BY Zenon
        <5> HIDE DEF Same
        <5> QED BY <3>1, <3>2, <5>1, Zenon
      <4>2. CASE flagged(g)
        BY <4>1, <4>2
      <4>3. CASE verdict[g].certain = loaded[g].certain
        BY <4>1, <4>3
      <4> QED BY <4>2, <4>3
    <3>4. pvc'[g].code = verdict[g].code /\ pvc'[g].code # None
      BY <3>1, <3>2, <3>3, <1>4
    <3>5. pvc'[g].of = loaded[g].attrs
      BY <3>1, <3>2, <3>4 DEF OfVerdict
    <3> QED BY <3>1, <3>2, <3>4, <3>5
  <2> QED BY <2>2, <2>3
<1>8. ResultsFit'
  BY DEF ResultsFit, ResultFits, OperatorWrites
<1>9. LoadedExist'
  BY <1>1 DEF LoadedExist
<1> QED BY <1>6, <1>7, <1>8, <1>9

\* The catalogue's invariant holds in every reachable state, over runs that
\* fail, are killed, or are interleaved with the operator's script.
THEOREM CatalogInvariant == CatalogSpec => []CatalogInv
<1>1. ASSUME CatalogInv, [CatalogNext]_catalogVars
      PROVE  CatalogInv'
  <2>1. CASE UNCHANGED catalogVars
    BY <1>1, <2>1 DEF catalogVars, CatalogInv, CatalogTypeOK,
       CertainCodeFits, Existing, ResultsFit, ResultFits, LoadedExist
  <2>2. CASE Done
    BY <1>1, <2>1, <2>2 DEF Done
  <2>3. CASE CatalogNext /\ ~Done
    BY <1>1, <2>3, ProbeKeeps, ClassifyKeeps, PersistPvcsKeeps, PersistObservationsKeeps,
       AbortKeeps, OperatorReadsKeeps, OperatorWritesKeeps DEF CatalogNext
  <2> QED BY <1>1, <2>1, <2>2, <2>3
<1> QED BY <1>1, CatalogInitHolds, PTL DEF CatalogSpec

\* The rows of the catalogue, the results of a run and the copy of the script
\* have their types.
THEOREM CatalogTypeCorrect == CatalogSpec => []CatalogTypeOK
<1>1. CatalogInv => CatalogTypeOK
  BY DEF CatalogInv
<1> QED BY <1>1, CatalogInvariant, PTL

\* A code nobody is asked to review was computed for the attributes it is
\* stored with, unless the group is counted in unsettled.
THEOREM CertainCodesFit == CatalogSpec => []CertainCodeFits
<1>1. CatalogInv => CertainCodeFits
  BY DEF CatalogInv
<1> QED BY <1>1, CatalogInvariant, PTL

\* A scrape run never takes the code of a category away, and replaces it only
\* by one the classifier was sure of.
THEOREM RunsKeepCodes == CatalogSpec => ScrapeKeepsCodes
<1> DEFINE Kept == loaded' = loaded => \A g \in Existing : pvc[g].code # None =>
                      /\ pvc'[g].code # None
                      /\ pvc'[g].code # pvc[g].code => pvc'[g].certain
<1>1. ASSUME CatalogInv, [CatalogNext]_catalogVars
      PROVE  [Kept]_catalogVars
  <2> SUFFICES ASSUME CatalogNext, loaded' = loaded, NEW g \in Groups,
                      pvc[g] # None, pvc[g].code # None
               PROVE  /\ pvc'[g].code # None
                      /\ pvc'[g].code # pvc[g].code => pvc'[g].certain
    BY <1>1 DEF Existing
  <2>1. pvc[g] \in CategoryRow
    BY <1>1 DEF CatalogInv, CatalogTypeOK
  <2>2. CASE pvc' = pvc
    BY <2>2
  <2>3. CASE PersistPvcs
    <3>1. CASE listed[g] = None
      BY <2>3, <3>1 DEF PersistPvcs
    <3>2. CASE listed[g] # None
      <4>1. /\ listed[g] \in Attrs /\ results[g] \in Result
            /\ results[g].certain => results[g].code # None
        BY <1>1, <2>3, <3>2 DEF CatalogInv, CatalogTypeOK, Pages, ResultsFit,
           ResultFits, PersistPvcs
      <4>2. pvc'[g] = UpsertSeen(pvc[g], listed[g], results[g])
        BY <2>3, <3>2 DEF PersistPvcs
      <4> QED BY <2>1, <4>1, <4>2, UpsertKeeps
    <3> QED BY <3>1, <3>2
  <2>4. ASSUME NEW page \in Pages, PersistObservations(page)
        PROVE  /\ pvc'[g].code # None
               /\ pvc'[g].code # pvc[g].code => pvc'[g].certain
    <3>1. CASE page[g] = None
      BY <2>4, <3>1 DEF PersistObservations
    <3>2. CASE page[g] # None
      <4>1. PICK result : result = IF results[g] # None THEN results[g] ELSE Pending
        OBVIOUS
      <4>2. page[g] \in Attrs
        BY <3>2 DEF Pages
      <4>3. result \in Result /\ (result.certain => result.code # None)
        <5>1. CASE results[g] # None
          BY <1>1, <2>4, <4>1, <5>1 DEF CatalogInv, ResultsFit, ResultFits,
             PersistObservations
        <5>2. CASE results[g] = None
          BY <4>1, <5>2 DEF Pending, Result
        <5> QED BY <5>1, <5>2
      <4>4. pvc'[g] = UpsertSeen(pvc[g], page[g], result)
        BY <2>4, <3>2, <4>1 DEF PersistObservations
      <4> QED BY <2>1, <4>2, <4>3, <4>4, UpsertKeeps
    <3> QED BY <3>1, <3>2
  <2>5. ASSUME NEW verdict \in [Groups -> Verdicts], OperatorWrites(verdict)
        PROVE  FALSE
    BY <2>5 DEF OperatorWrites
  <2>6. CASE \/ \E page \in Pages : Probe(page)
             \/ \E verdict \in [Groups -> Verdicts] : Classify(verdict)
             \/ Abort \/ Done \/ OperatorReads
    <3>1. pvc' = pvc
      BY <2>6 DEF Probe, Classify, Abort, Done,
         OperatorReads, catalogVars
    <3> QED BY <3>1
  <2> QED BY <2>3, <2>4, <2>5, <2>6 DEF CatalogNext
<1> QED BY <1>1, CatalogInvariant, PTL DEF CatalogSpec, ScrapeKeepsCodes
=============================================================================
