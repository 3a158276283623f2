---------------------------- MODULE PriceHistory ----------------------------
(***************************************************************************)
(* How one scrape run stores the prices it read (phase 3 of the            *)
(* orchestrator and PriceObservationRepository.insert_if_changed).         *)
(*                                                                         *)
(* A key is one (provider, location, rate, vehicle category, pickup date,  *)
(* duration).  For each key the database holds the append-only rows of     *)
(* price_observations and one heartbeat with the last scraped price per    *)
(* day.  A run writes all its prices in ONE transaction, so the model has  *)
(* a committed and a staged copy of each key.  Prices are in cents.        *)
(***************************************************************************)
EXTENDS Integers, Sequences

CONSTANTS Keys,          \* the price cells the plan asks for
          Days,          \* rental days of a key
          Totals,        \* total prices a provider may quote
          Threshold,     \* PRICE_CHANGE_THRESHOLD, in cents per day
          MaxListings,   \* bound on how often a page lists one group
          MaxRuns        \* bound on the number of scrape runs

Absent == -1             \* the heartbeat row does not exist

ASSUME KeysAssumption == Days \in [Keys -> Nat \ {0}]
ASSUME PricesAssumption == Totals \subseteq Nat /\ Threshold \in Nat
ASSUME PagesAssumption == MaxListings \in Nat \ {0}

VARIABLES committed,     \* what other sessions of the database see
          staged,        \* the running transaction's own view
          writer,        \* "idle" | "persisting"
          written,       \* prices the running transaction has stored per key
          run            \* current scrape run; also its observed_at

vars == <<committed, staged, writer, written, run>>

-----------------------------------------------------------------------------
Row == [price : Nat, at : Nat]
\* skips counts the scrapes since the last row; it is a history variable.
Cell == [rows : Seq(Row), beat : Nat \cup {Absent}, skips : Nat]

NewCell == [rows |-> << >>, beat |-> Absent, skips |-> 0]

\* NUMERIC(10,2) rounds the quotient half up when it is stored.
PerDay(total, days) == (2 * total + days) \div (2 * days)

\* The comparison is made on the exact quotient total / days, against the
\* rounded price in the heartbeat.
ChangedSigned(cell, total, days) ==
    cell.beat = Absent \/ total - cell.beat * days > Threshold * days
Changed(cell, total, days) ==
    \/ cell.beat = Absent
    \/ total - cell.beat * days > Threshold * days
    \/ cell.beat * days - total > Threshold * days

Store(cell, total, days, at) ==
    IF Changed(cell, total, days)
    THEN [rows |-> Append(cell.rows, [price |-> PerDay(total, days), at |-> at]),
          beat |-> PerDay(total, days), skips |-> 0]
    ELSE [rows |-> cell.rows, beat |-> PerDay(total, days), skips |-> cell.skips + 1]

-----------------------------------------------------------------------------
Init ==
    /\ committed = [k \in Keys |-> NewCell]
    /\ staged = committed
    /\ writer = "idle"
    /\ written = [k \in Keys |-> 0]
    /\ run = 0

\* _persist_observations opens its session and takes one observed_at.
Begin ==
    /\ writer = "idle"
    /\ run < MaxRuns
    /\ run' = run + 1
    /\ writer' = "persisting"
    /\ staged' = committed
    /\ written' = [k \in Keys |-> 0]
    /\ UNCHANGED committed

InsertAutocommitted(k, total) ==
    /\ writer = "persisting"
    /\ written[k] < MaxListings
    /\ staged' = [staged EXCEPT ![k] = Store(@, total, Days[k], run)]
    /\ committed' = staged'
    /\ written' = [written EXCEPT ![k] = @ + 1]
    /\ UNCHANGED <<writer, run>>

\* One rate of one car of one result.  The plan holds every (date, duration)
\* once, but a page may list a group several times: each listing is stored,
\* with the observed_at of the run.
InsertIfChanged(k, total) ==
    /\ writer = "persisting"
    /\ written[k] < MaxListings
    /\ staged' = [staged EXCEPT ![k] = Store(@, total, Days[k], run)]
    /\ written' = [written EXCEPT ![k] = @ + 1]
    /\ UNCHANGED <<committed, writer, run>>

Commit ==
    /\ writer = "persisting"
    /\ committed' = staged
    /\ writer' = "idle"
    /\ written' = [k \in Keys |-> 0]
    /\ UNCHANGED <<staged, run>>

\* Any error while the session is open (a failed INSERT, a month without a
\* partition) or the end of the process: nothing of the run is kept.
Rollback ==
    /\ writer = "persisting"
    /\ staged' = committed
    /\ writer' = "idle"
    /\ written' = [k \in Keys |-> 0]
    /\ UNCHANGED <<committed, run>>

Finished == writer = "idle" /\ run = MaxRuns /\ UNCHANGED vars

Next ==
    \/ Begin
    \/ \E k \in Keys, total \in Totals : InsertIfChanged(k, total)
    \/ Commit
    \/ Rollback
    \/ Finished

Spec == Init /\ [][Next]_vars

-----------------------------------------------------------------------------
\* What a tariff reads: the rows of the key with the newest observed_at.
Newest(rows) ==
    {rows[i] : i \in {i \in DOMAIN rows : \A j \in DOMAIN rows : rows[j].at <= rows[i].at}}
Latest(k) == Newest(committed[k].rows)

LastPrice(cell) == cell.rows[Len(cell.rows)].price

Within(a, b, d) == a - b <= d /\ b - a <= d

\* The state has the shape the tables give it.
TypeOK ==
    /\ committed \in [Keys -> Cell]
    /\ staged \in [Keys -> Cell]
    /\ writer \in {"idle", "persisting"}
    /\ written \in [Keys -> 0 .. MaxListings]
    /\ run \in Nat

\* A heartbeat exists exactly when a price was published: a heartbeat without
\* a row would make every later scrape of that price look unchanged, and the
\* price would never reach a reader.
HeartbeatHasRow ==
    \A k \in Keys : committed[k].beat = Absent <=> committed[k].rows = << >>

\* How far the newest row may be from the last scraped price: at most one
\* threshold per scrape that published nothing.  (One
\* threshold alone does not bound it: the comparator moves at every scrape.)
DriftWithin(cell) ==
    cell.rows # << >> => Within(LastPrice(cell), cell.beat, Threshold * cell.skips)
DriftBounded == \A k \in Keys : DriftWithin(committed[k])

\* No price drifts away from its newest row by small steps (DATA_MODEL.md,
\* lines 166-168: the last row is the comparator, not the heartbeat).
\* Not kept by the code (README, section 3).
NoSilentDrift ==
    \A k \in Keys : LET cell == committed[k]
                    IN  cell.rows # << >> => Within(LastPrice(cell), cell.beat, Threshold)

\* A query for the latest price of a key has one answer (the docstring of
\* _fetch_observations, service.py, line 494).
\* Not kept by the code (README, section 3).
LatestIsUnique ==
    \A k \in Keys : \A r, q \in Latest(k) : r.price = q.price

\* The run as a whole is one step of the abstract feed.
Feed == INSTANCE PriceFeed WITH
            feed  <- [k \in Keys |-> committed[k].rows],
            seen  <- [k \in Keys |-> committed[k].beat],
            Listings <- MaxListings,
            clock <- IF writer = "persisting" THEN run - 1 ELSE run
PublishesAtomically == Feed!Spec

=============================================================================
