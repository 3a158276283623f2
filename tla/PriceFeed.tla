----------------------------- MODULE PriceFeed -----------------------------
(***************************************************************************)
(* What price persistence promises a reader of the catalogue: every scrape *)
(* is published in one step, for all the prices it read at once.  History  *)
(* is only added to.  A price that moved by more than the threshold is     *)
(* always published, as far as a page names one price: a page that lists a *)
(* group several times may move it by a threshold per listing unseen.      *)
(* PriceHistory, the row-by-row code, implements this.                     *)
(***************************************************************************)
EXTENDS Integers, Sequences

CONSTANTS Keys,        \* (tuple, vehicle category, pickup date, duration)
          Threshold,   \* smallest daily price move that may go unpublished
          Listings,    \* how often a page lists a group, at most
          Absent       \* "no price was ever seen"

VARIABLES feed,        \* published rows of each key, oldest first
          seen,        \* price of the last scrape of each key
          clock        \* number of runs that have ended

Near(a, b, d) == a - b <= d /\ b - a <= d

\* The rows a run adds to those of a key.
Extends(new, old, at) ==
    /\ Len(new) >= Len(old)
    /\ \A i \in 1 .. Len(old) : new[i] = old[i]
    /\ \A i \in Len(old) + 1 .. Len(new) : new[i].at = at

\* A key is scraped at time `at`: nothing is published only of a known price
\* that stayed near, and else the last row is near the price last seen.  One
\* listing is either published or one threshold away at most.
Refreshed(k, at) ==
    /\ seen'[k] # Absent
    /\ Extends(feed'[k], feed[k], at)
    /\ Len(feed'[k]) <= Len(feed[k]) + Listings
    /\ IF feed'[k] = feed[k]
       THEN seen[k] # Absent /\ Near(seen'[k], seen[k], Listings * Threshold)
       ELSE Near(feed'[k][Len(feed'[k])].price, seen'[k], (Listings - 1) * Threshold)

Init ==
    /\ feed = [k \in Keys |-> << >>]
    /\ seen = [k \in Keys |-> Absent]
    /\ clock = 0

Publish ==
    /\ \A k \in Keys :
          \/ feed'[k] = feed[k] /\ seen'[k] = seen[k]
          \/ Refreshed(k, clock')
    /\ clock' = clock + 1

\* A run that fails publishes nothing.
GiveUp ==
    /\ clock' = clock + 1
    /\ UNCHANGED <<feed, seen>>

Next == Publish \/ GiveUp

Spec == Init /\ [][Next]_<<feed, seen, clock>>
=============================================================================
