-------------------------- MODULE SeasonPublication --------------------------
(***************************************************************************)
(* What the scrape runs of one (provider, location, rate) promise whoever  *)
(* reads its season calendar: there is one calendar at a time, whole, the  *)
(* work of one run, and never an older one after a newer one.  A run ends  *)
(* with at most one verdict, and a run that ends well leaves its own       *)
(* calendar in force.  ScrapeRun, the orchestrator, implements this.       *)
(***************************************************************************)
EXTENDS Integers

CONSTANTS Runs,        \* identifiers of scrape runs, in order of start
          None         \* "no calendar was ever published"

VARIABLES calendar,    \* None, or the run that computed it and its kind
          verdict      \* of each run: "none", "running", "success" or "failed"

Kinds == {"seasons", "fallback"}

Init ==
    /\ calendar = None
    /\ verdict = [r \in Runs |-> "none"]

\* Runs open in order; one that was interrupted stays "running".
Open(r) ==
    /\ verdict[r] = "none"
    /\ \A q \in Runs : q < r => verdict[q] # "none"
    /\ verdict' = [verdict EXCEPT ![r] = "running"]
    /\ UNCHANGED calendar

Publish(r) ==
    /\ verdict[r] = "running"
    /\ \A q \in Runs : q > r => verdict[q] = "none"
    /\ \E kind \in Kinds : calendar' = [run |-> r, kind |-> kind]
    /\ UNCHANGED verdict

Succeed(r) ==
    /\ verdict[r] = "running"
    /\ calendar = None \/ calendar.run = r
    /\ verdict' = [verdict EXCEPT ![r] = "success"]
    /\ UNCHANGED calendar

Fail(r) ==
    /\ verdict[r] = "running"
    /\ verdict' = [verdict EXCEPT ![r] = "failed"]
    /\ UNCHANGED calendar

Next == \E r \in Runs : Open(r) \/ Publish(r) \/ Succeed(r) \/ Fail(r)

Spec == Init /\ [][Next]_<<calendar, verdict>>
=============================================================================
