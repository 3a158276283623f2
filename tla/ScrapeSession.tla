----------------------------- MODULE ScrapeSession -----------------------------
(***************************************************************************)
(* BaseScraper.scrape_session driving RecipeScraper: the searches of one   *)
(* provider in one browser, each answered by ResultsWait's page.  A search *)
(* refines the dates of the page left by the one before it, or fills the   *)
(* whole form; a failed one is retried once from the form.  A probe        *)
(* session may be stopped early (_make_probe_stopper); an extraction       *)
(* session is followed by one more over the searches that errored          *)
(* (_retry_errored_searches).  No caller gives fallback searches.          *)
(***************************************************************************)
EXTENDS Sequences, FiniteSets, ResultsWait

CONSTANTS N,           \* searches of the session
          Strategies,  \* refine strategies its recipe may have
          Threshold,   \* confirmed-empty results in a row that stop a probe
          None         \* position of a search that was not executed

ASSUME PlanAssumption == N \in Nat \ {0} /\ Searches = 1..N
ASSUME StrategiesAssumption == Strategies \subseteq {"none", "navigate", "in_place"}
ASSUME ThresholdAssumption == Threshold \in Nat \ {0}

VARIABLES phase,       \* "probe", "extract" or, for the second session, "retry"
          strategy,    \* recipe.refine_strategy
          pc,
          queue,       \* searches of the session, in order
          got,         \* results of the session, in order
          attempt,     \* 1, or 2 for the retry from the form
          full,        \* needs_full_submit
          browser,     \* _session: "none", or "open"
          dirty,       \* _session_dirty
          failedHere,  \* an attempt failed in this browser (a history variable)
          streak,      \* confirmed-empty results in a row
          results      \* what the orchestrator has, by search

session == <<phase, strategy, queue>>
vars == <<tab, wait, phase, strategy, pc, queue, got, attempt, full, browser, dirty,
          failedHere, streak, results>>

Result == [of : {Form} \cup Searches, cars : BOOLEAN, empty : BOOLEAN, error : BOOLEAN]
Failure == [of |-> Form, cars |-> FALSE, empty |-> FALSE, error |-> TRUE]
Current == queue[Len(got) + 1]

Init ==
    /\ InitWait
    /\ phase \in {"probe", "extract"}
    /\ strategy \in Strategies
    /\ pc = "attempt"
    /\ queue = [k \in Searches |-> k]
    /\ got = <<>>
    /\ attempt = 1
    /\ full = TRUE
    /\ browser = "none"
    /\ dirty = FALSE
    /\ failedHere = FALSE
    /\ streak = 0
    /\ results = [k \in Searches |-> None]

-----------------------------------------------------------------------------
RecordCountingErrors(result) ==
    /\ got' = Append(got, result)
    /\ streak' = IF result.empty \/ result.error THEN streak + 1 ELSE streak
    /\ attempt' = 1
    /\ pc' = IF \/ phase = "probe" /\ streak' >= Threshold
                \/ Len(got') = Len(queue)
             THEN "close" ELSE "attempt"

\* A result is appended; the stopper of a probe sees it, error or not.
Record(result) ==
    /\ got' = Append(got, result)
    /\ streak' = IF result.empty THEN streak + 1 ELSE 0
    /\ attempt' = 1
    /\ pc' = IF \/ phase = "probe" /\ streak' >= Threshold
                \/ Len(got') = Len(queue)
             THEN "close" ELSE "attempt"

FailForgetting ==
    IF attempt = 1
    THEN attempt' = 2 /\ pc' = "attempt" /\ UNCHANGED <<got, streak, full>>
    ELSE Record(Failure) /\ UNCHANGED full

\* What scrape_session does with an exception of the attempt.
Fail ==
    /\ full' = TRUE
    /\ IF attempt = 1
       THEN attempt' = 2 /\ pc' = "attempt" /\ UNCHANGED <<got, streak>>
       ELSE Record(Failure)

\* _refine_form falls back to the form when there is nothing to refine.
FillsForm == full \/ attempt = 2 \/ browser = "none" \/ strategy = "none"

SubmitFormKeepingBrowser(advertised) ==
    /\ pc = "attempt"
    /\ FillsForm
    /\ browser' = "open"
    /\ dirty' = FALSE
    /\ failedHere' = failedHere
    /\ Click(Current, [of |-> Form, shows |-> advertised])
    /\ pc' = "wait"
    /\ UNCHANGED <<session, got, attempt, full, streak, results>>

\* A dirty browser is replaced before the form is filled.
SubmitForm(advertised) ==
    /\ pc = "attempt"
    /\ FillsForm
    /\ browser' = "open"
    /\ dirty' = FALSE
    /\ failedHere' = (failedHere /\ browser = "open" /\ ~dirty)
    /\ Click(Current, [of |-> Form, shows |-> advertised])
    /\ pc' = "wait"
    /\ UNCHANGED <<session, got, attempt, full, streak, results>>

\* No recipe, or no browser: nothing is open afterwards, unless a clean browser was.
NoBrowser ==
    /\ pc = "attempt"
    /\ FillsForm
    /\ browser = "none" \/ dirty
    /\ browser' = "none"
    /\ dirty' = FALSE
    /\ failedHere' = FALSE
    /\ tab' = Blank
    /\ Fail
    /\ UNCHANGED <<session, wait, results>>

\* The form cannot be reached, filled or submitted.
FormFails ==
    /\ pc = "attempt"
    /\ FillsForm
    /\ browser' = "open"
    /\ dirty' = TRUE
    /\ failedHere' = TRUE
    /\ tab' = Blank
    /\ Fail
    /\ UNCHANGED <<session, wait, results>>

\* _refine_navigate goes back to the form, _refine_in_place stays on the results.
RefineForm(advertised) ==
    /\ pc = "attempt"
    /\ ~FillsForm
    /\ Click(Current, IF strategy = "navigate" THEN [of |-> Form, shows |-> advertised]
                      ELSE tab.page)
    /\ pc' = "wait"
    /\ UNCHANGED <<session, got, attempt, full, browser, dirty, failedHere, streak, results>>

RefineFails ==
    /\ pc = "attempt"
    /\ ~FillsForm
    /\ dirty' = TRUE
    /\ failedHere' = TRUE
    /\ Fail
    /\ UNCHANGED <<session, tab, wait, browser, results>>

\* The page or the poller moves.
Wait ==
    /\ pc = "wait"
    /\ PageStep \/ Poll
    /\ UNCHANGED <<session, pc, got, attempt, full, browser, dirty, failedHere, streak, results>>

Said == wait.signal = "empty_message"          \* has_empty_page

ExtractUnverified ==
    /\ pc = "wait"
    /\ wait.at = "ready"
    /\ full' = FALSE
    /\ Record([of |-> tab.page.of, cars |-> Cards(tab.page) /\ tab.page.shows # "unpriced",
               empty |-> Said, error |-> FALSE])
    /\ wait' = Idle
    /\ UNCHANGED <<session, tab, browser, dirty, failedHere, results>>

\* The cards on the page at that moment, or its word that there is none.
Extract ==
    /\ pc = "wait"
    /\ wait.at = "ready"
    /\ Cards(tab.page) \/ Said
    /\ full' = FALSE
    /\ Record([of |-> tab.page.of, cars |-> Cards(tab.page) /\ tab.page.shows # "unpriced",
               empty |-> Said, error |-> FALSE])
    /\ wait' = Idle
    /\ UNCHANGED <<session, tab, browser, dirty, failedHere, results>>

ExtractFails ==
    /\ pc = "wait"
    /\ wait.at \in {"ready", "timeout"}
    /\ dirty' = TRUE
    /\ failedHere' = TRUE
    /\ wait' = Idle
    /\ Fail
    /\ UNCHANGED <<session, tab, browser, results>>

-----------------------------------------------------------------------------
TakenAnyway(k) ==
    LET mine == {j \in 1..Len(got) : queue[j] = k}
    IN  IF mine = {} THEN results[k]
        ELSE [got[CHOOSE j \in mine : TRUE] EXCEPT !.empty = FALSE]

\* The results of the session by search; those of the retry only if they have
\* cars.  RateFilter drops the confirmed-empty flag.
Taken(k) ==
    LET mine == {j \in 1..Len(got) : queue[j] = k /\ (phase = "retry" => got[j].cars)}
    IN  IF mine = {} THEN results[k]
        ELSE [got[CHOOSE j \in mine : TRUE] EXCEPT !.empty = FALSE]

Errored(k) == results'[k] # None /\ results'[k].error

\* The members of S from first to last: the set has exactly one such sequence.
InOrder(S) == {q \in [1..Cardinality(S) -> S] :
                 \A i, j \in 1..Cardinality(S) : i < j => q[i] < q[j]}

CloseLeavingBrowser ==
    /\ pc = "close"
    /\ results' = [k \in Searches |-> Taken(k)]
    /\ UNCHANGED <<tab, browser, dirty, failedHere>>
    /\ IF phase = "extract" /\ \E k \in Searches : Errored(k)
       THEN /\ phase' = "retry"
            /\ queue' \in InOrder({k \in Searches : Errored(k)})
            /\ got' = <<>>
            /\ streak' = 0
            /\ full' = TRUE
            /\ pc' = "attempt"
       ELSE pc' = "done" /\ UNCHANGED <<phase, queue, got, streak, full>>
    /\ UNCHANGED <<wait, strategy, attempt>>

\* close(), then the second session, with a scraper of its own, if one is due.
CloseSession ==
    /\ pc = "close"
    /\ results' = [k \in Searches |-> Taken(k)]
    /\ tab' = Blank
    /\ browser' = "none"
    /\ dirty' = FALSE
    /\ failedHere' = FALSE
    /\ IF phase = "extract" /\ \E k \in Searches : Errored(k)
       THEN /\ phase' = "retry"
            /\ queue' \in InOrder({k \in Searches : Errored(k)})
            /\ got' = <<>>
            /\ streak' = 0
            /\ full' = TRUE
            /\ pc' = "attempt"
       ELSE pc' = "done" /\ UNCHANGED <<phase, queue, got, streak, full>>
    /\ UNCHANGED <<wait, strategy, attempt>>

Done == pc = "done" /\ UNCHANGED vars

Scraper ==
    \/ \E advertised \in {"bare", "priced"} : SubmitForm(advertised) \/ RefineForm(advertised)
    \/ NoBrowser \/ FormFails \/ RefineFails
    \/ Extract \/ ExtractFails
    \/ CloseSession

Next == Scraper \/ Wait \/ Done

\* Each await of the scraper ends, by its own timeout if need be.  The page owes
\* nothing: it may never answer.
Spec == Init /\ [][Next]_vars
FairSpec == Spec /\ WF_vars(Scraper) /\ WF_vars(Poll /\ Wait)

-----------------------------------------------------------------------------
\* The session, its browser and the waiter keep their types.
TypeOK ==
    /\ WaitTypeOK
    /\ phase \in {"probe", "extract", "retry"}
    /\ strategy \in Strategies
    /\ pc \in {"attempt", "wait", "close", "done"}
    /\ queue \in Seq(Searches)
    /\ Len(got) <= Len(queue) /\ got \in Seq(Result)
    /\ pc \in {"attempt", "wait"} => Len(got) < Len(queue)
    /\ attempt \in 1..2
    /\ {full, dirty, failedHere} \subseteq BOOLEAN
    /\ browser \in {"none", "open"}
    /\ streak \in 0..N
    /\ results \in [Searches -> Result \cup {None}]

\* No search is submitted in a browser where an attempt has failed: the dirty
\* one is closed and reopened first, whichever way the attempt failed.
SearchesRunInCleanBrowser == pc = "wait" => browser = "open" /\ ~failedHere

\* A refine starts where the recipe needs it, on the results of a search that
\* succeeded in the same browser (precondition of _refine_in_place).
RefineStartsOnResults ==
    [][\A advertised \in {"bare", "priced"} :
          RefineForm(advertised) => Len(got) > 0 /\ ~got[Len(got)].error /\ ~failedHere]_vars

\* Whatever the page and the poller do, a result is read from the page of the
\* search it is stored under, unless the recipe refines in place: the page the
\* search leaves is a form, which has no cards and never says "no results".
FormSearchesAreFresh ==
    strategy # "in_place" =>
        \A k \in Searches : results[k] # None /\ ~results[k].error => results[k].of = k

\* The same for every recipe: "the results page is ready" when the wait ends.
ResultsMatchSearch ==
    \A k \in Searches : results[k] # None /\ ~results[k].error => results[k].of = k

\* The last Threshold of the first n pages all said that they have no offers.
\* (A page may say so and list cars all the same; the stopper does not look.)
SilentUpTo(n) == n >= Threshold /\ \A j \in 1..Threshold : got[n + 1 - j].empty

\* A probe is cut at the first Threshold pages in a row that said they have no
\* offers, and only there: errors are recoverable and must not cut it, and the
\* rest of the season is searched no further once it is known to be closed.
EarlyStopIsEarned ==
    phase = "probe" /\ pc = "done" =>
        /\ Len(got) < N => SilentUpTo(Len(got))
        /\ \A n \in 1..Len(got) : SilentUpTo(n) => n = Len(got)

\* "Cars or errors reset the streak" (docstring of _make_probe_stopper,
\* smart_orchestrator.py, lines 738-740).
\* Not kept by the code (README, section 3).
CarsResetStreak ==
    phase = "probe" /\ pc = "done" /\ Len(got) < N =>
        \A j \in 1..Threshold : ~got[Len(got) + 1 - j].cars

\* The retry session never loses or changes what the first one obtained, and
\* never turns an error into an empty answer.
RetryOnlyRecovers ==
    [][\A k \in Searches : results[k] # None /\ results'[k] # results[k]
                              => results[k].error /\ results'[k].cars]_vars

\* Every session ends, with its browser closed, though the page may never answer.
SessionEnds == <>[](pc = "done" /\ browser = "none")
=============================================================================
