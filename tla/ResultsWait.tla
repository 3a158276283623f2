------------------------------ MODULE ResultsWait ------------------------------
(***************************************************************************)
(* wait_for_results and the browser page it polls.  After the click on     *)
(* "search" the provider's page changes when it likes, while the waiter    *)
(* reads the number of prices, the "no results" text and the spinner one   *)
(* after the other, each in its own round trip to the browser.             *)
(***************************************************************************)
EXTENDS Integers

CONSTANTS Searches,    \* searches a page can answer, positive integers
          MaxPolls     \* polls of one wait before its global timeout (60 s)

ASSUME SearchesAssumption == Searches \subseteq Nat \ {0}
ASSUME PollsAssumption == MaxPolls \in Nat

VARIABLES tab,         \* what the browser shows
          wait         \* progress and locals of wait_for_results

\* Content of a page: three prices or more; one or two; the same next to a text
\* such as "not available"; cards without a usable price; only the text that
\* says there is nothing; none of these.  On a form, "priced" are advertised
\* prices, which are no vehicle cards.
Contents == {"priced", "few", "fewAndText", "unpriced", "text", "bare"}
Form == 0
Page == [of : {Form} \cup Searches, shows : Contents]

ManyPrices(page) == page.shows = "priced"          \* _count_price_like_elements >= 3
HasEmptyText(page) == page.shows \in {"text", "fewAndText"}
Cards(page) == page.of # Form /\ page.shows \in {"priced", "few", "fewAndText", "unpriced"}

Signals == {"none", "result_elements", "empty_message", "dom_stable"}
Stages == {"idle", "count", "text", "spinner", "ready", "timeout"}

Blank == [page |-> [of |-> Form, shows |-> "bare"], asked |-> Form, pending |-> FALSE,
          spinner |-> FALSE, moved |-> FALSE]
Idle == [at |-> "idle", polls |-> 0, signal |-> "none",
         many |-> FALSE, text |-> FALSE, moved |-> FALSE]

InitWait == tab = Blank /\ wait = Idle

\* The click that submits search s from the page shown.
Click(s, page) ==
    /\ tab' = [page |-> page, asked |-> s, pending |-> TRUE, spinner |-> FALSE, moved |-> FALSE]
    /\ wait' = [Idle EXCEPT !.at = "count"]

-----------------------------------------------------------------------------
\* The provider's page, while it owes an answer.
Flicker ==
    /\ tab.pending
    /\ tab' = [tab EXCEPT !.spinner = ~tab.spinner]
    /\ UNCHANGED wait

\* The URL changes: the shell of the new page is there, its cards are not.
Navigate ==
    /\ tab.pending
    /\ ~tab.moved
    /\ tab' = [tab EXCEPT !.page = [of |-> tab.asked, shows |-> "bare"],
                          !.moved = TRUE, !.spinner = FALSE]
    /\ UNCHANGED wait

Render(content) ==
    /\ tab.pending
    /\ tab' = [tab EXCEPT !.page = [of |-> tab.asked, shows |-> content],
                          !.pending = FALSE, !.spinner = FALSE]
    /\ UNCHANGED wait

PageStep == Flicker \/ Navigate \/ \E content \in Contents : Render(content)

-----------------------------------------------------------------------------
\* One poll: the URL and the prices, then the text, then the spinner.
PollPrices ==
    /\ wait.at = "count"
    /\ wait.polls < MaxPolls
    /\ wait' = [wait EXCEPT !.at = "text", !.many = ManyPrices(tab.page), !.moved = tab.moved]
    /\ UNCHANGED tab

PollText ==
    /\ wait.at = "text"
    /\ wait' = [wait EXCEPT !.at = "spinner", !.text = HasEmptyText(tab.page)]
    /\ UNCHANGED tab

\* A signal is kept from one poll to the next until the spinner is gone.  After
\* a navigation an unchanged page counts as stable, once it has been so for
\* long enough.
Signalled ==
    IF wait.many THEN {"result_elements"}
    ELSE IF wait.text THEN {"empty_message"}
    ELSE IF wait.moved /\ ~tab.spinner THEN {wait.signal, "dom_stable"}
    ELSE {wait.signal}

PollSpinner ==
    /\ wait.at = "spinner"
    /\ \E signal \in Signalled :
         wait' = [wait EXCEPT !.signal = signal, !.polls = @ + 1,
                    !.at = IF signal # "none" /\ ~tab.spinner THEN "ready" ELSE "count"]
    /\ UNCHANGED tab

\* The global timeout, or the idle timeout of a page that navigated and froze.
GiveUp ==
    /\ wait.at = "count"
    /\ wait.polls = MaxPolls \/ (wait.polls > 0 /\ tab.moved)
    /\ wait' = [wait EXCEPT !.at = "timeout"]
    /\ UNCHANGED tab

Poll == PollPrices \/ PollText \/ PollSpinner \/ GiveUp

-----------------------------------------------------------------------------
WaitTypeOK ==
    /\ tab \in [page : Page, asked : {Form} \cup Searches, pending : BOOLEAN,
                spinner : BOOLEAN, moved : BOOLEAN]
    /\ wait \in [at : Stages, polls : 0..MaxPolls, signal : Signals,
                 many : BOOLEAN, text : BOOLEAN, moved : BOOLEAN]
=============================================================================
