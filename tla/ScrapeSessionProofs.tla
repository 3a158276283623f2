-------------------------- MODULE ScrapeSessionProofs --------------------------
(***************************************************************************)
(* Proofs about ScrapeSession, for any number of searches, any threshold   *)
(* of the probe stopper and any number of polls.                           *)
(***************************************************************************)
EXTENDS ScrapeSession, FiniteSetTheorems, SequenceTheorems, TLAPS

-----------------------------------------------------------------------------
\* A poll under way has not used up the polls; the queue holds no more than
\* the searches, the streak no more than the results.
Bounds ==
    /\ wait.at \in {"text", "spinner"} => wait.polls < MaxPolls
    /\ Len(queue) <= N
    /\ streak <= Len(got)

\* A failed attempt leaves a browser that is dirty or closed, and the next one
\* goes to the form; the last result is there to be refined otherwise.
CleanInv ==
    /\ SearchesRunInCleanBrowser
    /\ pc = "attempt" /\ browser = "open" /\ failedHere => dirty
    /\ attempt = 2 => full
    /\ pc = "attempt" /\ ~full => Len(got) > 0 /\ ~got[Len(got)].error /\ ~failedHere

\* From a form, the page is the form or the answer to the search under way, and
\* what the waiter remembers of a "no results" text comes from the answer.
WaitIsFresh ==
    /\ tab.asked = Current
    /\ tab.page.of = Form => tab.page.shows \in {"bare", "priced"}
    /\ tab.page.of # Form => tab.page.of = tab.asked
    /\ wait.text => tab.page.of = tab.asked
    /\ wait.signal = "empty_message" => tab.page.of = tab.asked

FreshInv ==
    strategy # "in_place" =>
        /\ pc = "wait" => WaitIsFresh
        /\ \A j \in 1..Len(got) : got[j].error \/ got[j].of = queue[j]
        /\ \A k \in Searches : results[k] # None /\ ~results[k].error => results[k].of = k

\* The streak counts the empty results at the end of a probe, all of them.  No
\* results before the last could have stopped it, and a probe that has ended
\* went through its plan or to the threshold.
NoEarlierStop == \A n \in 1..Len(got) : n < Len(got) => ~SilentUpTo(n)
StopInv ==
    phase = "probe" =>
        /\ Len(queue) = N
        /\ \A j \in 1..streak : got[Len(got) + 1 - j].empty
        /\ streak < Len(got) => ~got[Len(got) - streak].empty
        /\ NoEarlierStop
        /\ pc \in {"attempt", "wait"} => streak < Threshold
        /\ pc \in {"close", "done"} => streak >= Threshold \/ Len(got) = N

\* Nothing is stored before the first session ends, and the second one only
\* searches what is stored as an error.
RetryInv ==
    /\ phase # "retry" /\ pc # "done" => \A k \in Searches : results[k] = None
    /\ phase = "retry" /\ pc # "done" =>
           \A j \in 1..Len(queue) : results[queue[j]] # None /\ results[queue[j]].error

IInv == TypeOK /\ Bounds /\ CleanInv /\ FreshInv /\ StopInv /\ RetryInv

-----------------------------------------------------------------------------
\* The plan is a sequence of N searches, and any set of searches has no more.
LEMMA PlanIsSequence ==
    /\ [k \in Searches |-> k] \in Seq(Searches)
    /\ Len([k \in Searches |-> k]) = N
<1>1. N \in Nat /\ [k \in Searches |-> k] \in [1..N -> Searches]
  BY PlanAssumption
<1>2. [k \in Searches |-> k] \in Seq(Searches)
  BY <1>1, SeqDef
<1> QED BY <1>1, <1>2, LenProperties

LEMMA InOrderIsSequence ==
    ASSUME NEW S \in SUBSET Searches, NEW q \in InOrder(S)
    PROVE  /\ q \in Seq(Searches)
           /\ Len(q) <= N
           /\ S # {} => Len(q) > 0
           /\ \A j \in 1..Len(q) : q[j] \in S
<1>1. N \in Nat /\ Searches = 1..N
  BY PlanAssumption
<1>2. IsFiniteSet(Searches) /\ Cardinality(Searches) = N
  BY <1>1, FS_Interval
<1>3. IsFiniteSet(S) /\ Cardinality(S) <= N
  BY <1>2, FS_Subset
<1>4. Cardinality(S) \in Nat /\ (S # {} => Cardinality(S) # 0)
  BY <1>3, FS_CardinalityType, FS_EmptySet
<1>5. q \in [1..Cardinality(S) -> S]
  BY DEF InOrder
<1>6. q \in Seq(S)
  BY <1>4, <1>5, SeqDef
<1>7. q \in Seq(Searches)
  BY <1>6, SeqMonotonic
<1>8. Len(q) = Cardinality(S)
  BY <1>4, <1>5, <1>6, LenProperties
<1> QED BY <1>3, <1>4, <1>5, <1>7, <1>8

\* The search under way is one of the searches.
LEMMA CurrentIsSearch ==
    ASSUME TypeOK, pc \in {"attempt", "wait"}
    PROVE  Len(got) + 1 \in 1..Len(queue) /\ Current \in Searches
<1>1. Len(got) \in Nat /\ Len(queue) \in Nat /\ Len(got) < Len(queue)
  BY LenProperties DEF TypeOK
<1>2. Len(got) + 1 \in 1..Len(queue)
  BY <1>1
<1> QED BY <1>2, ElementOfSeq DEF TypeOK, Current

LEMMA InitHolds == Init => IInv
<1> SUFFICES ASSUME Init PROVE IInv
  OBVIOUS
<1> USE DEF Init
<1>1. /\ queue \in Seq(Searches) /\ Len(queue) = N /\ N \in Nat \ {0}
      /\ got \in Seq(Result) /\ Len(got) = 0
  BY PlanIsSequence, PlanAssumption
<1>2. WaitTypeOK
  BY PollsAssumption DEF InitWait, Blank, Idle, WaitTypeOK, Page, Contents, Form, Stages, Signals
<1>3. {full, dirty, failedHere} \subseteq BOOLEAN
  OBVIOUS
<1>4. streak \in 0..N /\ attempt \in 1..2 /\ Len(got) < Len(queue)
  BY <1>1
<1>5. results \in [Searches -> Result \cup {None}]
  OBVIOUS
<1>6. TypeOK
  BY <1>1, <1>2, <1>3, <1>4, <1>5 DEF TypeOK
<1>7. Bounds /\ CleanInv
  BY <1>1 DEF Bounds, CleanInv, SearchesRunInCleanBrowser, InitWait, Idle
<1>8. FreshInv /\ StopInv /\ RetryInv
  BY <1>1, ThresholdAssumption DEF FreshInv, StopInv, NoEarlierStop, RetryInv
<1> QED BY <1>6, <1>7, <1>8 DEF IInv

-----------------------------------------------------------------------------
(* What the actions have in common: a click, a recorded result, a failure. *)

\* A click from a form, or in place, in a browser where nothing has failed.
LEMMA ClickStep ==
    ASSUME IInv, NEW page \in Page, pc = "attempt", Click(Current, page), pc' = "wait",
           UNCHANGED <<session, got, attempt, full, streak, results>>,
           browser' = "open", dirty' \in BOOLEAN, ~failedHere', failedHere' \in BOOLEAN,
           strategy # "in_place" => page.of = Form /\ page.shows \in {"bare", "priced"}
    PROVE  IInv'
<1> USE DEF session
<1>1. /\ Current \in Searches /\ Current' = Current
      /\ tab' = [page |-> page, asked |-> Current, pending |-> TRUE, spinner |-> FALSE,
                 moved |-> FALSE]
      /\ wait' = [Idle EXCEPT !.at = "count"]
  BY CurrentIsSearch DEF IInv, Current, Click
<1>2. wait' = [at |-> "count", polls |-> 0, signal |-> "none", many |-> FALSE, text |-> FALSE,
               moved |-> FALSE]
  BY <1>1 DEF Idle
<1>3. WaitTypeOK'
  <2>1. tab' \in [page : Page, asked : {Form} \cup Searches, pending : BOOLEAN,
                  spinner : BOOLEAN, moved : BOOLEAN]
    BY <1>1
  <2>2. wait' \in [at : Stages, polls : 0..MaxPolls, signal : Signals,
                   many : BOOLEAN, text : BOOLEAN, moved : BOOLEAN]
    BY <1>2, PollsAssumption DEF Stages, Signals
  <2> QED BY <2>1, <2>2 DEF WaitTypeOK
<1>4. TypeOK'
  BY <1>3 DEF IInv, TypeOK
<1>5. Bounds' /\ CleanInv'
  BY <1>2 DEF IInv, Bounds, CleanInv, SearchesRunInCleanBrowser
<1>6. FreshInv'
  BY <1>1, <1>2 DEF IInv, FreshInv, WaitIsFresh
<1>7. StopInv' /\ RetryInv'
  BY DEF IInv, StopInv, NoEarlierStop, SilentUpTo, RetryInv
<1> QED BY <1>4, <1>5, <1>6, <1>7 DEF IInv

\* A recorded result comes after the others; the session goes on or closes.
LEMMA RecordStep ==
    ASSUME TypeOK, Bounds, StopInv, pc \in {"attempt", "wait"}, NEW result \in Result,
           Record(result), UNCHANGED session
    PROVE  /\ got' \in Seq(Result) /\ Len(got') = Len(got) + 1
           /\ \A j \in 1..Len(got) : got'[j] = got[j]
           /\ got'[Len(got')] = result
           /\ streak' \in 0..Len(got') /\ Len(got') \in 1..Len(queue)
           /\ attempt' = 1 /\ pc' \in {"attempt", "close"}
           /\ pc' = "attempt" => Len(got') < Len(queue)
           /\ StopInv'
<1> USE DEF session
<1>1. /\ got' = Append(got, result) /\ got \in Seq(Result)
      /\ Len(got) \in Nat /\ Len(queue) \in Nat /\ Len(got) < Len(queue)
      /\ streak \in Nat /\ streak <= Len(got)
  BY LenProperties, PlanAssumption DEF TypeOK, Bounds, Record
<1>2. /\ got' \in Seq(Result) /\ Len(got') = Len(got) + 1
      /\ \A j \in 1..Len(got) : got'[j] = got[j]
      /\ got'[Len(got')] = result
  BY <1>1, AppendProperties
<1>3. streak' = IF result.empty THEN streak + 1 ELSE 0
  BY DEF Record
<1>4. streak' \in 0..Len(got') /\ Len(got') \in 1..Len(queue)
  BY <1>1, <1>2, <1>3
<1>5. attempt' = 1 /\ pc' \in {"attempt", "close"} /\ (pc' = "attempt" => Len(got') < Len(queue))
  BY <1>1, <1>2 DEF Record
<1>6. ASSUME phase = "probe", NEW j \in 1..streak'
      PROVE  got'[Len(got') + 1 - j].empty
  <2>1. CASE j = 1
    BY <2>1, <1>2, <1>3, <1>1
  <2>2. CASE j # 1
    <3>1. j - 1 \in 1..streak /\ Len(got) + 1 - (j - 1) \in 1..Len(got)
      BY <2>2, <1>1, <1>3
    <3>2. Len(got') + 1 - j = Len(got) + 1 - (j - 1)
      BY <1>1, <1>2
    <3> QED BY <3>1, <3>2, <1>2, <1>6 DEF StopInv
  <2> QED BY <2>1, <2>2
<1>7. ASSUME phase = "probe"
      PROVE  /\ Len(queue) = N
             /\ pc' \in {"close", "done"} => streak' >= Threshold \/ Len(got') = N
             /\ pc' \in {"attempt", "wait"} => streak' < Threshold
  <2>1. Threshold \in Nat /\ streak' \in Nat
    BY <1>1, <1>3, ThresholdAssumption
  <2>2. pc' = IF streak' >= Threshold \/ Len(got') = Len(queue) THEN "close" ELSE "attempt"
    BY <1>7 DEF Record
  <2>3. Len(queue) = N
    BY <1>7 DEF StopInv
  <2> QED BY <2>1, <2>2, <2>3
<1>8. ASSUME phase = "probe", streak' < Len(got')
      PROVE  ~got'[Len(got') - streak'].empty
  <2>1. CASE result.empty
    <3>1. /\ Len(got') - streak' = Len(got) - streak
          /\ Len(got) - streak \in 1..Len(got) /\ streak < Len(got)
      BY <2>1, <1>1, <1>2, <1>3, <1>8
    <3> QED BY <3>1, <1>2, <1>8 DEF StopInv
  <2>2. CASE ~result.empty
    <3>1. Len(got') - streak' = Len(got')
      BY <2>2, <1>1, <1>2, <1>3
    <3> QED BY <3>1, <2>2, <1>2
  <2> QED BY <2>1, <2>2
<1>9. ASSUME phase = "probe", NEW n \in 1..Len(got'), n < Len(got'), SilentUpTo(n)'
      PROVE  FALSE
  <2>1. /\ Threshold \in Nat /\ n >= Threshold /\ n \in 1..Len(got)
        /\ \A j \in 1..Threshold : got'[n + 1 - j].empty
    BY <1>9, <1>1, <1>2, ThresholdAssumption DEF SilentUpTo
  <2>2. \A j \in 1..Threshold : got[n + 1 - j].empty
    <3> SUFFICES ASSUME NEW j \in 1..Threshold PROVE got[n + 1 - j].empty
      OBVIOUS
    <3>1. n + 1 - j \in 1..Len(got)
      BY <2>1, <1>1
    <3> QED BY <3>1, <2>1, <1>2
  <2>3. CASE n < Len(got)
    BY <2>1, <2>2, <2>3, <1>9 DEF StopInv, NoEarlierStop, SilentUpTo
  <2>4. CASE n = Len(got)
    <3>1. streak < Threshold /\ streak < Len(got)
      BY <2>1, <2>4, <1>1, <1>9 DEF StopInv
    <3>2. ~got[Len(got) - streak].empty
      BY <3>1, <1>9 DEF StopInv
    <3>3. streak + 1 \in 1..Threshold /\ n + 1 - (streak + 1) = Len(got) - streak
      BY <3>1, <2>1, <2>4, <1>1
    <3> QED BY <2>2, <3>2, <3>3
  <2> QED BY <2>1, <2>3, <2>4, <1>1
<1>10. StopInv'
  <2>1. phase = "probe" => NoEarlierStop'
    BY <1>9 DEF NoEarlierStop
  <2> QED BY <2>1, <1>6, <1>7, <1>8 DEF StopInv
<1> QED BY <1>2, <1>4, <1>5, <1>10

\* An attempt fails: the search is tried again from the form, or recorded.
LEMMA FailStep ==
    ASSUME IInv, Fail, UNCHANGED <<session, results>>, pc \in {"attempt", "wait"},
           WaitTypeOK', wait'.at \in {"text", "spinner"} => wait'.polls < MaxPolls,
           browser' \in {"none", "open"}, {dirty', failedHere'} \subseteq BOOLEAN,
           browser' = "open" /\ failedHere' => dirty'
    PROVE  IInv'
<1> USE DEF session
<1>1. full' = TRUE /\ pc' # "wait"
  BY DEF Fail, Record
<1>2. CASE attempt = 1
  <2>1. attempt' = 2 /\ pc' = "attempt" /\ got' = got /\ streak' = streak
    BY <1>2 DEF Fail
  <2>2. TypeOK'
    BY <2>1, <1>1 DEF IInv, TypeOK
  <2>3. Bounds' /\ CleanInv'
    BY <2>1, <1>1 DEF IInv, Bounds, CleanInv, SearchesRunInCleanBrowser
  <2>4. FreshInv' /\ StopInv' /\ RetryInv'
    BY <2>1 DEF IInv, FreshInv, StopInv, NoEarlierStop, SilentUpTo, RetryInv
  <2> QED BY <2>2, <2>3, <2>4 DEF IInv
<1>3. CASE attempt # 1
  <2>1. Failure \in Result /\ Failure.error /\ Record(Failure)
    BY <1>3 DEF Fail, Failure, Result
  <2>2. /\ got' \in Seq(Result) /\ Len(got') = Len(got) + 1
        /\ \A j \in 1..Len(got) : got'[j] = got[j]
        /\ got'[Len(got')] = Failure
        /\ streak' \in 0..Len(got') /\ Len(got') \in 1..Len(queue)
        /\ attempt' = 1 /\ pc' \in {"attempt", "close"}
        /\ pc' = "attempt" => Len(got') < Len(queue)
        /\ StopInv'
    BY <2>1, RecordStep DEF IInv
  <2>3. Len(got) \in Nat /\ Len(queue) \in Nat /\ Len(queue) <= N /\ N \in Nat
    BY LenProperties, PlanAssumption DEF IInv, TypeOK, Bounds
  <2>4. TypeOK'
    BY <2>2, <2>3, <1>1 DEF IInv, TypeOK
  <2>5. Bounds' /\ CleanInv'
    BY <2>2, <1>1 DEF IInv, Bounds, CleanInv, SearchesRunInCleanBrowser
  <2>6. FreshInv'
    BY <2>1, <2>2, <2>3, <1>1 DEF IInv, FreshInv
  <2>7. RetryInv'
    BY <2>2 DEF IInv, RetryInv
  <2> QED BY <2>2, <2>4, <2>5, <2>6, <2>7 DEF IInv
<1> QED BY <1>2, <1>3

-----------------------------------------------------------------------------
(* The page and the poller. *)

Tabs == [page : Page, asked : {Form} \cup Searches, pending : BOOLEAN, spinner : BOOLEAN,
         moved : BOOLEAN]

\* What the page becomes when it moves: the same page, or one of the search asked.
LEMMA PageStepMoves ==
    ASSUME WaitTypeOK, PageStep
    PROVE  /\ tab' \in Tabs /\ wait' = wait
           /\ tab'.asked = tab.asked
           /\ tab'.page = tab.page \/ tab'.page.of = tab.asked
<1>1. tab \in Tabs /\ wait' = wait
  BY DEF WaitTypeOK, Tabs, PageStep, Flicker, Navigate, Render
<1>2. CASE Flicker
  BY <1>1, <1>2 DEF Flicker, Tabs
<1>3. CASE Navigate
  <2>1. tab' = [page |-> [of |-> tab.asked, shows |-> "bare"], asked |-> tab.asked,
                pending |-> tab.pending, spinner |-> FALSE, moved |-> TRUE]
    BY <1>1, <1>3 DEF Navigate, Tabs
  <2> QED BY <2>1, <1>1 DEF Tabs, Page, Contents
<1>4. CASE \E content \in Contents : Render(content)
  <2>1. PICK content \in Contents : Render(content)
    BY <1>4
  <2>2. tab' = [page |-> [of |-> tab.asked, shows |-> content], asked |-> tab.asked,
                pending |-> FALSE, spinner |-> FALSE, moved |-> tab.moved]
    BY <1>1, <2>1 DEF Render, Tabs
  <2> QED BY <2>2, <1>1 DEF Tabs, Page
<1> QED BY <1>2, <1>3, <1>4 DEF PageStep

Waits == [at : Stages, polls : 0..MaxPolls, signal : Signals,
          many : BOOLEAN, text : BOOLEAN, moved : BOOLEAN]

\* A poll reads the page and leaves it alone; the text it remembers was on the
\* page, and the signal comes from the text it remembers.
LEMMA PollReads ==
    ASSUME WaitTypeOK, wait.at \in {"text", "spinner"} => wait.polls < MaxPolls, Poll
    PROVE  /\ tab' = tab /\ wait' \in Waits
           /\ wait'.at \in {"text", "spinner"} => wait'.polls < MaxPolls
           /\ wait'.text => wait.text \/ HasEmptyText(tab.page)
           /\ wait'.signal = "empty_message" => wait.signal = "empty_message" \/ wait.text
<1> USE PollsAssumption
<1>1. wait \in Waits /\ tab' = tab
  BY DEF WaitTypeOK, Waits, Poll, PollPrices, PollText, PollSpinner, GiveUp
<1>2. CASE PollPrices
  <2>1. wait' = [at |-> "text", polls |-> wait.polls, signal |-> wait.signal,
                 many |-> ManyPrices(tab.page), text |-> wait.text, moved |-> tab.moved]
    BY <1>1, <1>2 DEF PollPrices, Waits
  <2>2. ManyPrices(tab.page) \in BOOLEAN /\ tab.moved \in BOOLEAN
    BY DEF ManyPrices, WaitTypeOK
  <2> QED BY <2>1, <2>2, <1>1, <1>2 DEF PollPrices, Waits, Stages
<1>3. CASE PollText
  <2>1. wait' = [at |-> "spinner", polls |-> wait.polls, signal |-> wait.signal,
                 many |-> wait.many, text |-> HasEmptyText(tab.page), moved |-> wait.moved]
    BY <1>1, <1>3 DEF PollText, Waits
  <2>2. HasEmptyText(tab.page) \in BOOLEAN
    BY DEF HasEmptyText
  <2> QED BY <2>1, <2>2, <1>1, <1>3 DEF PollText, Waits, Stages
<1>4. CASE PollSpinner
  <2>1. PICK signal \in Signalled :
           wait' = [wait EXCEPT !.signal = signal, !.polls = @ + 1,
                      !.at = IF signal # "none" /\ ~tab.spinner THEN "ready" ELSE "count"]
    BY <1>4 DEF PollSpinner
  <2>2. /\ signal \in Signals
        /\ signal = "empty_message" => wait.signal = "empty_message" \/ wait.text
    BY <1>1 DEF Signalled, Signals, Waits
  <2> DEFINE at == IF signal # "none" /\ ~tab.spinner THEN "ready" ELSE "count"
  <2>3. wait' = [at |-> at, polls |-> wait.polls + 1, signal |-> signal,
                 many |-> wait.many, text |-> wait.text, moved |-> wait.moved]
    BY <1>1, <2>1 DEF Waits
  <2>4. at \in Stages /\ at \notin {"text", "spinner"} /\ wait.polls + 1 \in 0..MaxPolls
    BY <1>1, <1>4 DEF Stages, PollSpinner, Waits
  <2> HIDE DEF at
  <2> QED BY <2>2, <2>3, <2>4, <1>1 DEF Waits
<1>5. CASE GiveUp
  <2>1. wait' = [at |-> "timeout", polls |-> wait.polls, signal |-> wait.signal,
                 many |-> wait.many, text |-> wait.text, moved |-> wait.moved]
    BY <1>1, <1>5 DEF GiveUp, Waits
  <2> QED BY <2>1, <1>1 DEF Waits, Stages
<1> QED BY <1>2, <1>3, <1>4, <1>5 DEF Poll

LEMMA WaitStep == IInv /\ Wait => IInv'
<1> SUFFICES ASSUME IInv, Wait PROVE IInv'
  OBVIOUS
<1>1. /\ pc = "wait" /\ pc' = "wait"
      /\ phase' = phase /\ strategy' = strategy /\ queue' = queue /\ got' = got
      /\ attempt' = attempt /\ full' = full /\ browser' = browser /\ dirty' = dirty
      /\ failedHere' = failedHere /\ streak' = streak /\ results' = results
  BY DEF Wait, session
<1>2. /\ tab' \in Tabs /\ wait' \in Waits /\ tab'.asked = tab.asked
      /\ wait'.at \in {"text", "spinner"} => wait'.polls < MaxPolls
      /\ tab'.page = tab.page \/ tab'.page.of = tab.asked
      /\ wait'.text => wait.text \/ (HasEmptyText(tab.page) /\ tab' = tab)
      /\ wait'.signal = "empty_message" => wait.signal = "empty_message" \/ wait.text
  <2>1. CASE PageStep
    <3>1. /\ tab' \in Tabs /\ wait' = wait /\ tab'.asked = tab.asked
          /\ tab'.page = tab.page \/ tab'.page.of = tab.asked
      BY <2>1, PageStepMoves DEF IInv, TypeOK
    <3>2. wait \in Waits /\ (wait.at \in {"text", "spinner"} => wait.polls < MaxPolls)
      BY DEF IInv, TypeOK, Bounds, WaitTypeOK, Waits
    <3> QED BY <3>1, <3>2
  <2>2. CASE Poll
    BY <2>2, PollReads DEF IInv, TypeOK, Bounds, WaitTypeOK, Tabs
  <2> QED BY <2>1, <2>2 DEF Wait
<1>3. TypeOK' /\ Bounds' /\ CleanInv'
  BY <1>1, <1>2 DEF IInv, TypeOK, Bounds, CleanInv, SearchesRunInCleanBrowser, WaitTypeOK,
                    Tabs, Waits
<1>4. FreshInv'
  <2>1. ASSUME strategy # "in_place" PROVE WaitIsFresh'
    <3>1. WaitIsFresh
      BY <2>1, <1>1 DEF IInv, FreshInv
    <3>2. Current' = Current /\ Current # Form
      BY <1>1, CurrentIsSearch, SearchesAssumption DEF IInv, Current, Form
    <3>3. HasEmptyText(tab.page) => tab.page.of = tab.asked
      BY <3>1 DEF WaitIsFresh, HasEmptyText
    <3> QED BY <3>1, <3>2, <3>3, <1>2 DEF WaitIsFresh
  <2> QED BY <2>1, <1>1 DEF IInv, FreshInv
<1>5. StopInv' /\ RetryInv'
  BY <1>1 DEF IInv, StopInv, NoEarlierStop, SilentUpTo, RetryInv
<1> QED BY <1>3, <1>4, <1>5 DEF IInv

-----------------------------------------------------------------------------
(* One lemma per action of the scraper. *)

LEMMA SubmitFormStep ==
    ASSUME NEW advertised \in {"bare", "priced"}
    PROVE  IInv /\ SubmitForm(advertised) => IInv'
<1> SUFFICES ASSUME IInv, SubmitForm(advertised) PROVE IInv'
  OBVIOUS
<1> DEFINE page == [of |-> Form, shows |-> advertised]
<1>1. page \in Page /\ page.of = Form /\ page.shows \in {"bare", "priced"}
  BY DEF Page, Contents
<1>2. /\ pc = "attempt" /\ Click(Current, page) /\ pc' = "wait"
      /\ UNCHANGED <<session, got, attempt, full, streak, results>>
      /\ browser' = "open" /\ dirty' = FALSE
      /\ failedHere' = (failedHere /\ browser = "open" /\ ~dirty)
  BY DEF SubmitForm
<1>3. failedHere' = FALSE
  BY <1>2 DEF IInv, CleanInv
<1> HIDE DEF page
<1> QED BY <1>1, <1>2, <1>3, ClickStep

LEMMA RefineFormStep ==
    ASSUME NEW advertised \in {"bare", "priced"}
    PROVE  IInv /\ RefineForm(advertised) => IInv'
<1> SUFFICES ASSUME IInv, RefineForm(advertised) PROVE IInv'
  OBVIOUS
<1> DEFINE form == [of |-> Form, shows |-> advertised]
           page == IF strategy = "navigate" THEN form ELSE tab.page
<1>1. form \in Page /\ form.of = Form /\ form.shows \in {"bare", "priced"}
  BY DEF Page, Contents
<1>2. /\ pc = "attempt" /\ Click(Current, page) /\ pc' = "wait" /\ ~FillsForm
      /\ UNCHANGED <<session, got, attempt, full, browser, dirty, failedHere, streak, results>>
  BY DEF RefineForm
<1>3. browser' = "open" /\ ~failedHere' /\ failedHere' \in BOOLEAN /\ dirty' \in BOOLEAN
  BY <1>2 DEF IInv, TypeOK, CleanInv, FillsForm
<1>4. strategy \in {"navigate", "in_place"} /\ tab.page \in Page
  BY <1>2, StrategiesAssumption DEF IInv, TypeOK, WaitTypeOK, FillsForm
<1> HIDE DEF form
<1>5. page \in Page /\ (strategy # "in_place" => page.of = Form /\ page.shows \in {"bare", "priced"})
  BY <1>1, <1>4
<1>6. UNCHANGED <<session, got, attempt, full, streak, results>>
  BY <1>2
<1> HIDE DEF page
<1> QED BY <1>2, <1>3, <1>5, <1>6, ClickStep

\* The three failures leave the browser closed or dirty.
LEMMA FailuresStep == IInv /\ (NoBrowser \/ FormFails \/ RefineFails \/ ExtractFails) => IInv'
<1> SUFFICES ASSUME IInv, NoBrowser \/ FormFails \/ RefineFails \/ ExtractFails PROVE IInv'
  OBVIOUS
<1>1. /\ Fail /\ pc \in {"attempt", "wait"}
      /\ UNCHANGED <<session, results>>
      /\ browser' = "open" /\ failedHere' => dirty'
  BY DEF NoBrowser, FormFails, RefineFails, ExtractFails
<1>2. browser' \in {"none", "open"} /\ {dirty', failedHere'} \subseteq BOOLEAN
  BY DEF NoBrowser, FormFails, RefineFails, ExtractFails, IInv, TypeOK
<1>3. Blank \in Tabs /\ Idle \in Waits /\ Idle.at = "idle"
  BY PollsAssumption DEF Blank, Idle, Tabs, Waits, Page, Contents, Form, Stages, Signals
<1>4. tab' \in {tab, Blank} /\ wait' \in {wait, Idle}
  BY DEF NoBrowser, FormFails, RefineFails, ExtractFails
<1>5. WaitTypeOK' /\ (wait'.at \in {"text", "spinner"} => wait'.polls < MaxPolls)
  BY <1>3, <1>4 DEF IInv, TypeOK, Bounds, WaitTypeOK, Tabs, Waits
<1> QED BY <1>1, <1>2, <1>5, FailStep

LEMMA ExtractStep == IInv /\ Extract => IInv'
<1> SUFFICES ASSUME IInv, Extract PROVE IInv'
  OBVIOUS
<1> DEFINE result == [of |-> tab.page.of, cars |-> Cards(tab.page) /\ tab.page.shows # "unpriced",
                      empty |-> Said, error |-> FALSE]
<1>1. /\ pc = "wait" /\ (Cards(tab.page) \/ Said) /\ full' = FALSE /\ Record(result)
      /\ wait' = Idle /\ tab' = tab /\ UNCHANGED <<session, browser, dirty, failedHere, results>>
  BY DEF Extract
<1>2. Len(got) \in Nat /\ Len(queue) \in Nat /\ Len(queue) <= N /\ N \in Nat
  BY LenProperties, PlanAssumption DEF IInv, TypeOK, Bounds
<1>3. tab.page.of \in {Form} \cup Searches
  BY DEF IInv, TypeOK, WaitTypeOK, Page
<1>4. result \in Result /\ result.error = FALSE /\ result.of = tab.page.of
  BY <1>3 DEF Result, Said, Cards
<1>5. strategy # "in_place" => result.of = Current
  BY <1>1, <1>4 DEF IInv, FreshInv, WaitIsFresh, Cards, Said
<1> HIDE DEF result
<1>6. /\ got' \in Seq(Result) /\ Len(got') = Len(got) + 1
      /\ \A j \in 1..Len(got) : got'[j] = got[j]
      /\ got'[Len(got')] = result
      /\ streak' \in 0..Len(got') /\ Len(got') \in 1..Len(queue)
      /\ attempt' = 1 /\ pc' \in {"attempt", "close"}
      /\ pc' = "attempt" => Len(got') < Len(queue)
      /\ StopInv'
  BY <1>1, <1>4, RecordStep DEF IInv
<1>7. Idle \in Waits /\ Idle.at = "idle"
  BY PollsAssumption DEF Idle, Waits, Stages, Signals
<1>8. TypeOK'
  <2>1. WaitTypeOK'
    BY <1>1, <1>7 DEF IInv, TypeOK, WaitTypeOK, Waits
  <2>2. streak' \in 0..N
    BY <1>2, <1>6
  <2>3. /\ phase' = phase /\ strategy' = strategy /\ queue' = queue /\ browser' = browser
        /\ results' = results /\ {full', dirty', failedHere'} \subseteq BOOLEAN
    BY <1>1 DEF IInv, TypeOK, session
  <2>4. /\ got' \in Seq(Result) /\ Len(got') <= Len(queue') /\ attempt' \in 1..2
        /\ pc' \in {"attempt", "wait"} => Len(got') < Len(queue')
        /\ pc' \in {"attempt", "wait", "close", "done"}
    BY <1>2, <1>6, <2>3
  <2> QED BY <2>1, <2>2, <2>3, <2>4 DEF IInv, TypeOK
<1>9. Bounds' /\ CleanInv'
  BY <1>1, <1>4, <1>6, <1>7 DEF IInv, Bounds, CleanInv, SearchesRunInCleanBrowser, session
<1>10. FreshInv'
  BY <1>1, <1>2, <1>4, <1>5, <1>6 DEF IInv, FreshInv, Current, session
<1>11. RetryInv'
  BY <1>1, <1>6 DEF IInv, RetryInv, session
<1> QED BY <1>6, <1>8, <1>9, <1>10, <1>11 DEF IInv

\* What a closing session stores under a search: what was there, or a result of
\* that search, of the retry only one with cars.
LEMMA TakenResult ==
    ASSUME TypeOK, NEW k \in Searches
    PROVE  \/ Taken(k) = results[k]
           \/ \E j \in 1..Len(got) :
                 /\ queue[j] = k /\ (phase = "retry" => got[j].cars)
                 /\ Taken(k) \in Result
                 /\ Taken(k).of = got[j].of /\ Taken(k).error = got[j].error
                 /\ Taken(k).cars = got[j].cars
<1> DEFINE mine == {j \in 1..Len(got) : queue[j] = k /\ (phase = "retry" => got[j].cars)}
<1>1. CASE mine = {}
  BY <1>1 DEF Taken
<1>2. CASE mine # {}
  <2>1. PICK j : j = CHOOSE i \in mine : TRUE
    OBVIOUS
  <2>2. j \in mine /\ Taken(k) = [got[j] EXCEPT !.empty = FALSE]
    BY <1>2, <2>1 DEF Taken
  <2>3. got[j] \in Result
    BY <2>2, ElementOfSeq DEF TypeOK
  <2>4. /\ Taken(k) \in Result
        /\ Taken(k).of = got[j].of /\ Taken(k).error = got[j].error
        /\ Taken(k).cars = got[j].cars
    BY <2>2, <2>3 DEF Result
  <2> QED BY <2>2, <2>4
<1> QED BY <1>1, <1>2

LEMMA CloseSessionStep == IInv /\ CloseSession => IInv'
<1> SUFFICES ASSUME IInv, CloseSession PROVE IInv'
  OBVIOUS
<1> DEFINE errored == {k \in Searches : Errored(k)}
           again == phase = "extract" /\ \E k \in Searches : Errored(k)
<1>1. /\ pc = "close" /\ results' = [k \in Searches |-> Taken(k)]
      /\ tab' = Blank /\ browser' = "none" /\ dirty' = FALSE /\ failedHere' = FALSE
      /\ wait' = wait /\ strategy' = strategy /\ attempt' = attempt
  BY DEF CloseSession
<1>2. again => /\ phase' = "retry" /\ queue' \in InOrder(errored) /\ got' = <<>>
               /\ streak' = 0 /\ full' = TRUE /\ pc' = "attempt"
  BY DEF CloseSession
<1>3. ~again => /\ pc' = "done" /\ phase' = phase /\ queue' = queue /\ got' = got
                /\ streak' = streak /\ full' = full
  BY DEF CloseSession
<1>4. again => /\ queue' \in Seq(Searches) /\ Len(queue') <= N /\ Len(queue') > 0
               /\ \A j \in 1..Len(queue') : queue'[j] \in Searches /\ Errored(queue'[j])
  <2>1. errored \in SUBSET Searches /\ (again => errored # {})
    OBVIOUS
  <2> HIDE DEF errored
  <2>2. again => /\ queue' \in Seq(Searches) /\ Len(queue') <= N /\ Len(queue') > 0
                 /\ \A j \in 1..Len(queue') : queue'[j] \in errored
    BY <2>1, <1>2, InOrderIsSequence
  <2> QED BY <2>2 DEF errored
<1>5. N \in Nat /\ Len(got) \in Nat /\ Len(queue) \in Nat
  BY LenProperties, PlanAssumption DEF IInv, TypeOK
<1>6. \A k \in Searches : Taken(k) \in Result \cup {None}
  BY TakenResult DEF IInv, TypeOK
<1>7. WaitTypeOK'
  BY <1>1 DEF IInv, TypeOK, WaitTypeOK, Blank, Page, Contents
<1>8. TypeOK'
  <2>1. CASE again
    <3>1. <<>> \in Seq(Result) /\ Len(<<>>) = 0
      BY EmptySeq
    <3> HIDE DEF again
    <3>2. 0 < Len(queue') /\ Len(queue') \in Nat
      BY <2>1, <1>4, LenProperties
    <3>3. Len(got') <= Len(queue') /\ Len(got') < Len(queue')
      BY <2>1, <1>2, <3>1, <3>2
    <3>4. {full', dirty', failedHere'} \subseteq BOOLEAN
      BY <2>1, <1>1, <1>2
    <3>5. streak' \in 0..N
      BY <2>1, <1>2, <1>5
    <3>6. results' \in [Searches -> Result \cup {None}]
      BY <1>1, <1>6
    <3> QED BY <2>1, <1>1, <1>2, <1>4, <1>7, <3>1, <3>3, <3>4, <3>5, <3>6 DEF IInv, TypeOK
  <2>2. CASE ~again
    <3> HIDE DEF again
    <3> QED BY <2>2, <1>1, <1>3, <1>6, <1>7 DEF IInv, TypeOK
  <2> QED BY <2>1, <2>2
<1>9. Bounds' /\ CleanInv' /\ StopInv'
  <2>1. Len(<<>>) = 0
    BY EmptySeq
  <2> HIDE DEF again
  <2> QED BY <2>1, <1>1, <1>2, <1>3, <1>4
        DEF IInv, TypeOK, Bounds, CleanInv, StopInv, NoEarlierStop, SilentUpTo,
            SearchesRunInCleanBrowser
<1>10. FreshInv'
  <2>1. ASSUME strategy # "in_place", NEW k \in Searches, Taken(k) # None, ~Taken(k).error
        PROVE  Taken(k).of = k
    BY <2>1, TakenResult DEF IInv, FreshInv
  <2>2. Len(<<>>) = 0
    BY EmptySeq
  <2> HIDE DEF again
  <2> QED BY <2>1, <2>2, <1>1, <1>2, <1>3 DEF IInv, FreshInv
<1>11. RetryInv'
  <2>1. ASSUME again, NEW j \in 1..Len(queue')
        PROVE  results'[queue'[j]] # None /\ results'[queue'[j]].error
    BY <2>1, <1>4 DEF Errored
  <2> HIDE DEF again
  <2> QED BY <2>1, <1>2, <1>3 DEF RetryInv
<1> QED BY <1>8, <1>9, <1>10, <1>11 DEF IInv

-----------------------------------------------------------------------------
\* Every step of the session, its waiter and its page keeps the invariant.
THEOREM StepHolds == IInv /\ [Next]_vars => IInv'
<1> SUFFICES ASSUME IInv, [Next]_vars PROVE IInv'
  OBVIOUS
<1>1. ASSUME NEW advertised \in {"bare", "priced"},
             SubmitForm(advertised) \/ RefineForm(advertised)
      PROVE  IInv'
  BY <1>1, SubmitFormStep, RefineFormStep
<1>2. CASE NoBrowser \/ FormFails \/ RefineFails \/ ExtractFails
  BY <1>2, FailuresStep
<1>3. CASE Extract
  BY <1>3, ExtractStep
<1>4. CASE CloseSession
  BY <1>4, CloseSessionStep
<1>5. CASE Wait
  BY <1>5, WaitStep
<1>6. CASE UNCHANGED vars
  BY <1>6 DEF vars, session, IInv, TypeOK, WaitTypeOK, Bounds, CleanInv, FreshInv, StopInv,
              NoEarlierStop, SilentUpTo, RetryInv, WaitIsFresh, Current, SearchesRunInCleanBrowser
<1> QED BY <1>1, <1>2, <1>3, <1>4, <1>5, <1>6 DEF Next, Scraper, Done

\* The inductive invariant holds in every state of every session.
THEOREM Invariant == Spec => []IInv
<1> QED BY InitHolds, StepHolds, PTL DEF Spec

\* The session, its browser and the waiter keep their types.
THEOREM TypeCorrect == Spec => []TypeOK
<1>1. IInv => TypeOK
  BY DEF IInv
<1> QED BY <1>1, Invariant, PTL

\* No search is submitted in a browser where an attempt failed.
THEOREM CleanBrowser == Spec => []SearchesRunInCleanBrowser
<1>1. IInv => SearchesRunInCleanBrowser
  BY DEF IInv, CleanInv
<1> QED BY <1>1, Invariant, PTL

\* From a form, a result is read from the page of the search it is stored under.
THEOREM FormSearchesFresh == Spec => []FormSearchesAreFresh
<1>1. IInv => FormSearchesAreFresh
  BY DEF IInv, FreshInv, FormSearchesAreFresh
<1> QED BY <1>1, Invariant, PTL

\* A probe that ends early has seen Threshold empty pages in a row.
THEOREM EarlyStopEarned == Spec => []EarlyStopIsEarned
<1>1. IInv => EarlyStopIsEarned
  <2> SUFFICES ASSUME IInv, phase = "probe", pc = "done"
               PROVE  /\ Len(got) < N => SilentUpTo(Len(got))
                      /\ \A n \in 1..Len(got) : SilentUpTo(n) => n = Len(got)
    BY DEF EarlyStopIsEarned
  <2>1. /\ Len(got) \in Nat /\ streak \in Nat /\ Threshold \in Nat /\ streak <= Len(got)
    BY LenProperties, ThresholdAssumption, PlanAssumption DEF IInv, TypeOK, Bounds
  <2>2. ASSUME Len(got) < N PROVE SilentUpTo(Len(got))
    <3>1. streak >= Threshold /\ \A j \in 1..streak : got[Len(got) + 1 - j].empty
      BY <2>1, <2>2, PlanAssumption DEF IInv, StopInv
    <3> QED BY <2>1, <3>1 DEF SilentUpTo
  <2>3. NoEarlierStop
    BY DEF IInv, StopInv
  <2> QED BY <2>1, <2>2, <2>3 DEF NoEarlierStop
<1> QED BY <1>1, Invariant, PTL

\* A refine starts on the results of a search that succeeded in this browser.
THEOREM RefineOnResults == Spec => RefineStartsOnResults
<1>1. IInv => [\A advertised \in {"bare", "priced"} :
                  RefineForm(advertised) => Len(got) > 0 /\ ~got[Len(got)].error /\ ~failedHere]_vars
  BY DEF IInv, CleanInv, RefineForm, FillsForm
<1> QED BY <1>1, Invariant, PTL DEF RefineStartsOnResults

\* The second session only replaces errors, and only by results with cars.
THEOREM RetryRecovers == Spec => RetryOnlyRecovers
<1>1. ASSUME IInv, [Next]_vars
      PROVE  [\A k \in Searches : results[k] # None /\ results'[k] # results[k]
                                     => results[k].error /\ results'[k].cars]_vars
  <2> SUFFICES ASSUME NEW k \in Searches, results[k] # None, results'[k] # results[k]
               PROVE  results[k].error /\ results'[k].cars
    OBVIOUS
  <2>1. CloseSession
    BY <1>1 DEF Next, Scraper, Done, vars, SubmitForm, RefineForm, NoBrowser, FormFails,
                RefineFails, Extract, ExtractFails, Wait
  <2>2. pc = "close" /\ results'[k] = Taken(k)
    BY <2>1 DEF CloseSession
  <2>3. phase = "retry"
    BY <1>1, <2>2 DEF IInv, RetryInv
  <2>4. PICK j \in 1..Len(got) : queue[j] = k /\ got[j].cars /\ Taken(k).cars = got[j].cars
    BY <1>1, <2>2, <2>3, TakenResult DEF IInv
  <2>5. j \in 1..Len(queue)
    BY <1>1, LenProperties DEF IInv, TypeOK
  <2> QED BY <1>1, <2>2, <2>3, <2>4, <2>5 DEF IInv, RetryInv
<1> QED BY <1>1, Invariant, PTL DEF Spec, RetryOnlyRecovers
=============================================================================
