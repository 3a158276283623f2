---------------------------- MODULE FormFillProofs ----------------------------
(***************************************************************************)
(* Proofs about the calendar filler on its own, and about the whole fill of *)
(* a form: for every number of passes, cells, panels, months, rows, scrolls *)
(* and attempts, and every way the fields of a page hang together.          *)
(***************************************************************************)
EXTENDS FormFill, TLAPS

CalStep ==
    \/ CalendarNext
    \/ UNCHANGED value /\ \E f \in Dates : StartCalendar(f)
    \/ UNCHANGED value /\ ReturnCalendar

allVars == <<value, calVars>>

CalTypeOK ==
    /\ value = [f \in Fields |-> value[f]]
    /\ cal \in CalStates
    /\ dateField \in Dates
    /\ pass \in Nat
    /\ reactive \in BOOLEAN

Clicking == {"navigate", "scan", "cells", "again"}

(* The widget was seen to react before every pass but the first; in the     *)
(* first pass the value before the click is the one the fill came to.       *)
CalInv ==
    /\ CalTypeOK
    /\ cal \in {"idle", "open"} => pass = 0 /\ ~reactive
    /\ cal \in Clicking /\ ~reactive => pass = 0
    /\ cal = "cells" /\ ~reactive => pre = entry
    /\ cal = "again" => reactive
    /\ NoWrongDateAccepted

(* A use of a field leaves it at the value the page gave it, whatever other *)
(* field follows (the form of a provider's page).                           *)
LEMMA ReactionSets ==
    ASSUME value = [f \in Fields |-> value[f]], NEW f \in Fields, NEW v, NEW w \in Reaction(f, v)
    PROVE  w = [g \in Fields |-> w[g]] /\ w[f] = v
<1>1. CASE w = [value EXCEPT ![f] = v]
  BY <1>1
<1>2. CASE \E p \in Coupled[f] \X Values : w = [value EXCEPT ![f] = v, ![p[1]] = p[2]]
  <2>1. PICK p \in Coupled[f] \X Values : w = [value EXCEPT ![f] = v, ![p[1]] = p[2]]
    BY <1>2
  <2>2. p[1] \in Fields /\ p[1] # f
    BY <2>1, CoupledAssumption
  <2> QED
    BY <2>1, <2>2
<1> QED
  BY <1>1, <1>2 DEF Reaction

LEMMA InitCal == InitForm /\ CalendarIdle => CalInv
<1> SUFFICES ASSUME InitForm, CalendarIdle PROVE CalInv
  OBVIOUS
<1>1. PICK d \in {"blank", "default"}, t \in {"blank", "default"} :
        value = [f \in Fields |-> CASE f \in Dates -> d [] f \in Times -> t [] OTHER -> "blank"]
  BY DEF InitForm
<1>2. value = [f \in Fields |-> value[f]]
  BY <1>1
<1>3. CalTypeOK
  BY <1>2 DEF CalTypeOK, CalendarIdle, CalStates, Dates
<1> QED
  BY <1>3 DEF CalInv, CalendarIdle, NoWrongDateAccepted, Clicking

(* Every step of the filler, and every call of it, keeps the invariant.     *)
LEMMA NextCal == CalInv /\ [CalStep]_allVars => CalInv'
<1> SUFFICES ASSUME CalInv, [CalStep]_allVars PROVE CalInv'
  OBVIOUS
<1>a. dateField \in Fields
  BY DEF CalInv, CalTypeOK, Fields
<1> USE DEF CalInv, CalTypeOK, CalStates, Clicking, NoWrongDateAccepted
<1>0. CASE UNCHANGED allVars
  BY <1>0 DEF allVars, calVars, AtTarget
<1>1. CASE OpenCalendar
  <2>1. value' = [f \in Fields |-> value'[f]]
    BY <1>a, <1>1, ReactionSets DEF OpenCalendar
  <2> QED
    BY <1>1, <2>1 DEF OpenCalendar, Moved
<1>2. CASE CalendarStaysShut
  BY <1>2 DEF CalendarStaysShut, Goto
<1>3. CASE MonthReached \/ LabelsUnreadable
  BY <1>3 DEF MonthReached, LabelsUnreadable, StopNavigating
<1>4. CASE StuckOnMonth \/ ArrowMissing
  BY <1>4 DEF StuckOnMonth, ArrowMissing, Goto
<1>5. CASE ClickArrow
  BY <1>5 DEF ClickArrow
<1>6. CASE FindCells
  BY <1>6 DEF FindCells
<1>7. CASE NoCells \/ CellsExhausted
  BY <1>7 DEF NoCells, CellsExhausted, Goto
<1>8. CASE SkipCell
  BY <1>8 DEF SkipCell, NextCell
<1>9. CASE ClickCell
  <2>1. PICK v \in Values : value' \in Reaction(dateField, v) /\ Goto(Verdict(v))
    BY <1>9 DEF ClickCell
  <2>2. value' = [f \in Fields |-> value'[f]] /\ value'[dateField] = v
    BY <1>a, <2>1, ReactionSets
  <2>3. cal' \in {"ok", "again", "reopen"}
    BY <2>1 DEF Goto, Verdict
  <2>4. cal' = "again" => reactive
    BY <2>1 DEF Goto, Verdict
  <2>5. cal' = "ok" => v = "target" \/ ~Readable(v) \/ (v = pre /\ ~reactive)
    BY <2>1 DEF Goto, Verdict
  <2> QED
    BY <1>9, <2>1, <2>2, <2>3, <2>4, <2>5 DEF Goto, ClickCell, AtTarget
<1>10. CASE ClickAgain
  <2>1. PICK v \in Values :
          /\ value' \in Reaction(dateField, v)
          /\ \/ v = "target" /\ Goto("ok")
             \/ Goto("reopen")
             \/ NextCell
    BY <1>10 DEF ClickAgain
  <2>2. value' = [f \in Fields |-> value'[f]] /\ value'[dateField] = v
    BY <1>a, <2>1, ReactionSets
  <2>3. reactive
    BY <1>10 DEF ClickAgain
  <2>4. CASE v = "target" /\ Goto("ok")
    BY <2>2, <2>3, <2>4 DEF Goto, AtTarget
  <2>5. CASE Goto("reopen")
    BY <2>2, <2>3, <2>5 DEF Goto
  <2>6. CASE NextCell
    BY <2>2, <2>3, <2>6 DEF NextCell
  <2> QED
    BY <2>1, <2>4, <2>5, <2>6
<1>11. CASE SecondClickFails
  BY <1>11 DEF SecondClickFails, NextCell
<1>12. CASE ReopenCalendar
  <2>1. value' = [f \in Fields |-> value'[f]]
    BY <1>a, <1>12, ReactionSets DEF ReopenCalendar, NextPass
  <2> QED
    BY <1>12, <2>1 DEF ReopenCalendar, NextPass, Moved
<1>13. CASE UNCHANGED value /\ \E f \in Dates : StartCalendar(f)
  BY <1>13 DEF StartCalendar
<1>14. CASE UNCHANGED value /\ ReturnCalendar
  BY <1>14 DEF ReturnCalendar, Dates, Values
<1> QED
  BY <1>0, <1>1, <1>2, <1>3, <1>4, <1>5, <1>6, <1>7, <1>8, <1>9, <1>10, <1>11, <1>12,
     <1>13, <1>14 DEF CalStep, CalendarNext

(* A date fill that is reported as done shows the target, or a display      *)
(* nobody can read, or what the field showed before the first click         *)
(* (DateCalendarFiller.fill, _click_target_day).                            *)
THEOREM WrongDatesAreRefused == CalendarSpec => []NoWrongDateAccepted
<1>1. InitForm /\ CalendarIdle => CalInv
  BY InitCal
<1>2. CalInv /\ [CalStep]_allVars => CalInv'
  BY NextCal
<1>3. CalInv => NoWrongDateAccepted
  BY DEF CalInv
<1> QED
  BY <1>1, <1>2, <1>3, PTL DEF CalendarSpec, CalStep, allVars

-----------------------------------------------------------------------------
(* The whole fill.                                                          *)

FillStep == [Next]_vars

LEMMA InitFill ==
    ASSUME Init
    PROVE  /\ CalInv /\ cal = "idle" /\ closer = "idle"
           /\ report = "none" /\ verified = {} /\ step = "navigated"
<1>1. CalInv
  BY InitCal DEF Init
<1> QED
  BY <1>1 DEF Init, CalendarIdle, InitCookies, CookiesIdle

(* A form with a name for each of its fields keeps them, whoever fills.     *)
Shaped == value = [f \in Fields |-> value[f]]

LEMMA DismissedKeepsShape ==
    ASSUME Shaped, NEW f, Dismissed(f) PROVE Shaped'
BY DEF Shaped, Dismissed

LEMMA ReactionKeepsShape ==
    ASSUME Shaped, NEW f, NEW v, value' \in Reaction(f, v) PROVE Shaped'
<1>1. value' = [value EXCEPT ![f] = v]
        \/ \E p \in Coupled[f] \X Values : value' = [value EXCEPT ![f] = v, ![p[1]] = p[2]]
  BY DEF Reaction
<1> QED
  BY <1>1 DEF Shaped

LEMMA OptionKeepsShape ==
    ASSUME Shaped, OptionNext PROVE Shaped'
<1>1. CASE AlreadyOpen \/ CannotOpen \/ ReadOptions \/ CannotClick
  BY <1>1 DEF Shaped, AlreadyOpen, CannotOpen, ReadOptions, CannotClick
<1>2. CASE OpenWidget
  <2>1. value' = value \/ \E v : value' = [value EXCEPT ![optField] = v]
    BY <1>2 DEF OpenWidget, TryToOpen
  <2> QED
    BY <2>1 DEF Shaped
<1>3. CASE ReadSuggestions
  BY <1>3 DEF Shaped, ReadSuggestions
<1>4. CASE Choose
  <2>1. \E v : value' \in Reaction(optField, v)
    BY <1>4 DEF Choose, ClickRow
  <2> QED
    BY <2>1, ReactionKeepsShape
<1> QED
  BY <1>1, <1>2, <1>3, <1>4 DEF OptionNext

(* The calendar filler is at work while the run waits for a date only.      *)
DatesInv == CalInv /\ (cal # "idle" => step = "fill_date")

(* A step outside of the calendar filler.                                   *)
LEMMA OutsideKeepsDates ==
    ASSUME DatesInv, cal = "idle", UNCHANGED calVars, Shaped' PROVE DatesInv'
BY DEF DatesInv, CalInv, CalTypeOK, calVars, Shaped, Clicking, NoWrongDateAccepted

LEMMA NextDates == DatesInv /\ FillStep => DatesInv'
<1> SUFFICES ASSUME DatesInv, FillStep PROVE DatesInv'
  OBVIOUS
<1>1. CalInv /\ Shaped /\ (step # "fill_date" => cal = "idle")
  BY DEF DatesInv, CalInv, CalTypeOK, Shaped
<1>2. CASE UNCHANGED vars
  <2>1. CalInv'
    BY <1>1, <1>2, NextCal DEF vars, allVars
  <2> QED
    BY <1>2, <2>1 DEF DatesInv, vars, calVars, fillVars
<1>3. CASE CloseCookies \/ CloseByRecipeSelector \/ CookiesDone \/ CaptureFails \/ IdentifyFields
           \/ (step = "cookies" /\ CookieNext /\ UNCHANGED <<value, calVars, optVars, fillVars>>)
           \/ OpenToClassify \/ Classify \/ FillFromRecipe
  <2>1. step # "fill_date" /\ UNCHANGED <<value, calVars>>
    BY <1>3 DEF CloseCookies, CloseByRecipeSelector, CookiesDone, CaptureFails, IdentifyFields,
                OpenToClassify, Classify, FillFromRecipe
  <2> QED
    BY <1>1, <2>1, OutsideKeepsDates DEF Shaped
<1>4. CASE FieldMissing \/ ClassifyFails \/ OptionFilled \/ Autofilled \/ DateWritten \/ DateBreaksOff
  <2>1. step # "fill_date" /\ UNCHANGED calVars /\ (value' = value \/ Dismissed(f0))
    BY <1>4 DEF FieldMissing, ClassifyFails, OptionFilled, Autofilled, DateWritten, DateBreaksOff,
                FillsDateNow, Filled, NotFilled
  <2>2. Shaped'
    BY <1>1, <2>1, DismissedKeepsShape DEF Shaped
  <2> QED
    BY <1>1, <2>1, <2>2, OutsideKeepsDates
<1>5. CASE step \in {"classify", "fill_option"} /\ OptionNext /\ UNCHANGED <<calVars, cookieVars, fillVars>>
  BY <1>1, <1>5, OptionKeepsShape, OutsideKeepsDates
<1>6. CASE WriteDate
  <2>1. step # "fill_date" /\ UNCHANGED calVars /\ \E v : value' \in Reaction(f0, v)
    BY <1>6 DEF WriteDate, FillsDateNow
  <2> QED
    BY <1>1, <2>1, ReactionKeepsShape, OutsideKeepsDates
<1>7. CASE FillByCalendar
  <2>1. UNCHANGED value /\ f0 \in Dates /\ StartCalendar(f0) /\ step' = "fill_date"
    BY <1>7 DEF FillByCalendar, FillsDateNow, Advance
  <2> QED
    BY <1>1, <2>1, NextCal DEF DatesInv, CalStep
<1>8. CASE step = "fill_date" /\ CalendarNext /\ UNCHANGED <<optVars, cookieVars, fillVars>>
  BY <1>1, <1>8, NextCal DEF DatesInv, CalStep, fillVars
<1>9. CASE CalendarFilled
  <2>1. ReturnCalendar /\ Dismissed(f0)
    BY <1>9 DEF CalendarFilled, Filled, NotFilled
  <2>2. Shaped'
    BY <1>1, <2>1, DismissedKeepsShape
  <2> QED
    BY <2>1, <2>2 DEF ReturnCalendar, DatesInv, CalInv, CalTypeOK, CalStates, Shaped, Clicking,
                      NoWrongDateAccepted, Dates
<1>10. CASE Verify
  BY <1>1, <1>10, OutsideKeepsDates DEF Verify, Shaped
<1> QED
  BY <1>2, <1>3, <1>4, <1>5, <1>6, <1>7, <1>8, <1>9, <1>10 DEF FillStep, Next

(* No fill of a form accepts a wrong date from the calendar, whatever the   *)
(* fields filled before and after it do to the dates.                       *)
THEOREM FillsRefuseWrongDates == Spec => []NoWrongDateAccepted
<1>1. Init => DatesInv
  BY InitFill DEF DatesInv
<1>2. DatesInv => NoWrongDateAccepted
  BY DEF DatesInv, CalInv
<1> QED
  BY <1>1, <1>2, NextDates, PTL DEF Spec, FillStep

(* A report ends the run, and nothing but the location of a form, or of its *)
(* dates, is taken for verified before the form is read again.              *)
ReportInv ==
    /\ report # "none" => step = "finished"
    /\ mode \in {"form", "dates"} /\ step # "finished" => verified \subseteq {Location}
    /\ SuccessShowsTargets

LEMMA NotFinishedNoReport ==
    ASSUME ReportInv, step # "finished" PROVE report = "none"
BY DEF ReportInv

LEMMA FilledKeepsReport ==
    ASSUME ReportInv, step # "finished", NEW f, Filled(f) \/ NotFilled(f) PROVE ReportInv'
<1>1. mode' = mode /\ report' \in {"none", "failure"} /\ (report' # "none" => step' = "finished")
  BY NotFinishedNoReport DEF Filled, NotFilled, Finish
<1>2. verified' = verified \/ (VerifiedNow(f) /\ verified' = verified \cup {f})
  BY DEF Filled, NotFilled, Finish
<1>3. mode \in {"form", "dates"} /\ VerifiedNow(f) => f = Location
  BY DEF VerifiedNow
<1> QED
  BY <1>1, <1>2, <1>3, NotFinishedNoReport DEF ReportInv, SuccessShowsTargets

LEMMA VerifyShowsTargets ==
    ASSUME ReportInv, Verify PROVE ReportInv'
<1>1. mode' = mode /\ value' = value /\ step' = "finished"
  BY DEF Verify
<1>2. SuccessShowsTargets'
  <2> SUFFICES ASSUME report' = "success", mode \in {"form", "dates"}, NEW f \in Reread PROVE AtTarget(f)
    BY <1>1 DEF SuccessShowsTargets, Reread, AtTarget
  <2>1. verified \subseteq {Location}
    BY DEF ReportInv, Verify
  <2>2. \A i \in DOMAIN PlanOf(mode) : PlanOf(mode)[i] \in VerifiedAtEnd
    BY DEF Verify
  <2>3. \E i \in DOMAIN PlanOf(mode) : f = PlanOf(mode)[i]
    <3>1. CASE mode = "form"
      <4>1. PlanOf(mode) = <<Location, PickupDate, ReturnDate, PickupTime, ReturnTime>>
        BY <3>1 DEF PlanOf
      <4>2. f \in {PickupDate, ReturnDate, PickupTime, ReturnTime}
        BY <3>1 DEF Reread, Dates, Times
      <4> QED
        BY <4>1, <4>2
    <3>2. CASE mode = "dates"
      <4>1. PlanOf(mode) = <<PickupDate, ReturnDate>>
        BY <3>2 DEF PlanOf
      <4>2. f \in {PickupDate, ReturnDate}
        BY <3>2 DEF Reread, Dates
      <4> QED
        BY <4>1, <4>2
    <3> QED
      BY <3>1, <3>2
  <2>4. f # Location
    BY DEF Reread, Dates, Times, Location, PickupDate, ReturnDate, PickupTime, ReturnTime
  <2> QED
    BY <2>1, <2>2, <2>3, <2>4 DEF VerifiedAtEnd
<1> QED
  BY <1>1, <1>2 DEF ReportInv

LEMMA NextReport == ReportInv /\ FillStep => ReportInv'
<1> SUFFICES ASSUME ReportInv, FillStep PROVE ReportInv'
  OBVIOUS
<1>1. CASE UNCHANGED <<value, fillVars>>
  BY <1>1 DEF ReportInv, SuccessShowsTargets, fillVars, Reread, AtTarget
<1>2. CASE UNCHANGED fillVars /\ step # "finished"
  BY <1>2, NotFinishedNoReport DEF ReportInv, SuccessShowsTargets, fillVars
<1>3. CASE step # "finished" /\ \E f : Filled(f) \/ NotFilled(f)
  BY <1>3, FilledKeepsReport
<1>4. CASE Verify
  BY <1>4, VerifyShowsTargets
<1>5. CASE step # "finished" /\ UNCHANGED <<mode, verified>> /\ report' = report
  BY <1>5, NotFinishedNoReport DEF ReportInv, SuccessShowsTargets
<1>6. CASE step # "finished" /\ UNCHANGED <<mode, verified>> /\ report' = "failure" /\ step' = "finished"
  BY <1>6 DEF ReportInv, SuccessShowsTargets
<1>7. CASE CloseCookies \/ CookiesDone \/ CloseByRecipeSelector \/ CaptureFails \/ IdentifyFields
  BY <1>5, <1>6, <1>7 DEF CloseCookies, CookiesDone, CloseByRecipeSelector, CaptureFails, IdentifyFields,
                          Advance, Finish
<1>8. CASE FieldMissing
  BY <1>3, <1>5, <1>8 DEF FieldMissing
<1>9. CASE OpenToClassify \/ Classify \/ FillFromRecipe \/ WriteDate \/ FillByCalendar
  BY <1>5, <1>9 DEF OpenToClassify, Classify, FillFromRecipe, WriteDate, FillByCalendar, FillsDateNow, Advance
<1>10. CASE ClassifyFails \/ OptionFilled \/ Autofilled \/ DateWritten \/ DateBreaksOff \/ CalendarFilled
  BY <1>3, <1>10 DEF ClassifyFails, OptionFilled, Autofilled, DateWritten, DateBreaksOff, FillsDateNow,
                     CalendarFilled
<1> QED
  BY <1>1, <1>2, <1>4, <1>7, <1>8, <1>9, <1>10 DEF FillStep, Next, vars

(* Success of a form, or of its dates, means that the fields read again at  *)
(* the end show their targets (fill_form_in_session, date_filler_runner.py). *)
THEOREM SuccessIsTheTargets == Spec => []SuccessShowsTargets
<1>1. Init => ReportInv
  BY InitFill DEF ReportInv, SuccessShowsTargets
<1>2. ReportInv => SuccessShowsTargets
  BY DEF ReportInv
<1> QED
  BY <1>1, <1>2, NextReport, PTL DEF Spec, FillStep
=============================================================================
