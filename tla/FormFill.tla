------------------------------- MODULE FormFill -------------------------------
(***************************************************************************)
(* fill_form_in_session and its single-field runners, composed of the       *)
(* cookie closer, the widget opener with its option fillers and the         *)
(* calendar filler, all on one page; and the way a stored recipe fills the  *)
(* same form.  What a fill does to one field the page may carry over to     *)
(* another: the report must be true of the form as it stands at the end.    *)
(***************************************************************************)
EXTENDS DateCalendar, OptionFill, CookieCloser

CONSTANTS Modes  \* who fills the form

ASSUME ModesAssumption == Modes \subseteq {"form", "location", "dates", "times", "recipe"}

VARIABLES mode,
          step,      \* where the run stands
          plan,      \* fields still to fill, in order
          done,      \* outcomes with success, of the fields attempted
          before,    \* form state before the location was filled
          verified,  \* fields verified so far
          report     \* "none", or how the run ended

fillVars == <<mode, step, plan, done, before, verified, report>>
vars == <<value, calVars, optVars, cookieVars, fillVars>>

PlanOf(m) ==
    CASE m = "location" -> <<Location>>
      [] m = "dates" -> <<PickupDate, ReturnDate>>
      [] m = "times" -> <<PickupTime, ReturnTime>>
      [] OTHER -> <<Location, PickupDate, ReturnDate, PickupTime, ReturnTime>>

NoSnapshot == [f \in Fields |-> "blank"]

Init ==
    /\ InitForm
    /\ CalendarIdle
    /\ OptionIdle
    /\ InitCookies
    /\ mode \in Modes
    /\ step = "navigated"
    /\ plan = PlanOf(mode)
    /\ done = {}
    /\ before = NoSnapshot
    /\ verified = {}
    /\ report = "none"

(* The field whose turn it is.                                               *)
f0 == Head(plan)

Advance(next) ==
    /\ step' = next
    /\ UNCHANGED <<mode, plan, done, before, verified, report>>

Finish(how) ==
    /\ step' = "finished"
    /\ report' = how
    /\ UNCHANGED <<mode, plan, done, before, verified>>

-----------------------------------------------------------------------------
(* The cookie wall comes first.  A recipe clicks its own accept selector, if *)
(* the page shows it, before it falls back on the accept texts.              *)
CloseCookies ==
    /\ step = "navigated"
    /\ StartCookies(mode = "recipe")
    /\ Advance("cookies")
    /\ UNCHANGED <<value, calVars, optVars>>

CloseByRecipeSelector ==
    /\ step = "navigated"
    /\ mode = "recipe"
    /\ wall' \in {"none", "coming"} /\ (wall = "coming" \/ wall' = "none")
    /\ Advance("capture")
    /\ UNCHANGED <<value, calVars, optVars, closer, heuristic, signal, attempt, accepted, action>>

(* Only the whole-form fill gives up on a banner that stays.                 *)
CookiesDone ==
    /\ step = "cookies"
    /\ ReturnCookies
    /\ IF closer = "failed" /\ mode = "form" THEN Finish("failure") ELSE Advance("capture")
    /\ UNCHANGED <<value, calVars, optVars>>

(* No form on the page, or the language model failed; a recipe needs neither. *)
CaptureFails ==
    /\ step = "capture"
    /\ mode # "recipe"
    /\ Finish("failure")
    /\ UNCHANGED <<value, calVars, optVars, cookieVars>>

IdentifyFields ==
    /\ step = "capture"
    /\ Advance("next")
    /\ UNCHANGED <<value, calVars, optVars, cookieVars>>

-----------------------------------------------------------------------------
(* One field after the other; the first failure ends the attempts, and what  *)
(* comes after it is reported as skipped.  Escape closes what is left open,  *)
(* and the page may take it as a reason to change the field.                 *)
Dismisses(f) == mode = "recipe" \/ (mode = "form" /\ f # PickupDate)

Dismissed(f) ==
    IF Dismisses(f) THEN value' = value \/ value' = [value EXCEPT ![f] = "blank"]
                    ELSE UNCHANGED value

(* The location counts as verified once some input was filled that was blank  *)
(* before; a time of the times runner, when the field read as the target.     *)
VerifiedNow(f) ==
    \/ f = Location /\ mode = "form" /\ SomeInputFilled(before)
    \/ f = Location /\ mode = "location" /\ SomeInputChanged(before)
    \/ f \in Times /\ mode = "times" /\ AtTarget(f)

Filled(f) ==
    /\ done' = done \cup {f}
    /\ verified' = IF VerifiedNow(f) THEN verified \cup {f} ELSE verified
    /\ plan' = Tail(plan)
    /\ before' = NoSnapshot
    /\ step' = "next"
    /\ Dismissed(f)
    /\ UNCHANGED <<mode, report>>

NotFilled(f) ==
    /\ Finish("failure")
    /\ Dismissed(f)

(* A field the language model did not identify, or the recipe does not have. *)
(* The one answer that names the fields is asked for each in its turn.       *)
FieldMissing ==
    /\ step = "next"
    /\ plan # <<>>
    /\ IF mode = "recipe"
       THEN /\ plan' = Tail(plan)
            /\ UNCHANGED <<value, mode, step, done, before, verified, report>>
       ELSE NotFilled(f0)
    /\ UNCHANGED <<calVars, optVars, cookieVars>>

(* Location and times: the widget is opened to be classified, then its       *)
(* filler opens it again.  A recipe knows the widget and only fills.         *)
OpenToClassify ==
    /\ step = "next"
    /\ plan # <<>>
    /\ f0 \notin Dates
    /\ mode # "recipe"
    /\ before' = IF f0 = Location THEN value ELSE before
    /\ StartOption(f0, "none", mode = "form" /\ f0 = Location)
    /\ step' = "classify"
    /\ UNCHANGED <<value, calVars, cookieVars, mode, plan, done, verified, report>>

Fillers == {"autocomplete", "dropdown"}

Classify ==
    /\ step = "classify"
    /\ opt = "opened"
    /\ \E k \in Fillers :
           /\ opt' = "open"
           /\ kind' = k
           /\ probe' = (k = "autocomplete")
    /\ before' = IF mode = "location" THEN value ELSE before
    /\ step' = "fill_option"
    /\ UNCHANGED <<value, calVars, cookieVars, optField, exact, strategy, rows, scrolls, matched,
                   mode, plan, done, verified, report>>

(* The language model fails, or names a widget no filler is there for.       *)
ClassifyFails ==
    /\ step = "classify"
    /\ ReturnOption
    /\ NotFilled(f0)
    /\ UNCHANGED <<calVars, cookieVars>>

FillFromRecipe ==
    /\ step = "next"
    /\ plan # <<>>
    /\ f0 \notin Dates
    /\ mode = "recipe"
    /\ \E k \in Fillers : StartOption(f0, k, k = "autocomplete")
    /\ Advance("fill_option")
    /\ UNCHANGED <<value, calVars, cookieVars>>

OptionFilled ==
    /\ step = "fill_option"
    /\ ReturnOption
    /\ IF opt = "ok" THEN Filled(f0) ELSE NotFilled(f0)
    /\ UNCHANGED <<calVars, cookieVars>>

-----------------------------------------------------------------------------
(* A range calendar may have set the return date along with the pickup date. *)
Autofilled ==
    /\ step = "next"
    /\ plan # <<>>
    /\ f0 = ReturnDate
    /\ AtTarget(f0)
    /\ mode # "recipe"
    /\ Filled(f0)
    /\ UNCHANGED <<calVars, optVars, cookieVars>>

FillsDateNow ==
    /\ step = "next"
    /\ plan # <<>>
    /\ f0 \in Dates
    /\ mode = "recipe" \/ ~(f0 = ReturnDate /\ AtTarget(f0))

(* DateTextFiller and DateNativeFiller write the date and report success,    *)
(* whatever the page makes of it; a native field that takes no value breaks  *)
(* the run off, as does the language model when it cannot classify.          *)
WriteDate ==
    /\ FillsDateNow
    /\ \E v \in {"blank", "default", "wrong", "target"} : value' \in Reaction(f0, v)
    /\ Advance("date_written")
    /\ UNCHANGED <<calVars, optVars, cookieVars>>

DateWritten ==
    /\ step = "date_written"
    /\ Filled(f0)
    /\ UNCHANGED <<calVars, optVars, cookieVars>>

DateBreaksOff ==
    /\ FillsDateNow
    /\ NotFilled(f0)
    /\ UNCHANGED <<calVars, optVars, cookieVars>>

FillByCalendar ==
    /\ FillsDateNow
    /\ StartCalendar(f0)
    /\ Advance("fill_date")
    /\ UNCHANGED <<value, optVars, cookieVars>>

CalendarFilled ==
    /\ step = "fill_date"
    /\ ReturnCalendar
    /\ IF cal = "ok" THEN Filled(f0) ELSE NotFilled(f0)
    /\ UNCHANGED <<optVars, cookieVars>>

-----------------------------------------------------------------------------
(* The whole form reads its dates and times again at the end; the location   *)
(* and the times runner go by what they saw after each fill.                 *)
Reread == CASE mode = "form" -> Dates \cup Times
            [] mode = "dates" -> Dates
            [] OTHER -> {}

VerifiedByOutcome ==
    IF mode = "recipe" THEN done ELSE verified \cup (Reread \cap done)

VerifiedAtEnd ==
    IF mode = "recipe" THEN done
    ELSE verified \cup {f \in Reread \cap done : AtTarget(f)}

Verify ==
    /\ step = "next"
    /\ plan = <<>>
    /\ LET sure == VerifiedAtEnd
           wanted == {PlanOf(mode)[i] : i \in DOMAIN PlanOf(mode)}
       IN  /\ verified' = sure
           /\ report' = IF wanted \subseteq sure \/ mode = "recipe" THEN "success" ELSE "failure"
    /\ step' = "finished"
    /\ UNCHANGED <<value, calVars, optVars, cookieVars, mode, plan, done, before>>

Next ==
    \/ CloseCookies \/ CloseByRecipeSelector \/ CookiesDone
    \/ step = "cookies" /\ CookieNext /\ UNCHANGED <<value, calVars, optVars, fillVars>>
    \/ CaptureFails \/ IdentifyFields \/ FieldMissing
    \/ OpenToClassify \/ Classify \/ ClassifyFails \/ FillFromRecipe
    \/ step \in {"classify", "fill_option"} /\ OptionNext
           /\ UNCHANGED <<calVars, cookieVars, fillVars>>
    \/ OptionFilled
    \/ Autofilled \/ WriteDate \/ DateWritten \/ DateBreaksOff \/ FillByCalendar
    \/ step = "fill_date" /\ CalendarNext /\ UNCHANGED <<optVars, cookieVars, fillVars>>
    \/ CalendarFilled
    \/ Verify

Spec == Init /\ [][Next]_vars

-----------------------------------------------------------------------------
(* A form fill, or a fill of the dates, that reports success leaves a form    *)
(* whose dates and times all show their targets: a range calendar that moved  *)
(* the other end, a time that fell back to its default or a text field whose  *)
(* page read the date otherwise after it had been filled is found out.        *)
SuccessShowsTargets ==
    report = "success" /\ mode \in {"form", "dates"} =>
        \A f \in Reread : AtTarget(f)

=============================================================================
