----------------------------- MODULE DateCalendar -----------------------------
(***************************************************************************)
(* DateCalendarFiller: brings the target month on screen, clicks the cell   *)
(* of the target day and reads the field back.  The page is arbitrary: its  *)
(* month labels may be unreadable or stand still, its cells may be stale    *)
(* ones of another picker, and a click may select any date or none.         *)
(***************************************************************************)
EXTENDS SearchForm

CONSTANTS MaxNavigations,  \* MAX_MONTH_NAVIGATIONS
          MaxPasses,       \* MAX_FILL_PASSES
          MaxCells,        \* cells that carry the number of the target day
          Panels,          \* months on screen side by side
          MaxDistance      \* months between the target and the first view

ASSUME CalendarAssumption ==
    /\ {MaxNavigations, MaxPasses, MaxCells, Panels} \subseteq Nat \ {0}
    /\ MaxDistance \in Nat

VARIABLES cal,        \* where the filler stands
          dateField,  \* the field it fills
          view,       \* first month on screen, relative to the target month
          lastLabel,  \* prev_label
          navs,       \* month navigations of this pass
          pass,       \* fill_pass
          cells,      \* candidate cells not tried yet
          pre,        \* pre_value
          reactive,   \* value_reactive
          entry       \* value when the fill came to its first cell (a history variable)

calVars == <<cal, dateField, view, lastLabel, navs, pass, cells, pre, reactive, entry>>

NoLabel == MaxDistance + 1000
Views == -MaxDistance..MaxDistance
CalStates == {"idle", "open", "navigate", "scan", "cells", "again", "reopen", "ok", "failed"}

(* What one call of the filler knows is forgotten when it returns.           *)
CalendarIdle ==
    /\ cal = "idle"
    /\ dateField = PickupDate
    /\ view = 0
    /\ lastLabel = NoLabel
    /\ navs = 0
    /\ pass = 0
    /\ cells = 0
    /\ pre = "blank"
    /\ reactive = FALSE
    /\ entry = "blank"

StartCalendar(f) ==
    /\ cal = "idle"
    /\ cal' = "open"
    /\ dateField' = f
    /\ UNCHANGED <<view, lastLabel, navs, pass, cells, pre, reactive, entry>>

ReturnCalendar ==
    /\ cal \in {"ok", "failed"}
    /\ cal' = "idle"
    /\ dateField' = PickupDate
    /\ view' = 0
    /\ lastLabel' = NoLabel
    /\ navs' = 0
    /\ pass' = 0
    /\ cells' = 0
    /\ pre' = "blank"
    /\ reactive' = FALSE
    /\ entry' = "blank"

Goto(state) ==
    /\ cal' = state
    /\ UNCHANGED <<dateField, view, lastLabel, navs, pass, cells, pre, reactive, entry>>

Moved(state) ==
    /\ cal' = state
    /\ view' \in Views
    /\ lastLabel' = NoLabel
    /\ navs' = 0

(* The calendar is on screen already, or a click on the field brings it up.  *)
OpenCalendar ==
    /\ cal = "open"
    /\ Moved("navigate")
    /\ UNCHANGED value \/ (\E v \in Values : value' \in Reaction(dateField, v))
    /\ UNCHANGED <<dateField, pass, cells, pre, reactive, entry>>

CalendarStaysShut ==
    /\ cal = "open"
    /\ Goto("failed")
    /\ UNCHANGED value

-----------------------------------------------------------------------------
OnScreen == view..(view + Panels - 1)

(* The labels read as the target month, or do not read at all: on to its     *)
(* cells.  The view is not looked at again unless the calendar is reopened,  *)
(* which may leave it anywhere.                                              *)
StopNavigating ==
    /\ cal' = "scan"
    /\ view' = 0
    /\ lastLabel' = NoLabel
    /\ navs' = 0
    /\ UNCHANGED <<value, dateField, pass, cells, pre, reactive, entry>>

MonthReached ==
    /\ cal = "navigate"
    /\ 0 \in OnScreen
    /\ StopNavigating

LabelsUnreadable ==
    /\ cal = "navigate"
    /\ StopNavigating

StuckOnMonth ==
    /\ cal = "navigate"
    /\ 0 \notin OnScreen
    /\ view = lastLabel
    /\ Goto("failed")
    /\ UNCHANGED value

(* The arrow towards the target: later when the target follows every month   *)
(* on screen, else earlier, or later again on a calendar without a previous  *)
(* arrow.  A page may ignore the click.                                      *)
Direction(hasPrevious) ==
    IF view + Panels - 1 < 0 \/ ~hasPrevious THEN 1 ELSE -1

ClickArrow ==
    /\ cal = "navigate"
    /\ 0 \notin OnScreen
    /\ view # lastLabel
    /\ \E hasPrevious \in BOOLEAN :
           view' \in {view, view + Direction(hasPrevious)} \cap Views
    /\ lastLabel' = view
    /\ navs' = navs + 1
    /\ cal' = IF navs + 1 = MaxNavigations THEN "failed" ELSE "navigate"
    /\ UNCHANGED <<value, dateField, pass, cells, pre, reactive, entry>>

(* No arrow in the widget's description, or none that can be clicked.        *)
ArrowMissing ==
    /\ cal = "navigate"
    /\ Goto("failed")
    /\ UNCHANGED value

-----------------------------------------------------------------------------
(* pre_value is read once per pass, before the first cell.                   *)
FindCells ==
    /\ cal = "scan"
    /\ cells' \in 1..MaxCells
    /\ cal' = "cells"
    /\ pre' = value[dateField]
    /\ entry' = IF pass = 0 THEN value[dateField] ELSE entry
    /\ UNCHANGED <<value, dateField, view, lastLabel, navs, pass, reactive>>

NoCells ==
    /\ cal = "scan"
    /\ Goto("failed")
    /\ UNCHANGED value

NextCell ==
    /\ cells' = cells - 1
    /\ cal' = "cells"
    /\ UNCHANGED <<dateField, view, lastLabel, navs, pass, pre, reactive, entry>>

(* Disabled, outside the month, in the panel of another month, or failing    *)
(* to take the click.                                                        *)
SkipCell ==
    /\ cal = "cells"
    /\ cells > 0
    /\ NextCell
    /\ UNCHANGED value

CellsExhausted ==
    /\ cal = "cells"
    /\ cells = 0
    /\ Goto("failed")
    /\ UNCHANGED value

(* What the value read back after a click says of it.  A value that did not  *)
(* move is accepted from a widget never seen to react, and sends the filler  *)
(* to a second click on a widget that does.                                  *)
Verdict(v) ==
    IF v = "target" THEN "ok"
    ELSE IF v = pre \/ ~Readable(v)
         THEN IF reactive THEN "again" ELSE "ok"
         ELSE "reopen"

ClickCell ==
    /\ cal = "cells"
    /\ cells > 0
    /\ \E v \in Values :
           /\ value' \in Reaction(dateField, v)
           /\ Goto(Verdict(v))

(* The second click on the same cell starts a new range at it.               *)
ClickAgain ==
    /\ cal = "again"
    /\ \E v \in Values :
           /\ value' \in Reaction(dateField, v)
           /\ \/ v = "target" /\ Goto("ok")
              \/ v # "target" /\ v # value[dateField] /\ Readable(v) /\ Goto("reopen")
              \/ v # "target" /\ (v = value[dateField] \/ ~Readable(v)) /\ NextCell

SecondClickFails ==
    /\ cal = "again"
    /\ NextCell
    /\ UNCHANGED value

(* A wrong date was selected: the calendar is reopened by a click on the     *)
(* field, and as the widget has shown that it reacts the next pass demands   *)
(* the target.                                                               *)
NextPass(proven) ==
    /\ cal = "reopen"
    /\ IF pass + 1 = MaxPasses
       THEN /\ cal' = "failed"
            /\ UNCHANGED <<view, lastLabel, navs>>
       ELSE Moved("navigate")
    /\ pass' = pass + 1
    /\ reactive' = proven
    /\ UNCHANGED value \/ (\E v \in Values : value' \in Reaction(dateField, v))
    /\ UNCHANGED <<dateField, cells, pre, entry>>

ReopenForgetting == NextPass(FALSE)
ReopenCalendar == NextPass(TRUE)

CalendarNext ==
    \/ OpenCalendar \/ CalendarStaysShut
    \/ MonthReached \/ LabelsUnreadable \/ StuckOnMonth \/ ClickArrow \/ ArrowMissing
    \/ FindCells \/ NoCells \/ SkipCell \/ CellsExhausted
    \/ ClickCell \/ ClickAgain \/ SecondClickFails \/ ReopenCalendar

(* The filler alone, called on one date field after the other.               *)
CalendarSpec ==
    /\ InitForm
    /\ CalendarIdle
    /\ [][\/ CalendarNext
          \/ UNCHANGED value /\ \E f \in Dates : StartCalendar(f)
          \/ UNCHANGED value /\ ReturnCalendar]_<<value, calVars>>

-----------------------------------------------------------------------------
(* A fill the calendar reports as done shows the target, or a display nobody *)
(* can read, or what the field showed before the first click: a wrong date   *)
(* an earlier click of the same fill selected is never accepted as "the      *)
(* widget syncs late".                                                       *)
NoWrongDateAccepted ==
    cal = "ok" =>
        \/ AtTarget(dateField)
        \/ ~Readable(value[dateField])
        \/ value[dateField] = entry
=============================================================================
