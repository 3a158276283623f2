------------------------------ MODULE OptionFill ------------------------------
(***************************************************************************)
(* The widgets that offer a list: open_widget_reliably, then the            *)
(* AutocompleteFiller (types the target and picks a suggestion) or the      *)
(* CustomDropdownFiller (picks an option, scrolling a virtualised list).    *)
(* A click on a row with a text chooses that text; what hangs on the field   *)
(* may change with it.                                                      *)
(***************************************************************************)
EXTENDS SearchForm, SequencesExt

CONSTANTS MaxRows,       \* rows a list has on screen
          MinPlausible,  \* _MIN_PLAUSIBLE_OPTIONS
          MaxScroll      \* _MAX_SCROLL_STEPS

ASSUME ListAssumption == {MaxRows, MinPlausible} \subseteq Nat \ {0} /\ MaxScroll \in Nat

VARIABLES opt,         \* where the filler stands
          optField,    \* the field it fills
          kind,        \* "none" while the widget is only opened to be classified
          exact,       \* match_mode
          probe,       \* probe_text was given: the opener may type a prefix of the target
          strategy,    \* opening strategies tried
          rows,        \* what the list has on screen, in order
          scrolls,     \* scroll steps
          matched      \* text the filler chose

optVars == <<opt, optField, kind, exact, probe, strategy, rows, scrolls, matched>>

(* A row without text (an icon, a separator), the target, or another one.    *)
Rows == {"blank", "target", "other"}
Lists == SeqOf(Rows, MaxRows)

OpenStrategies == <<"click_field", "click_inner_combobox", "click_ancestor", "type_probe", "keyboard">>
Typed == {"type_probe"}

(* What one call of a filler knows is forgotten when it returns.             *)
OptionIdle ==
    /\ opt = "idle"
    /\ optField = Location
    /\ kind = "none"
    /\ exact = FALSE
    /\ probe = FALSE
    /\ strategy = 0
    /\ rows = <<>>
    /\ scrolls = 0
    /\ matched = "none"

(* open_widget_reliably on field f, before its classification or in a fill.  *)
StartOption(f, k, typing) ==
    /\ opt = "idle"
    /\ opt' = "open"
    /\ optField' = f
    /\ kind' = k
    /\ exact' = (f \in Times)
    /\ probe' = typing
    /\ UNCHANGED <<strategy, rows, scrolls, matched>>

ReturnOption ==
    /\ opt \in {"opened", "ok", "failed"}
    /\ opt' = "idle"
    /\ optField' = Location
    /\ kind' = "none"
    /\ exact' = FALSE
    /\ probe' = FALSE
    /\ strategy' = 0
    /\ rows' = <<>>
    /\ scrolls' = 0
    /\ matched' = "none"

GotoOption(state) ==
    /\ opt' = state
    /\ UNCHANGED <<optField, kind, exact, probe, strategy, rows, scrolls, matched>>

Opened == IF kind = "none" THEN "opened" ELSE "read"

AlreadyOpen ==
    /\ opt = "open"
    /\ strategy = 0
    /\ GotoOption(Opened)
    /\ UNCHANGED value

(* The strategies in turn.  Typing leaves its prefix in the field when the   *)
(* suggestions come, clears the field when they do not, and leaves whatever  *)
(* is there when it breaks off.                                              *)
TryToOpen(opens) ==
    /\ opt = "open"
    /\ strategy < Len(OpenStrategies)
    /\ strategy' = IF opens THEN 0 ELSE strategy + 1
    /\ LET typing == OpenStrategies[strategy + 1] \in Typed
       IN  /\ typing /\ opens => probe
           /\ IF typing /\ probe
              THEN \E v \in IF opens THEN {"text"}
                          ELSE {"blank", "text", value[optField]} :
                       value' = [value EXCEPT ![optField] = v]
              ELSE UNCHANGED value
    /\ opt' = IF opens THEN Opened ELSE "open"
    /\ UNCHANGED <<optField, kind, exact, probe, rows, scrolls, matched>>

OpenWidget == \E opens \in BOOLEAN : TryToOpen(opens)

CannotOpen ==
    /\ opt = "open"
    /\ strategy = Len(OpenStrategies)
    /\ GotoOption("failed")
    /\ UNCHANGED value

-----------------------------------------------------------------------------
Texts(list) == SelectSeq(list, LAMBDA r : r # "blank")

(* Exact: the target or nothing.  Fuzzy: the target where the list has it,   *)
(* else the closest other text, or nothing when none is close enough.        *)
Matches(texts) ==
    IF "target" \in ToSet(texts) THEN {"target"}
    ELSE IF exact THEN {"none"} ELSE {"none"} \cup ToSet(texts)

IndexOf(texts, t) == CHOOSE i \in DOMAIN texts : texts[i] = t

(* The filler clicks the row whose place on the page is the place of the     *)
(* chosen text among the texts it read; when that row takes no click, the    *)
(* first one that carries the chosen text.                                   *)
PlaceAmongTexts(list, t) == IndexOf(Texts(list), t)
PlaceOnPage(list, t) == IndexOf(list, t)

ClickRow(t) ==
    \E i \in {PlaceAmongTexts(rows, t), PlaceOnPage(rows, t)} :
        value' \in Reaction(optField,
                        CASE rows[i] = "target" -> "target"
                          [] rows[i] = "other" -> "wrong"
                          [] rows[i] = "blank" -> value[optField])

Choose ==
    /\ opt = "click"
    /\ ClickRow(matched)
    /\ opt' = "ok"
    /\ rows' = <<>>
    /\ UNCHANGED <<optField, kind, exact, probe, strategy, scrolls, matched>>

CannotClick ==
    /\ opt = "click"
    /\ GotoOption("failed")
    /\ UNCHANGED value

(* AutocompleteFiller: the whole target is typed, the suggestions are read.  *)
ReadSuggestions ==
    /\ opt = "read"
    /\ kind = "autocomplete"
    /\ value' = [value EXCEPT ![optField] = "text"]
    /\ rows' \in Lists
    /\ matched' \in Matches(Texts(rows'))
    /\ opt' = IF matched' = "none" THEN "failed" ELSE "click"
    /\ UNCHANGED <<optField, kind, exact, probe, strategy, scrolls>>

(* CustomDropdownFiller: a reading counts from MinPlausible texts on; without *)
(* a match the list is scrolled, until it stands still or for MaxScroll steps. *)
Options(list) == IF Len(Texts(list)) < MinPlausible THEN <<>> ELSE Texts(list)

ReadOptions ==
    /\ opt = "read"
    /\ kind = "dropdown"
    /\ rows' \in Lists
    /\ LET options == Options(rows')
           ended == IF options = <<>> THEN scrolls > 0
                                      ELSE scrolls > 0 /\ options = Options(rows)
       IN  /\ matched' \in Matches(options)
           /\ IF matched' # "none"
              THEN opt' = "click" /\ UNCHANGED scrolls
              ELSE IF ended \/ scrolls = MaxScroll
                   THEN opt' = "failed" /\ UNCHANGED scrolls
                   ELSE opt' = "read" /\ scrolls' = scrolls + 1
    /\ UNCHANGED <<value, optField, kind, exact, probe, strategy>>

OptionNext ==
    \/ AlreadyOpen \/ OpenWidget \/ CannotOpen
    \/ ReadSuggestions \/ ReadOptions \/ Choose \/ CannotClick

=============================================================================
