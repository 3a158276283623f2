------------------------------ MODULE SearchForm ------------------------------
(***************************************************************************)
(* A provider's search form as the fillers see it: the value each field     *)
(* displays.  Which page the form belongs to, its markup and its selectors  *)
(* are abstracted away; what matters is whether a display reads as the      *)
(* target, as something else, or not at all.                                *)
(***************************************************************************)
EXTENDS Integers, Sequences

Location == "pickup_location"
PickupDate == "pickup_date"
ReturnDate == "return_date"
PickupTime == "pickup_time"
ReturnTime == "return_time"

Dates == {PickupDate, ReturnDate}
Times == {PickupTime, ReturnTime}
Fields == {Location} \cup Dates \cup Times

(* "default" and "wrong" are two different readable values that are not the  *)
(* target of the field; "text" is a display no parser reads.                 *)
Values == {"blank", "text", "default", "wrong", "target"}
Readable(v) == v \in {"default", "wrong", "target"}

CONSTANT Coupled  \* the fields a page may change when another one is used

ASSUME CoupledAssumption ==
    /\ Coupled \in [Fields -> SUBSET Fields]
    /\ \A f \in Fields : f \notin Coupled[f]

VARIABLE value    \* what each field displays

(* A page presets all its dates, or all its times, or neither.               *)
InitForm ==
    \E d, t \in {"blank", "default"} :
        value = [f \in Fields |-> CASE f \in Dates -> d [] f \in Times -> t [] OTHER -> "blank"]

AtTarget(f) == value[f] = "target"

(* The page's answer to a use of field f that leaves f at v: one field that  *)
(* hangs on f, such as the other end of a range calendar, may change too.    *)
Reaction(f, v) ==
    {[value EXCEPT ![f] = v]}
        \cup {[value EXCEPT ![f] = v, ![p[1]] = p[2]] : p \in Coupled[f] \X Values}

(* is_location_filled: some input that was blank is not blank any more.      *)
SomeInputFilled(before) ==
    \E f \in Fields : before[f] = "blank" /\ value[f] # "blank"

SomeInputChanged(before) == value # before
=============================================================================
