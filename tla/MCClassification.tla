--------------------------- MODULE MCClassification --------------------------
EXTENDS Classification, TLC

Entry(words, category, body, mode, conf) ==
    [words |-> words, category |-> category, categoryConf |-> 95, body |-> body, bodyConf |-> 95,
     mode |-> mode, powerConf |-> conf, default |-> "R", van |-> FALSE, elite |-> FALSE,
     vanFirst |-> Unknown]

Golf == Entry({"vw", "golf"}, "C", "D", "ice_dominant", 92)
Polo == Entry({"vw", "polo"}, "E", "D", "ice_only", 95)
Tiggo == Entry({"chery", "tiggo", "4"}, "I", "F", "mixed", 80)

McNumbered == {"4", "7"}
Files(models, index) ==
    [models |-> models, index |-> index, modelOnly |-> [k \in {<<"golf">>} |-> {"golf"}],
     overrides |-> [k \in {<<"goldcar", "polo">>} |->
                       [category |-> Unknown, type |-> "B", conf |-> 99]]]

TiggoKey == <<"chery", "tiggo", "4">>
Known == (<<"vw", "golf">> :> "golf") @@ (<<"vw", "polo">> :> "polo")
McData ==
    << Files([golf |-> Golf, polo |-> Polo], Known),
       Files([golf |-> Golf, polo |-> Polo, tiggo |-> Tiggo],
             Known @@ (TiggoKey :> "tiggo")) >>

GolfTsi == <<"golf", "tsi">>
GolfManual == <<"golf", "tsi", "manual">>
VwPolo == <<"vw", "polo">>
Tiggo4 == <<"chery", "tiggo", "4", "hybrid", "auto">>
Tiggo7 == <<"chery", "tiggo", "7">>
GolfHybrid == <<"wv", "golf", "hybrid">>

McAlike == [t \in {GolfTsi, GolfManual, VwPolo, Tiggo4, Tiggo7, GolfHybrid} |->
              [k \in DOMAIN McData[2].index |->
                 CASE t = Tiggo7 /\ k = TiggoKey -> 94
                   [] OTHER -> 20]]

Group(models, gear, declared, source) ==
    [models |-> models, gear |-> gear, seats |-> Unknown, declared |-> declared, source |-> source]

McGroups == {
    Group(<<GolfTsi, VwPolo>>, "M", Unknown, "goldcar"),
    Group(<<VwPolo, GolfHybrid>>, "M", Unknown, "goldcar"),
    Group(<<VwPolo, Tiggo4>>, "A", Unknown, "goldcar"),
    Group(<<Tiggo7>>, Unknown, <<"C", "F", "A", "R">>, "goldcar"),
    Group(<<GolfManual>>, Unknown, Unknown, "adhoc"),
    Group(<<Tiggo4>>, Unknown, Unknown, "adhoc") }

McCodes == { <<"C", "D", "M", "R">>, <<"E", "B", "M", "R">>, <<"E", "B", "A", "R">>,
             <<"I", "F", "A", "R">>, <<"C", "F", "A", "R">>, <<"I", "F", "A", "H">> }

McProfiles == { [category |-> "I", type |-> "F", mode |-> "hybrid_only", conf |-> 97],
                [category |-> "C", type |-> Unknown, mode |-> "mixed", conf |-> 40] }

Item(code, conf, pending) == [code |-> code, conf |-> conf, pending |-> pending]
Unsure == Item(<<"I", "F", "A", "R">>, 75, FALSE)
Invented == Item(<<"I", "F", "A", "D">>, 90, FALSE)
Certain == Item(<<"C", "D", "M", "R">>, 95, FALSE)
MixedUp == Item(<<"C", "D", "M", "R">>, 90, TRUE)
McAnswers == { <<Unsure, Certain>>, <<Certain, Invented>>, <<MixedUp, Unsure>>, <<Certain>> }
=============================================================================
