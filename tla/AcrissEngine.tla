----------------------------- MODULE AcrissEngine ----------------------------
(***************************************************************************)
(* The deterministic classifier of src/saas/application/classification/    *)
(* acriss_engine: a vehicle name and what was scraped beside it become the *)
(* four letters of an ACRISS code, each with its own confidence.  A name   *)
(* is the sequence of its normalised words; a token of several words is    *)
(* one word here.  Confidences are percentages.  The data files            *)
(* (acriss-models, -aliases, -source-overrides) are the argument "data".   *)
(***************************************************************************)
EXTENDS Integers, Sequences, FiniteSets

CONSTANTS Unknown,       \* an open letter, an absent token, entry or number
          Alike,         \* Alike[text][key]: similarity by SequenceMatcher
          Numbered       \* words that carry a digit, the designators of models

FuzzyAccept == 90
Sure == 85

Letter(code, conf, source) == [code |-> code, conf |-> conf, source |-> source]
Open == Letter(Unknown, 0, "fallback")

WordsOf(name) == {name[i] : i \in DOMAIN name}
AtMost(x, bound) == IF x < bound THEN x ELSE bound
AtLeast(x, bound) == IF x > bound THEN x ELSE bound

\* Tables of tokens, each row a letter and the words that mean it; the first row
\* with a word of the name decides.
StrongTypeTokens ==
    << <<"T", {"convertible", "cabrio", "cabriolet", "descapotable"}>>,
       <<"W", {"variant", "estate", "sw", "touring", "kombi", "avant", "break", "sportstourer"}>>,
       <<"N", {"roadster"}>>, <<"E", {"coupe"}>>, <<"K", {"furgon", "furgoneta", "cargo"}>> >>
WeakTypeTokens ==
    << <<"G", {"crossover", "cuv"}>>, <<"F", {"suv"}>>,
       <<"M", {"monovolumen", "mpv", "monospace"}>>, <<"D", {"sedan", "berlina", "saloon"}>> >>
PowertrainTokens ==
    << <<"I", {"phev", "plug in", "plugin hybrid", "recharge"}>>,
       <<"E", {"e-208", "e-2008", "electric", "electrico", "bev", "ev"}>>,
       <<"H", {"hybrid", "hibrido", "hev", "mhev", "mild hybrid", "e power"}>>,
       <<"D", {"diesel", "tdi", "dci", "hdi", "cdi"}>>,
       <<"V", {"petrol", "gasolina", "tsi", "tfsi", "puretech", "mpi"}>> >>
GearTokens ==
    << <<"A", {"automatic", "automatico", "auto", "dsg", "dct", "edc", "cvt", "e cvt", "s tronic"}>>,
       <<"M", {"manual", "manuale", "manuel", "mt", "stick"}>> >>

TokenOf(table, name) ==
    LET rows == {i \in DOMAIN table : WordsOf(name) \cap table[i][2] # {}}
    IN  IF rows = {} THEN Unknown
        ELSE table[CHOOSE i \in rows : \A j \in rows : i <= j][1]

-----------------------------------------------------------------------------
\* ModelDictionary.lookup: the whole name, then the name without its make when
\* one entry has it, then the longest key inside the name, then the most similar.
Contains(text, key) ==
    \E i \in 0..(Len(text) - Len(key)) : SubSeq(text, i + 1, i + Len(key)) = key

Longest(keys) == CHOOSE k \in keys : \A other \in keys : Len(k) >= Len(other)

Designator(name) ==
    LET at == {i \in DOMAIN name : name[i] \in Numbered}
    IN  IF at = {} THEN Unknown ELSE name[CHOOSE i \in at : \A j \in at : i <= j]

DesignatorMismatch(text, key) ==
    /\ Designator(text) # Unknown
    /\ Designator(key) # Unknown
    /\ Designator(text) # Designator(key)

VariantMismatch(text, entryWords) ==
    LET marks == StrongTypeTokens[2][2] \cup {"wagon"}
    IN  (WordsOf(text) \cap marks = {}) # (entryWords \cap marks = {})

Similar(data, name) ==
    {k \in DOMAIN data.index :
        Alike[name][k] >= FuzzyAccept /\ ~DesignatorMismatch(name, k)}

Match(id, via) == [id |-> id, via |-> via]

Fuzzy(data, name) ==
    LET keys == Similar(data, name)
        id == data.index[CHOOSE k \in keys : \A other \in keys : Alike[name][k] >= Alike[name][other]]
    IN  IF keys = {} \/ VariantMismatch(name, data.models[id].words)
        THEN Match(Unknown, "none")
        ELSE Match(id, "fuzzy")

Lookup(data, name) ==
    LET alone == {k \in DOMAIN data.modelOnly : Cardinality(data.modelOnly[k]) = 1}
        only(k) == CHOOSE id \in data.modelOnly[k] : TRUE
        inside == {k \in DOMAIN data.index : Contains(name, k)}
        insideAlone == {k \in alone : Contains(name, k)}
    IN  CASE name = <<>> -> Match(Unknown, "none")
          [] name # <<>> /\ name \in DOMAIN data.index -> Match(data.index[name], "exact")
          [] name # <<>> /\ name \notin DOMAIN data.index /\ name \in alone ->
                Match(only(name), "exact")
          [] OTHER -> IF inside # {} THEN Match(data.index[Longest(inside)], "contains")
                      ELSE IF insideAlone # {} THEN Match(only(Longest(insideAlone)), "contains")
                      ELSE Fuzzy(data, name)

\* find_source_override: what an operator fixed for one provider and entry.
NoOverride == [category |-> Unknown, type |-> Unknown, conf |-> 0]
FindSourceOverride(data, source, id) ==
    IF <<source, id>> \in DOMAIN data.overrides THEN data.overrides[<<source, id>>] ELSE NoOverride

-----------------------------------------------------------------------------
\* Fuzzy matches are never believed more than 88 percent.
Believed(via, conf) == IF via = "fuzzy" THEN AtMost(conf, 88) ELSE conf

PassengerVanFirst(seats, elite) ==
    CASE seats >= 15 -> "O"
      [] seats \in 12..14 -> "X"
      [] seats \in 9..11 -> IF elite THEN "W" ELSE "L"
      [] seats = 8 -> IF elite THEN "U" ELSE "P"
      [] seats = 7 -> IF elite THEN "R" ELSE "S"
      [] OTHER -> IF elite THEN "J" ELSE "I"

\* A van of the dictionary is coded by capacity, unless it was scraped with few seats.
VanCoding(entry, seats) == entry.van /\ (seats = Unknown \/ seats >= 6)

VanCategory(entry, seats) ==
    IF seats # Unknown THEN Letter(PassengerVanFirst(seats, entry.elite), 95, "model_dictionary")
    ELSE IF entry.vanFirst = Unknown THEN Letter("S", 60, "model_dictionary")
    ELSE Letter(entry.vanFirst, 85, "model_dictionary")

ResolveCategory(override, entry, via) ==
    IF override.category # Unknown THEN Letter(override.category, override.conf, "source_override")
    ELSE IF entry = Unknown THEN Open
    ELSE Letter(entry.category, Believed(via, entry.categoryConf), "model_dictionary")

\* A body word of the name beats the dictionary unless the entry's own name has it.
ResolveType(override, entry, via, name) ==
    LET strong == TokenOf(StrongTypeTokens, name)
        row == CHOOSE i \in DOMAIN StrongTypeTokens : StrongTypeTokens[i][1] = strong
        told == strong # Unknown
                /\ (entry = Unknown
                    \/ WordsOf(name) \cap StrongTypeTokens[row][2] \cap entry.words = {})
        weak == TokenOf(WeakTypeTokens, name)
    IN  IF override.type # Unknown THEN Letter(override.type, override.conf, "source_override")
        ELSE IF told THEN Letter(strong, 98, "name_token")
        ELSE IF entry # Unknown
             THEN Letter(entry.body, Believed(via, entry.bodyConf), "model_dictionary")
        ELSE IF weak # Unknown THEN Letter(weak, 75, "name_token") ELSE Open

\* The gear letter; an electric car is automatic by construction.
ResolveTransmission(scraped, name, fuel) ==
    LET told == TokenOf(GearTokens, name)
    IN  IF scraped # Unknown THEN Letter(scraped, 100, "scraped")
        ELSE IF told # Unknown THEN Letter(told, 98, "name_token")
        ELSE IF fuel = "E" THEN Letter("A", 97, "heuristic") ELSE Open

\* The fuel letter and whether the family leaves it ambiguous.
ResolveFuel(name, entry) ==
    LET told == TokenOf(PowertrainTokens, name)
        known(code, conf, source) == [letter |-> Letter(code, conf, source), ambiguous |-> FALSE]
        guessed(code, conf) == [letter |-> Letter(code, conf, "fallback"), ambiguous |-> TRUE]
    IN  IF told # Unknown THEN known(told, 99, "name_token")
        ELSE IF entry = Unknown THEN guessed("R", 70)
        ELSE CASE entry.mode = "bev_only" -> known("E", AtLeast(entry.powerConf, 99), "model_dictionary")
               [] entry.mode = "hybrid_only" -> known("H", entry.powerConf, "model_dictionary")
               [] entry.mode = "phev_only" -> known("I", entry.powerConf, "model_dictionary")
               [] entry.mode = "ice_only" -> known("R", AtLeast(entry.powerConf, 95), "model_dictionary")
               [] entry.mode = "ice_dominant" ->
                     known("R", AtMost(AtLeast(entry.powerConf, 90), 95), "fallback")
               [] OTHER -> guessed(entry.default, AtMost(entry.powerConf, Sure))

-----------------------------------------------------------------------------
CodeOf(r) == <<r.category.code, r.type.code, r.gear.code, r.fuel.code>>
Complete(code) == \A i \in 1..4 : code[i] # Unknown

LeastConf(r) ==
    AtMost(AtMost(r.category.conf, r.type.conf), AtMost(r.gear.conf, r.fuel.conf))

Doubtful(r) ==
    \/ LeastConf(r) < Sure
    \/ ~r.known
    \/ r.ambiguous /\ r.fuel.conf < Sure

\* _refresh_aggregate: confidence and the review flag follow from the letters.
Refreshed(r) == [r EXCEPT !.conf = LeastConf(r), !.review = Doubtful(r)]

\* The letters of a name whose entry was found, or Unknown.
Letters(name, gear, seats, override, entry, via) ==
    LET van == entry # Unknown /\ VanCoding(entry, seats)
        fuel == ResolveFuel(name, entry)
    IN  [name |-> name,
         category |-> IF van THEN VanCategory(entry, seats) ELSE ResolveCategory(override, entry, via),
         type |-> IF van THEN Letter("V", entry.bodyConf, "model_dictionary")
                  ELSE ResolveType(override, entry, via, name),
         gear |-> ResolveTransmission(gear, name, fuel.letter.code),
         fuel |-> fuel.letter,
         ambiguous |-> fuel.ambiguous,
         known |-> entry # Unknown,
         conf |-> 0, review |-> FALSE]

\* classify_vehicle.
ClassifyVehicle(data, name, gear, seats, source) ==
    LET match == Lookup(data, name)
        entry == IF match.id = Unknown THEN Unknown ELSE data.models[match.id]
    IN  Refreshed(Letters(name, gear, seats, FindSourceOverride(data, source, match.id),
                          entry, match.via))
=============================================================================
