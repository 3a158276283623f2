------------------------- MODULE ClassificationProofs -------------------------
(***************************************************************************)
(* Proofs about Classification, for any workers, groups, data files,       *)
(* answers of the language model and number of jobs.                       *)
(***************************************************************************)
EXTENDS Classification, FiniteSetTheorems, WellFoundedInduction, TLAPS

-----------------------------------------------------------------------------
(* Least and greatest numbers. *)

LEMMA LeastExists ==
    ASSUME NEW S \in SUBSET Nat, S # {}
    PROVE  \E x \in S : \A y \in S : x <= y
<1> DEFINE R == {p \in Nat \X Nat : p[1] < p[2]}
<1>1. IsWellFoundedOn(R, Nat)
  BY NatLessThanWellFounded DEF OpToRel
<1> HIDE DEF R
<1>2. PICK x \in S : \A y \in S : ~ (<<y, x>> \in R)
  BY <1>1, WFMin
<1>3. ASSUME NEW y \in S, y < x PROVE FALSE
  <2>1. <<y, x>> \in Nat \X Nat /\ <<y, x>>[1] < <<y, x>>[2]
    BY <1>3
  <2> QED BY <2>1, <1>2 DEF R
<1> QED BY <1>3

LEMMA GreatestExists ==
    ASSUME NEW S \in SUBSET Int, S # {}, NEW bound \in Int, \A y \in S : y <= bound
    PROVE  \E x \in S : \A y \in S : y <= x
<1> DEFINE T == {bound - y : y \in S}
<1>1. T \in SUBSET Nat /\ T # {}
  <2>1. \A y \in S : bound - y \in Nat
    OBVIOUS
  <2> QED BY <2>1
<1> HIDE DEF T
<1>2. PICK t \in T : \A u \in T : t <= u
  BY <1>1, LeastExists
<1> USE DEF T
<1>3. PICK x \in S : t = bound - x
  BY <1>2
<1>4. \A y \in S : bound - x <= bound - y
  BY <1>2, <1>3
<1> QED BY <1>4

-----------------------------------------------------------------------------
(* What the engine makes of one name. *)

Confidence == 0..100

IsLetter(letter) == /\ letter = Letter(letter.code, letter.conf, letter.source)
                    /\ letter.conf \in Confidence

Fields(name, category, type, gear, fuel, ambiguous, known, conf, review) ==
    [name |-> name, category |-> category, type |-> type, gear |-> gear, fuel |-> fuel,
     ambiguous |-> ambiguous, known |-> known, conf |-> conf, review |-> review]

IsDraft(r) ==
    /\ r = Fields(r.name, r.category, r.type, r.gear, r.fuel, r.ambiguous, r.known, r.conf, r.review)
    /\ IsLetter(r.category) /\ IsLetter(r.type) /\ IsLetter(r.gear) /\ IsLetter(r.fuel)
    /\ r.known \in BOOLEAN /\ r.ambiguous \in BOOLEAN

IsResult(r) == IsDraft(r) /\ r.review \in BOOLEAN /\ r.conf \in Confidence

\* A result that nobody is asked to review is of a known model and believed.
Believable(r) == ~r.review => r.known /\ r.conf >= Sure

IsEntry(entry) == /\ entry.categoryConf \in Confidence
                  /\ entry.bodyConf \in Confidence
                  /\ entry.powerConf \in Confidence

LEMMA LetterIsLetter ==
    ASSUME NEW code, NEW conf \in Confidence, NEW source
    PROVE  /\ IsLetter(Letter(code, conf, source))
           /\ Letter(code, conf, source).code = code
           /\ Letter(code, conf, source).conf = conf
  BY DEF IsLetter, Letter

LEMMA BoundsAreConfidences ==
    ASSUME NEW x \in Confidence, NEW bound \in Confidence
    PROVE  AtMost(x, bound) \in Confidence /\ AtLeast(x, bound) \in Confidence
  BY DEF AtMost, AtLeast, Confidence

LEMMA BelievedIsConfidence ==
    ASSUME NEW via, NEW conf \in Confidence
    PROVE  Believed(via, conf) \in Confidence
  BY DEF Believed, AtMost, Confidence

LEMMA OpenIsLetter == IsLetter(Open)
  BY LetterIsLetter DEF Open, Confidence

LEMMA CategoryIsLetter ==
    ASSUME NEW override, override.conf \in Confidence,
           NEW entry, entry # Unknown => IsEntry(entry), NEW via
    PROVE  IsLetter(ResolveCategory(override, entry, via))
  BY LetterIsLetter, OpenIsLetter, BelievedIsConfidence DEF ResolveCategory, IsEntry

LEMMA VanCategoryIsLetter ==
    ASSUME NEW entry, NEW seats PROVE IsLetter(VanCategory(entry, seats))
<1>1. 95 \in Confidence /\ 85 \in Confidence /\ 60 \in Confidence
  BY DEF Confidence
<1> QED BY <1>1, LetterIsLetter DEF VanCategory

LEMMA TypeIsLetter ==
    ASSUME NEW override, override.conf \in Confidence,
           NEW entry, entry # Unknown => IsEntry(entry), NEW via, NEW name
    PROVE  IsLetter(ResolveType(override, entry, via, name))
<1>1. 98 \in Confidence /\ 75 \in Confidence
  BY DEF Confidence
<1>2. entry # Unknown => Believed(via, entry.bodyConf) \in Confidence
  BY BelievedIsConfidence DEF IsEntry
<1> QED BY <1>1, <1>2, LetterIsLetter, OpenIsLetter DEF ResolveType

LEMMA TransmissionIsLetter ==
    ASSUME NEW scraped, NEW name, NEW fuel
    PROVE  IsLetter(ResolveTransmission(scraped, name, fuel))
<1>1. 100 \in Confidence /\ 98 \in Confidence /\ 97 \in Confidence
  BY DEF Confidence
<1> QED BY <1>1, LetterIsLetter, OpenIsLetter DEF ResolveTransmission

LEMMA FuelIsLetter ==
    ASSUME NEW name, NEW entry, entry # Unknown => IsEntry(entry)
    PROVE  /\ IsLetter(ResolveFuel(name, entry).letter)
           /\ ResolveFuel(name, entry).ambiguous \in BOOLEAN
<1>1. /\ 99 \in Confidence /\ 70 \in Confidence /\ 95 \in Confidence /\ 90 \in Confidence
      /\ Sure \in Confidence
  BY DEF Confidence, Sure
<1>2. entry # Unknown =>
        /\ entry.powerConf \in Confidence
        /\ AtLeast(entry.powerConf, 99) \in Confidence
        /\ AtLeast(entry.powerConf, 95) \in Confidence
        /\ AtLeast(entry.powerConf, 90) \in Confidence
        /\ AtMost(AtLeast(entry.powerConf, 90), 95) \in Confidence
        /\ AtMost(entry.powerConf, Sure) \in Confidence
  BY <1>1, BoundsAreConfidences DEF IsEntry
<1>3. CASE TokenOf(PowertrainTokens, name) # Unknown
  BY <1>1, <1>3, LetterIsLetter DEF ResolveFuel
<1>4. CASE TokenOf(PowertrainTokens, name) = Unknown /\ entry = Unknown
  BY <1>1, <1>4, LetterIsLetter DEF ResolveFuel
<1>5. CASE TokenOf(PowertrainTokens, name) = Unknown /\ entry # Unknown
  BY <1>1, <1>2, <1>5, LetterIsLetter DEF ResolveFuel
<1> QED BY <1>3, <1>4, <1>5

-----------------------------------------------------------------------------
(* The dictionary names entries of its own, so every letter is a letter.     *)

IsModel(name) == \E g \in Groups : \E i \in DOMAIN g.models : name = g.models[i]

LEMMA LongestExists ==
    ASSUME NEW keys, keys \subseteq Seq(STRING), keys # {}, NEW name \in Seq(STRING),
           \A k \in keys : Contains(name, k)
    PROVE  Longest(keys) \in keys
<1> DEFINE lengths == {Len(k) : k \in keys}
<1>1. lengths \in SUBSET Int /\ lengths # {}
  <2>1. \A k \in keys : Len(k) \in Int
    OBVIOUS
  <2> QED BY <2>1
<1>2. \A k \in keys : Len(k) <= Len(name)
  BY DEF Contains
<1>3. \A y \in lengths : y <= Len(name)
  BY <1>2
<1>4. Len(name) \in Int
  OBVIOUS
<1> HIDE DEF lengths
<1>5. PICK x \in lengths : \A y \in lengths : y <= x
  BY <1>1, <1>3, <1>4, GreatestExists
<1> USE DEF lengths
<1>6. PICK k \in keys : x = Len(k)
  BY <1>5
<1>7. \A other \in keys : Len(k) >= Len(other)
  BY <1>5, <1>6
<1> QED BY <1>6, <1>7 DEF Longest

LEMMA MostAlikeExists ==
    ASSUME NEW keys, keys # {}, NEW alike, \A k \in keys : alike[k] \in Confidence
    PROVE  (CHOOSE k \in keys : \A other \in keys : alike[k] >= alike[other]) \in keys
<1> DEFINE degrees == {alike[k] : k \in keys}
<1>1. degrees \in SUBSET Int /\ degrees # {} /\ \A y \in degrees : y <= 100
  BY DEF Confidence
<1> HIDE DEF degrees
<1>2. PICK x \in degrees : \A y \in degrees : y <= x
  <2> DEFINE bound == 100
  <2>1. bound \in Int /\ \A y \in degrees : y <= bound
    BY <1>1
  <2> HIDE DEF bound
  <2> QED BY <1>1, <2>1, GreatestExists
<1> USE DEF degrees
<1>3. PICK k \in keys : x = alike[k]
  BY <1>2
<1>4. \A other \in keys : alike[k] >= alike[other]
  BY <1>2, <1>3 DEF Confidence
<1> QED BY <1>3, <1>4

LEMMA VersionsAreNumbers == Versions = 1..Len(Data) /\ Len(Data) \in Nat \ {0}
  BY DataAssumption DEF Versions

LEMMA FuzzyIsListed ==
    ASSUME NEW v \in Versions, NEW name, IsModel(name), Fuzzy(Data[v], name).id # Unknown
    PROVE  Fuzzy(Data[v], name).id \in DOMAIN Data[v].models
<1> DEFINE data == Data[v]
           keys == Similar(data, name)
           best == CHOOSE k \in keys : \A other \in keys : Alike[name][k] >= Alike[name][other]
<1>1. keys # {} /\ Fuzzy(data, name).id = data.index[best]
  BY DEF Fuzzy, Match
<1>2. keys \subseteq DOMAIN data.index
  BY DEF Similar
<1>3. \A k \in keys : Alike[name][k] \in Confidence
  BY <1>2, DataAssumption DEF IsModel, Versions, Confidence
<1>4. best \in keys
  <2> HIDE DEF keys
  <2> DEFINE alike == Alike[name]
  <2>1. \A k \in keys : alike[k] \in Confidence
    BY <1>3
  <2> HIDE DEF alike
  <2>2. (CHOOSE k \in keys : \A other \in keys : alike[k] >= alike[other]) \in keys
    BY <1>1, <2>1, MostAlikeExists
  <2> QED BY <2>2 DEF alike
<1>5. data.index[best] \in DOMAIN data.models
  BY <1>2, <1>4, DataAssumption DEF Versions
<1> QED BY <1>1, <1>5

LEMMA LookupIsListed ==
    ASSUME NEW v \in Versions, NEW name \in Seq(STRING), IsModel(name),
           Lookup(Data[v], name).id # Unknown
    PROVE  Lookup(Data[v], name).id \in DOMAIN Data[v].models
<1> DEFINE data == Data[v]
           alone == {k \in DOMAIN data.modelOnly : Cardinality(data.modelOnly[k]) = 1}
           only(k) == CHOOSE id \in data.modelOnly[k] : TRUE
           inside == {k \in DOMAIN data.index : Contains(name, k)}
           insideAlone == {k \in alone : Contains(name, k)}
<1>1. \A k \in DOMAIN data.index : data.index[k] \in DOMAIN data.models /\ k \in Seq(STRING)
  BY DataAssumption DEF Versions
<1>2. \A k \in alone : only(k) \in DOMAIN data.models /\ k \in Seq(STRING)
  <2> SUFFICES ASSUME NEW k \in alone PROVE only(k) \in DOMAIN data.models /\ k \in Seq(STRING)
    OBVIOUS
  <2>1. data.modelOnly[k] \subseteq DOMAIN data.models /\ k \in Seq(STRING)
    BY DataAssumption DEF Versions
  <2>2. data.modelOnly[k] # {}
    <3>1. Cardinality(data.modelOnly[k]) = 1
      OBVIOUS
    <3>2. Cardinality({}) = 0
      BY FS_EmptySet
    <3>3. ASSUME data.modelOnly[k] = {} PROVE FALSE
      BY <3>1, <3>2, <3>3
    <3> QED BY <3>3
  <2> QED BY <2>1, <2>2
<1>3. inside # {} => Longest(inside) \in DOMAIN data.index
  <2>1. inside \subseteq Seq(STRING) /\ \A k \in inside : Contains(name, k)
    BY <1>1
  <2>2. inside \subseteq DOMAIN data.index
    OBVIOUS
  <2> HIDE DEF inside
  <2> QED BY <2>1, <2>2, LongestExists
<1>4. insideAlone # {} => Longest(insideAlone) \in alone
  <2>1. insideAlone \subseteq Seq(STRING) /\ \A k \in insideAlone : Contains(name, k)
    BY <1>2
  <2>2. insideAlone \subseteq alone
    OBVIOUS
  <2> HIDE DEF insideAlone
  <2> QED BY <2>1, <2>2, LongestExists
<1>5. CASE name = <<>>
  BY <1>5 DEF Lookup, Match
<1>6. CASE name # <<>> /\ name \in DOMAIN data.index
  <2>1. Lookup(data, name) = Match(data.index[name], "exact")
    BY <1>6 DEF Lookup
  <2> QED BY <2>1, <1>1, <1>6 DEF Match
<1>7. CASE name # <<>> /\ name \notin DOMAIN data.index /\ name \in alone
  <2>1. Lookup(data, name) = Match(only(name), "exact")
    BY <1>7 DEF Lookup
  <2> QED BY <2>1, <1>2, <1>7 DEF Match
<1>8. CASE name # <<>> /\ name \notin DOMAIN data.index /\ name \notin alone
  <2>1. Lookup(data, name) =
          IF inside # {} THEN Match(data.index[Longest(inside)], "contains")
          ELSE IF insideAlone # {} THEN Match(only(Longest(insideAlone)), "contains")
          ELSE Fuzzy(data, name)
    BY <1>8 DEF Lookup
  <2> HIDE DEF inside, insideAlone, alone
  <2>2. CASE inside # {}
    <3>1. Lookup(data, name) = Match(data.index[Longest(inside)], "contains")
      BY <2>1, <2>2
    <3> QED BY <3>1, <1>1, <1>3, <2>2 DEF Match
  <2>3. CASE inside = {} /\ insideAlone # {}
    <3>1. Lookup(data, name) = Match(only(Longest(insideAlone)), "contains")
      BY <2>1, <2>3
    <3> QED BY <3>1, <1>2, <1>4, <2>3 DEF Match
  <2>4. CASE inside = {} /\ insideAlone = {}
    <3>1. Lookup(data, name) = Fuzzy(data, name)
      BY <2>1, <2>4
    <3> QED BY <3>1, FuzzyIsListed
  <2> QED BY <2>2, <2>3, <2>4
<1> QED BY <1>5, <1>6, <1>7, <1>8

-----------------------------------------------------------------------------
(* Results of the engine, and the ways they are repaired.                   *)

LEMMA LeastConfIsConfidence ==
    ASSUME NEW r, IsLetter(r.category), IsLetter(r.type), IsLetter(r.gear), IsLetter(r.fuel)
    PROVE  /\ LeastConf(r) \in Confidence
           /\ \A letter \in {r.category, r.type, r.gear, r.fuel} : LeastConf(r) <= letter.conf
<1>1. \A letter \in {r.category, r.type, r.gear, r.fuel} : letter.conf \in Confidence
  BY DEF IsLetter
<1>2. ASSUME NEW a \in Confidence, NEW b \in Confidence
      PROVE  AtMost(a, b) \in Confidence /\ AtMost(a, b) <= a /\ AtMost(a, b) <= b
  BY DEF AtMost, Confidence
<1>3. \A a, b, c \in Confidence : a <= b /\ b <= c => a <= c
  BY DEF Confidence
<1> QED BY <1>1, <1>2, <1>3 DEF LeastConf

LEMMA ReadFields ==
    ASSUME NEW name, NEW category, NEW type, NEW gear, NEW fuel, NEW ambiguous, NEW known,
           NEW conf, NEW review, NEW r,
           r = Fields(name, category, type, gear, fuel, ambiguous, known, conf, review)
    PROVE  /\ r.name = name /\ r.category = category /\ r.type = type /\ r.gear = gear
           /\ r.fuel = fuel /\ r.ambiguous = ambiguous /\ r.known = known
           /\ r.conf = conf /\ r.review = review
  BY DEF Fields

LEMMA WithConf ==
    ASSUME NEW r, IsDraft(r), NEW new
    PROVE  /\ IsDraft([r EXCEPT !.conf = new])
           /\ [r EXCEPT !.conf = new] = Fields(r.name, r.category, r.type, r.gear, r.fuel,
                                              r.ambiguous, r.known, new, r.review)
<1>1. [r EXCEPT !.conf = new] = Fields(r.name, r.category, r.type, r.gear, r.fuel,
                                       r.ambiguous, r.known, new, r.review)
  BY DEF IsDraft, Fields
<1> QED BY <1>1, ReadFields DEF IsDraft

LEMMA WithReview ==
    ASSUME NEW r, IsDraft(r), NEW new
    PROVE  /\ IsDraft([r EXCEPT !.review = new])
           /\ [r EXCEPT !.review = new] = Fields(r.name, r.category, r.type, r.gear, r.fuel,
                                                r.ambiguous, r.known, r.conf, new)
<1>1. [r EXCEPT !.review = new] = Fields(r.name, r.category, r.type, r.gear, r.fuel,
                                         r.ambiguous, r.known, r.conf, new)
  BY DEF IsDraft, Fields
<1> QED BY <1>1, ReadFields DEF IsDraft

\* Whatever letters a result has, computing its aggregate settles it.
LEMMA RefreshedIsResult ==
    ASSUME NEW r, IsDraft(r)
    PROVE  /\ IsResult(Refreshed(r))
           /\ Believable(Refreshed(r))
           /\ Refreshed(r).name = r.name /\ Refreshed(r).known = r.known
           /\ Refreshed(r).category = r.category
           /\ ~r.known => Refreshed(r).review
<1>1. LeastConf(r) \in Confidence
  BY LeastConfIsConfidence DEF IsDraft
<1>2. PICK least \in Confidence : least = LeastConf(r)
  BY <1>1
<1>3. PICK doubtful \in BOOLEAN : doubtful = Doubtful(r)
  BY DEF Doubtful
<1> DEFINE s == [r EXCEPT !.conf = least]
           t == [s EXCEPT !.review = doubtful]
<1>4. /\ IsDraft(s)
      /\ s = Fields(r.name, r.category, r.type, r.gear, r.fuel, r.ambiguous, r.known, least, r.review)
  BY WithConf
<1>5. /\ s.name = r.name /\ s.category = r.category /\ s.known = r.known /\ s.conf = least
  BY <1>4, ReadFields
<1>6. [r EXCEPT !.conf = least, !.review = doubtful] = t
  OBVIOUS
<1> HIDE DEF s
<1>7. /\ IsDraft(t)
      /\ t = Fields(s.name, s.category, s.type, s.gear, s.fuel, s.ambiguous, s.known, s.conf, doubtful)
  BY <1>4, WithReview
<1>8. Refreshed(r) = t
  BY <1>2, <1>3, <1>6 DEF Refreshed
<1> HIDE DEF t
<1>9. /\ t.name = s.name /\ t.category = s.category /\ t.known = s.known /\ t.conf = s.conf
      /\ t.review = doubtful
  BY <1>7, ReadFields
<1>10. r.known \in BOOLEAN
  BY DEF IsDraft
<1>11. ~doubtful => r.known /\ least >= Sure
  BY <1>2, <1>3, <1>10 DEF Doubtful, Confidence, Sure
<1>12. ~r.known => doubtful
  BY <1>3 DEF Doubtful
<1>13. IsResult(t)
  BY <1>5, <1>7, <1>9 DEF IsResult
<1>14. Believable(t)
  BY <1>5, <1>9, <1>11 DEF Believable
<1> QED BY <1>5, <1>8, <1>9, <1>12, <1>13, <1>14

\* Every member of a group is a result.
LEMMA MembersAreResults ==
    ASSUME NEW v \in Versions, NEW name \in Seq(STRING), IsModel(name), NEW gear, NEW seats,
           NEW source
    PROVE  /\ IsResult(ClassifyVehicle(Data[v], name, gear, seats, source))
           /\ Believable(ClassifyVehicle(Data[v], name, gear, seats, source))
           /\ ClassifyVehicle(Data[v], name, gear, seats, source).name = name
<1> DEFINE data == Data[v]
           match == Lookup(data, name)
           entry == IF match.id = Unknown THEN Unknown ELSE data.models[match.id]
           override == FindSourceOverride(data, source, match.id)
           letters == Letters(name, gear, seats, override, entry, match.via)
<1>1. entry # Unknown => IsEntry(entry)
  <2>1. match.id # Unknown => match.id \in DOMAIN data.models
    BY LookupIsListed
  <2> QED BY <2>1, DataAssumption DEF Versions, IsEntry, Confidence
<1>2. override.conf \in Confidence
  <2>1. \A key \in DOMAIN data.overrides : data.overrides[key].conf \in Confidence
    BY DataAssumption DEF Versions, Confidence
  <2>2. NoOverride.conf \in Confidence
    BY DEF NoOverride, Confidence
  <2>3. override = NoOverride \/ \E key \in DOMAIN data.overrides : override = data.overrides[key]
    BY DEF FindSourceOverride
  <2> QED BY <2>1, <2>2, <2>3
<1>3. ClassifyVehicle(data, name, gear, seats, source) = Refreshed(letters)
  BY DEF ClassifyVehicle
<1> HIDE DEF override, entry, match
<1> DEFINE via == match.via
           van == entry # Unknown /\ VanCoding(entry, seats)
           fuel == ResolveFuel(name, entry)
           category == IF van THEN VanCategory(entry, seats)
                       ELSE ResolveCategory(override, entry, via)
           type == IF van THEN Letter("V", entry.bodyConf, "model_dictionary")
                   ELSE ResolveType(override, entry, via, name)
           transmission == ResolveTransmission(gear, name, fuel.letter.code)
<1>4. IsLetter(category)
  BY <1>1, <1>2, CategoryIsLetter, VanCategoryIsLetter
<1>5. IsLetter(type)
  <2>1. van => entry.bodyConf \in Confidence
    BY <1>1 DEF IsEntry
  <2> QED BY <1>1, <1>2, <2>1, TypeIsLetter, LetterIsLetter
<1>6. IsLetter(transmission)
  BY TransmissionIsLetter
<1>7. IsLetter(fuel.letter) /\ fuel.ambiguous \in BOOLEAN
  BY <1>1, FuelIsLetter
<1>8. letters = Fields(name, category, type, transmission, fuel.letter, fuel.ambiguous,
                       entry # Unknown, 0, FALSE)
  BY DEF Letters, Fields
<1>0. PICK known \in BOOLEAN : known = (entry # Unknown)
  OBVIOUS
<1> HIDE DEF category, type, transmission, fuel, letters
<1>9. letters = Fields(name, category, type, transmission, fuel.letter, fuel.ambiguous,
                       known, 0, FALSE)
  BY <1>8, <1>0
<1>11. IsDraft(letters) /\ letters.name = name
  <2>1. PICK f, a : f = fuel.letter /\ a = fuel.ambiguous
    OBVIOUS
  <2>2. letters = Fields(name, category, type, transmission, f, a, known, 0, FALSE)
    BY <1>9, <2>1
  <2>3. /\ letters.name = name /\ letters.category = category /\ letters.type = type
        /\ letters.gear = transmission /\ letters.fuel = f /\ letters.ambiguous = a
        /\ letters.known = known /\ letters.conf = 0 /\ letters.review = FALSE
    BY <2>2 DEF Fields
  <2>4. letters = Fields(letters.name, letters.category, letters.type, letters.gear, letters.fuel,
                         letters.ambiguous, letters.known, letters.conf, letters.review)
    BY <2>2, <2>3
  <2> QED BY <1>4, <1>5, <1>6, <1>7, <2>1, <2>3, <2>4 DEF IsDraft
<1>10. /\ IsResult(Refreshed(letters)) /\ Believable(Refreshed(letters))
       /\ Refreshed(letters).name = name
  BY <1>11, RefreshedIsResult
<1> QED BY <1>3, <1>10

-----------------------------------------------------------------------------
(* The bundle rule: a group has a dearest member, and the first of them.    *)

LEMMA RankIsNumber ==
    ASSUME NEW code PROVE CategoryRank(code) \in Int /\ CategoryRank(code) <= 17 /\ CategoryRank(code) >= -1
<1>1. DOMAIN Scale = 1..17
  BY DEF Scale
<1>2. CASE \E i \in DOMAIN Scale : Scale[i] = code
  <2>1. (CHOOSE i \in DOMAIN Scale : Scale[i] = code) \in DOMAIN Scale
    BY <1>2
  <2> QED BY <1>1, <1>2, <2>1 DEF CategoryRank
<1>3. CASE ~ \E i \in DOMAIN Scale : Scale[i] = code
  BY <1>3 DEF CategoryRank
<1> QED BY <1>2, <1>3

LEMMA OpenRanksLast == CategoryRank(Unknown) = -1
  BY ScaleAssumption DEF CategoryRank

LEMMA FirstOfPairs ==
    ASSUME NEW pool \in SUBSET Nat, pool # {}, NEW rank \in [pool -> Int], NEW conf \in [pool -> Int],
           \A i \in pool : rank[i] <= 17 /\ conf[i] <= 100
    PROVE  \E i \in pool : \A j \in pool :
              \/ rank[i] > rank[j] \/ (rank[i] = rank[j] /\ conf[i] > conf[j])
              \/ ~(rank[j] > rank[i] \/ (rank[j] = rank[i] /\ conf[j] > conf[i])) /\ i <= j
<1> DEFINE ranks == {rank[i] : i \in pool}
<1>1. PICK x \in ranks : \A y \in ranks : y <= x
  <2>1. ranks \in SUBSET Int /\ ranks # {} /\ \A y \in ranks : y <= 17
    OBVIOUS
  <2> HIDE DEF ranks
  <2>2. 17 \in Int
    OBVIOUS
  <2> QED BY <2>1, <2>2, GreatestExists
<1> DEFINE dear == {i \in pool : rank[i] = x}
<1>2. dear # {} /\ dear \subseteq pool
  BY <1>1
<1> DEFINE confs == {conf[i] : i \in dear}
<1>3. PICK c \in confs : \A y \in confs : y <= c
  <2>1. confs \in SUBSET Int /\ confs # {} /\ \A y \in confs : y <= 100
    BY <1>2
  <2> HIDE DEF confs
  <2>2. 100 \in Int
    OBVIOUS
  <2> QED BY <2>1, <2>2, GreatestExists
<1> DEFINE sure == {i \in dear : conf[i] = c}
<1>4. PICK first \in sure : \A j \in sure : first <= j
  <2>1. sure \in SUBSET Nat /\ sure # {}
    BY <1>2, <1>3
  <2> HIDE DEF sure
  <2> QED BY <2>1, LeastExists
<1>5. first \in pool /\ rank[first] = x /\ conf[first] = c
  BY <1>4
<1>6. SUFFICES ASSUME NEW j \in pool
      PROVE  \/ rank[first] > rank[j] \/ (rank[first] = rank[j] /\ conf[first] > conf[j])
             \/ ~(rank[j] > rank[first] \/ (rank[j] = rank[first] /\ conf[j] > conf[first])) /\ first <= j
  BY <1>5
<1>7. rank[j] \in Int /\ conf[j] \in Int /\ x \in Int /\ c \in Int
  BY <1>5
<1>8. rank[j] <= x
  BY <1>1
<1>9. CASE rank[j] = x
  <2>1. conf[j] <= c
    BY <1>3, <1>9
  <2>2. conf[j] = c => first <= j
    BY <1>4, <1>9
  <2> QED BY <1>5, <1>7, <1>9, <2>1, <2>2
<1>10. CASE rank[j] # x
  BY <1>5, <1>7, <1>8, <1>10
<1> QED BY <1>9, <1>10

LEMMA FirstIsDearest ==
    ASSUME NEW members, NEW pool \in SUBSET Nat, pool # {}, \A i \in pool : IsResult(members[i])
    PROVE  LET i == First(members, pool, Dearer)
           IN  /\ i \in pool
               /\ \A j \in pool : CategoryRank(members[j].category.code)
                                     <= CategoryRank(members[i].category.code)
<1> DEFINE rank == [i \in pool |-> CategoryRank(members[i].category.code)]
           conf == [i \in pool |-> members[i].conf]
           Leads(i) == \A j \in pool : \/ Dearer(members[i], members[j])
                                       \/ ~Dearer(members[j], members[i]) /\ i <= j
<1>1. rank \in [pool -> Int] /\ \A i \in pool : rank[i] <= 17
  BY RankIsNumber
<1>2. conf \in [pool -> Int] /\ \A i \in pool : conf[i] <= 100
  BY DEF IsResult, Confidence
<1>3. \A i, j \in pool :
        Dearer(members[i], members[j]) <=>
          \/ rank[i] > rank[j] \/ (rank[i] = rank[j] /\ conf[i] > conf[j])
  BY DEF Dearer
<1> HIDE DEF rank, conf
<1>4. \E i \in pool : Leads(i)
  <2>1. PICK i \in pool : \A j \in pool :
              \/ rank[i] > rank[j] \/ (rank[i] = rank[j] /\ conf[i] > conf[j])
              \/ ~(rank[j] > rank[i] \/ (rank[j] = rank[i] /\ conf[j] > conf[i])) /\ i <= j
    BY <1>1, <1>2, FirstOfPairs
  <2>2. Leads(i)
    BY <2>1, <1>3
  <2> QED BY <2>2
<1>5. First(members, pool, Dearer) = CHOOSE i \in pool : Leads(i)
  BY DEF First
<1>6. PICK first \in pool : first = First(members, pool, Dearer) /\ Leads(first)
  <2> HIDE DEF Leads
  <2> QED BY <1>4, <1>5
<1>7. ASSUME NEW j \in pool PROVE rank[j] <= rank[first]
  <2>1. Dearer(members[first], members[j]) \/ ~Dearer(members[j], members[first])
    BY <1>6
  <2>2. rank[j] \in Int /\ rank[first] \in Int
    BY <1>1
  <2> QED BY <2>1, <2>2, <1>3
<1> QED BY <1>6, <1>7 DEF rank

\* What a new letter leaves of a draft.
LEMMA WithGear ==
    ASSUME NEW r, IsDraft(r), NEW new, IsLetter(new), NEW s, s = [r EXCEPT !.gear = new]
    PROVE  /\ IsDraft(s) /\ s.name = r.name /\ s.known = r.known /\ s.gear = new
           /\ s.category = r.category /\ s.type = r.type /\ s.fuel = r.fuel
<1>1. r = Fields(r.name, r.category, r.type, r.gear, r.fuel, r.ambiguous, r.known, r.conf, r.review)
  BY DEF IsDraft
<1>2. s = Fields(r.name, r.category, r.type, new, r.fuel, r.ambiguous, r.known, r.conf, r.review)
  BY <1>1 DEF Fields
<1>3. /\ s.name = r.name /\ s.category = r.category /\ s.type = r.type
      /\ s.gear = new /\ s.fuel = r.fuel
      /\ s.ambiguous = r.ambiguous /\ s.known = r.known /\ s.conf = r.conf /\ s.review = r.review
  BY <1>2, ReadFields
<1>4. s = Fields(s.name, s.category, s.type, s.gear, s.fuel, s.ambiguous, s.known, s.conf, s.review)
  BY <1>2, <1>3
<1> QED BY <1>3, <1>4 DEF IsDraft

LEMMA WithFuel ==
    ASSUME NEW r, IsDraft(r), NEW new, IsLetter(new), NEW s, s = [r EXCEPT !.fuel = new]
    PROVE  /\ IsDraft(s) /\ s.name = r.name /\ s.known = r.known /\ s.fuel = new
           /\ s.category = r.category /\ s.type = r.type /\ s.gear = r.gear
<1>1. r = Fields(r.name, r.category, r.type, r.gear, r.fuel, r.ambiguous, r.known, r.conf, r.review)
  BY DEF IsDraft
<1>2. s = Fields(r.name, r.category, r.type, r.gear, new, r.ambiguous, r.known, r.conf, r.review)
  BY <1>1 DEF Fields
<1>3. /\ s.name = r.name /\ s.category = r.category /\ s.type = r.type
      /\ s.gear = r.gear /\ s.fuel = new
      /\ s.ambiguous = r.ambiguous /\ s.known = r.known /\ s.conf = r.conf /\ s.review = r.review
  BY <1>2, ReadFields
<1>4. s = Fields(s.name, s.category, s.type, s.gear, s.fuel, s.ambiguous, s.known, s.conf, s.review)
  BY <1>2, <1>3
<1> QED BY <1>3, <1>4 DEF IsDraft

LEMMA WithCategory ==
    ASSUME NEW r, IsDraft(r), NEW new, IsLetter(new), NEW s, s = [r EXCEPT !.category = new]
    PROVE  /\ IsDraft(s) /\ s.name = r.name /\ s.known = r.known /\ s.category = new
           /\ s.type = r.type /\ s.gear = r.gear /\ s.fuel = r.fuel
<1>1. r = Fields(r.name, r.category, r.type, r.gear, r.fuel, r.ambiguous, r.known, r.conf, r.review)
  BY DEF IsDraft
<1>2. s = Fields(r.name, new, r.type, r.gear, r.fuel, r.ambiguous, r.known, r.conf, r.review)
  BY <1>1 DEF Fields
<1>3. /\ s.name = r.name /\ s.category = new /\ s.type = r.type
      /\ s.gear = r.gear /\ s.fuel = r.fuel
      /\ s.ambiguous = r.ambiguous /\ s.known = r.known /\ s.conf = r.conf /\ s.review = r.review
  BY <1>2, ReadFields
<1>4. s = Fields(s.name, s.category, s.type, s.gear, s.fuel, s.ambiguous, s.known, s.conf, s.review)
  BY <1>2, <1>3
<1> QED BY <1>3, <1>4 DEF IsDraft

LEMMA WithType ==
    ASSUME NEW r, IsDraft(r), NEW new, IsLetter(new), NEW s, s = [r EXCEPT !.type = new]
    PROVE  /\ IsDraft(s) /\ s.name = r.name /\ s.known = r.known /\ s.type = new
           /\ s.category = r.category /\ s.gear = r.gear /\ s.fuel = r.fuel
<1>1. r = Fields(r.name, r.category, r.type, r.gear, r.fuel, r.ambiguous, r.known, r.conf, r.review)
  BY DEF IsDraft
<1>2. s = Fields(r.name, r.category, new, r.gear, r.fuel, r.ambiguous, r.known, r.conf, r.review)
  BY <1>1 DEF Fields
<1>3. /\ s.name = r.name /\ s.category = r.category /\ s.type = new
      /\ s.gear = r.gear /\ s.fuel = r.fuel
      /\ s.ambiguous = r.ambiguous /\ s.known = r.known /\ s.conf = r.conf /\ s.review = r.review
  BY <1>2, ReadFields
<1>4. s = Fields(s.name, s.category, s.type, s.gear, s.fuel, s.ambiguous, s.known, s.conf, s.review)
  BY <1>2, <1>3
<1> QED BY <1>3, <1>4 DEF IsDraft

\* What is kept of a result by whatever repairs it.
Repaired(new, r) == /\ IsResult(new) /\ Believable(new)
                    /\ new.name = r.name /\ new.known = r.known
                    /\ r.category.code # Unknown => new.category = r.category

\* The cap of a mixed bundle keeps the letters.
LEMMA CappingKeeps ==
    ASSUME NEW r, IsResult(r)
    PROVE  LET s == [r EXCEPT !.conf = AtMost(@, 65), !.review = TRUE]
           IN  Repaired(s, r) /\ s.category = r.category /\ s.fuel = r.fuel /\ s.review
<1> DEFINE t == [r EXCEPT !.conf = AtMost(r.conf, 65)]
           s == [t EXCEPT !.review = TRUE]
<1>1. AtMost(r.conf, 65) \in Confidence
  BY DEF AtMost, IsResult, Confidence
<1>2. /\ IsDraft(t)
      /\ t = Fields(r.name, r.category, r.type, r.gear, r.fuel, r.ambiguous, r.known,
                    AtMost(r.conf, 65), r.review)
  BY WithConf DEF IsResult
<1>3. /\ t.name = r.name /\ t.category = r.category /\ t.known = r.known /\ t.fuel = r.fuel
      /\ t.conf = AtMost(r.conf, 65)
  BY <1>2, ReadFields
<1>4. [r EXCEPT !.conf = AtMost(@, 65), !.review = TRUE] = s
  OBVIOUS
<1> HIDE DEF t
<1>5. /\ IsDraft(s)
      /\ s = Fields(t.name, t.category, t.type, t.gear, t.fuel, t.ambiguous, t.known, t.conf, TRUE)
  <2>1. IsDraft(t)
    BY <1>2
  <2> QED BY <2>1, WithReview
<1> HIDE DEF s
<1>6. /\ s.name = t.name /\ s.category = t.category /\ s.known = t.known /\ s.fuel = t.fuel
      /\ s.conf = t.conf /\ s.review = TRUE
  BY <1>5 DEF Fields
<1>7. IsResult(s) /\ Believable(s)
  BY <1>1, <1>3, <1>5, <1>6 DEF IsResult, Believable
<1> QED BY <1>3, <1>4, <1>6, <1>7 DEF Repaired

\* A declared code fills open letters and never touches what is known.
LEMMA DeclaredKeeps ==
    ASSUME NEW r, IsResult(r), Believable(r), NEW declared
    PROVE  Repaired(ApplyDeclaredCode(r, declared), r)
<1>1. CASE declared = Unknown
  BY <1>1 DEF ApplyDeclaredCode, Repaired
<1>2. CASE declared # Unknown
  <2> DEFINE filled(letter, i, conf) ==
               IF letter.code = Unknown THEN Letter(declared[i], conf, "source_override") ELSE letter
             gear == filled(r.gear, 3, 90)
             fuel == IF r.fuel.conf < Sure THEN Letter(declared[4], 85, "source_override") ELSE r.fuel
             category == filled(r.category, 1, 75)
             type == filled(r.type, 2, 75)
  <2>1. IsLetter(gear) /\ IsLetter(fuel) /\ IsLetter(category) /\ IsLetter(type)
    <3>1. 90 \in Confidence /\ 85 \in Confidence /\ 75 \in Confidence
      BY DEF Confidence
    <3> QED BY <3>1, LetterIsLetter DEF IsResult, IsDraft
  <2>2. r.category.code # Unknown => category = r.category
    OBVIOUS
  <2> DEFINE a == [r EXCEPT !.gear = gear]
             b == [a EXCEPT !.fuel = fuel]
             c == [b EXCEPT !.category = category]
             d == [c EXCEPT !.type = type]
  <2>3. ApplyDeclaredCode(r, declared) =
          Refreshed([r EXCEPT !.gear = gear, !.fuel = fuel, !.category = category, !.type = type])
    <3>1. a.fuel = r.fuel
      <4>1. IsDraft(r) /\ IsLetter(gear)
        BY <2>1 DEF IsResult
      <4> HIDE DEF gear
      <4> QED BY <4>1, WithGear
    <3> QED BY <1>2, <3>1 DEF ApplyDeclaredCode
  <2>4. [r EXCEPT !.gear = gear, !.fuel = fuel, !.category = category, !.type = type] = d
    OBVIOUS
  <2> HIDE DEF gear, fuel, category, type
  <2>5. IsDraft(a) /\ a.name = r.name /\ a.known = r.known
    <3>1. IsDraft(r) /\ IsLetter(gear)
      BY <2>1 DEF IsResult
    <3> QED BY <3>1, WithGear
  <2> HIDE DEF a
  <2>6. IsDraft(b) /\ b.name = a.name /\ b.known = a.known
    BY <2>1, <2>5, WithFuel
  <2> HIDE DEF b
  <2>7. IsDraft(c) /\ c.name = b.name /\ c.known = b.known /\ c.category = category
    BY <2>1, <2>6, WithCategory
  <2> HIDE DEF c
  <2>8. IsDraft(d) /\ d.name = c.name /\ d.known = c.known /\ d.category = c.category
    BY <2>1, <2>7, WithType
  <2> HIDE DEF d
  <2>9. /\ IsResult(Refreshed(d)) /\ Believable(Refreshed(d))
        /\ Refreshed(d).name = d.name /\ Refreshed(d).known = d.known
        /\ Refreshed(d).category = d.category
    BY <2>8, RefreshedIsResult
  <2> QED BY <2>2, <2>3, <2>4, <2>5, <2>6, <2>7, <2>8, <2>9 DEF Repaired
<1> QED BY <1>1, <1>2

\* The language model fills what is open of an unknown model; the model stays
\* unknown, so its result stays to be reviewed.
LEMMA ResolvingKeeps ==
    ASSUME NEW r, IsResult(r), Believable(r), NEW profile \in Profiles \cup {Unknown}
    PROVE  /\ Repaired(ResolveUnknowns(r, profile), r)
           /\ r.known => ResolveUnknowns(r, profile) = r
<1>1. CASE ~Resolvable(r) \/ profile = Unknown
  BY <1>1 DEF ResolveUnknowns, Repaired
<1>2. CASE Resolvable(r) /\ profile # Unknown
  <2> DEFINE conf == AtMost(profile.conf, 84)
             fill(letter, code) ==
               IF letter.code = Unknown /\ code # Unknown THEN Letter(code, conf, "heuristic")
               ELSE letter
             category == fill(r.category, profile.category)
             type == fill(r.type, profile.type)
             fuel == CASE r.fuel.source = "fallback" /\ profile.mode = "bev_only" ->
                            Letter("E", conf, "heuristic")
                       [] r.fuel.source = "fallback" /\ profile.mode = "hybrid_only" ->
                            Letter("H", conf, "heuristic")
                       [] OTHER -> r.fuel
  <2>1. conf \in Confidence
    BY <1>2, AnswersAssumption DEF AtMost, Confidence
  <2> HIDE DEF conf
  <2>2. IsLetter(category) /\ IsLetter(type) /\ IsLetter(fuel)
    BY <2>1, LetterIsLetter DEF IsResult, IsDraft
  <2>3. r.category.code # Unknown => category = r.category
    OBVIOUS
  <2> DEFINE a == [r EXCEPT !.category = category]
             b == [a EXCEPT !.type = type]
             c == [b EXCEPT !.fuel = fuel]
  <2>4. ResolveUnknowns(r, profile) =
          Refreshed([r EXCEPT !.category = category, !.type = type, !.fuel = fuel])
    <3>1. a.type = r.type /\ a.fuel = r.fuel /\ b.fuel = r.fuel
      <4> HIDE DEF category, type, fuel
      <4>1. IsDraft(a) /\ a.type = r.type /\ a.fuel = r.fuel
        <5>1. IsDraft(r) /\ IsLetter(category)
          BY <2>2 DEF IsResult
        <5> QED BY <5>1, WithCategory
      <4> HIDE DEF a
      <4>2. b.fuel = a.fuel
        BY <2>2, <4>1, WithType
      <4> QED BY <4>1, <4>2
    <3> QED BY <1>2, <3>1 DEF ResolveUnknowns, conf
  <2>5. [r EXCEPT !.category = category, !.type = type, !.fuel = fuel] = c
    OBVIOUS
  <2> HIDE DEF category, type, fuel
  <2>6. IsDraft(a) /\ a.name = r.name /\ a.known = r.known /\ a.category = category
    <3>1. IsDraft(r) /\ IsLetter(category)
      BY <2>2 DEF IsResult
    <3> QED BY <3>1, WithCategory
  <2> HIDE DEF a
  <2>7. IsDraft(b) /\ b.name = a.name /\ b.known = a.known /\ b.category = a.category
    BY <2>2, <2>6, WithType
  <2> HIDE DEF b
  <2>8. IsDraft(c) /\ c.name = b.name /\ c.known = b.known /\ c.category = b.category
    BY <2>2, <2>7, WithFuel
  <2> HIDE DEF c
  <2>9. /\ IsResult(Refreshed(c)) /\ Believable(Refreshed(c))
        /\ Refreshed(c).name = c.name /\ Refreshed(c).known = c.known
        /\ Refreshed(c).category = c.category
    BY <2>8, RefreshedIsResult
  <2>10. ~r.known
    BY <1>2 DEF Resolvable
  <2> QED BY <2>3, <2>4, <2>5, <2>6, <2>7, <2>8, <2>9, <2>10 DEF Repaired
<1> QED BY <1>1, <1>2

-----------------------------------------------------------------------------
(* What leaves the service.                                                  *)

Backed(dto) == ~dto.pending => dto.code \in Codes /\ dto.conf >= Sure
IsDto(dto) ==
    /\ dto = [code |-> dto.code, full |-> dto.full, conf |-> dto.conf, pending |-> dto.pending]
    /\ dto.code = <<dto.code[1], dto.code[2], dto.code[3], dto.code[4]>>

\* The collapse of a fuel repairs a result as well.
LEMMA CollapsingKeeps ==
    ASSUME NEW r, IsResult(r)
    PROVE  /\ IsResult(Collapsed(r)) /\ Believable(Collapsed(r))
           /\ Collapsed(r).category = r.category
           /\ ~r.known => Collapsed(r).review
<1> DEFINE fuel == [r.fuel EXCEPT !.code = "R"]
           a == [r EXCEPT !.fuel = fuel]
           trunk == Refreshed(a)
<1>1. IsLetter(fuel)
  <2>1. r.fuel = Letter(r.fuel.code, r.fuel.conf, r.fuel.source) /\ r.fuel.conf \in Confidence
    BY DEF IsResult, IsDraft, IsLetter
  <2>2. fuel = Letter("R", r.fuel.conf, r.fuel.source)
    BY <2>1 DEF Letter
  <2> QED BY <2>1, <2>2, LetterIsLetter
<1>2. [r EXCEPT !.fuel.code = "R"] = a
  OBVIOUS
<1> HIDE DEF fuel
<1>3. IsDraft(a) /\ a.category = r.category /\ a.known = r.known
  <2>1. IsDraft(r)
    BY DEF IsResult
  <2> QED BY <1>1, <2>1, WithFuel
<1> HIDE DEF a
<1>4. /\ IsResult(trunk) /\ Believable(trunk) /\ trunk.category = r.category
      /\ ~r.known => trunk.review
  BY <1>3, RefreshedIsResult
<1> DEFINE flagged == [trunk EXCEPT !.review = TRUE]
<1>5. Collapsed(r) = IF r.fuel.code = "V" THEN trunk ELSE flagged
  BY <1>2 DEF Collapsed
<1> HIDE DEF trunk
<1>6. /\ IsDraft(flagged)
      /\ flagged = Fields(trunk.name, trunk.category, trunk.type, trunk.gear, trunk.fuel,
                          trunk.ambiguous, trunk.known, trunk.conf, TRUE)
  BY <1>4, WithReview DEF IsResult
<1> HIDE DEF flagged
<1>7. /\ flagged.category = trunk.category /\ flagged.conf = trunk.conf /\ flagged.review = TRUE
  BY <1>6 DEF Fields
<1>8. IsResult(flagged) /\ Believable(flagged)
  BY <1>4, <1>6, <1>7 DEF IsResult, Believable
<1> QED BY <1>4, <1>5, <1>7, <1>8

LEMMA DtoIsBacked ==
    ASSUME NEW r, IsResult(r), Believable(r), NEW mixed
    PROVE  LET dto == ToDto(r, mixed)
           IN  /\ IsDto(dto) /\ Backed(dto)
               /\ ~r.known => dto.pending
               /\ dto.code = NoCode \/ dto.code[1] = r.category.code
<1> DEFINE capped == Capped(r, mixed)
           full == CodeOf(capped)
           final == IF Collapses(full) THEN Collapsed(capped) ELSE capped
           code == CodeOf(final)
           dto == ToDto(r, mixed)
<1>1. /\ IsResult(capped) /\ Believable(capped) /\ capped.category = r.category
      /\ capped.known = r.known
  BY CappingKeeps DEF Capped, Repaired
<1> HIDE DEF capped
<1>2. /\ IsResult(final) /\ Believable(final) /\ final.category = r.category
      /\ ~r.known => final.review
  BY <1>1, CollapsingKeeps DEF Believable, IsResult
<1>3. dto = IF Complete(code) /\ code \in Codes
            THEN [code |-> code, full |-> full, conf |-> final.conf, pending |-> final.review]
            ELSE [code |-> NoCode, full |-> IF Complete(full) THEN full ELSE NoCode,
                  conf |-> final.conf, pending |-> TRUE]
  BY DEF ToDto, capped
<1> HIDE DEF final
<1>4. code[1] = r.category.code /\ code = <<code[1], code[2], code[3], code[4]>>
  BY <1>2 DEF CodeOf
<1> HIDE DEF code, full, dto
<1>5. CASE Complete(code) /\ code \in Codes
  <2>1. dto = [code |-> code, full |-> full, conf |-> final.conf, pending |-> final.review]
    BY <1>3, <1>5
  <2> QED BY <1>2, <1>4, <1>5, <2>1 DEF IsDto, Backed, Believable, dto
<1>6. CASE ~(Complete(code) /\ code \in Codes)
  <2>1. PICK whole : dto = [code |-> NoCode, full |-> whole, conf |-> final.conf, pending |-> TRUE]
    BY <1>3, <1>6
  <2>2. NoCode = <<NoCode[1], NoCode[2], NoCode[3], NoCode[4]>>
    BY DEF NoCode
  <2> HIDE DEF dto
  <2>3. dto.code = NoCode /\ dto.full = whole /\ dto.conf = final.conf /\ dto.pending = TRUE
    BY <2>1
  <2> QED BY <2>1, <2>2, <2>3 DEF IsDto, Backed, dto
<1> QED BY <1>5, <1>6

LEMMA FuelsAreNamed == Unknown \notin {"D", "H", "I"}
<1>1. Scale[6] = "D" /\ Scale[4] = "H" /\ Scale[7] = "I" /\ {4, 6, 7} \subseteq DOMAIN Scale
  BY DEF Scale
<1> QED BY <1>1, ScaleAssumption

\* The route's trunk keeps the category, the confidence and the flag.
LEMMA RecommendedIsBacked ==
    ASSUME NEW dto, IsDto(dto), Backed(dto), NEW offered
    PROVE  LET new == Recommended(dto, offered)
           IN  /\ Backed(new) /\ new.pending = dto.pending
               /\ new.code \in {dto.code, Trunk(dto.code)}
               /\ (new.code = dto.code \/ (dto.code # NoCode /\ new.code[1] = dto.code[1]))
<1> DEFINE trunk == Trunk(dto.code)
           swapped == [dto EXCEPT !.code = trunk]
           new == Recommended(dto, offered)
<1>1. CASE new = dto
  BY <1>1
<1>2. CASE new # dto
  <2>1. new = swapped /\ trunk \in Codes /\ dto.code[4] \in {"D", "H", "I"}
    BY <1>2 DEF Recommended
  <2>2. trunk[1] = dto.code[1]
    <3>1. dto.code = <<dto.code[1], dto.code[2], dto.code[3], dto.code[4]>>
      BY DEF IsDto
    <3> QED BY <3>1 DEF Trunk
  <2>3. dto.code # NoCode
    BY <2>1, FuelsAreNamed DEF NoCode
  <2> HIDE DEF trunk
  <2>4. swapped.code = trunk /\ swapped.conf = dto.conf /\ swapped.pending = dto.pending
    BY DEF IsDto
  <2> HIDE DEF swapped, new
  <2>5. Backed(new)
    BY <2>1, <2>4 DEF Backed
  <2> QED BY <2>1, <2>2, <2>3, <2>4, <2>5 DEF trunk, new
<1> QED BY <1>1, <1>2

-----------------------------------------------------------------------------
(* The bundle of a group, before anyone is asked.                            *)

LEMMA MembersOfGroup ==
    ASSUME NEW v \in Versions, NEW g \in Groups
    PROVE  /\ DOMAIN Members(v, g) = DOMAIN g.models
           /\ DOMAIN g.models \in SUBSET Nat /\ DOMAIN g.models # {}
           /\ \A i \in DOMAIN g.models : /\ IsResult(Members(v, g)[i])
                                         /\ Believable(Members(v, g)[i])
                                         /\ Members(v, g)[i].name = g.models[i]
<1>1. g.models \in Seq(Seq(STRING)) /\ g.models # <<>>
  BY GroupsAssumption
<1>2. DOMAIN g.models = 1..Len(g.models) /\ Len(g.models) \in Nat \ {0}
  BY <1>1
<1>3. \A i \in DOMAIN g.models : g.models[i] \in Seq(STRING) /\ IsModel(g.models[i])
  BY <1>1, <1>2 DEF IsModel
<1>4. \A i \in DOMAIN g.models :
        Members(v, g)[i] = ClassifyVehicle(Data[v], g.models[i], g.gear, g.seats, g.source)
  BY DEF Members
<1>5. \A i \in DOMAIN g.models : /\ IsResult(Members(v, g)[i])
                                /\ Believable(Members(v, g)[i])
                                /\ Members(v, g)[i].name = g.models[i]
  <2> SUFFICES ASSUME NEW i \in DOMAIN g.models
               PROVE  /\ IsResult(Members(v, g)[i]) /\ Believable(Members(v, g)[i])
                      /\ Members(v, g)[i].name = g.models[i]
    OBVIOUS
  <2> DEFINE name == g.models[i]
             r == ClassifyVehicle(Data[v], name, g.gear, g.seats, g.source)
  <2>1. name \in Seq(STRING) /\ IsModel(name)
    BY <1>3
  <2>2. Members(v, g)[i] = r
    BY <1>4
  <2> HIDE DEF name
  <2>3. IsResult(r) /\ Believable(r) /\ r.name = name
    BY <2>1, MembersAreResults
  <2> HIDE DEF r
  <2> QED BY <2>2, <2>3 DEF name
<1>6. DOMAIN Members(v, g) = DOMAIN g.models
  BY DEF Members
<1> QED BY <1>2, <1>5, <1>6

IsBundle(b) == b = [chosen |-> b.chosen, mixed |-> b.mixed, unknown |-> b.unknown]

\* Member k is the one that was chosen, the dearest of the known ones if any is.
ChosenFrom(b, members, k) ==
    /\ k \in DOMAIN members
    /\ Repaired(b.chosen, members[k])
    /\ \A i \in DOMAIN members : ~members[i].known => members[i] = members[k] \/ members[i] \in b.unknown
    /\ \A i \in DOMAIN members : members[i].known =>
          /\ members[k].known
          /\ CategoryRank(members[i].category.code) <= CategoryRank(members[k].category.code)

LEMMA BundleIsSound ==
    ASSUME NEW members, DOMAIN members \in SUBSET Nat, DOMAIN members # {},
           \A i \in DOMAIN members : IsResult(members[i]) /\ Believable(members[i])
    PROVE  /\ IsBundle(CombineBundle(members))
           /\ \E k \in DOMAIN members : ChosenFrom(CombineBundle(members), members, k)
<1> DEFINE known == {i \in DOMAIN members : members[i].known}
           pool == IF known = {} THEN DOMAIN members ELSE known
           k == First(members, pool, Dearer)
           best == members[k]
           mixed == \E i, j \in pool : CodeOf(members[i]) # CodeOf(members[j])
           chosen == IF mixed THEN [best EXCEPT !.conf = AtMost(@, 65), !.review = TRUE] ELSE best
           unknown == {members[i] : i \in DOMAIN members \ known} \ {best}
           b == [chosen |-> chosen, mixed |-> mixed, unknown |-> unknown]
<1>1. CombineBundle(members) = b
  BY DEF CombineBundle, Bundle
<1>2. /\ k \in pool
      /\ \A j \in pool : CategoryRank(members[j].category.code)
                            <= CategoryRank(members[k].category.code)
  <2>1. pool \in SUBSET Nat /\ pool # {} /\ \A i \in pool : IsResult(members[i])
    OBVIOUS
  <2> HIDE DEF pool
  <2> QED BY <2>1, FirstIsDearest
<1>3. k \in DOMAIN members /\ IsResult(best) /\ Believable(best)
  BY <1>2
<1> HIDE DEF k
<1>4. Repaired(chosen, best)
  BY <1>3, CappingKeeps DEF Repaired
<1>5. \A i \in DOMAIN members : ~members[i].known => members[i] = best \/ members[i] \in unknown
  OBVIOUS
<1>6. \A i \in DOMAIN members : members[i].known =>
          /\ members[k].known
          /\ CategoryRank(members[i].category.code) <= CategoryRank(members[k].category.code)
  BY <1>2
<1> HIDE DEF chosen, mixed, unknown, pool, known
<1>7. b.chosen = chosen /\ b.unknown = unknown /\ IsBundle(b)
  BY DEF IsBundle
<1>8. ChosenFrom(b, members, k)
  BY <1>3, <1>4, <1>5, <1>6, <1>7 DEF ChosenFrom
<1> QED BY <1>1, <1>3, <1>7, <1>8

\* A declared code leaves the choice as it was.
LEMMA RepairedTwice ==
    ASSUME NEW r, NEW s, NEW t, Repaired(s, r), Repaired(t, s)
    PROVE  Repaired(t, r)
  BY DEF Repaired

LEMMA CombinedIsSound ==
    ASSUME NEW v \in Versions, NEW g \in Groups
    PROVE  /\ IsBundle(Combined(v, g))
           /\ \E k \in DOMAIN g.models : ChosenFrom(Combined(v, g), Members(v, g), k)
<1> DEFINE members == Members(v, g)
           b == CombineBundle(members)
           declared == ApplyDeclaredCode(b.chosen, g.declared)
           c == [b EXCEPT !.chosen = declared]
<1>1. /\ DOMAIN members = DOMAIN g.models
      /\ DOMAIN members \in SUBSET Nat /\ DOMAIN members # {}
      /\ \A i \in DOMAIN members : IsResult(members[i]) /\ Believable(members[i])
  BY MembersOfGroup
<1> HIDE DEF members
<1>2. IsBundle(b) /\ \E k \in DOMAIN members : ChosenFrom(b, members, k)
  BY <1>1, BundleIsSound
<1>3. PICK k \in DOMAIN members : ChosenFrom(b, members, k)
  BY <1>2
<1>4. Combined(v, g) = c
  BY DEF Combined, members
<1> HIDE DEF b
<1>5. Repaired(declared, b.chosen)
  BY <1>3, DeclaredKeeps DEF ChosenFrom, Repaired
<1> HIDE DEF declared
<1>6. IsBundle(c) /\ c.chosen = declared /\ c.unknown = b.unknown
  BY <1>2 DEF IsBundle
<1> HIDE DEF c
<1>7. Repaired(c.chosen, members[k])
  BY <1>3, <1>5, <1>6, RepairedTwice DEF ChosenFrom
<1>8. ChosenFrom(c, members, k)
  BY <1>3, <1>6, <1>7 DEF ChosenFrom
<1> QED BY <1>1, <1>4, <1>6, <1>8 DEF members

LEMMA GroupsInVersions ==
    ASSUME NEW v \in Versions, NEW g \in Groups
    PROVE  BundleOf[v][g] = Combined(v, g) /\ MembersOf[v][g] = Members(v, g)
  BY DEF BundleOf, MembersOf

-----------------------------------------------------------------------------
(* What a job holds until it answers, and what an answer is worth.           *)

Trusted(v, g, dto) ==
    ~dto.pending =>
        /\ Combined(v, g).chosen.known
        /\ dto.code = ToDto(Combined(v, g).chosen, Combined(v, g).mixed).code
Recommends(v, g, dto) ==
    ~dto.pending =>
        /\ Combined(v, g).chosen.known
        /\ dto.code \in {ToDto(Combined(v, g).chosen, Combined(v, g).mixed).code,
                         Trunk(ToDto(Combined(v, g).chosen, Combined(v, g).mixed).code)}
Dear(v, g, dto) ==
    dto.code # NoCode =>
        \A i \in DOMAIN g.models : Members(v, g)[i].known =>
            CategoryRank(Members(v, g)[i].category.code) <= CategoryRank(dto.code[1])
Queued(v, g, rows) ==
    \A i \in DOMAIN g.models : ~Members(v, g)[i].known => Members(v, g)[i].name \in rows

Held(j) ==
    /\ j = [v |-> j.v, group |-> j.group, chosen |-> j.chosen, mixed |-> j.mixed,
            unknown |-> j.unknown]
    /\ j.v \in Versions /\ j.group \in Groups
    /\ Repaired(j.chosen, Combined(j.v, j.group).chosen)
    /\ Combined(j.v, j.group).chosen.known => j.chosen = Combined(j.v, j.group).chosen
    /\ j.mixed = Combined(j.v, j.group).mixed
    /\ j.unknown = Combined(j.v, j.group).unknown

Worth(w, j) ==
    /\ j.v \in Versions /\ j.group \in Groups
    /\ Backed(j.dto)
    /\ j.by # "gemini" => /\ Recommends(j.v, j.group, j.dto)
                          /\ w \notin Apis => Trusted(j.v, j.group, j.dto)
    /\ j.by = "engine" => Dear(j.v, j.group, j.dto)

LEMMA TrunkIsWorth ==
    ASSUME NEW v, NEW g, NEW dto, IsDto(dto), Backed(dto), Trusted(v, g, dto), NEW offered
    PROVE  LET new == Recommended(dto, offered)
           IN  /\ Backed(new) /\ Recommends(v, g, new)
               /\ Dear(v, g, dto) => Dear(v, g, new)
<1> DEFINE new == Recommended(dto, offered)
           code == ToDto(Combined(v, g).chosen, Combined(v, g).mixed).code
<1>1. /\ Backed(new) /\ new.pending = dto.pending
      /\ new.code \in {dto.code, Trunk(dto.code)}
      /\ (new.code = dto.code \/ (dto.code # NoCode /\ new.code[1] = dto.code[1]))
  BY RecommendedIsBacked
<1> HIDE DEF new, code
<1>2. ~new.pending => Combined(v, g).chosen.known /\ new.code \in {code, Trunk(code)}
  BY <1>1 DEF Trusted, code
<1>3. Recommends(v, g, new)
  BY <1>2 DEF Recommends, code
<1>4. Dear(v, g, dto) => Dear(v, g, new)
  BY <1>1 DEF Dear
<1> QED BY <1>1, <1>3, <1>4 DEF new

SightedIn(j) == {r \in j.unknown \cup {j.chosen} : ~r.known}
NamesIn(j) == {r.name : r \in SightedIn(j)}

LEMMA StartIsHeld ==
    ASSUME NEW v \in Versions, NEW g \in Groups
    PROVE  Held([v |-> v, group |-> g, chosen |-> Combined(v, g).chosen,
                 mixed |-> Combined(v, g).mixed, unknown |-> Combined(v, g).unknown])
<1> DEFINE c == Combined(v, g)
           j == [v |-> v, group |-> g, chosen |-> c.chosen, mixed |-> c.mixed, unknown |-> c.unknown]
<1>1. PICK k \in DOMAIN g.models : ChosenFrom(c, Members(v, g), k)
  BY CombinedIsSound
<1>2. Repaired(c.chosen, c.chosen)
  BY <1>1 DEF ChosenFrom, Repaired
<1> HIDE DEF c
<1>3. /\ j.v = v /\ j.group = g /\ j.chosen = c.chosen /\ j.mixed = c.mixed
      /\ j.unknown = c.unknown
  OBVIOUS
<1>4. j = [v |-> j.v, group |-> j.group, chosen |-> j.chosen, mixed |-> j.mixed,
           unknown |-> j.unknown]
  OBVIOUS
<1> HIDE DEF j
<1>5. Held(j)
  BY <1>2, <1>3, <1>4 DEF Held, c
<1> QED BY <1>5 DEF j, c

LEMMA ResolvedIsHeld ==
    ASSUME NEW j, Held(j), NEW profile \in Profiles \cup {Unknown}
    PROVE  /\ Held([j EXCEPT !.chosen = ResolveUnknowns(j.chosen, profile)])
           /\ [j EXCEPT !.chosen = ResolveUnknowns(j.chosen, profile)].group = j.group
<1> DEFINE c == Combined(j.v, j.group)
           new == ResolveUnknowns(j.chosen, profile)
           i == [j EXCEPT !.chosen = new]
<1>1. /\ Repaired(j.chosen, c.chosen)
      /\ c.chosen.known => j.chosen = c.chosen
      /\ j.mixed = c.mixed /\ j.unknown = c.unknown /\ j.v \in Versions /\ j.group \in Groups
  BY DEF Held
<1> HIDE DEF c
<1>2. Repaired(new, j.chosen) /\ (j.chosen.known => new = j.chosen)
  BY <1>1, ResolvingKeeps DEF Repaired
<1> HIDE DEF new
<1>3. Repaired(new, c.chosen)
  BY <1>1, <1>2, RepairedTwice
<1>4. c.chosen.known => new = c.chosen
  BY <1>1, <1>2
<1>5. j = [v |-> j.v, group |-> j.group, chosen |-> j.chosen, mixed |-> j.mixed,
           unknown |-> j.unknown]
  BY DEF Held
<1>6. /\ i.v = j.v /\ i.group = j.group /\ i.chosen = new /\ i.mixed = j.mixed
      /\ i.unknown = j.unknown
      /\ i = [v |-> i.v, group |-> i.group, chosen |-> i.chosen, mixed |-> i.mixed,
              unknown |-> i.unknown]
  BY <1>5
<1> HIDE DEF i
<1>7. Combined(i.v, i.group) = c
  BY <1>6 DEF c
<1>8. Held(i)
  BY <1>1, <1>3, <1>4, <1>6, <1>7 DEF Held
<1> QED BY <1>6, <1>8 DEF i, new

\* An unknown member is among the sighted, as itself or as the chosen one.
LEMMA UnknownIsSighted ==
    ASSUME NEW j, Held(j)
    PROVE  Queued(j.v, j.group, NamesIn(j))
<1> DEFINE members == Members(j.v, j.group)
           c == Combined(j.v, j.group)
<1> SUFFICES ASSUME NEW i \in DOMAIN j.group.models, ~members[i].known
             PROVE  members[i].name \in NamesIn(j)
  BY DEF Queued
<1>1. j.v \in Versions /\ j.group \in Groups /\ j.unknown = c.unknown /\ Repaired(j.chosen, c.chosen)
  BY DEF Held
<1>2. PICK k \in DOMAIN j.group.models : ChosenFrom(c, members, k)
  BY <1>1, CombinedIsSound
<1>3. DOMAIN members = DOMAIN j.group.models
  BY <1>1, MembersOfGroup
<1> HIDE DEF members, c
<1>4. CASE members[i] \in c.unknown
  BY <1>1, <1>4 DEF NamesIn, SightedIn
<1>5. CASE members[i] = members[k]
  <2>1. Repaired(j.chosen, members[k])
    BY <1>1, <1>2, RepairedTwice DEF ChosenFrom
  <2>2. j.chosen.name = members[i].name /\ ~j.chosen.known
    BY <1>5, <2>1 DEF Repaired
  <2> QED BY <2>2 DEF NamesIn, SightedIn
<1> QED BY <1>2, <1>3, <1>4, <1>5 DEF ChosenFrom

LEMMA AnswerIsWorth ==
    ASSUME NEW j, Held(j)
    PROVE  LET dto == ToDto(j.chosen, j.mixed)
           IN  /\ IsDto(dto) /\ Backed(dto)
               /\ Trusted(j.v, j.group, dto) /\ Dear(j.v, j.group, dto)
<1> DEFINE members == Members(j.v, j.group)
           c == Combined(j.v, j.group)
           dto == ToDto(j.chosen, j.mixed)
<1>1. /\ j.v \in Versions /\ j.group \in Groups
      /\ Repaired(j.chosen, c.chosen)
      /\ c.chosen.known => j.chosen = c.chosen
      /\ j.mixed = c.mixed
  BY DEF Held
<1>2. PICK k \in DOMAIN j.group.models : ChosenFrom(c, members, k)
  BY <1>1, CombinedIsSound
<1>3. Repaired(j.chosen, members[k])
  BY <1>1, <1>2, RepairedTwice DEF ChosenFrom
<1>4. /\ IsDto(dto) /\ Backed(dto)
      /\ ~j.chosen.known => dto.pending
      /\ dto.code = NoCode \/ dto.code[1] = j.chosen.category.code
  BY <1>1, DtoIsBacked DEF Repaired
<1>5. DOMAIN members = DOMAIN j.group.models
  BY <1>1, MembersOfGroup
<1>6. Trusted(j.v, j.group, dto)
  <2>1. c.chosen.known => dto.code = ToDto(c.chosen, c.mixed).code
    BY <1>1
  <2>2. j.chosen.known = c.chosen.known
    BY <1>1 DEF Repaired
  <2> QED BY <1>4, <2>1, <2>2 DEF Trusted
<1> HIDE DEF dto, c, members
<1>7. ASSUME dto.code # NoCode, NEW i \in DOMAIN j.group.models, members[i].known
      PROVE  CategoryRank(members[i].category.code) <= CategoryRank(dto.code[1])
  <2>1. CategoryRank(members[i].category.code) <= CategoryRank(members[k].category.code)
    BY <1>2, <1>5, <1>7 DEF ChosenFrom
  <2>2. dto.code[1] = j.chosen.category.code
    BY <1>4, <1>7
  <2>3. CASE members[k].category.code # Unknown
    <3>1. j.chosen.category = members[k].category
      BY <1>3, <2>3 DEF Repaired
    <3> QED BY <2>1, <2>2, <3>1
  <2>4. CASE members[k].category.code = Unknown
    <3>1. CategoryRank(members[k].category.code) = -1
      BY <2>4, OpenRanksLast
    <3>2. CategoryRank(dto.code[1]) \in Int /\ CategoryRank(dto.code[1]) >= -1
      BY RankIsNumber
    <3>3. CategoryRank(members[i].category.code) \in Int
      BY RankIsNumber
    <3> QED BY <2>1, <3>1, <3>2, <3>3
  <2> QED BY <2>3, <2>4
<1>8. Dear(j.v, j.group, dto)
  BY <1>7 DEF Dear, members
<1> QED BY <1>4, <1>6, <1>8 DEF dto

-----------------------------------------------------------------------------
(* The inductive invariant.                                                  *)

Asks(g, n) == g.source = "adhoc" /\ Len(g.models) = 1 /\ g.models[1] = n

\* A row of the cache is an answer the engine gave, or would give, itself.
Servable(n, v, row) == /\ IsDto(row)
                       /\ Backed(row)
                       /\ \A g \in Groups : Asks(g, n) => Trusted(v, g, row)

IsRow(row) == row = [status |-> row.status, sources |-> row.sources, suggestion |-> row.suggestion]

Tables == /\ queue = [n \in DOMAIN queue |-> queue[n]] /\ \A n \in DOMAIN queue : IsRow(queue[n])
          /\ cache = [key \in Names \X Versions |-> cache[key]]
          /\ version \in Versions
          /\ pc = [w \in Workers |-> pc[w]]
          /\ job = [w \in Workers |-> job[w]]

Running(stage) == stage \in {"resolve", "queue", "sighted", "answer"}

WorkerSound(w) ==
    /\ Running(pc[w]) => /\ Held(job[w])
                         /\ w \in Apis => Asks(job[w].group, job[w].group.models[1])
    /\ pc[w] = "answered" => Worth(w, job[w])
    /\ pc[w] = "answer" \/ (pc[w] = "answered" /\ job[w].by = "engine") =>
          Queued(job[w].v, job[w].group, DOMAIN queue \cup lost)

CacheSound ==
    \A n \in Names, v \in Versions :
        cache[<<n, v>>] # Unknown => Servable(n, v, cache[<<n, v>>])

Inv == Tables /\ (\A w \in Workers : WorkerSound(w)) /\ CacheSound

\* Two requests that ask for the same name are the same request.
LEMMA OneRequestPerName ==
    ASSUME NEW g \in Groups, NEW h \in Groups, NEW n, Asks(g, n), Asks(h, n)
    PROVE  g = h
<1>1. g.models \in Seq(Seq(STRING)) /\ h.models \in Seq(Seq(STRING))
  BY GroupsAssumption
<1>2. g.models = h.models
  BY <1>1 DEF Asks
<1> QED BY <1>2, RequestAssumption DEF Asks

LEMMA InitHolds == Init => Inv
<1> SUFFICES ASSUME Init PROVE Inv
  OBVIOUS
<1>1. Tables
  BY VersionsAreNumbers DEF Init, Tables
<1>2. ASSUME NEW w \in Workers PROVE WorkerSound(w)
  BY DEF Init, WorkerSound, Running
<1>3. CacheSound
  BY DEF Init, CacheSound
<1> QED BY <1>1, <1>2, <1>3 DEF Inv

LEMMA QueuedGrows ==
    ASSUME NEW v, NEW g, NEW rows, NEW more, Queued(v, g, rows), rows \subseteq more
    PROVE  Queued(v, g, more)
  BY DEF Queued

\* What a worker has is sound for as long as it does nothing.
LEMMA IdleKeepsSound ==
    ASSUME NEW w, WorkerSound(w), pc'[w] = pc[w], job'[w] = job[w],
           (DOMAIN queue \cup lost) \subseteq (DOMAIN queue' \cup lost')
    PROVE  WorkerSound(w)'
<1>1. Queued(job[w].v, job[w].group, DOMAIN queue \cup lost) =>
        Queued(job[w].v, job[w].group, DOMAIN queue' \cup lost')
  BY QueuedGrows
<1> QED BY <1>1 DEF WorkerSound

\* A worker that starts, answers or moves on without touching the tables.
LEMMA OneWorkerMoves ==
    ASSUME Inv, NEW w \in Workers, WorkerSound(w)', Tables', CacheSound',
           \A u \in Workers \ {w} : pc'[u] = pc[u] /\ job'[u] = job[u],
           (DOMAIN queue \cup lost) \subseteq (DOMAIN queue' \cup lost')
    PROVE  Inv'
<1>1. ASSUME NEW u \in Workers PROVE WorkerSound(u)'
  <2>1. CASE u = w
    BY <2>1
  <2>2. CASE u # w
    BY <2>2, IdleKeepsSound DEF Inv
  <2> QED BY <2>1, <2>2
<1> QED BY <1>1 DEF Inv

LEMMA ClassifyKeepsInv ==
    ASSUME Inv, NEW w \in Workers, NEW g \in Groups, Classify(w, g) PROVE Inv'
<1> DEFINE j == [v |-> version, group |-> g, chosen |-> Combined(version, g).chosen,
                 mixed |-> Combined(version, g).mixed, unknown |-> Combined(version, g).unknown]
<1>1. version \in Versions /\ Tables
  BY DEF Inv, Tables
<1>2. Held(j) /\ j.group = g
  BY <1>1, StartIsHeld
<1>3. job' = [job EXCEPT ![w] = j] /\ pc' = [pc EXCEPT ![w] = "resolve"]
      /\ UNCHANGED <<queue, cache, version, lost>>
  BY <1>1, GroupsInVersions DEF Classify
<1>4. w \in Apis => Asks(g, g.models[1])
  BY DEF Classify, Asks
<1> HIDE DEF j
<1>5. pc'[w] = "resolve" /\ job'[w] = j
  BY <1>1, <1>3 DEF Tables
<1>6. WorkerSound(w)'
  BY <1>2, <1>4, <1>5 DEF WorkerSound
<1>7. Tables' /\ CacheSound'
  BY <1>1, <1>3 DEF Inv, Tables, CacheSound
<1>8. \A u \in Workers \ {w} : pc'[u] = pc[u] /\ job'[u] = job[u]
  BY <1>1, <1>3 DEF Tables
<1> QED BY <1>3, <1>6, <1>7, <1>8, OneWorkerMoves

LEMMA ResolveKeepsInv ==
    ASSUME Inv, NEW w \in Workers, NEW p \in Profiles \cup {Unknown}, Resolve(w, p) PROVE Inv'
<1> DEFINE j == [job[w] EXCEPT !.chosen = ResolveUnknowns(job[w].chosen, p)]
<1>1. Tables /\ WorkerSound(w) /\ pc[w] = "resolve"
  BY DEF Inv, Resolve
<1>2. Held(job[w]) /\ (w \in Apis => Asks(job[w].group, job[w].group.models[1]))
  BY <1>1 DEF WorkerSound, Running
<1>3. Held(j) /\ j.group = job[w].group
  BY <1>2, ResolvedIsHeld
<1>4. job' = [job EXCEPT ![w] = j] /\ pc' = [pc EXCEPT ![w] = "queue"]
      /\ UNCHANGED <<queue, cache, version, lost>>
  BY DEF Resolve
<1> HIDE DEF j
<1>5. pc'[w] = "queue" /\ job'[w] = j
  BY <1>1, <1>4 DEF Tables
<1>6. WorkerSound(w)'
  BY <1>2, <1>3, <1>5 DEF WorkerSound
<1>7. Tables' /\ CacheSound'
  BY <1>1, <1>4 DEF Inv, Tables, CacheSound
<1>8. \A u \in Workers \ {w} : pc'[u] = pc[u] /\ job'[u] = job[u]
  BY <1>1, <1>4 DEF Tables
<1> QED BY <1>4, <1>6, <1>7, <1>8, OneWorkerMoves

LEMMA SightedIsHeld ==
    ASSUME NEW w
    PROVE  Sighted(w) = SightedIn(job[w]) /\ SightedNames(w) = NamesIn(job[w])
  BY DEF Sighted, SightedNames, SightedIn, NamesIn

LEMMA ReadKeepsInv ==
    ASSUME Inv, NEW w \in Workers, ReadQueue(w) PROVE Inv'
<1>1. Tables /\ WorkerSound(w) /\ pc[w] = "queue"
  BY DEF Inv, ReadQueue
<1>2. Held(job[w]) /\ (w \in Apis => Asks(job[w].group, job[w].group.models[1]))
  BY <1>1 DEF WorkerSound, Running
<1>3. UNCHANGED <<queue, cache, version, job, lost>>
  BY DEF ReadQueue
<1>4. pc'[w] = IF Sighted(w) = {} THEN "answer" ELSE "sighted"
  BY <1>1 DEF ReadQueue, Tables
<1>5. ASSUME pc'[w] = "answer" PROVE Queued(job[w].v, job[w].group, DOMAIN queue \cup lost)
  <2>1. NamesIn(job[w]) = {}
    BY <1>4, <1>5, SightedIsHeld DEF NamesIn
  <2>2. Queued(job[w].v, job[w].group, NamesIn(job[w]))
    BY <1>2, UnknownIsSighted
  <2>3. NamesIn(job[w]) \subseteq DOMAIN queue \cup lost
    BY <2>1
  <2> QED BY <2>2, <2>3, QueuedGrows
<1>6. pc'[w] \in {"answer", "sighted"}
  BY <1>4
<1>7. WorkerSound(w)'
  BY <1>2, <1>3, <1>5, <1>6 DEF WorkerSound, Running
<1>8. Tables' /\ CacheSound'
  BY <1>1, <1>3 DEF Inv, Tables, CacheSound, ReadQueue
<1>9. \A u \in Workers \ {w} : pc'[u] = pc[u] /\ job'[u] = job[u]
  BY <1>1, <1>3 DEF Tables, ReadQueue
<1> QED BY <1>3, <1>7, <1>8, <1>9, OneWorkerMoves

LEMMA SightingKeepsInv ==
    ASSUME Inv, NEW w \in Workers, WriteQueue(w) \/ FailQueue(w) PROVE Inv'
<1>1. Tables /\ WorkerSound(w) /\ pc[w] = "sighted"
  BY DEF Inv, WriteQueue, FailQueue
<1>2. Held(job[w]) /\ (w \in Apis => Asks(job[w].group, job[w].group.models[1]))
  BY <1>1 DEF WorkerSound, Running
<1>3. UNCHANGED <<cache, version, job>> /\ pc' = [pc EXCEPT ![w] = "answer"]
  BY DEF WriteQueue, FailQueue
<1>4. /\ NamesIn(job[w]) \subseteq (DOMAIN queue' \cup lost')
      /\ (DOMAIN queue \cup lost) \subseteq (DOMAIN queue' \cup lost')
      /\ queue' = [n \in DOMAIN queue' |-> queue'[n]] /\ \A n \in DOMAIN queue' : IsRow(queue'[n])
  <2>1. CASE WriteQueue(w)
    <3>1. queue' = [n \in DOMAIN queue \cup SightedNames(w) |->
                      IF n \in SightedNames(w) THEN UpsertSighting(w, n) ELSE queue[n]]
      BY <2>1 DEF WriteQueue
    <3>2. DOMAIN queue' = DOMAIN queue \cup SightedNames(w)
      BY <3>1
    <3>3. queue' = [n \in DOMAIN queue' |-> queue'[n]]
      BY <3>1
    <3>4. lost' = lost \ SightedNames(w)
      BY <2>1 DEF WriteQueue
    <3>5. ASSUME NEW n \in DOMAIN queue' PROVE IsRow(queue'[n])
      <4>1. PICK status, sources, suggestion :
               UpsertSighting(w, n) = [status |-> status, sources |-> sources,
                                       suggestion |-> suggestion]
        BY DEF UpsertSighting
      <4>2. CASE n \in SightedNames(w)
        BY <3>1, <4>1, <4>2 DEF IsRow
      <4>3. CASE n \notin SightedNames(w)
        BY <1>1, <3>1, <4>3 DEF Tables
      <4> QED BY <4>2, <4>3
    <3> QED BY <3>2, <3>3, <3>4, <3>5, SightedIsHeld
  <2>2. CASE FailQueue(w)
    <3>1. queue' = queue /\ lost' = lost \cup (SightedNames(w) \ DOMAIN queue)
      BY <2>2 DEF FailQueue
    <3> QED BY <1>1, <3>1, SightedIsHeld DEF Tables
  <2> QED BY <2>1, <2>2
<1>5. Queued(job[w].v, job[w].group, DOMAIN queue' \cup lost')
  BY <1>2, <1>4, UnknownIsSighted, QueuedGrows
<1>6. pc'[w] = "answer" /\ job'[w] = job[w]
  BY <1>1, <1>3 DEF Tables
<1>7. WorkerSound(w)'
  BY <1>2, <1>5, <1>6 DEF WorkerSound
<1>8. Tables' /\ CacheSound'
  BY <1>1, <1>3, <1>4 DEF Inv, Tables, CacheSound
<1>9. \A u \in Workers \ {w} : pc'[u] = pc[u] /\ job'[u] = job[u]
  BY <1>1, <1>3 DEF Tables
<1> QED BY <1>4, <1>7, <1>8, <1>9, OneWorkerMoves

LEMMA ReturnKeepsInv ==
    ASSUME Inv, NEW w \in Workers, NEW offered, Return(w, offered) PROVE Inv'
<1> DEFINE dto == ToDto(job[w].chosen, job[w].mixed)
           told == IF w \in Apis THEN Recommended(dto, offered) ELSE dto
           j == [v |-> job[w].v, group |-> job[w].group, dto |-> told, by |-> "engine"]
<1>1. Tables /\ WorkerSound(w) /\ pc[w] = "answer" /\ CacheSound
  BY DEF Inv, Return
<1>2. /\ Held(job[w]) /\ Queued(job[w].v, job[w].group, DOMAIN queue \cup lost)
      /\ w \in Apis => Asks(job[w].group, job[w].group.models[1])
  BY <1>1 DEF WorkerSound, Running
<1>3. /\ IsDto(dto) /\ Backed(dto) /\ job[w].v \in Versions /\ job[w].group \in Groups
      /\ Trusted(job[w].v, job[w].group, dto) /\ Dear(job[w].v, job[w].group, dto)
  BY <1>2, AnswerIsWorth DEF Held
<1>4. /\ job' = [job EXCEPT ![w] = j] /\ pc' = [pc EXCEPT ![w] = "answered"]
      /\ UNCHANGED <<queue, version, lost>>
      /\ cache' = IF w \in Apis
                  THEN [cache EXCEPT ![<<job[w].group.models[1], job[w].v>>] = dto] ELSE cache
  BY DEF Return, Answer, CacheUpsert
<1> HIDE DEF dto
<1>4a. /\ Backed(told) /\ Recommends(job[w].v, job[w].group, told)
       /\ w \notin Apis => Trusted(job[w].v, job[w].group, told)
       /\ Dear(job[w].v, job[w].group, told)
  <2>1. CASE w \in Apis
    BY <2>1, <1>3, TrunkIsWorth
  <2>2. CASE w \notin Apis
    BY <2>2, <1>3 DEF Trusted, Recommends
  <2> QED BY <2>1, <2>2
<1> HIDE DEF told
<1>5. /\ j.v = job[w].v /\ j.group = job[w].group /\ j.dto = told /\ j.by = "engine"
  BY DEF j
<1> HIDE DEF j
<1>6. pc'[w] = "answered" /\ job'[w] = j
  BY <1>1, <1>4 DEF Tables
<1>7. Worth(w, j)
  BY <1>4a, <1>3, <1>5 DEF Worth
<1>8. WorkerSound(w)'
  BY <1>2, <1>4, <1>5, <1>6, <1>7 DEF WorkerSound, Running
<1>9. CacheSound' /\ cache' = [key \in Names \X Versions |-> cache'[key]]
  <2>1. CASE w \notin Apis
    BY <2>1, <1>1, <1>4 DEF CacheSound, Tables
  <2>2. CASE w \in Apis
    <3> DEFINE n == job[w].group.models[1]
               v == job[w].v
    <3>1. cache' = [cache EXCEPT ![<<n, v>>] = dto]
      BY <2>2, <1>4
    <3>2. cache' = [key \in Names \X Versions |-> cache'[key]]
      BY <3>1, <1>1 DEF Tables
    <3>3. Servable(n, v, dto)
      <4>1. ASSUME NEW g \in Groups, Asks(g, n) PROVE Trusted(v, g, dto)
        <5>1. g = job[w].group
          BY <4>1, <1>2, <1>3, <2>2, OneRequestPerName
        <5> QED BY <5>1, <1>3
      <4> QED BY <4>1, <1>3 DEF Servable
    <3> HIDE DEF n, v
    <3>4. ASSUME NEW m \in Names, NEW u \in Versions, cache'[<<m, u>>] # Unknown
          PROVE  Servable(m, u, cache'[<<m, u>>])
      <4>1. CASE m = n /\ u = v
        <5>1. cache'[<<m, u>>] = dto
          BY <3>1, <4>1, <1>1 DEF Tables
        <5> QED BY <5>1, <3>3, <4>1
      <4>2. CASE ~(m = n /\ u = v)
        <5>1. <<m, u>> # <<n, v>>
          BY <4>2
        <5>2. cache'[<<m, u>>] = cache[<<m, u>>]
          BY <3>1, <5>1, <1>1 DEF Tables
        <5> QED BY <5>2, <3>4, <1>1 DEF CacheSound
      <4> QED BY <4>1, <4>2
    <3> QED BY <3>2, <3>4 DEF CacheSound
  <2> QED BY <2>1, <2>2
<1>10. Tables'
  BY <1>1, <1>4, <1>9 DEF Tables
<1>11. \A u \in Workers \ {w} : pc'[u] = pc[u] /\ job'[u] = job[u]
  BY <1>1, <1>4 DEF Tables
<1> QED BY <1>4, <1>8, <1>9, <1>10, <1>11, OneWorkerMoves

LEMMA ServeKeepsInv ==
    ASSUME Inv, NEW w \in Workers, NEW g \in Groups, NEW offered,
           ServeCached(w, g, offered)
    PROVE  Inv'
<1> DEFINE row == cache[<<g.models[1], version>>]
           dto == [row EXCEPT !.full = IF row.full = NoCode THEN row.code ELSE row.full]
           told == Recommended(dto, offered)
           j == [v |-> version, group |-> g, dto |-> told, by |-> "cache"]
<1>1. Tables /\ CacheSound /\ version \in Versions
  BY DEF Inv, Tables
<1>2. Asks(g, g.models[1])
  BY DEF ServeCached, Asks
<1>3. g.models[1] \in Names
  <2>1. 1 \in DOMAIN g.models
    BY GroupsAssumption, <1>2 DEF Asks
  <2> QED BY <2>1 DEF Names
<1>4. Servable(g.models[1], version, row)
  BY <1>1, <1>3 DEF ServeCached, CacheSound
<1>5. /\ job' = [job EXCEPT ![w] = j] /\ pc' = [pc EXCEPT ![w] = "answered"]
      /\ UNCHANGED <<queue, cache, version, lost>>
  BY DEF ServeCached, Answer
<1> HIDE DEF row
<1>6. dto.code = row.code /\ dto.conf = row.conf /\ dto.pending = row.pending /\ IsDto(dto)
  BY <1>4 DEF Servable, IsDto
<1> HIDE DEF dto
<1>6a. Backed(dto) /\ Trusted(version, g, dto)
  BY <1>2, <1>4, <1>6 DEF Servable, Backed, Trusted
<1>6b. Backed(told) /\ Recommends(version, g, told) /\ w \in Apis
  BY <1>6, <1>6a, TrunkIsWorth DEF ServeCached
<1> HIDE DEF told
<1>7. /\ j.v = version /\ j.group = g /\ j.dto = told /\ j.by = "cache"
  OBVIOUS
<1> HIDE DEF j
<1>8. Worth(w, j)
  BY <1>1, <1>6b, <1>7 DEF Worth
<1>9. pc'[w] = "answered" /\ job'[w] = j
  BY <1>1, <1>5 DEF Tables
<1>10. WorkerSound(w)'
  BY <1>7, <1>8, <1>9 DEF WorkerSound, Running
<1>11. Tables' /\ CacheSound'
  BY <1>1, <1>5 DEF Tables, CacheSound
<1>12. \A u \in Workers \ {w} : pc'[u] = pc[u] /\ job'[u] = job[u]
  BY <1>1, <1>5 DEF Tables
<1> QED BY <1>5, <1>10, <1>11, <1>12, OneWorkerMoves

\* What the language model says as the classifier is distrusted the same way.
LEMMA VerdictFields ==
    ASSUME NEW code, NEW conf, NEW pending
    PROVE  /\ Verdict(code, conf, pending).code = code
           /\ Verdict(code, conf, pending).conf = conf
           /\ Verdict(code, conf, pending).pending = pending
  BY DEF Verdict

LEMMA ParsedIsBacked ==
    ASSUME NEW item, item.conf \in 0..100
    PROVE  /\ Backed(ParseLlmItem(item))
           /\ \E code, conf, pending : ParseLlmItem(item) = Verdict(code, conf, pending)
<1>1. ~(item.conf < Sure) => item.conf >= Sure
  BY DEF Sure
<1>2. CASE item.code = NoCode
  <2>1. ParseLlmItem(item) = Verdict(NoCode, item.conf, TRUE)
    BY <1>2 DEF ParseLlmItem
  <2>2. Backed(ParseLlmItem(item))
    BY <2>1 DEF Backed, Verdict
  <2> QED BY <2>1, <2>2
<1>3. CASE item.code # NoCode /\ item.code \notin Codes
  <2>1. ParseLlmItem(item) = Verdict(NoCode, 0, TRUE)
    BY <1>3 DEF ParseLlmItem
  <2>2. Backed(ParseLlmItem(item))
    BY <2>1 DEF Backed, Verdict
  <2> QED BY <2>1, <2>2
<1>4. CASE item.code # NoCode /\ item.code \in Codes
  <2>1. PICK doubt : doubt = (item.pending \/ item.conf < Sure)
    OBVIOUS
  <2>2. ParseLlmItem(item) = Verdict(item.code, item.conf, doubt)
    BY <1>4, <2>1 DEF ParseLlmItem
  <2>3. ~doubt => item.conf >= Sure
    BY <1>1, <2>1
  <2>4. /\ ParseLlmItem(item).code = item.code /\ ParseLlmItem(item).conf = item.conf
        /\ ParseLlmItem(item).pending = doubt
    BY <2>2, VerdictFields
  <2> QED BY <1>4, <2>2, <2>3, <2>4 DEF Backed
<1> QED BY <1>2, <1>3, <1>4

LEMMA GeminiIsBacked ==
    ASSUME NEW f \in Answers \cup {Unknown}, NEW p \in Answers \cup {Unknown}, NEW i,
           Reaches(f, p, i)
    PROVE  Backed(GeminiVerdict(f, p, i))
<1> DEFINE flash == Parsed(f)[i]
           pro == Parsed(p)[i]
<1>1. CASE f = Unknown
  BY <1>1 DEF GeminiVerdict, Backed, Verdict
<1>2. ASSUME NEW a \in Answers, i \in DOMAIN a
      PROVE  /\ Backed(Parsed(a)[i])
             /\ \E code, conf, pending : Parsed(a)[i] = Verdict(code, conf, pending)
  <2>1. Parsed(a)[i] = ParseLlmItem(a[i]) /\ a[i].conf \in 0..100
    BY <1>2, AnswersAssumption DEF Parsed
  <2> QED BY <2>1, ParsedIsBacked
<1>3. CASE f # Unknown
  <2>1. f \in Answers /\ i \in DOMAIN f
    BY <1>3 DEF Reaches
  <2>2. Backed(flash)
    BY <1>2, <2>1
  <2> HIDE DEF flash, pro
  <2>3. CASE ~Escalates(f)
    BY <1>3, <2>2, <2>3 DEF GeminiVerdict, flash
  <2>4. CASE Escalates(f) /\ p = Unknown
    <3>1. GeminiVerdict(f, p, i) = WithoutPro(flash)
      BY <1>3, <2>4 DEF GeminiVerdict, flash
    <3>2. PICK code, conf, pending : flash = Verdict(code, conf, pending)
      BY <1>2, <2>1 DEF flash
    <3>3. PICK doubt : doubt = (flash.pending \/ flash.conf < Sure)
      OBVIOUS
    <3>4. WithoutPro(flash) = [flash EXCEPT !.pending = doubt]
      BY <3>3 DEF WithoutPro
    <3>5. /\ [flash EXCEPT !.pending = doubt].pending = doubt
          /\ [flash EXCEPT !.pending = doubt].code = flash.code
          /\ [flash EXCEPT !.pending = doubt].conf = flash.conf
      BY <3>2 DEF Verdict
    <3>6. ~doubt => flash.code \in Codes /\ flash.conf >= Sure
      BY <2>2, <3>3 DEF Backed
    <3> QED BY <3>1, <3>4, <3>5, <3>6 DEF Backed
  <2>5. CASE Escalates(f) /\ p # Unknown
    <3>1. GeminiVerdict(f, p, i) = OfBoth(flash, pro)
      BY <1>3, <2>5 DEF GeminiVerdict, flash, pro
    <3>2. p \in Answers /\ i \in DOMAIN p
      BY <1>3, <2>5 DEF Reaches
    <3>3. Backed(pro)
      BY <1>2, <3>2 DEF pro
    <3>4. PICK code, conf : OfBoth(flash, pro) \in {flash, pro, Verdict(code, conf, TRUE)}
      BY DEF OfBoth
    <3>5. Backed(Verdict(code, conf, TRUE))
      BY DEF Backed, Verdict
    <3> QED BY <2>2, <3>1, <3>3, <3>4, <3>5
  <2> QED BY <2>3, <2>4, <2>5
<1> QED BY <1>1, <1>3

LEMMA DiscoverKeepsInv ==
    ASSUME Inv, NEW w \in Workers, NEW g \in Groups, NEW f \in Answers \cup {Unknown},
           NEW p \in Answers \cup {Unknown}, NEW i, Discover(w, g, f, p, i)
    PROVE  Inv'
<1> DEFINE dto == GeminiVerdict(f, p, i)
           j == [v |-> version, group |-> g, dto |-> dto, by |-> "gemini", flash |-> f,
                 escalated |-> Escalates(f)]
<1>1. Tables /\ CacheSound /\ version \in Versions
  BY DEF Inv, Tables
<1>2. UNCHANGED <<queue, cache, version, lost>>
  BY DEF Discover
<1>3. CASE Reaches(f, p, i)
  <2>1. job' = [job EXCEPT ![w] = j] /\ pc' = [pc EXCEPT ![w] = "answered"]
    BY <1>3 DEF Discover
  <2>2. Backed(dto)
    BY <1>3, GeminiIsBacked
  <2> HIDE DEF dto
  <2>3. /\ j.v = version /\ j.group = g /\ j.dto = dto /\ j.by = "gemini"
    OBVIOUS
  <2> HIDE DEF j
  <2>4. Worth(w, j)
    BY <1>1, <2>2, <2>3 DEF Worth
  <2>5. pc'[w] = "answered" /\ job'[w] = j
    BY <1>1, <2>1 DEF Tables
  <2>6. WorkerSound(w)'
    BY <2>3, <2>4, <2>5 DEF WorkerSound, Running
  <2>7. Tables' /\ CacheSound'
    BY <1>1, <1>2, <2>1 DEF Tables, CacheSound
  <2>8. \A u \in Workers \ {w} : pc'[u] = pc[u] /\ job'[u] = job[u]
    BY <1>1, <2>1 DEF Tables
  <2> QED BY <1>2, <2>6, <2>7, <2>8, OneWorkerMoves
<1>4. CASE ~Reaches(f, p, i)
  <2>1. job' = [job EXCEPT ![w] = Unknown] /\ pc' = [pc EXCEPT ![w] = "idle"]
    BY <1>4 DEF Discover
  <2>2. pc'[w] = "idle"
    BY <1>1, <2>1 DEF Tables
  <2>3. WorkerSound(w)'
    BY <2>2 DEF WorkerSound, Running
  <2>4. Tables' /\ CacheSound'
    BY <1>1, <1>2, <2>1 DEF Tables, CacheSound
  <2>5. \A u \in Workers \ {w} : pc'[u] = pc[u] /\ job'[u] = job[u]
    BY <1>1, <2>1 DEF Tables
  <2> QED BY <1>2, <2>3, <2>4, <2>5, OneWorkerMoves
<1> QED BY <1>3, <1>4

\* The language model out of reach leaves the result as it was.
LEMMA OutageKeepsInv ==
    ASSUME Inv, NEW w \in Workers, OutOfReach(w) PROVE Inv'
<1>1. Tables /\ WorkerSound(w) /\ pc[w] = "resolve"
  BY DEF Inv, OutOfReach
<1>2. UNCHANGED <<queue, cache, version, job, lost>> /\ pc' = [pc EXCEPT ![w] = "queue"]
  BY DEF OutOfReach
<1>3. pc'[w] = "queue"
  BY <1>1, <1>2 DEF Tables
<1>4. WorkerSound(w)'
  BY <1>1, <1>2, <1>3 DEF WorkerSound, Running
<1>5. Tables' /\ CacheSound'
  BY <1>1, <1>2 DEF Inv, Tables, CacheSound
<1>6. \A u \in Workers \ {w} : pc'[u] = pc[u] /\ job'[u] = job[u]
  BY <1>1, <1>2 DEF Tables
<1> QED BY <1>2, <1>4, <1>5, <1>6, OneWorkerMoves

\* Steps of the operator, of a deployment, and stuttering: no worker moves.
LEMMA NobodyMoves ==
    ASSUME Inv, Tables', UNCHANGED <<cache, pc, job, lost>>, DOMAIN queue' = DOMAIN queue
    PROVE  Inv'
<1>1. ASSUME NEW w \in Workers PROVE WorkerSound(w)'
  BY IdleKeepsSound DEF Inv
<1>2. CacheSound'
  BY DEF Inv, CacheSound
<1> QED BY <1>1, <1>2 DEF Inv

LEMMA SetStatusKeepsInv ==
    ASSUME Inv, NEW n \in Names, NEW verdict, SetStatus(n, verdict) PROVE Inv'
<1>1. DOMAIN queue' = DOMAIN queue /\ queue' = [m \in DOMAIN queue' |-> queue'[m]]
  BY DEF Inv, Tables, SetStatus
<1>2. ASSUME NEW m \in DOMAIN queue PROVE IsRow(queue'[m])
  <2>1. IsRow(queue[m]) /\ queue'[m] = IF m = n THEN [queue[m] EXCEPT !.status = verdict] ELSE queue[m]
    BY DEF Inv, Tables, SetStatus
  <2> QED BY <2>1 DEF IsRow
<1>3. Tables'
  BY <1>1, <1>2 DEF Inv, Tables, SetStatus
<1> QED BY <1>1, <1>3, NobodyMoves DEF SetStatus

LEMMA DeployKeepsInv == ASSUME Inv, Deploy PROVE Inv'
<1>1. version \in Versions /\ Tables
  BY DEF Inv, Tables
<1>2. version' \in Versions
  BY <1>1, VersionsAreNumbers DEF Deploy
<1>3. Tables'
  BY <1>1, <1>2 DEF Tables, Deploy
<1> QED BY <1>3, NobodyMoves DEF Deploy

LEMMA StepHolds == Inv /\ [Next]_vars => Inv'
<1> SUFFICES ASSUME Inv, [Next]_vars PROVE Inv'
  OBVIOUS
<1>1. ASSUME NEW w \in Workers, NEW g \in Groups, NEW offered \in BOOLEAN,
             Classify(w, g) \/ ServeCached(w, g, offered)
      PROVE  Inv'
  BY <1>1, ClassifyKeepsInv, ServeKeepsInv
<1>2. ASSUME NEW w \in Workers, NEW p \in Profiles \cup {Unknown}, Resolve(w, p) PROVE Inv'
  BY <1>2, ResolveKeepsInv
<1>3. ASSUME NEW w \in Workers, NEW offered \in BOOLEAN,
             \/ OutOfReach(w) \/ ReadQueue(w) \/ WriteQueue(w) \/ FailQueue(w)
             \/ Return(w, offered)
      PROVE  Inv'
  BY <1>3, OutageKeepsInv, ReadKeepsInv, SightingKeepsInv, ReturnKeepsInv
<1>4. ASSUME NEW w \in Workers, NEW g \in Groups, NEW f \in Answers \cup {Unknown},
             NEW p \in Answers \cup {Unknown}, NEW i \in 1..BatchSize, Discover(w, g, f, p, i)
      PROVE  Inv'
  BY <1>4, DiscoverKeepsInv
<1>5. ASSUME NEW n \in Names, NEW s, SetStatus(n, s) PROVE Inv'
  BY <1>5, SetStatusKeepsInv
<1>6. CASE Deploy
  BY <1>6, DeployKeepsInv
<1>7. CASE UNCHANGED vars
  <2>1. Tables'
    BY <1>7 DEF Inv, Tables, vars
  <2> QED BY <1>7, <2>1, NobodyMoves DEF vars
<1> QED BY <1>1, <1>2, <1>3, <1>4, <1>5, <1>6, <1>7 DEF Next

\* Answers, cache, queue and the rows the workers have read stay sound, in every
\* order of the workers, the operator and the deployments.
THEOREM Invariant == Spec => []Inv
  BY InitHolds, StepHolds, PTL DEF Spec

-----------------------------------------------------------------------------
(* What follows from the invariant.                                          *)

\* A code that nobody is asked to review is materialised and was believed,
\* whichever service computed it, through declared codes, the language model and
\* the collapse of fuels; the cache holds no other.
THEOREM CertainsAreBacked == Spec => []CertainIsBacked
<1>1. Inv => CertainIsBacked
  <2> SUFFICES ASSUME Inv PROVE CertainIsBacked
    OBVIOUS
  <2>1. ASSUME NEW w \in Workers, pc[w] = "answered" PROVE Backed(job[w].dto)
    BY <2>1 DEF Inv, WorkerSound, Worth
  <2>2. ASSUME NEW key \in Names \X Versions, cache[key] # Unknown PROVE Backed(cache[key])
    <3>1. PICK n \in Names, v \in Versions : key = <<n, v>>
      OBVIOUS
    <3> QED BY <3>1, <2>2 DEF Inv, CacheSound, Servable
  <2> QED BY <2>1, <2>2 DEF CertainIsBacked, Backed
<1> QED BY <1>1, Invariant, PTL

\* The language model never decides a code that the engine asks nobody to
\* review: it is the dictionary's, or the trunk of it that the route recommends;
\* an answer of the cache is the one the engine would give for the same request
\* under the same data files.
THEOREM DictionaryDecides == Spec => []LanguageModelNeverDecides
<1>1. Inv => LanguageModelNeverDecides
  <2> SUFFICES ASSUME Inv, NEW w \in Workers, pc[w] = "answered", job[w].by # "gemini",
                      ~job[w].dto.pending
               PROVE  LET alone == BundleOf[job[w].v][job[w].group]
                          code == ToDto(alone.chosen, alone.mixed).code
                      IN  /\ alone.chosen.known
                          /\ job[w].dto.code \in {code} \cup {Trunk(code) : a \in Apis \cap {w}}
    BY DEF LanguageModelNeverDecides
  <2> DEFINE alone == Combined(job[w].v, job[w].group)
             code == ToDto(alone.chosen, alone.mixed).code
  <2>1. Worth(w, job[w])
    BY DEF Inv, WorkerSound
  <2>2. /\ job[w].v \in Versions /\ job[w].group \in Groups
        /\ Recommends(job[w].v, job[w].group, job[w].dto)
        /\ w \notin Apis => Trusted(job[w].v, job[w].group, job[w].dto)
    BY <2>1 DEF Worth
  <2>3. BundleOf[job[w].v][job[w].group] = alone
    BY <2>2, GroupsInVersions
  <2>4. alone.chosen.known /\ job[w].dto.code \in {code, Trunk(code)}
    BY <2>2 DEF Recommends
  <2>5. w \notin Apis => job[w].dto.code = code
    BY <2>2 DEF Trusted
  <2> HIDE DEF alone
  <2> QED BY <2>3, <2>4, <2>5
<1> QED BY <1>1, Invariant, PTL

\* A group that gets a code is priced at least as dear as each known member,
\* whatever the order of its models and the confidence in each.
THEOREM DearestIsPriced == Spec => []DearestMemberPriced
<1>1. Inv => DearestMemberPriced
  <2> SUFFICES ASSUME Inv, NEW w \in Workers, pc[w] = "answered", job[w].by = "engine",
                      job[w].dto.code # NoCode, NEW i \in DOMAIN job[w].group.models,
                      MembersOf[job[w].v][job[w].group][i].known
               PROVE  CategoryRank(MembersOf[job[w].v][job[w].group][i].category.code)
                        <= CategoryRank(job[w].dto.code[1])
    BY DEF DearestMemberPriced, Fresh
  <2>1. Worth(w, job[w])
    BY DEF Inv, WorkerSound
  <2>2. job[w].v \in Versions /\ job[w].group \in Groups /\ Dear(job[w].v, job[w].group, job[w].dto)
    BY <2>1 DEF Worth
  <2>3. MembersOf[job[w].v][job[w].group] = Members(job[w].v, job[w].group)
    BY <2>2, GroupsInVersions
  <2> QED BY <2>2, <2>3 DEF Dear
<1> QED BY <1>1, Invariant, PTL

\* Every unknown member of a group that was classified is in the review queue
\* unless the last write of its name failed, whoever else wrote the queue meanwhile.
THEOREM UnknownsAreQueued == Spec => []UnknownsReachReview
<1>1. Inv => UnknownsReachReview
  <2> SUFFICES ASSUME Inv, NEW w \in Workers, pc[w] = "answered", job[w].by = "engine",
                      NEW i \in DOMAIN job[w].group.models,
                      ~MembersOf[job[w].v][job[w].group][i].known
               PROVE  MembersOf[job[w].v][job[w].group][i].name \in DOMAIN queue \cup lost
    BY DEF UnknownsReachReview, Fresh
  <2>1. Worth(w, job[w]) /\ Queued(job[w].v, job[w].group, DOMAIN queue \cup lost)
    BY DEF Inv, WorkerSound
  <2>2. job[w].v \in Versions /\ job[w].group \in Groups
    BY <2>1 DEF Worth
  <2>3. MembersOf[job[w].v][job[w].group] = Members(job[w].v, job[w].group)
    BY <2>2, GroupsInVersions
  <2> QED BY <2>1, <2>3 DEF Queued
<1> QED BY <1>1, Invariant, PTL

-----------------------------------------------------------------------------
(* The operator's verdict.                                                   *)

\* A worker that read the row before the verdict may still bring its suggestion.
ReadBefore(n) ==
    \E w \in Workers : /\ pc[w] = "sighted" /\ pc'[w] = "answer"
                       /\ n \in DOMAIN seen[w]
                       /\ seen[w][n].status = "pending_review"

VerdictKept(n) == /\ n \in DOMAIN queue'
                  /\ queue'[n].status = queue[n].status \/ UNCHANGED <<pc, job, jobs>>
                  /\ queue'[n].suggestion = queue[n].suggestion \/ ReadBefore(n)

\* One step never reverts a verdict, and changes what was decided only for a
\* worker that had read the row before it.
LEMMA VerdictStep ==
  ASSUME Tables, [Next]_vars, NEW n \in DOMAIN queue, queue[n].status # "pending_review"
  PROVE  VerdictKept(n)
<1>1. ASSUME NEW w \in Workers, WriteQueue(w) PROVE VerdictKept(n)
  <2>1. queue' = [m \in DOMAIN queue \cup SightedNames(w) |->
                    IF m \in SightedNames(w) THEN UpsertSighting(w, m) ELSE queue[m]]
    BY <1>1 DEF WriteQueue
  <2>2. n \in DOMAIN queue'
    BY <2>1
  <2>3. CASE n \notin SightedNames(w)
    BY <2>1, <2>2, <2>3 DEF VerdictKept
  <2>4. CASE n \in SightedNames(w)
    <3>1. n \in DOMAIN seen[w]
      BY <1>1, <2>4 DEF WriteQueue
    <3>2. queue'[n] = UpsertSighting(w, n)
      BY <2>1, <2>4
    <3>3. queue'[n].status = queue[n].status
      BY <3>1, <3>2 DEF UpsertSighting
    <3>4. CASE seen[w][n].status # "pending_review"
      BY <2>2, <3>1, <3>2, <3>3, <3>4 DEF UpsertSighting, VerdictKept
    <3>5. CASE seen[w][n].status = "pending_review"
      <4>1. pc[w] = "sighted" /\ pc'[w] = "answer"
        BY <1>1 DEF WriteQueue, Tables
      <4> QED BY <2>2, <3>1, <3>3, <3>5, <4>1 DEF ReadBefore, VerdictKept
    <3> QED BY <3>4, <3>5
  <2> QED BY <2>3, <2>4
<1>2. ASSUME NEW k \in Names, NEW s, SetStatus(k, s) PROVE VerdictKept(n)
  <2>1. queue' = [queue EXCEPT ![k].status = s] /\ UNCHANGED <<pc, job, jobs>>
    BY <1>2 DEF SetStatus
  <2>2. IsRow(queue[n]) /\ n \in DOMAIN queue'
        /\ queue'[n] = IF n = k THEN [queue[n] EXCEPT !.status = s] ELSE queue[n]
    BY <2>1 DEF Tables
  <2>3. queue'[n].suggestion = queue[n].suggestion
    BY <2>2 DEF IsRow
  <2> QED BY <2>1, <2>2, <2>3 DEF VerdictKept
<1>3. CASE queue' = queue
  BY <1>3 DEF VerdictKept
<1>4. CASE queue' # queue
  <2>1. \/ \E w \in Workers : WriteQueue(w)
        \/ \E k \in Names : \E s : SetStatus(k, s)
    BY <1>4 DEF Next, vars, Classify, ServeCached, Resolve, OutOfReach, ReadQueue, FailQueue, Return,
                Discover, Deploy
  <2> QED BY <2>1, <1>1, <1>2
<1> QED BY <1>3, <1>4

\* No sighting of any worker, and no race between workers and the operator,
\* reopens or reverses what the operator decided on a queued model.
THEOREM VerdictsAreFinal == Spec => VerdictIsFinal
<1>1. Inv /\ [Next]_vars =>
        [\A n \in DOMAIN queue : queue[n].status # "pending_review" =>
          /\ n \in DOMAIN queue'
          /\ queue'[n].status = queue[n].status \/ UNCHANGED <<pc, job, jobs>>
          /\ \/ queue'[n].suggestion = queue[n].suggestion
             \/ \E w \in Workers : /\ pc[w] = "sighted" /\ pc'[w] = "answer"
                                   /\ n \in DOMAIN seen[w]
                                   /\ seen[w][n].status = "pending_review"]_vars
  BY VerdictStep DEF Inv, VerdictKept, ReadBefore
<1> QED BY <1>1, Invariant, PTL DEF Spec, VerdictIsFinal
=============================================================================
