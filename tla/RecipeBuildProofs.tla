-------------------------- MODULE RecipeBuildProofs --------------------------
(***************************************************************************)
(* A provider that has a recipe has exactly one active version, and no part *)
(* of a version is a guess, for any number of programs that run at once,    *)
(* any files, any sites and any number of redesigns.                        *)
(***************************************************************************)
EXTENDS RecipeBuild, FiniteSetTheorems, TLAPS

(* Every row is a record of its three columns, and its flag is a Boolean.   *)
IsRow(r) == /\ r = [version |-> r.version, recipe |-> r.recipe, active |-> r.active]
            /\ r.active \in BOOLEAN

Rows == \E n \in Nat : /\ table = [i \in 1..n |-> table[i]]
                       /\ \A i \in 1..n : IsRow(table[i])

(* Imports that have ended stay so.                                         *)
RecipeInv == Rows /\ OneActiveRecipe /\ pc = [p \in Proc |-> pc[p]]

LEMMA FlagOff ==
  ASSUME NEW r, IsRow(r), NEW b \in BOOLEAN
  PROVE  /\ IsRow([r EXCEPT !.active = @ /\ b])
         /\ [r EXCEPT !.active = @ /\ b].active = (r.active /\ b)
  BY DEF IsRow

LEMMA OnlyTheNewOne ==
  ASSUME Rows, NEW p \in Proc, InsertRecipe(p), Active \subseteq tx[p].off
  PROVE  Rows' /\ table' # << >> /\ Cardinality(Active') = 1
<1>1. PICK n \in Nat : table = [i \in 1..n |-> table[i]] /\ \A i \in 1..n : IsRow(table[i])
  BY DEF Rows
<1> DEFINE off(i) == [table[i] EXCEPT !.active = @ /\ i \notin tx[p].off]
           new == Row(tx[p].next, recipe[p])
<1>2. \A i \in 1..n : IsRow(off(i)) /\ off(i).active = FALSE
  <2> SUFFICES ASSUME NEW i \in 1..n PROVE IsRow(off(i)) /\ off(i).active = FALSE
    OBVIOUS
  <2>1. table[i].active => i \in tx[p].off
    BY <1>1 DEF Active
  <2>2. (i \notin tx[p].off) \in BOOLEAN
    OBVIOUS
  <2>3. IsRow(off(i)) /\ off(i).active = (table[i].active /\ i \notin tx[p].off)
    BY <2>2, <1>1, FlagOff
  <2> QED
    BY <2>1, <2>3
<1>3. IsRow(new) /\ new.active
  BY DEF Row, IsRow
<1> HIDE DEF off, new
<1>4. table' = [i \in 1..(n + 1) |-> IF i = n + 1 THEN new ELSE off(i)]
  <2>1. table' = Append([i \in 1..n |-> off(i)], new)
    BY <1>1 DEF InsertRecipe, off, new
  <2> QED
    BY <2>1
<1>5. Rows'
  BY <1>2, <1>3, <1>4 DEF Rows
<1>6. Active' = {n + 1}
  BY <1>2, <1>3, <1>4 DEF Active
<1>7. table' # << >>
  <2>1. n + 1 \in DOMAIN table'
    BY <1>4
  <2> QED
    BY <2>1
<1>8. Cardinality(Active') = 1
  BY <1>6, FS_Singleton
<1> QED
  BY <1>5, <1>7, <1>8

LEMMA InitRecipes == Init => RecipeInv
<1> SUFFICES ASSUME Init PROVE RecipeInv
  OBVIOUS
<1>1. table = [i \in 1..0 |-> table[i]]
  BY DEF Init
<1>2. Rows
  <2>1. \A i \in 1..0 : IsRow(table[i])
    OBVIOUS
  <2> USE DEF Rows
  <2> WITNESS 0 \in Nat
  <2> QED
    BY <1>1, <2>1
<1>3. known = FALSE /\ table = << >>
  BY DEF Init
<1> QED
  BY <1>2, <1>3 DEF RecipeInv, OneActiveRecipe, Init

(* Only a commit of save_recipe or of an import touches the table and the   *)
(* catalogue.                                                               *)
LEMMA OthersLeaveTheTable ==
  ASSUME [Next]_vars
  PROVE  \/ UNCHANGED <<table, known>>
         \/ \E p \in Proc : InsertRecipe(p) \/ Compare(p)
<1>1. ASSUME NEW p \in Proc, Discover(p) PROVE UNCHANGED <<table, known>>
  BY <1>1 DEF Discover, FillForm, SubmitForm, WaitForResults, PhaseFails, Extract
<1>2. ASSUME NEW p \in Proc, Probe(p) PROVE UNCHANGED <<table, known>>
  BY <1>2 DEF Probe, StartReprobe, StartSetRecipe, ReachResults, FindCandidate,
              ConfirmRefine, ProbeFails
<1>3. ASSUME NEW p \in Proc, Store(p), ~InsertRecipe(p), ~Compare(p)
      PROVE  UNCHANGED <<table, known>>
  BY <1>3 DEF Store, ReadFile, Provision, InsertProvider, ComposeRecipe, LoadActive,
              ReadVersion, Deactivate, Deactivated
<1>4. ASSUME NEW p \in Proc, Kill(p) PROVE UNCHANGED <<table, known>>
  BY <1>4 DEF Kill
<1>5. CASE Redesign \/ Ended \/ UNCHANGED vars
  BY <1>5 DEF Redesign, Ended, vars
<1> QED
  BY <1>1, <1>2, <1>3, <1>4, <1>5 DEF Next

(* A process that has ended takes no step.                                  *)
LEMMA EndedStays ==
  ASSUME RecipeInv, [Next]_vars
  PROVE  /\ pc' = [p \in Proc |-> pc'[p]]
         /\ \A p \in Proc : pc[p] = "ended" => pc'[p] = "ended"
<1>1. ASSUME NEW q \in Proc, pc[q] # "ended", NEW at, pc' = [pc EXCEPT ![q] = at]
      PROVE  /\ pc' = [p \in Proc |-> pc'[p]]
             /\ \A p \in Proc : pc[p] = "ended" => pc'[p] = "ended"
  BY <1>1 DEF RecipeInv
<1>2. ASSUME NEW q \in Proc, Discover(q)
      PROVE  pc[q] # "ended" /\ \E at : pc' = [pc EXCEPT ![q] = at]
  BY <1>2 DEF Discover, FillForm, SubmitForm, WaitForResults, PhaseFails, Extract, End, At
<1>3. ASSUME NEW q \in Proc, Probe(q)
      PROVE  pc[q] # "ended" /\ \E at : pc' = [pc EXCEPT ![q] = at]
  BY <1>3 DEF Probe, StartReprobe, StartSetRecipe, ReachResults, FindCandidate,
              ConfirmRefine, ProbeFails, End, At
<1>4. ASSUME NEW q \in Proc, Store(q)
      PROVE  pc[q] # "ended" /\ \E at : pc' = [pc EXCEPT ![q] = at]
  <2>1. CASE ReadFile(q) \/ Compare(q) \/ Provision(q)
    BY <2>1 DEF ReadFile, Compare, Provision, End, At
  <2>2. CASE InsertProvider(q) \/ LoadActive(q)
    BY <2>2 DEF InsertProvider, LoadActive, End
  <2>3. CASE ReadVersion(q) \/ Deactivate(q) \/ Deactivated(q)
    BY <2>3 DEF ReadVersion, Deactivate, Deactivated, At
  <2>4. CASE InsertRecipe(q)
    BY <2>4 DEF InsertRecipe, End
  <2>5. CASE ComposeRecipe(q)
    <3>1. pc' = [pc EXCEPT ![q] = pc[q]]
      BY <2>5 DEF ComposeRecipe, RecipeInv
    <3> QED
      BY <3>1, <2>5 DEF ComposeRecipe
  <2> QED
    BY <1>4, <2>1, <2>2, <2>3, <2>4, <2>5 DEF Store
<1>5. ASSUME NEW q \in Proc, Kill(q)
      PROVE  pc[q] # "ended" /\ \E at : pc' = [pc EXCEPT ![q] = at]
  BY <1>5 DEF Kill, End
<1>6. CASE Redesign \/ Ended \/ UNCHANGED vars
  BY <1>6 DEF Redesign, Ended, vars, RecipeInv
<1> QED
  BY <1>1, <1>2, <1>3, <1>4, <1>5, <1>6 DEF Next

LEMMA NextRecipes == RecipeInv /\ [Next]_vars => RecipeInv'
<1> SUFFICES ASSUME RecipeInv, [Next]_vars PROVE RecipeInv'
  OBVIOUS
<1>1. /\ pc' = [p \in Proc |-> pc'[p]]
      /\ \A p \in Importers : pc[p] = "ended" => pc'[p] = "ended"
  BY EndedStays DEF Proc
<1>2. ASSUME UNCHANGED table, known => known', known' => known \/ \E p \in Importers : pc'[p] = "ended"
      PROVE  RecipeInv'
  <2>1. Rows' /\ Active' = Active
    BY <1>2 DEF RecipeInv, Rows, Active
  <2> QED
    BY <2>1, <1>1, <1>2 DEF RecipeInv, OneActiveRecipe
<1>3. CASE UNCHANGED <<table, known>>
  BY <1>3, <1>2
<1>4. ASSUME NEW p \in Proc, InsertRecipe(p) PROVE RecipeInv'
  <2>1. CASE Active \subseteq tx[p].off
    <3>1. Rows' /\ table' # << >> /\ Cardinality(Active') = 1
      BY <2>1, <1>4, OnlyTheNewOne DEF RecipeInv
    <3>2. known'
      BY <2>1, <1>4 DEF InsertRecipe
    <3> QED
      BY <3>1, <3>2, <1>1 DEF RecipeInv, OneActiveRecipe
  <2>2. CASE ~(Active \subseteq tx[p].off)
    <3>1. UNCHANGED <<table, known>>
      BY <2>2, <1>4 DEF InsertRecipe
    <3> QED
      BY <3>1, <1>3
  <2> QED
    BY <2>1, <2>2
<1>5. ASSUME NEW p \in Proc, Compare(p) PROVE RecipeInv'
  <2>1. CASE UNCHANGED <<table, known>>
    BY <2>1, <1>3
  <2>2. CASE ~UNCHANGED <<table, known>>
    <3>1. UNCHANGED table /\ known' = TRUE /\ pc'[p] = "ended"
      BY <2>2, <1>5 DEF Compare, End, RecipeInv
    <3>2. p \in Importers
      BY <1>5 DEF Compare
    <3> QED
      BY <3>1, <3>2, <1>2
  <2> QED
    BY <2>1, <2>2
<1> QED
  BY <1>3, <1>4, <1>5, OthersLeaveTheTable

(* Whatever programs save recipes of a provider at once, and wherever one   *)
(* is killed, a provider that has a recipe has one active version, and only *)
(* an import registers one without (save_recipe, the partial unique index). *)
THEOREM OneRecipeIsActive == Spec => []OneActiveRecipe
<1>1. RecipeInv => OneActiveRecipe
  BY DEF RecipeInv
<1> QED
  BY InitRecipes, NextRecipes, <1>1, PTL DEF Spec

-----------------------------------------------------------------------------
(* What a process holds is worth, at each place, what it has to be for the  *)
(* version it will store.                                                   *)

IsResult(r) == r = [form |-> r.form, empty |-> r.empty, structure |-> r.structure]

(* Updates of records leave records of the same fields.                     *)
LEMMA RefineUpdated ==
  ASSUME NEW w, IsRefine(w), NEW strategy, NEW url
  PROVE  IsRefine([w EXCEPT !.strategy = strategy, !.url = url])
<1>1. PICK s, u, o : w = [strategy |-> s, url |-> u, open |-> o]
  BY DEF IsRefine
<1> DEFINE one == [w EXCEPT !.strategy = strategy]
<1>2. one = [strategy |-> strategy, url |-> u, open |-> o]
  BY <1>1
<1> HIDE DEF one
<1>3. [one EXCEPT !.url = url] = [strategy |-> strategy, url |-> url, open |-> o]
  BY <1>2
<1>4. IsRefine([one EXCEPT !.url = url])
  BY <1>3 DEF IsRefine
<1> QED
  BY <1>4, Zenon DEF one

LEMMA RecipeUpdated ==
  ASSUME NEW e, IsRecipe(e), NEW w, IsRefine(w), NEW type
  PROVE  IsRecipe([[e EXCEPT !.refine = w] EXCEPT !.type = type])
<1>1. PICK f, s, x, t : e = [form |-> f, structure |-> s, refine |-> x, type |-> t]
  BY DEF IsRecipe
<1> DEFINE one == [e EXCEPT !.refine = w]
<1>2. one = [form |-> f, structure |-> s, refine |-> w, type |-> t]
  BY <1>1
<1> HIDE DEF one
<1>3. [one EXCEPT !.type = type] = [form |-> f, structure |-> s, refine |-> w, type |-> type]
  BY <1>2
<1>4. IsRecipe([one EXCEPT !.type = type])
  BY <1>3 DEF IsRecipe
<1> QED
  BY <1>4, Zenon DEF one

\* A recipe is no missing value.
NoValueIsApart ==
  \A f, s, w, t : [form |-> f, structure |-> s, refine |-> w, type |-> t] # NoValue

WayTried(w, ways) == w.strategy = "none" \/ w \in ways
WasTried(e, forms, ways) == IsRecipe(e) /\ e.form \in forms /\ WayTried(e.refine, ways)

\* The result and the recipe of process p, which stands at "at".
Worth(p, at, r, e, forms, ways) ==
  /\ at \in {"start", "submit", "results", "extract"} => e = NoValue
  /\ at \in {"provision", "insert_provider"} =>
       (e = NoValue /\ (p \in Importers \/ r.form \in forms)) \/ WasTried(e, forms, ways)
  /\ at = "compare" => e = NoValue \/ WasTried(e, forms, ways)
  /\ at = "number" => (e = NoValue /\ r.form \in forms) \/ WasTried(e, forms, ways)
  /\ at \in {"deactivate", "deactivating", "insert"} => WasTried(e, forms, ways)
  /\ at \in {"probe", "discover", "confirm"} => IsRecipe(e)
  /\ at = "load" => e = NoValue \/ (IsRecipe(e) /\ WayTried(e.refine, ways))

Ways == asked \cup {t.refine : t \in tried}

Shape == /\ pc = [p \in Proc |-> pc[p]]
         /\ result = [p \in Proc |-> result[p]]
         /\ recipe = [p \in Proc |-> recipe[p]]
         /\ \A p \in Proc : IsResult(result[p])

RowsTried == \A i \in DOMAIN table : WasTried(table[i].recipe, proven, Ways)

HeldTried == \A p \in Proc : Worth(p, pc[p], result[p], recipe[p], proven, Ways)

TriedInv == RecipeInv /\ Shape /\ RowsTried /\ HeldTried

LEMMA InitTried == Init => TriedInv
<1> SUFFICES ASSUME Init PROVE TriedInv
  OBVIOUS
<1>1. Shape
  BY DEF Init, Shape, IsResult, NoResult
<1>2. RowsTried
  BY DEF Init, RowsTried
<1>3. HeldTried
  BY DEF Init, HeldTried, Worth
<1> QED
  BY <1>1, <1>2, <1>3, InitRecipes DEF TriedInv

(* The histories only grow, so what was tried stays tried.                  *)
HistoryGrows == proven \subseteq proven' /\ Ways \subseteq Ways'

LEMMA WorthStays ==
  ASSUME HistoryGrows, NEW p, NEW at, NEW r, NEW e, Worth(p, at, r, e, proven, Ways)
  PROVE  Worth(p, at, r, e, proven', Ways')
  BY DEF HistoryGrows, Worth, WasTried, WayTried

LEMMA RowsStay ==
  ASSUME HistoryGrows, RowsTried, UNCHANGED table
  PROVE  RowsTried'
  BY DEF HistoryGrows, RowsTried, WasTried, WayTried

(* A step of one process.                                                   *)
Moves(p, at, r, e) ==
  /\ pc' = [pc EXCEPT ![p] = at]
  /\ result' = [result EXCEPT ![p] = r]
  /\ recipe' = [recipe EXCEPT ![p] = e]

LEMMA ProcessStep ==
  ASSUME TriedInv, RecipeInv', HistoryGrows, RowsTried',
         NEW p \in Proc, NEW at, NEW r, NEW e, Moves(p, at, r, e),
         IsResult(r), Worth(p, at, r, e, proven', Ways')
  PROVE  TriedInv'
<1>1. Shape'
  BY DEF TriedInv, Shape, Moves
<1>2. HeldTried'
  <2> SUFFICES ASSUME NEW q \in Proc
               PROVE  Worth(q, pc'[q], result'[q], recipe'[q], proven', Ways')
    BY DEF HeldTried
  <2>1. CASE q = p
    BY <2>1 DEF TriedInv, Shape, Moves
  <2>2. CASE q # p
    <3>1. pc'[q] = pc[q] /\ result'[q] = result[q] /\ recipe'[q] = recipe[q]
      BY <2>2 DEF TriedInv, Shape, Moves
    <3> QED
      BY <3>1, WorthStays DEF TriedInv, HeldTried
  <2> QED
    BY <2>1, <2>2
<1> QED
  BY <1>1, <1>2 DEF TriedInv

(* A variable that does not change is that of a process that moves.         *)
LEMMA Unmoved ==
  ASSUME Shape, NEW p \in Proc
  PROVE  /\ pc = [pc EXCEPT ![p] = pc[p]]
         /\ result = [result EXCEPT ![p] = result[p]]
         /\ recipe = [recipe EXCEPT ![p] = recipe[p]]
  BY DEF Shape

LEMMA EndTried ==
  ASSUME TriedInv, RecipeInv', RowsTried', HistoryGrows, NEW p \in Proc, End(p)
  PROVE  TriedInv'
<1>1. Moves(p, "ended", NoResult, NoValue)
  BY DEF End, Moves
<1>2. IsResult(NoResult) /\ Worth(p, "ended", NoResult, NoValue, proven', Ways')
  BY DEF IsResult, NoResult, Worth
<1> QED
  BY <1>1, <1>2, ProcessStep

(* The discovery: it holds no recipe, and a form is told a success by the   *)
(* step that hands it on.                                                   *)
LEMMA DiscoverTried ==
  ASSUME TriedInv, RecipeInv', NEW p \in Proc, Discover(p)
  PROVE  TriedInv'
<1>1. HistoryGrows
  BY DEF Discover, FillForm, SubmitForm, WaitForResults, PhaseFails, Extract, End,
         HistoryGrows, Ways
<1>2. RowsTried'
  <2>1. UNCHANGED table
    BY DEF Discover, FillForm, SubmitForm, WaitForResults, PhaseFails, Extract
  <2> QED
    BY <2>1, <1>1, RowsStay DEF TriedInv
<1>3. IsResult(result[p]) /\ Worth(p, pc[p], result[p], recipe[p], proven, Ways)
  BY DEF TriedInv, Shape, HeldTried
<1>4. \A v : IsResult([result[p] EXCEPT !.form = v])
  BY <1>3 DEF IsResult
<1>5. \A v : IsResult([result[p] EXCEPT !.empty = v])
  BY <1>3 DEF IsResult
<1>6. \A v : /\ IsResult([result[p] EXCEPT !.structure = v])
             /\ [result[p] EXCEPT !.structure = v].form = result[p].form
  BY <1>3 DEF IsResult
<1>7. CASE FillForm(p)
  <2> DEFINE r == [result[p] EXCEPT !.form = site.version]
  <2>1. Moves(p, "submit", r, recipe[p])
    BY <1>7, Unmoved DEF FillForm, At, Moves, TriedInv
  <2>2. Worth(p, "submit", r, recipe[p], proven', Ways')
    BY <1>7, <1>3 DEF FillForm, At, Worth
  <2> QED
    BY <2>1, <2>2, <1>1, <1>2, <1>4, ProcessStep
<1>8. CASE SubmitForm(p)
  <2>1. Moves(p, "results", result[p], recipe[p])
    BY <1>8, Unmoved DEF SubmitForm, At, Moves, TriedInv
  <2>2. Worth(p, "results", result[p], recipe[p], proven', Ways')
    BY <1>8, <1>3 DEF SubmitForm, At, Worth
  <2> QED
    BY <2>1, <2>2, <1>1, <1>2, <1>3, ProcessStep
<1>9. CASE WaitForResults(p)
  <2>1. PICK v : result' = [result EXCEPT ![p].empty = v]
    BY <1>9 DEF WaitForResults
  <2> DEFINE r == [result[p] EXCEPT !.empty = v]
  <2>2. Moves(p, "extract", r, recipe[p])
    BY <2>1, <1>9, Unmoved DEF WaitForResults, At, Moves, TriedInv
  <2>3. Worth(p, "extract", r, recipe[p], proven', Ways')
    BY <1>9, <1>3 DEF WaitForResults, At, Worth
  <2> QED
    BY <2>2, <2>3, <1>1, <1>2, <1>5, ProcessStep
<1>10. CASE PhaseFails(p)
  BY <1>10, <1>1, <1>2, EndTried DEF PhaseFails
<1>11. CASE Extract(p)
  <2>1. CASE End(p)
    BY <2>1, <1>1, <1>2, EndTried
  <2>2. CASE ~End(p)
    <3>1. PICK v : /\ pc' = [pc EXCEPT ![p] = "provision"]
                   /\ result' = [result EXCEPT ![p].structure = v]
                   /\ proven' = proven \cup {result[p].form}
                   /\ UNCHANGED recipe
      BY <2>2, <1>11 DEF Extract
    <3> DEFINE r == [result[p] EXCEPT !.structure = v]
    <3>2. Moves(p, "provision", r, recipe[p])
      BY <3>1, Unmoved DEF Moves, TriedInv
    <3>3. Worth(p, "provision", r, recipe[p], proven', Ways')
      BY <3>1, <1>11, <1>3, <1>6 DEF Extract, Worth
    <3> QED
      BY <3>2, <3>3, <1>1, <1>2, <1>6, ProcessStep
  <2> QED
    BY <2>1, <2>2
<1> QED
  BY <1>7, <1>8, <1>9, <1>10, <1>11 DEF Discover

(* The active recipe is that of a row, for there is one.                    *)
LEMMA ActiveIsARow ==
  ASSUME RecipeInv, RowsTried, Active # {}
  PROVE  WasTried(ActiveRecipe, proven, Ways)
<1>1. Cardinality(Active) = 1
  <2>1. table # << >>
    <3>1. PICK i \in DOMAIN table : TRUE
      BY DEF Active
    <3> QED
      BY <3>1
  <2> QED
    BY <2>1 DEF RecipeInv, OneActiveRecipe
<1>2. IsFiniteSet(Active)
  <2>1. PICK n \in Nat : table = [i \in 1..n |-> table[i]]
    BY DEF RecipeInv, Rows
  <2>2. Active \subseteq 1..n
    BY <2>1 DEF Active
  <2> QED
    <3>1. IsFiniteSet(1..n)
      BY FS_Interval
    <3> QED
      BY <3>1, <2>2, FS_Subset
<1>3. Active \subseteq Int
  BY DEF RecipeInv, Rows, Active
<1>4. PICK i : Active = {i}
  BY <1>1, <1>2, FS_Singleton
<1>5. Least(Active) = i
  BY <1>3, <1>4 DEF Least
<1> QED
  BY <1>4, <1>5 DEF ActiveRecipe, RowsTried, Active

(* A store: the recipe a process composes has a form that was proven, the   *)
(* one it loads is that of a stored row, and its way of refining was asked  *)
(* for by then or confirmed before.                                         *)
LEMMA ComposeTried ==
  ASSUME NoValueIsApart, TriedInv, RecipeInv', NEW p \in Proc, ComposeRecipe(p)
  PROVE  TriedInv'
<1>1. PICK refine \in {NoRefine, [NoRefine EXCEPT !.strategy = "navigate", !.url = <<"given", 0>>]} :
        /\ recipe' = [recipe EXCEPT ![p] = Recipe(result[p].form, result[p].structure, refine)]
        /\ asked' = asked \cup {refine}
  BY DEF ComposeRecipe
<1>2. HistoryGrows
  BY DEF ComposeRecipe, HistoryGrows, Ways
<1>3. RowsTried'
  BY <1>2, RowsStay DEF ComposeRecipe, TriedInv
<1> DEFINE e == Recipe(result[p].form, result[p].structure, refine)
<1>4. e.form = result[p].form /\ e.refine = refine /\ IsRecipe(e)
  BY <1>1 DEF Recipe, IsRecipe, IsRefine, NoRefine
<1>5. result[p].form \in proven
  BY DEF TriedInv, HeldTried, Worth, WasTried, IsRecipe, NoValueIsApart, ComposeRecipe
<1>6. WasTried(e, proven', Ways')
  <2> HIDE DEF e
  <2> QED
    BY <1>1, <1>4, <1>5 DEF WasTried, WayTried, Ways, ComposeRecipe
<1>7. IsResult(NoResult)
  BY DEF IsResult, NoResult
<1>8. Moves(p, "number", NoResult, e)
  BY <1>1, Unmoved DEF Moves, TriedInv, ComposeRecipe
<1>9. Worth(p, "number", NoResult, e, proven', Ways')
  <2> HIDE DEF e
  <2> QED
    BY <1>6 DEF Worth
<1> QED
  BY <1>2, <1>3, <1>7, <1>8, <1>9, ProcessStep

LEMMA LoadTried ==
  ASSUME NoValueIsApart, TriedInv, RecipeInv', NEW p \in Proc, LoadActive(p)
  PROVE  TriedInv'
<1>1. HistoryGrows
  BY DEF LoadActive, LoadForConfirmed, LoadForRefine, LoadForCookie, HistoryGrows, Ways
<1>2. RowsTried'
  BY <1>1, RowsStay DEF LoadActive, TriedInv
<1>3. CASE Active = {}
  BY <1>1, <1>2, <1>3, EndTried DEF LoadActive
<1>4. CASE Active # {}
  <2> DEFINE a == ActiveRecipe
             with(w) == [a EXCEPT !.refine = w]
  <2>1. WasTried(a, proven, Ways)
    BY <1>4, ActiveIsARow DEF TriedInv
  <2> HIDE DEF a
  <2>2. ASSUME NEW w, IsRefine(w), WayTried(w, Ways')
        PROVE  WasTried(with(w), proven', Ways')
    <3>1. with(w).form = a.form /\ with(w).refine = w /\ IsRecipe(with(w))
      BY <2>1, <2>2 DEF WasTried, IsRecipe
    <3> HIDE DEF with
    <3> QED
      BY <3>1, <2>1, <2>2, <1>1 DEF WasTried, HistoryGrows
  <2>3. ASSUME NEW w, IsRefine(w), WayTried(w, Ways'), pc' = [pc EXCEPT ![p] = "number"],
               recipe' = [recipe EXCEPT ![p] = with(w)], UNCHANGED result
        PROVE  TriedInv'
    <3>1. WasTried(with(w), proven', Ways')
      BY <2>2, <2>3
    <3> HIDE DEF with
    <3>2. Moves(p, "number", result[p], with(w))
      BY <2>3, Unmoved DEF Moves, TriedInv
    <3>3. Worth(p, "number", result[p], with(w), proven', Ways')
      BY <3>1 DEF Worth
    <3>4. IsResult(result[p])
      BY DEF TriedInv, Shape
    <3> QED
      BY <3>2, <3>3, <3>4, <1>1, <1>2, ProcessStep
  <2>4. CASE LoadForRefine(p)
    <3>1. PICK way \in {<<"navigate", <<"given", 0>>>>, <<"in_place", NoValue>>, <<"none", NoValue>>} :
            LET refine == [a.refine EXCEPT !.strategy = way[1], !.url = way[2]]
            IN  /\ recipe' = [recipe EXCEPT ![p] = with(refine)]
                /\ asked' = asked \cup {refine}
      BY <2>4 DEF LoadForRefine, a
    <3> DEFINE refine == [a.refine EXCEPT !.strategy = way[1], !.url = way[2]]
    <3>2. IsRefine(refine)
      BY <2>1, RefineUpdated DEF WasTried, IsRecipe
    <3> HIDE DEF with, refine
    <3>3. recipe' = [recipe EXCEPT ![p] = with(refine)] /\ refine \in asked'
      BY <3>1 DEF refine
    <3>4. WayTried(refine, Ways')
      BY <3>3 DEF WayTried, Ways
    <3>5. pc' = [pc EXCEPT ![p] = "number"] /\ UNCHANGED result
      BY <1>4 DEF LoadActive
    <3> QED
      BY <3>2, <3>3, <3>4, <3>5, <2>3
  <2>5. CASE LoadForConfirmed(p)
    <3> DEFINE w == recipe[p].refine
    <3>1. IsRefine(w) /\ WayTried(w, Ways)
      BY <2>5 DEF TriedInv, HeldTried, Worth, IsRecipe, LoadActive, LoadForConfirmed
    <3>2. recipe' = [recipe EXCEPT ![p] = with(w)]
      BY <2>5 DEF LoadForConfirmed, a
    <3>3. pc' = [pc EXCEPT ![p] = "number"] /\ UNCHANGED result
      BY <1>4 DEF LoadActive
    <3>4. WayTried(w, Ways')
      BY <3>1, <1>1 DEF WayTried, HistoryGrows
    <3> HIDE DEF with, w
    <3> QED
      BY <3>1, <3>2, <3>3, <3>4, <2>3
  <2>6. CASE LoadForCookie(p)
    <3>1. recipe' = [recipe EXCEPT ![p] = a]
      BY <2>6 DEF LoadForCookie, a
    <3>2. pc' = [pc EXCEPT ![p] = "number"] /\ UNCHANGED result
      BY <1>4 DEF LoadActive
    <3>3. Moves(p, "number", result[p], a)
      BY <3>1, <3>2, Unmoved DEF Moves, TriedInv
    <3>4. WasTried(a, proven', Ways')
      BY <2>1, <1>1 DEF WasTried, WayTried, HistoryGrows
    <3>5. Worth(p, "number", result[p], a, proven', Ways')
      BY <3>4 DEF Worth
    <3>6. IsResult(result[p])
      BY DEF TriedInv, Shape
    <3> QED
      BY <3>3, <3>5, <3>6, <1>1, <1>2, ProcessStep
  <2> QED
    BY <1>4, <2>4, <2>5, <2>6 DEF LoadActive
<1> QED
  BY <1>3, <1>4

(* The file an import reads vouches for its recipe.                         *)
LEMMA FileTried ==
  ASSUME TriedInv, RecipeInv', NEW p \in Proc, ReadFile(p)
  PROVE  TriedInv'
<1>1. PICK e \in Documents :
        /\ recipe' = [recipe EXCEPT ![p] = e]
        /\ IF e = NoValue THEN UNCHANGED <<proven, asked>>
           ELSE proven' = proven \cup {e.form} /\ asked' = asked \cup {e.refine}
  BY DEF ReadFile
<1>2. UNCHANGED <<table, result, tried>> /\ pc' = [pc EXCEPT ![p] = "provision"] /\ p \in Importers
  BY DEF ReadFile, At
<1>3. HistoryGrows
  BY <1>1, <1>2 DEF HistoryGrows, Ways
<1>4. RowsTried'
  BY <1>2, <1>3, RowsStay DEF TriedInv
<1>5. e = NoValue \/ WasTried(e, proven', Ways')
  <2>1. CASE e # NoValue
    <3>1. IsRecipe(e)
      BY <2>1, DocumentsAssumption
    <3>2. e.form \in proven' /\ e.refine \in Ways'
      BY <1>1, <2>1 DEF Ways
    <3> QED
      BY <3>1, <3>2 DEF WasTried, WayTried
  <2> QED
    BY <2>1
<1>6. Moves(p, "provision", result[p], e)
  BY <1>1, <1>2, Unmoved DEF Moves, TriedInv
<1>7. Worth(p, "provision", result[p], e, proven', Ways')
  BY <1>2, <1>5 DEF Worth
<1>8. IsResult(result[p])
  BY DEF TriedInv, Shape
<1> QED
  BY <1>3, <1>4, <1>6, <1>7, <1>8, ProcessStep

(* The insert adds the recipe the process holds and keeps the others.       *)
LEMMA InsertTried ==
  ASSUME TriedInv, RecipeInv', NEW p \in Proc, InsertRecipe(p)
  PROVE  TriedInv'
<1>1. HistoryGrows
  BY DEF InsertRecipe, HistoryGrows, Ways
<1>2. WasTried(recipe[p], proven, Ways)
  BY DEF TriedInv, HeldTried, Worth, InsertRecipe
<1>3. CASE Active \subseteq tx[p].off
  <2>1. PICK n \in Nat : table = [i \in 1..n |-> table[i]] /\ \A i \in 1..n : IsRow(table[i])
    BY DEF TriedInv, RecipeInv, Rows
  <2> DEFINE off(i) == [table[i] EXCEPT !.active = @ /\ i \notin tx[p].off]
             new == Row(tx[p].next, recipe[p])
  <2>2. \A i \in 1..n : off(i).recipe = table[i].recipe
    BY <2>1 DEF IsRow
  <2>3. new.recipe = recipe[p]
    BY DEF Row
  <2>4. table' = Append([i \in 1..n |-> off(i)], new)
    BY <1>3, <2>1 DEF InsertRecipe
  <2> HIDE DEF off, new
  <2>5. table' = [i \in 1..(n + 1) |-> IF i = n + 1 THEN new ELSE off(i)]
    BY <2>4
  <2>6. \A i \in 1..n : WasTried(table[i].recipe, proven, Ways)
    BY <2>1 DEF TriedInv, RowsTried
  <2>7. \A i \in DOMAIN table' : WasTried(table'[i].recipe, proven, Ways)
    <3> SUFFICES ASSUME NEW i \in 1..(n + 1) PROVE WasTried(table'[i].recipe, proven, Ways)
      BY <2>5
    <3>1. CASE i = n + 1
      BY <3>1, <2>3, <2>5, <1>2
    <3>2. CASE i # n + 1
      BY <3>2, <2>2, <2>5, <2>6
    <3> QED
      BY <3>1, <3>2
  <2>8. RowsTried'
    BY <2>7 DEF RowsTried, InsertRecipe, Ways
  <2>9. CASE End(p)
    BY <2>9, <2>8, <1>1, EndTried
  <2>10. CASE ~End(p)
    <3>1. pc' = [pc EXCEPT ![p] = "probe"] /\ UNCHANGED <<result, recipe>>
      BY <1>3, <2>10 DEF InsertRecipe
    <3>2. Moves(p, "probe", result[p], recipe[p])
      BY <3>1, Unmoved DEF Moves, TriedInv
    <3>3. Worth(p, "probe", result[p], recipe[p], proven', Ways')
      BY <1>2 DEF Worth, WasTried
    <3>4. IsResult(result[p])
      BY DEF TriedInv, Shape
    <3> QED
      BY <3>2, <3>3, <3>4, <2>8, <1>1, ProcessStep
  <2> QED
    BY <2>9, <2>10
<1>4. CASE ~(Active \subseteq tx[p].off)
  <2>1. End(p) /\ UNCHANGED table
    BY <1>4 DEF InsertRecipe
  <2> QED
    BY <2>1, <1>1, RowsStay, EndTried DEF TriedInv
<1> QED
  BY <1>3, <1>4

LEMMA StoreTried ==
  ASSUME NoValueIsApart, TriedInv, RecipeInv', NEW p \in Proc, Store(p)
  PROVE  TriedInv'
<1>1. ASSUME UNCHANGED <<table, proven, tried, asked>>
      PROVE  HistoryGrows /\ RowsTried'
  <2>1. HistoryGrows
    BY <1>1 DEF HistoryGrows, Ways
  <2> QED
    BY <2>1, <1>1, RowsStay DEF TriedInv
<1>2. IsResult(result[p]) /\ Worth(p, pc[p], result[p], recipe[p], proven, Ways)
  BY DEF TriedInv, Shape, HeldTried
<1>3. ASSUME NEW at, UNCHANGED <<table, proven, tried, asked>>,
             pc' = [pc EXCEPT ![p] = at], UNCHANGED <<result, recipe>>,
             Worth(p, at, result[p], recipe[p], proven, Ways)
      PROVE  TriedInv'
  <2>1. Moves(p, at, result[p], recipe[p])
    BY <1>3, Unmoved DEF Moves, TriedInv
  <2>2. Worth(p, at, result[p], recipe[p], proven', Ways')
    BY <1>1, <1>3, WorthStays
  <2> QED
    BY <1>1, <1>2, <1>3, <2>1, <2>2, ProcessStep
<1>4. CASE Provision(p)
  <2>1. /\ Worth(p, Registered(p), result[p], recipe[p], proven, Ways)
        /\ Worth(p, "insert_provider", result[p], recipe[p], proven, Ways)
    BY <1>4, <1>2 DEF Provision, At, Worth, Registered
  <2> HIDE DEF Registered
  <2> QED
    BY <2>1, <1>3, <1>4 DEF Provision, At
<1>5. CASE InsertProvider(p)
  <2>1. CASE known
    BY <2>1, <1>5, <1>1, EndTried DEF InsertProvider
  <2>2. CASE ~known
    <3>1. Worth(p, Registered(p), result[p], recipe[p], proven, Ways)
      BY <1>5, <1>2 DEF InsertProvider, Worth, Registered
    <3> QED
      BY <3>1, <2>2, <1>3, <1>5 DEF InsertProvider
  <2> QED
    BY <2>1, <2>2
<1>6. CASE ReadVersion(p)
  <2>1. /\ Worth(p, "deactivate", result[p], recipe[p], proven, Ways)
        /\ Worth(p, "deactivating", result[p], recipe[p], proven, Ways)
    BY <1>6, <1>2 DEF ReadVersion, At, Worth
  <2> QED
    BY <2>1, <1>3, <1>6 DEF ReadVersion, At
<1>7. CASE Deactivate(p)
  <2>1. Worth(p, "deactivating", result[p], recipe[p], proven, Ways)
    BY <1>7, <1>2 DEF Deactivate, At, Worth
  <2> QED
    BY <2>1, <1>3, <1>7 DEF Deactivate, At
<1>8. CASE Deactivated(p)
  <2>1. Worth(p, "insert", result[p], recipe[p], proven, Ways)
    BY <1>8, <1>2 DEF Deactivated, At, Worth
  <2> QED
    BY <2>1, <1>3, <1>8 DEF Deactivated, At
<1>9. CASE Compare(p)
  <2>1. CASE End(p)
    BY <2>1, <1>9, <1>1, EndTried DEF Compare
  <2>2. CASE ~End(p)
    <3>1. /\ recipe[p] # NoValue /\ pc[p] = "compare"
          /\ pc' = [pc EXCEPT ![p] = "number"] /\ UNCHANGED <<result, recipe>>
      BY <2>2, <1>9 DEF Compare
    <3>2. Worth(p, "number", result[p], recipe[p], proven, Ways)
      BY <3>1, <1>2 DEF Worth
    <3> QED
      BY <3>1, <3>2, <1>3, <1>9 DEF Compare
  <2> QED
    BY <2>1, <2>2
<1> QED
  BY <1>4, <1>5, <1>6, <1>7, <1>8, <1>9, ComposeTried, LoadTried, InsertTried, FileTried DEF Store

(* A probe hands a way of refining on to a store only once a search has     *)
(* changed its dates that way.                                              *)
LEMMA ProbeTried ==
  ASSUME TriedInv, RecipeInv', NEW p \in Proc, Probe(p)
  PROVE  TriedInv'
<1>1. HistoryGrows
  BY DEF Probe, StartReprobe, StartSetRecipe, ReachResults, FindCandidate, ConfirmRefine,
         ProbeFails, HistoryGrows, Ways
<1>2. UNCHANGED table
  BY DEF Probe, StartReprobe, StartSetRecipe, ReachResults, FindCandidate, ConfirmRefine,
         ProbeFails
<1>3. RowsTried'
  BY <1>1, <1>2, RowsStay DEF TriedInv
<1>4. IsResult(result[p]) /\ Worth(p, pc[p], result[p], recipe[p], proven, Ways)
  BY DEF TriedInv, Shape, HeldTried
<1>5. CASE StartReprobe(p)
  <2>1. IsRecipe(ActiveRecipe)
    BY <1>5, ActiveIsARow DEF StartReprobe, TriedInv, WasTried
  <2>2. Moves(p, "probe", result[p], ActiveRecipe)
    BY <1>5, Unmoved DEF StartReprobe, At, Moves, TriedInv
  <2>3. Worth(p, "probe", result[p], ActiveRecipe, proven', Ways')
    BY <2>1 DEF Worth
  <2> QED
    BY <2>2, <2>3, <1>1, <1>3, <1>4, ProcessStep
<1>6. CASE StartSetRecipe(p)
  <2>1. Moves(p, "load", result[p], recipe[p])
    BY <1>6, Unmoved DEF StartSetRecipe, At, Moves, TriedInv
  <2>2. Worth(p, "load", result[p], recipe[p], proven', Ways')
    BY <1>6, <1>4 DEF StartSetRecipe, At, Worth
  <2> QED
    BY <2>1, <2>2, <1>1, <1>3, <1>4, ProcessStep
<1>7. CASE ReachResults(p)
  <2>1. Moves(p, "discover", result[p], recipe[p])
    BY <1>7, Unmoved DEF ReachResults, Moves, TriedInv
  <2>2. Worth(p, "discover", result[p], recipe[p], proven', Ways')
    BY <1>7, <1>4 DEF ReachResults, Worth
  <2> QED
    BY <2>1, <2>2, <1>1, <1>3, <1>4, ProcessStep
<1>8. CASE FindCandidate(p)
  <2>1. PICK w, v :
          w \in Candidates /\ recipe' = [recipe EXCEPT ![p].refine = w, ![p].type = v]
    BY <1>8 DEF FindCandidate
  <2> DEFINE e == [[recipe[p] EXCEPT !.refine = w] EXCEPT !.type = v]
  <2>2. recipe' = [recipe EXCEPT ![p] = e]
    BY <2>1 DEF TriedInv, Shape
  <2>3. IsRefine(w)
    BY <2>1 DEF Candidates, IsRefine, NoRefine
  <2>4. IsRecipe(recipe[p])
    BY <1>8, <1>4 DEF FindCandidate, At, Worth
  <2>5. IsRecipe(e)
    BY <2>3, <2>4, RecipeUpdated
  <2> HIDE DEF e
  <2>6. Moves(p, "confirm", result[p], e)
    BY <2>2, <1>8, Unmoved DEF FindCandidate, At, Moves, TriedInv
  <2>7. Worth(p, "confirm", result[p], e, proven', Ways')
    BY <2>5 DEF Worth
  <2> QED
    BY <2>6, <2>7, <1>1, <1>3, <1>4, ProcessStep
<1>9. CASE ConfirmRefine(p)
  <2>1. Moves(p, "load", result[p], recipe[p])
    BY <1>9, Unmoved DEF ConfirmRefine, At, Moves, TriedInv
  <2>2. WayTried(recipe[p].refine, Ways')
    <3>1. Trial(recipe[p]).refine = recipe[p].refine /\ Trial(recipe[p]) \in tried'
      BY <1>9 DEF ConfirmRefine, Trial
    <3> QED
      BY <3>1 DEF WayTried, Ways
  <2>3. Worth(p, "load", result[p], recipe[p], proven', Ways')
    BY <2>2, <1>9, <1>4 DEF ConfirmRefine, At, Worth
  <2> QED
    BY <2>1, <2>3, <1>1, <1>3, <1>4, ProcessStep
<1>10. CASE ProbeFails(p)
  BY <1>10, <1>1, <1>3, EndTried DEF ProbeFails
<1> QED
  BY <1>5, <1>6, <1>7, <1>8, <1>9, <1>10 DEF Probe

LEMMA NextTried ==
  ASSUME NoValueIsApart, TriedInv, [Next]_vars
  PROVE  TriedInv'
<1>1. RecipeInv'
  BY NextRecipes DEF TriedInv
<1>2. ASSUME NEW p \in Proc, Kill(p) PROVE TriedInv'
  <2>1. HistoryGrows /\ UNCHANGED table
    BY <1>2 DEF Kill, HistoryGrows, Ways
  <2> QED
    BY <2>1, <1>1, <1>2, RowsStay, EndTried DEF Kill, TriedInv
<1>3. CASE Redesign \/ Ended \/ UNCHANGED vars
  <2>1. UNCHANGED <<table, pc, result, recipe, proven, tried, asked>>
    BY <1>3 DEF Redesign, Ended, vars
  <2> QED
    BY <2>1, <1>1 DEF TriedInv, Shape, RowsTried, HeldTried, Ways
<1> QED
  BY <1>1, <1>2, <1>3, DiscoverTried, StoreTried, ProbeTried DEF Next

(* Every stored version has a form whose discovery succeeded and a way of   *)
(* changing dates that was confirmed, or they were given, each of the two   *)
(* on its own, whatever programs discover, probe, import and store at once  *)
(* and however often the site changes (scrape, discover_refine_link).       *)
THEOREM PartsAreNoGuess ==
  ASSUME NoValueIsApart
  PROVE  Spec => []NoPartIsAGuess
<1>1. TriedInv => NoPartIsAGuess
  BY DEF TriedInv, RowsTried, NoPartIsAGuess, WasTried, WayTried, Ways
<1>2. TriedInv /\ [Next]_vars => TriedInv'
  BY NextTried
<1> QED
  BY InitTried, <1>1, <1>2, PTL DEF Spec
=============================================================================
