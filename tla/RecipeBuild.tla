---------------------------- MODULE RecipeBuild ----------------------------
(***************************************************************************)
(* The recipes of one provider: discovery by the language model            *)
(* (scraper_engine.scrape), the row it stores (build_recipe, save_recipe), *)
(* the probe for a way to change only the dates (discover_refine_link) and *)
(* the five programs that write a version of the recipe:                   *)
(*   run_build_recipe         discovers, stores, probes, stores again      *)
(*   reprobe_refine           probes with the active recipe, stores        *)
(*   set_recipe_refine        stores the way of refining it is given       *)
(*   set_recipe_cookie        stores the cookie selector it is given       *)
(*   import_provider_catalog  stores the recipe of a file, or registers    *)
(*                            the provider of a file that has none         *)
(* They run when a person starts them, so several at a time, each may be   *)
(* killed, and the provider may redesign its site between any two steps.   *)
(*                                                                         *)
(* A transaction is READ COMMITTED: an UPDATE picks its rows when it       *)
(* starts, waits for the ones another transaction has changed, and looks   *)
(* at them again when it gets them.                                        *)
(***************************************************************************)
EXTENDS ResultsExtraction

CONSTANTS Builders,     \* the runs of run_build_recipe
          Tuners,       \* the runs of reprobe_refine or a set_recipe program
          Importers,    \* the runs of import_provider_catalog
          Documents,    \* the recipes of its files, NoValue when one has none
          Layouts,      \* what a site may look like: [page, control, written]
          Listings(_),  \* what the model may tell of a page
          Structures(_),\* what it may propose for a page
          MaxRedesigns  \* bound: redesigns of the site

Proc == Builders \cup Tuners \cup Importers

VARIABLES
  site,    \* the provider's site now: [layout, version]
  table,   \* provider_recipes, in the order of the inserts
  known,   \* whether the provider's catalogue rows are committed
  pc,      \* process -> where it is
  result,  \* process -> the ScrapeResult of its discovery
  recipe,  \* process -> the recipe it holds
  tx,      \* process -> its open transaction [fresh, next, target, off]
  proven,  \* history: forms of a discovery told a success, or of a file
  tried,   \* history: trials that changed the dates of a search
  asked    \* history: ways of refining a person or a file gave

vars == <<site, table, known, pc, result, recipe, tx, proven, tried, asked>>

NoResult == [form |-> NoValue, empty |-> FALSE, structure |-> NoValue]
NoTx == [fresh |-> FALSE, next |-> 0, target |-> {}, off |-> {}]
NoRefine == [strategy |-> "none", url |-> NoValue, open |-> NoValue]

\* type is the refine_open_selector_type, kept apart from the way of refining
\* because discover_refine_link does not return it.
Recipe(form, structure, refine) ==
  [form |-> form, structure |-> structure, refine |-> refine, type |-> "css"]

IsRefine(w) == w = [strategy |-> w.strategy, url |-> w.url, open |-> w.open]
IsRecipe(r) ==
  /\ r = [form |-> r.form, structure |-> r.structure, refine |-> r.refine, type |-> r.type]
  /\ IsRefine(r.refine)

\* A file is the export of an active recipe.
ASSUME DocumentsAssumption == \A r \in Documents \ {NoValue} : IsRecipe(r)

Row(next, r) == [version |-> next, recipe |-> r, active |-> TRUE]

\* A trial of a way of refining: with which form, its selector under which type.
Trial(r) == [form |-> r.form, refine |-> r.refine, type |-> r.type]

Active == {i \in DOMAIN table : table[i].active}

ActiveRecipe == table[Least(Active)].recipe

NextVersion == LET versions == {table[i].version : i \in DOMAIN table}
               IN  1 + CHOOSE v \in versions \cup {0} : \A w \in versions : w <= v

Init == /\ site \in [layout : Layouts, version : {0}]
        /\ table = << >> /\ known = FALSE
        /\ pc = [p \in Proc |-> "start"]
        /\ result = [p \in Proc |-> NoResult]
        /\ recipe = [p \in Proc |-> NoValue]
        /\ tx = [p \in Proc |-> NoTx]
        /\ proven = {} /\ tried = {} /\ asked = {}

At(p, here, there) == pc[p] = here /\ pc' = [pc EXCEPT ![p] = there]

\* The program ends, well or badly: what it held is gone, and a transaction it
\* had not committed is rolled back.
End(p) == /\ pc' = [pc EXCEPT ![p] = "ended"]
          /\ result' = [result EXCEPT ![p] = NoResult]
          /\ recipe' = [recipe EXCEPT ![p] = NoValue]
          /\ tx' = [tx EXCEPT ![p] = NoTx]

\* The waiter takes a page with enough prices for a page of cars before it
\* looks for the text that says there are none.
MaySayEmpty(page) == Cardinality({n \in DOMAIN page.text : page.text[n].visible}) < MinCards

-----------------------------------------------------------------------------
(* Discovery: scrape().  A phase that fails ends it without a recipe.      *)

\* A form with no submit button fails in the form phase too.
FillForm(p) ==
  /\ p \in Builders
  /\ At(p, "start", "submit")
  /\ result' = [result EXCEPT ![p].form = site.version]
  /\ UNCHANGED <<site, table, known, recipe, tx, proven, tried, asked>>

SubmitForm(p) ==
  /\ At(p, "submit", "results")
  /\ UNCHANGED <<site, table, known, result, recipe, tx, proven, tried, asked>>

WaitForResults(p) ==
  /\ At(p, "results", "extract")
  /\ \E empty \in {FALSE, MaySayEmpty(site.layout.page)} :
       result' = [result EXCEPT ![p].empty = empty]
  /\ UNCHANGED <<site, table, known, recipe, tx, proven, tried, asked>>

\* The phase a discovery may fail in: cookies, form, submit, results.
PhaseFails(p) ==
  /\ p \in Builders /\ pc[p] \in {"start", "submit", "results"}
  /\ End(p)
  /\ UNCHANGED <<site, table, known, proven, tried, asked>>

\* An extraction that raises counts as one that reads nothing.
Discovered(empty, llm, dom) == IF llm = << >> THEN empty ELSE Verify(llm, dom)

\* The two extractions and their comparison.
Extract(p) ==
  /\ pc[p] = "extract"
  /\ LET page == site.layout.page IN
     \E llm \in Listings(page), structure \in Structures(page) \cup {NoValue} :
       IF Discovered(result[p].empty, llm, ExtractDom(page, structure))
       THEN /\ pc' = [pc EXCEPT ![p] = "provision"]
            /\ result' = [result EXCEPT ![p].structure = AsRecipe(structure)]
            /\ proven' = proven \cup {result[p].form}
            /\ UNCHANGED <<recipe, tx>>
       ELSE End(p) /\ UNCHANGED proven
  /\ UNCHANGED <<site, table, known, tried, asked>>

-----------------------------------------------------------------------------
(* The transactions that write.                                            *)

\* The file an import was given.
ReadFile(p) ==
  /\ p \in Importers
  /\ At(p, "start", "provision")
  /\ \E document \in Documents :
       /\ recipe' = [recipe EXCEPT ![p] = document]
       /\ IF document = NoValue THEN UNCHANGED <<proven, asked>>
          ELSE proven' = proven \cup {document.form} /\ asked' = asked \cup {document.refine}
  /\ UNCHANGED <<site, table, known, result, tx, tried>>

Registered(p) == IF p \in Importers THEN "compare" ELSE "number"

Locked(p) == UNION {tx[q].off : q \in Proc \ {p}}

\* get_or_create of provider, location and rate: looks the row up, inserts it
\* when there is none.  The insert waits for another's uncommitted one.
Provision(p) ==
  /\ At(p, "provision", IF known THEN Registered(p) ELSE "insert_provider")
  /\ UNCHANGED <<site, table, known, result, recipe, tx, proven, tried, asked>>

InsertProvider(p) ==
  /\ pc[p] = "insert_provider"
  /\ \A q \in Proc \ {p} : ~tx[q].fresh
  /\ IF known
     THEN End(p)  \* the unique key
     ELSE /\ pc' = [pc EXCEPT ![p] = Registered(p)]
          /\ tx' = [tx EXCEPT ![p].fresh = TRUE]
          /\ UNCHANGED <<result, recipe>>
  /\ UNCHANGED <<site, table, known, proven, tried, asked>>

\* build_recipe, with the way of refining given to --refine-url, or none.
ComposeRecipe(p) ==
  /\ p \in Builders /\ pc[p] = "number" /\ recipe[p] = NoValue
  /\ \E refine \in {NoRefine, [NoRefine EXCEPT !.strategy = "navigate", !.url = <<"given", 0>>]} :
       /\ recipe' = [recipe EXCEPT ![p] =
                       Recipe(result[p].form, result[p].structure, refine)]
       /\ asked' = asked \cup {refine}
  /\ result' = [result EXCEPT ![p] = NoResult]
  /\ UNCHANGED <<site, table, known, pc, tx, proven, tried>>

\* The stores after the first read the active recipe and change one thing in it.
\* A confirmed way of refining goes in without the type of its selector.
LoadForConfirmed(p) ==
  /\ recipe[p] # NoValue
  /\ recipe' = [recipe EXCEPT ![p] = [ActiveRecipe EXCEPT !.refine = recipe[p].refine]]
  /\ UNCHANGED asked

\* set_recipe_refine has probed nothing: it replaces the strategy and the URL by
\* the ones it was given.
LoadForRefine(p) ==
  /\ recipe[p] = NoValue
  /\ \E way \in {<<"navigate", <<"given", 0>>>>, <<"in_place", NoValue>>, <<"none", NoValue>>} :
       LET refine == [ActiveRecipe.refine EXCEPT !.strategy = way[1], !.url = way[2]]
       IN  /\ recipe' = [recipe EXCEPT ![p] = [ActiveRecipe EXCEPT !.refine = refine]]
           /\ asked' = asked \cup {refine}

\* set_recipe_cookie: the selector of the cookie button is not modelled.
LoadForCookie(p) ==
  /\ recipe[p] = NoValue
  /\ recipe' = [recipe EXCEPT ![p] = ActiveRecipe]
  /\ UNCHANGED asked

LoadActive(p) ==
  /\ pc[p] = "load"
  /\ IF Active = {}
     THEN End(p) /\ UNCHANGED asked
     ELSE /\ pc' = [pc EXCEPT ![p] = "number"]
          /\ LoadForConfirmed(p) \/ LoadForRefine(p) \/ LoadForCookie(p)
          /\ UNCHANGED <<result, tx>>
  /\ UNCHANGED <<site, table, known, proven, tried>>

\* An import reads the active row: it writes a version of another recipe only,
\* and switches off that row, by its key.
Compare(p) ==
  /\ p \in Importers /\ pc[p] = "compare"
  /\ IF recipe[p] = NoValue \/ (Active # {} /\ ActiveRecipe = recipe[p])
     THEN End(p) /\ known' = TRUE
     ELSE /\ pc' = [pc EXCEPT ![p] = "number"]
          /\ tx' = [tx EXCEPT ![p].target = Active]
          /\ UNCHANGED <<known, result, recipe>>
  /\ UNCHANGED <<site, table, proven, tried, asked>>

\* save_recipe reads max(version), then updates, then inserts.
ReadVersion(p) ==
  /\ recipe[p] # NoValue
  /\ At(p, "number", IF p \in Importers THEN "deactivating" ELSE "deactivate")
  /\ tx' = [tx EXCEPT ![p].next = NextVersion]
  /\ UNCHANGED <<site, table, known, result, recipe, proven, tried, asked>>

Deactivate(p) ==
  /\ At(p, "deactivate", "deactivating")
  /\ tx' = [tx EXCEPT ![p].target = Active]
  /\ UNCHANGED <<site, table, known, result, recipe, proven, tried, asked>>

\* Faulty: the update is committed before the insert.
DeactivatedCommitted(p) ==
  /\ At(p, "deactivating", "insert")
  /\ table' = [i \in DOMAIN table |-> [table[i] EXCEPT !.active = @ /\ i \notin tx[p].target]]
  /\ UNCHANGED <<site, known, result, recipe, tx, proven, tried, asked>>

Deactivated(p) ==
  /\ At(p, "deactivating", "insert")
  /\ tx[p].target \cap Locked(p) = {}
  /\ tx' = [tx EXCEPT ![p].off = IF p \in Importers THEN tx[p].target
                                 ELSE tx[p].target \cap Active]
  /\ UNCHANGED <<site, table, known, result, recipe, proven, tried, asked>>

\* The insert and the commit.  An active row that this transaction has not
\* deactivated is refused by the partial unique index.  A builder that was given
\* no way of refining goes on to look for one.
InsertRecipe(p) ==
  /\ pc[p] = "insert"
  /\ IF Active \subseteq tx[p].off
     THEN /\ table' = Append([i \in DOMAIN table |->
                                [table[i] EXCEPT !.active = @ /\ i \notin tx[p].off]],
                             Row(tx[p].next, recipe[p]))
          /\ known' = TRUE
          /\ IF p \in Builders /\ recipe[p].refine = NoRefine
             THEN /\ pc' = [pc EXCEPT ![p] = "probe"]
                  /\ tx' = [tx EXCEPT ![p] = NoTx]
                  /\ UNCHANGED <<result, recipe>>
             ELSE End(p)
     ELSE End(p) /\ UNCHANGED <<table, known>>
  /\ UNCHANGED <<site, proven, tried, asked>>

-----------------------------------------------------------------------------
(* The probe: run_recipe, discover_refine_link.                            *)

\* A recipe's selectors are those of the site it was discovered on.
Works(r) == r.form = site.version

\* reprobe_refine takes the active recipe, the other two go straight to their
\* transaction.  With no active recipe all stop.
StartReprobe(p) ==
  /\ p \in Tuners /\ Active # {}
  /\ At(p, "start", "probe")
  /\ recipe' = [recipe EXCEPT ![p] = ActiveRecipe]
  /\ UNCHANGED <<site, table, known, result, tx, proven, tried, asked>>

StartSetRecipe(p) ==
  /\ p \in Tuners /\ Active # {}
  /\ At(p, "start", "load")
  /\ UNCHANGED <<site, table, known, result, recipe, tx, proven, tried, asked>>

\* run_recipe succeeds with cars, or with none and the message that says so.
ReachResults(p) ==
  /\ pc[p] = "probe" /\ Works(recipe[p])
  /\ \/ MaySayEmpty(site.layout.page)
     \/ ReadCards(site.layout.page, recipe[p].structure) # << >>
  /\ pc' = [pc EXCEPT ![p] = "discover"]
  /\ UNCHANGED <<site, table, known, result, recipe, tx, proven, tried, asked>>

\* The date field in view, or the control the model names: clicked under the
\* type it says, css when it says none, it works only if it is written so.
Candidates ==
  CASE site.layout.control = "embedded" -> {[NoRefine EXCEPT !.strategy = "in_place"]}
    [] site.layout.control = "panel" ->
         {[NoRefine EXCEPT !.strategy = "in_place", !.open = site.layout.written]}
    [] site.layout.control = "page" ->
         {[NoRefine EXCEPT !.strategy = "navigate", !.url = <<"edit", site.version>>]}
    [] OTHER -> {}  \* there is no such control

\* The trial holds the type of the selector.
FindCandidate(p) ==
  /\ At(p, "discover", "confirm")
  /\ Works(recipe[p])
  /\ \E refine \in Candidates :
       recipe' = [recipe EXCEPT ![p].refine = refine,
                                ![p].type = IF refine.open = NoValue THEN "css"
                                            ELSE refine.open]
  /\ UNCHANGED <<site, table, known, result, tx, proven, tried, asked>>

\* Faulty: the candidate is taken as it was found.
ConfirmRefineUntried(p) ==
  /\ At(p, "confirm", "load")
  /\ UNCHANGED <<site, table, known, result, recipe, tx, proven, tried, asked>>

\* One search a week later, with the candidate.
ConfirmRefine(p) ==
  /\ At(p, "confirm", "load")
  /\ Works(recipe[p]) /\ recipe[p].refine \in Candidates
  /\ tried' = tried \cup {Trial(recipe[p])}
  /\ UNCHANGED <<site, table, known, result, recipe, tx, proven, asked>>

\* Any step of the probe may fail; it then leaves the recipe as it is.
ProbeFails(p) ==
  /\ pc[p] \in {"probe", "discover", "confirm"}
  /\ End(p)
  /\ UNCHANGED <<site, table, known, proven, tried, asked>>

-----------------------------------------------------------------------------
\* A program may be killed, or not be run at all.
Kill(p) == /\ pc[p] # "ended"
           /\ End(p)
           /\ UNCHANGED <<site, table, known, proven, tried, asked>>

Redesign ==
  /\ site.version < MaxRedesigns
  /\ \E layout \in Layouts : site' = [layout |-> layout, version |-> site.version + 1]
  /\ UNCHANGED <<table, known, pc, result, recipe, tx, proven, tried, asked>>

Store(p) == \/ ReadFile(p) \/ Compare(p)
            \/ Provision(p) \/ InsertProvider(p) \/ ComposeRecipe(p) \/ LoadActive(p)
            \/ ReadVersion(p) \/ Deactivate(p) \/ Deactivated(p) \/ InsertRecipe(p)

Discover(p) == FillForm(p) \/ SubmitForm(p) \/ WaitForResults(p) \/ PhaseFails(p) \/ Extract(p)

Probe(p) == \/ StartReprobe(p) \/ StartSetRecipe(p) \/ ReachResults(p)
            \/ FindCandidate(p) \/ ConfirmRefine(p) \/ ProbeFails(p)

Ended == (\A p \in Proc : pc[p] = "ended") /\ UNCHANGED vars

Next == \/ \E p \in Proc : Discover(p) \/ Store(p) \/ Probe(p) \/ Kill(p)
        \/ Redesign
        \/ Ended

Spec == Init /\ [][Next]_vars

-----------------------------------------------------------------------------
(* A provider that has a recipe has exactly one active version, and one is *)
(* registered without a recipe only by an import: whatever programs save   *)
(* at once, wherever one is killed between registering the provider,       *)
(* switching the old version off and inserting the new one (save_recipe,   *)
(* ensure, import_provider_catalog, the partial unique index).             *)
OneActiveRecipe == /\ table # << >> => known /\ Cardinality(Active) = 1
                   /\ known => table # << >> \/ \E p \in Importers : pc[p] = "ended"

(* No part of a version is a guess: its form is one whose discovery        *)
(* succeeded, and its way of changing dates changed those of some search,  *)
(* or a person or a catalogue file gave them, through every interleaving   *)
(* of discoveries, probes and stores.  That form and way were tried        *)
(* together is TriedTogether, which the code does not keep                 *)
(* (scrape, discover_refine_link, reprobe_refine).                         *)
NoPartIsAGuess ==
  \A i \in DOMAIN table :
    LET r == table[i].recipe
    IN  /\ r.form \in proven
        /\ \/ r.refine.strategy = "none"
           \/ r.refine \in asked \cup {t.refine : t \in tried}

(* A way of refining that nobody gave is stored with the form it was tried *)
(* on: reprobe_refine "VERIFIES the candidate with a real date change, and *)
(* saves a new active recipe version only on confirmation".  The store     *)
(* puts it into the recipe that is active by then.                         *)
(* Not kept by the code (README, section 3).                               *)
TriedTogether ==
  \A i \in DOMAIN table :
    LET r == table[i].recipe
    IN  \/ r.refine.strategy = "none" \/ r.refine \in asked
        \/ \E t \in tried : t.form = r.form /\ t.refine = r.refine

(* The control that opens the panel is stored so that it can be clicked    *)
(* again: it is returned because "the runtime must click it again on every *)
(* refine, so it is persisted in the recipe" (discover_refine_link).  The  *)
(* type under which it was clicked is not returned.                        *)
(* Not kept by the code (README, section 3).                               *)
OpenerCanBeClicked ==
  \A i \in DOMAIN table :
    LET r == table[i].recipe
    IN  r.refine.open = NoValue \/ r.refine \in asked
        \/ \E t \in tried : t.refine = r.refine /\ t.type = r.type

(* The versions of a provider are "monotonically increasing" in the order  *)
(* they were stored (DATA_MODEL.md); max(version) is read before the       *)
(* update that makes savers wait for one another (save_recipe).            *)
(* Not kept by the code (README, section 3).                               *)
VersionsIncrease ==
  \A i, j \in DOMAIN table : i < j => table[i].version < table[j].version
=============================================================================
