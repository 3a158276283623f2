--------------------------- MODULE CategoryCatalog --------------------------
(***************************************************************************)
(* The ACRISS code of each vehicle category of one (provider, location,    *)
(* rate): how a scrape run decides whether a code can be reused, when it   *)
(* writes it, and what happens when the classifier fails or an operator    *)
(* reclassifies meanwhile (scripts/reclassify_all.py).  Attributes are     *)
(* what attributes_hash covers; one run is alive at a time.                *)
(***************************************************************************)
EXTENDS Integers, FiniteSets

CONSTANTS Groups,      \* vehicle groups, the external codes of categories
          Attrs,       \* values of (example_models, seats, luggage)
          Codes,       \* ACRISS codes
          None,        \* no row, no code, not listed, no result
          MaxScrapes   \* bound on the number of runs

ASSUME CatalogAssumption == None \notin Attrs \cup Codes /\ MaxScrapes \in Nat

VARIABLES pvc,         \* provider_vehicle_categories row of each group, or None
          pc,          \* step of the run: "idle", "classify", "pvcs", "extract"
          listed,      \* attributes of each group's first car in the probe
          results,     \* classification each group got in this run, or None
          loaded,      \* rows the operator's script has read, or None
          scrapes,     \* number of runs started
          reused,      \* history: groups whose code was reused in this run
          unsettled    \* history: groups whose attributes changed under their code

catalogVars == <<pvc, pc, listed, results, loaded, scrapes, reused, unsettled>>

\* certain is ~pending_review; of (history) is what the code was computed for.
CategoryRow == [attrs : Attrs, code : Codes \cup {None}, certain : BOOLEAN, of : Attrs \cup {None}]
Result == [code : Codes \cup {None}, certain : BOOLEAN, of : Attrs \cup {None}]

\* The classifier answers a code it is sure of, a code to review, or none.
Verdicts == [code : Codes, certain : BOOLEAN] \cup {[code |-> None, certain |-> FALSE]}
OfVerdict(verdict, attrs) == IF verdict.code = None THEN None ELSE attrs

Pages == [Groups -> Attrs \cup {None}]
Existing == {g \in Groups : pvc[g] # None}

Pending == [code |-> None, certain |-> FALSE, of |-> None]

UpsertOverwriting(row, attrs, result) ==
    [attrs |-> attrs, code |-> result.code, certain |-> result.certain, of |-> result.of]

\* upsert_seen and its pending-review policy: an uncertain result never
\* replaces a code, it only flags it.
UpsertSeen(row, attrs, result) ==
    IF row # None /\ ~result.certain /\ row.code # None
    THEN [row EXCEPT !.attrs = attrs, !.certain = FALSE]
    ELSE [attrs |-> attrs, code |-> result.code, certain |-> result.certain, of |-> result.of]

-----------------------------------------------------------------------------
CatalogInit ==
    /\ pvc = [g \in Groups |-> None]
    /\ pc = "idle"
    /\ listed = [g \in Groups |-> None]
    /\ results = [g \in Groups |-> None]
    /\ loaded = None
    /\ scrapes = 0
    /\ reused = {}
    /\ unsettled = {}

Probe(page) ==
    /\ pc = "idle"
    /\ scrapes < MaxScrapes
    /\ scrapes' = scrapes + 1
    /\ pc' = "classify"
    /\ listed' = page
    /\ results' = [g \in Groups |-> None]
    /\ reused' = {}
    /\ UNCHANGED <<pvc, loaded, unsettled>>

\* _load_cached_classifications and the partition: a stored code is reused
\* when the attributes listed now are the ones stored with it.
ReusableByCode(g) == g \in Existing /\ pvc[g].code # None /\ listed[g] # None
Reusable(g) ==
    /\ g \in Existing
    /\ pvc[g].code # None
    /\ pvc[g].attrs = listed[g]

\* _classify_probe_catalog: the other listed groups go to the classifier.
Classify(verdict) ==
    /\ pc = "classify"
    /\ reused' = {g \in Groups : listed[g] # None /\ Reusable(g)}
    /\ results' = [g \in Groups |->
          IF listed[g] = None THEN None
          ELSE IF g \in reused'
               THEN [code |-> pvc[g].code, certain |-> pvc[g].certain, of |-> pvc[g].of]
               ELSE [code |-> verdict[g].code, certain |-> verdict[g].certain,
                     of |-> OfVerdict(verdict[g], listed[g])]]
    /\ pc' = "pvcs"
    /\ UNCHANGED <<pvc, listed, loaded, scrapes, unsettled>>

\* One upsert per listed group, in one transaction.
PersistPvcs ==
    /\ pc = "pvcs"
    /\ pvc' = [g \in Groups |->
          IF listed[g] = None THEN pvc[g] ELSE UpsertSeen(pvc[g], listed[g], results[g])]
    /\ unsettled' = unsettled \ {g \in Groups : listed[g] # None /\ g \notin reused}
    /\ pc' = "extract"
    /\ UNCHANGED <<listed, results, loaded, scrapes, reused>>

\* Phase 3 upserts the groups of its own pages with the results of phase 2; a
\* group the probe did not list gets the pending fallback.  The last car of a
\* group decides its attributes.
PersistObservations(page) ==
    /\ pc = "extract"
    /\ pvc' = [g \in Groups |->
          IF page[g] = None THEN pvc[g]
          ELSE UpsertSeen(pvc[g], page[g], IF results[g] # None THEN results[g] ELSE Pending)]
    /\ unsettled' = unsettled \cup
          {g \in Groups : page[g] # None /\ listed[g] # None /\ page[g] # listed[g]}
    /\ pc' = "idle"
    /\ UNCHANGED <<listed, results, loaded, scrapes, reused>>

\* The run fails or is killed between two transactions.
Abort ==
    /\ pc # "idle"
    /\ pc' = "idle"
    /\ UNCHANGED <<pvc, listed, results, loaded, scrapes, reused, unsettled>>

\* reclassify_all reads the categories, waits for the language model, then
\* writes; only the columns it changed are part of its UPDATE.
OperatorReads ==
    /\ loaded = None
    /\ Existing # {}
    /\ loaded' = pvc
    /\ UNCHANGED <<pvc, pc, listed, results, scrapes, reused, unsettled>>

OperatorWrites(verdict) ==
    /\ loaded # None
    /\ LET old == {g \in Groups : loaded[g] # None}
           moved(g) == verdict[g].code # loaded[g].code
           flagged(g) == verdict[g].certain # loaded[g].certain
       IN  /\ pvc' = [g \in Groups |->
                 IF g \notin old THEN pvc[g]
                 ELSE [pvc[g] EXCEPT
                         !.code = IF moved(g) THEN verdict[g].code ELSE @,
                         !.certain = IF flagged(g) THEN verdict[g].certain ELSE @,
                         !.of = IF moved(g) \/ pvc[g].code = verdict[g].code
                                THEN OfVerdict(verdict[g], loaded[g].attrs) ELSE @]]
           /\ unsettled' = unsettled \cup {g \in old : pvc[g] # loaded[g]}
    /\ loaded' = None
    /\ UNCHANGED <<pc, listed, results, scrapes, reused>>

Done == pc = "idle" /\ scrapes = MaxScrapes /\ UNCHANGED catalogVars

CatalogNext ==
    \/ \E page \in Pages : Probe(page)
    \/ \E verdict \in [Groups -> Verdicts] : Classify(verdict)
    \/ PersistPvcs
    \/ \E page \in Pages : PersistObservations(page)
    \/ Abort
    \/ Done
    \/ OperatorReads
    \/ \E verdict \in [Groups -> Verdicts] : OperatorWrites(verdict)

CatalogSpec == CatalogInit /\ [][CatalogNext]_catalogVars

-----------------------------------------------------------------------------
\* Rows, results and the script's copy have their types.
CatalogTypeOK ==
    /\ pvc \in [Groups -> CategoryRow \cup {None}]
    /\ pc \in {"idle", "classify", "pvcs", "extract"}
    /\ listed \in Pages
    /\ results \in [Groups -> Result \cup {None}]
    /\ loaded \in [Groups -> CategoryRow \cup {None}] \cup {None}
    /\ scrapes \in 0..MaxScrapes
    /\ reused \in SUBSET Groups /\ unsettled \in SUBSET Groups

\* A code that nobody is asked to review was computed for the attributes it is
\* stored with, over reuse, failures and aborted runs.  The two ways out are
\* counted in unsettled: phase 3 storing other attributes than the probe's, and
\* the script writing over a row that changed since it was read.
CertainCodeFits ==
    \A g \in Existing \ unsettled :
        pvc[g].certain => pvc[g].code # None /\ pvc[g].of = pvc[g].attrs

\* A scrape run never takes the code of a category away, and replaces it only by
\* one the classifier was sure of.
ScrapeKeepsCodes ==
    [][loaded' = loaded => \A g \in Existing : pvc[g].code # None =>
          /\ pvc'[g].code # None
          /\ pvc'[g].code # pvc[g].code => pvc'[g].certain]_catalogVars

=============================================================================
