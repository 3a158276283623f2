---------------------------- MODULE Classification ---------------------------
(***************************************************************************)
(* The classification service around the engine: bundles of models, codes  *)
(* a provider declares, the language model that profiles unknown models,   *)
(* the review queue an operator works on, and the cache of /classify.      *)
(* Workers are a scrape and requests of the API; their database steps      *)
(* interleave with each other, with the operator and with deployments that *)
(* change the data files.                                                  *)
(***************************************************************************)
EXTENDS AcrissEngine

CONSTANTS Workers, Groups,   \* groups: [models, gear, seats, declared, source]
          Apis,              \* the workers that serve /classify, one model each
          Data,              \* the data files of each version, a sequence
          Codes,             \* materialised codes, acriss_codes.yaml
          Profiles,          \* what the language model may say: [category, type, mode, conf]
          Answers,           \* ... as the classifier of a batch: items [code, conf, pending]
          BatchSize,         \* bound on the groups of such a batch
          MaxJobs            \* bound on the number of jobs

ASSUME JobsAssumption == Apis \subseteq Workers /\ MaxJobs \in Nat /\ BatchSize \in Nat

\* A request of the API tells the name of one model and nothing else.
ASSUME RequestAssumption ==
    \A g, h \in Groups : g.source = "adhoc" /\ h.source = "adhoc" /\ g.models = h.models => g = h
ASSUME GroupsAssumption ==
    \A g \in Groups : g.models \in Seq(Seq(STRING)) \ {<<>>}

\* Confidences are percentages, and the indexes of a version name its own entries.
ASSUME AnswersAssumption ==
    /\ \A profile \in Profiles : profile.conf \in 0..100
    /\ \A answer \in Answers : \A i \in DOMAIN answer : answer[i].conf \in 0..100
ASSUME DataAssumption ==
    /\ Len(Data) \in Nat \ {0} /\ DOMAIN Data = 1..Len(Data)
    /\ \A v \in DOMAIN Data :
          /\ \A id \in DOMAIN Data[v].models :
                /\ Data[v].models[id].categoryConf \in 0..100
                /\ Data[v].models[id].bodyConf \in 0..100
                /\ Data[v].models[id].powerConf \in 0..100
          /\ \A key \in DOMAIN Data[v].overrides : Data[v].overrides[key].conf \in 0..100
          /\ \A k \in DOMAIN Data[v].index :
                /\ Data[v].index[k] \in DOMAIN Data[v].models
                /\ k \in Seq(STRING)
                /\ \A g \in Groups : \A i \in DOMAIN g.models : Alike[g.models[i]][k] \in 0..100
          /\ \A k \in DOMAIN Data[v].modelOnly :
                Data[v].modelOnly[k] \subseteq DOMAIN Data[v].models /\ k \in Seq(STRING)

VARIABLES queue,      \* acriss_review_queue: the row of each model name in it
          cache,      \* model_classifications: a row per (name, version), or Unknown
          version,    \* the version that newly started processes run
          pc,         \* step of each worker
          job,        \* what each worker classifies, then what it answered
          seen,       \* rows of the queue each worker has found
          jobs,       \* number of jobs started
          unreached,  \* history: workers whose last call of the language model failed
          lost        \* history: names whose write to the queue failed

vars == <<queue, cache, version, pc, job, seen, jobs, unreached, lost>>

Scale == <<"M", "N", "E", "H", "C", "D", "I", "J", "S", "R", "F", "G", "P", "U", "L", "W", "X">>
ASSUME ScaleAssumption == \A i \in DOMAIN Scale : Scale[i] # Unknown
CategoryRank(code) ==
    IF \E i \in DOMAIN Scale : Scale[i] = code
    THEN CHOOSE i \in DOMAIN Scale : Scale[i] = code ELSE -1

-----------------------------------------------------------------------------
\* _combine_bundle: the group is decided among its known members.
First(members, pool, Better(_, _)) ==
    CHOOSE i \in pool : \A j \in pool :
        \/ Better(members[i], members[j])
        \/ ~Better(members[j], members[i]) /\ i <= j

Dearer(a, b) ==
    \/ CategoryRank(a.category.code) > CategoryRank(b.category.code)
    \/ CategoryRank(a.category.code) = CategoryRank(b.category.code) /\ a.conf > b.conf
Surer(a, b) == a.conf > b.conf

Bundle(members, Better(_, _)) ==
    LET known == {i \in DOMAIN members : members[i].known}
        pool == IF known = {} THEN DOMAIN members ELSE known
        best == members[First(members, pool, Better)]
        mixed == \E i, j \in pool : CodeOf(members[i]) # CodeOf(members[j])
    IN  [chosen |-> IF mixed THEN [best EXCEPT !.conf = AtMost(@, 65), !.review = TRUE] ELSE best,
         mixed |-> mixed,
         unknown |-> {members[i] : i \in DOMAIN members \ known} \ {best}]

CombineBundleBySureness(members) == Bundle(members, Surer)
CombineBundle(members) == Bundle(members, Dearer)

\* _apply_declared_code: an ACRISS-shaped group code of the provider fills open
\* letters and a doubtful fuel.
ApplyDeclaredCode(r, declared) ==
    LET filled(letter, i, conf) ==
            IF letter.code = Unknown THEN Letter(declared[i], conf, "source_override") ELSE letter
    IN  IF declared = Unknown THEN r
        ELSE Refreshed([r EXCEPT
                !.gear = filled(r.gear, 3, 90),
                !.fuel = IF r.fuel.conf < Sure THEN Letter(declared[4], 85, "source_override") ELSE @,
                !.category = filled(r.category, 1, 75),
                !.type = filled(r.type, 2, 75)])

\* _resolve_unknowns for one chosen member: the profile of the language model
\* fills what is open, and is never believed enough to skip the review.
Resolvable(r) == ~r.known /\ (r.category.code = Unknown \/ r.type.code = Unknown)

ResolveUnknownsTrusting(r, profile) ==
    LET fill(letter, code) ==
            IF letter.code = Unknown /\ code # Unknown THEN Letter(code, profile.conf, "heuristic")
            ELSE letter
    IN  IF ~Resolvable(r) \/ profile = Unknown THEN r
        ELSE Refreshed([r EXCEPT !.category = fill(r.category, profile.category),
                                 !.type = fill(r.type, profile.type), !.known = TRUE])

ResolveUnknowns(r, profile) ==
    LET conf == AtMost(profile.conf, 84)
        fill(letter, code) ==
            IF letter.code = Unknown /\ code # Unknown THEN Letter(code, conf, "heuristic")
            ELSE letter
        fuel == CASE r.fuel.source = "fallback" /\ profile.mode = "bev_only" ->
                        Letter("E", conf, "heuristic")
                  [] r.fuel.source = "fallback" /\ profile.mode = "hybrid_only" ->
                        Letter("H", conf, "heuristic")
                  [] OTHER -> r.fuel
    IN  IF ~Resolvable(r) \/ profile = Unknown THEN r
        ELSE Refreshed([r EXCEPT !.category = fill(r.category, profile.category),
                                 !.type = fill(r.type, profile.type), !.fuel = fuel])

\* _to_dto: the cap of a mixed bundle, then the collapse of a fuel nobody
\* materialised to its trunk, which computes confidence and flag again.
Capped(r, mixed) ==
    IF mixed THEN [r EXCEPT !.conf = AtMost(@, 65), !.review = TRUE] ELSE r

Trunk(code) == [code EXCEPT ![4] = "R"]
Collapses(code) ==
    Complete(code) /\ code \notin Codes /\ code[4] \in {"V", "D", "H", "I"} /\ Trunk(code) \in Codes

Collapsed(r) ==
    LET trunk == Refreshed([r EXCEPT !.fuel.code = "R"])
    IN  IF r.fuel.code = "V" THEN trunk ELSE [trunk EXCEPT !.review = TRUE]

NoCode == <<Unknown, Unknown, Unknown, Unknown>>

ToDto(r, mixed) ==
    LET capped == Capped(r, mixed)
        full == CodeOf(capped)
        final == IF Collapses(full) THEN Collapsed(capped) ELSE capped
        code == CodeOf(final)
    IN  IF Complete(code) /\ code \in Codes
        THEN [code |-> code, full |-> full, conf |-> final.conf, pending |-> final.review]
        ELSE [code |-> NoCode, full |-> IF Complete(full) THEN full ELSE NoCode,
              conf |-> final.conf, pending |-> TRUE]

\* classify_provider_batch up to the language model: the members of each group.
Members(v, group) ==
    [i \in DOMAIN group.models |->
        ClassifyVehicle(Data[v], group.models[i], group.gear, group.seats, group.source)]

Combined(v, group) ==
    LET bundle == CombineBundle(Members(v, group))
    IN  [bundle EXCEPT !.chosen = ApplyDeclaredCode(@, group.declared)]

\* The route of the API maps a specific fuel that no active group of the market
\* offers to its trunk, in the answer only: the cache keeps the engine's code.
Recommended(dto, offered) ==
    IF dto.code[4] \in {"D", "H", "I"} /\ ~offered /\ Trunk(dto.code) \in Codes
    THEN [dto EXCEPT !.code = Trunk(@)] ELSE dto

\* The other classifier, GeminiClassificationService: the items of an answer of
\* the language model, validated one by one.
Verdict(code, conf, pending) == [code |-> code, full |-> code, conf |-> conf, pending |-> pending]

ParseLlmItemAsTold(item) == Verdict(item.code, item.conf, item.pending)
ParseLlmItem(item) ==
    IF item.code = NoCode THEN Verdict(NoCode, item.conf, TRUE)
    ELSE IF item.code \notin Codes THEN Verdict(NoCode, 0, TRUE)
    ELSE Verdict(item.code, item.conf, item.pending \/ item.conf < Sure)

Parsed(answer) == [i \in DOMAIN answer |-> ParseLlmItem(answer[i])]

\* The whole batch goes to Pro when Flash was unsure of one group and did not ask
\* for a review of it; an answer may hold fewer items than the batch, and Unknown
\* stands for a failed call.
Escalates(flash) ==
    flash # Unknown /\ \E i \in DOMAIN flash : ~Parsed(flash)[i].pending /\ Parsed(flash)[i].conf < Sure

\* The place i of the batch gets a verdict: the shorter of two answers decides.
Reaches(flash, pro, i) ==
    flash # Unknown => /\ i \in DOMAIN flash
                       /\ Escalates(flash) => pro = Unknown \/ i \in DOMAIN pro

WithoutPro(flash) == [flash EXCEPT !.pending = @ \/ flash.conf < Sure]
OfBoth(flash, pro) ==
    LET best == IF pro.code # NoCode THEN pro ELSE flash
    IN  IF flash.pending THEN flash
        ELSE IF pro.pending \/ pro.conf >= Sure THEN pro
        ELSE Verdict(best.code, AtLeast(flash.conf, pro.conf), TRUE)

GeminiVerdict(flash, pro, i) ==
    IF flash = Unknown THEN Verdict(NoCode, 0, TRUE)
    ELSE IF ~Escalates(flash) THEN Parsed(flash)[i]
    ELSE IF pro = Unknown THEN WithoutPro(Parsed(flash)[i])
    ELSE OfBoth(Parsed(flash)[i], Parsed(pro)[i])

-----------------------------------------------------------------------------
Names == UNION {{g.models[i] : i \in DOMAIN g.models} : g \in Groups}
Versions == DOMAIN Data

\* What the engine makes of each group, with the data files of each version.
MembersOf == [v \in Versions |-> [group \in Groups |-> Members(v, group)]]
BundleOf == [v \in Versions |-> [group \in Groups |-> Combined(v, group)]]

Init ==
    /\ queue = [n \in {} |-> Unknown]
    /\ cache = [key \in Names \X Versions |-> Unknown]
    /\ version = 1
    /\ pc = [w \in Workers |-> "idle"]
    /\ job = [w \in Workers |-> Unknown]
    /\ seen = [w \in Workers |-> <<>>]
    /\ jobs = 0
    /\ unreached = {}
    /\ lost = {}

Free(w) == pc[w] \in {"idle", "answered"} /\ jobs < MaxJobs

Answer(w, v, group, dto, by) ==
    /\ pc' = [pc EXCEPT ![w] = "answered"]
    /\ job' = [job EXCEPT ![w] = [v |-> v, group |-> group, dto |-> dto, by |-> by]]

\* A scrape classifies a group, or a request of the API names a model that the
\* cache of its version lacks.
Classify(w, group) ==
    /\ Free(w)
    /\ jobs' = jobs + 1
    /\ w \in Apis => /\ Len(group.models) = 1 /\ group.source = "adhoc"
                     /\ cache[<<group.models[1], version>>] = Unknown
    /\ w \notin Apis => group.source # "adhoc"
    /\ LET bundle == BundleOf[version][group]
       IN  job' = [job EXCEPT ![w] =
              [v |-> version, group |-> group, chosen |-> bundle.chosen,
               mixed |-> bundle.mixed, unknown |-> bundle.unknown]]
    /\ pc' = [pc EXCEPT ![w] = "resolve"]
    /\ UNCHANGED <<queue, cache, version, seen, unreached, lost>>

\* The row of the cache answers at once, with the market's code of the moment.
ServeCached(w, group, offered) ==
    /\ w \in Apis
    /\ Free(w)
    /\ jobs' = jobs + 1
    /\ Len(group.models) = 1
    /\ group.source = "adhoc"
    /\ LET row == cache[<<group.models[1], version>>]
       IN  /\ row # Unknown
           /\ Answer(w, version, group,
                     Recommended([row EXCEPT !.full = IF @ = NoCode THEN row.code ELSE @], offered),
                     "cache")
    /\ UNCHANGED <<queue, cache, version, seen, unreached, lost>>

\* The language model is asked about an unknown model only; it may answer no
\* profile, or be out of reach, which the resolver turns into no profile.
Resolve(w, profile) ==
    /\ pc[w] = "resolve"
    /\ Resolvable(job[w].chosen) \/ profile = Unknown
    /\ job' = [job EXCEPT ![w].chosen = ResolveUnknowns(@, profile)]
    /\ pc' = [pc EXCEPT ![w] = "queue"]
    /\ unreached' = unreached \ {w}
    /\ UNCHANGED <<queue, cache, version, seen, jobs, lost>>

OutOfReach(w) ==
    /\ pc[w] = "resolve"
    /\ Resolvable(job[w].chosen)
    /\ pc' = [pc EXCEPT ![w] = "queue"]
    /\ unreached' = unreached \cup {w}
    /\ UNCHANGED <<queue, cache, version, job, seen, jobs, lost>>

\* _queue_unresolved: upsert_sighting reads the rows of the unknown members in
\* its transaction ...
SightedOfChosen(w) == {r \in {job[w].chosen} : ~r.known}
Sighted(w) == {r \in job[w].unknown \cup {job[w].chosen} : ~r.known}
SightedNames(w) == {r.name : r \in Sighted(w)}

ReadQueue(w) ==
    /\ pc[w] = "queue"
    /\ pc' = [pc EXCEPT ![w] = IF Sighted(w) = {} THEN "answer" ELSE "sighted"]
    /\ seen' = [seen EXCEPT ![w] = [n \in SightedNames(w) \cap DOMAIN queue |-> queue[n]]]
    /\ UNCHANGED <<queue, cache, version, job, jobs, unreached, lost>>

Suggested(w, n) ==
    LET r == CHOOSE r \in Sighted(w) : r.name = n
    IN  <<r.category.code, r.type.code, IF Complete(CodeOf(r)) THEN CodeOf(r) ELSE Unknown>>
Merged(old, new) == [i \in 1..3 |-> IF new[i] = Unknown THEN old[i] ELSE new[i]]

UpsertSightingReopening(w, n) ==
    [status |-> "pending_review", sources |-> {job[w].group.source}, suggestion |-> Suggested(w, n)]

UpsertSighting(w, n) ==
    LET row == seen[w][n]
        source == job[w].group.source
    IN  IF n \notin DOMAIN seen[w]
        THEN [status |-> "pending_review", sources |-> {source}, suggestion |-> Suggested(w, n)]
        ELSE [status |-> queue[n].status,
              sources |-> IF source \in row.sources THEN queue[n].sources
                          ELSE row.sources \cup {source},
              suggestion |-> IF row.status = "pending_review"
                             THEN Merged(queue[n].suggestion, Suggested(w, n))
                             ELSE queue[n].suggestion]

\* ... and writes them; a row that another worker inserted in between breaks the
\* unique key and the whole write is given up.
WriteQueue(w) ==
    /\ pc[w] = "sighted"
    /\ SightedNames(w) \cap DOMAIN queue \subseteq DOMAIN seen[w]
    /\ queue' = [n \in DOMAIN queue \cup SightedNames(w) |->
                    IF n \in SightedNames(w) THEN UpsertSighting(w, n) ELSE queue[n]]
    /\ lost' = lost \ SightedNames(w)
    /\ pc' = [pc EXCEPT ![w] = "answer"]
    /\ UNCHANGED <<cache, version, job, seen, jobs, unreached>>

FailQueue(w) ==
    /\ pc[w] = "sighted"
    /\ lost' = lost \cup (SightedNames(w) \ DOMAIN queue)
    /\ pc' = [pc EXCEPT ![w] = "answer"]
    /\ UNCHANGED <<queue, cache, version, job, seen, jobs, unreached>>

\* The result of the group; the API stores it before it answers.  Its check for
\* a transport error never fires, because this service sets none.
CacheUpsert(w, dto) ==
    [cache EXCEPT ![<<job[w].group.models[1], job[w].v>>] = dto]

Return(w, offered) ==
    /\ pc[w] = "answer"
    /\ w \notin Apis => offered
    /\ LET dto == ToDto(job[w].chosen, job[w].mixed)
       IN  /\ cache' = IF w \in Apis THEN CacheUpsert(w, dto) ELSE cache
           /\ Answer(w, job[w].v, job[w].group,
                     IF w \in Apis THEN Recommended(dto, offered) ELSE dto, "engine")
    /\ UNCHANGED <<queue, version, seen, jobs, unreached, lost>>

\* Onboarding and the reclassification scripts classify a batch with the language
\* model alone, without queue or cache; this follows the group at place i of the
\* batch, which an answer that is too short leaves without a verdict.
Discover(w, group, flash, pro, i) ==
    /\ w \notin Apis
    /\ Free(w)
    /\ jobs' = jobs + 1
    /\ group.source # "adhoc"
    /\ IF Reaches(flash, pro, i)
       THEN /\ pc' = [pc EXCEPT ![w] = "answered"]
            /\ job' = [job EXCEPT ![w] =
                  [v |-> version, group |-> group, dto |-> GeminiVerdict(flash, pro, i),
                   by |-> "gemini", flash |-> flash, escalated |-> Escalates(flash)]]
       ELSE pc' = [pc EXCEPT ![w] = "idle"] /\ job' = [job EXCEPT ![w] = Unknown]
    /\ UNCHANGED <<queue, cache, version, seen, unreached, lost>>

\* The operator settles a queued model, or changes the verdict.
SetStatus(n, verdict) ==
    /\ n \in DOMAIN queue
    /\ queue' = [queue EXCEPT ![n].status = verdict]
    /\ UNCHANGED <<cache, version, pc, job, seen, jobs, unreached, lost>>

\* New data files, with what the operator accepted: requests already running keep
\* the files and the version they started with.
Deploy ==
    /\ version < Len(Data)
    /\ version' = version + 1
    /\ UNCHANGED <<queue, cache, pc, job, seen, jobs, unreached, lost>>

Next ==
    \/ \E w \in Workers, g \in Groups : Classify(w, g)
    \/ \E w \in Workers, g \in Groups, offered \in BOOLEAN : ServeCached(w, g, offered)
    \/ \E w \in Workers, p \in Profiles \cup {Unknown} : Resolve(w, p)
    \/ \E w \in Workers : OutOfReach(w) \/ ReadQueue(w) \/ WriteQueue(w) \/ FailQueue(w)
    \/ \E w \in Workers, offered \in BOOLEAN : Return(w, offered)
    \/ \E w \in Workers, g \in Groups, f \in Answers \cup {Unknown}, p \in Answers \cup {Unknown},
          i \in 1..BatchSize : Discover(w, g, f, p, i)
    \/ \E n \in Names, s \in {"pending_review", "accepted", "rejected"} : SetStatus(n, s)
    \/ Deploy

Spec == Init /\ [][Next]_vars

-----------------------------------------------------------------------------
Fresh == {w \in Workers : pc[w] = "answered" /\ job[w].by = "engine"}

\* A code that nobody is asked to review is materialised and was believed to the
\* threshold, whichever service computed it and after every later repair of its
\* letters; the cache holds no other.
CertainIsBacked ==
    LET backed(dto) == ~dto.pending => dto.code \in Codes /\ dto.conf >= Sure
    IN  /\ \A w \in Workers : pc[w] = "answered" => backed(job[w].dto)
        /\ \A key \in Names \X Versions : cache[key] # Unknown => backed(cache[key])

\* A code the engine asks nobody to review is the one the dictionary alone gives,
\* or the trunk the route puts in its place: the language model never decides it,
\* on any path through bundles, declared codes, the collapse of fuels and the cache.
LanguageModelNeverDecides ==
    \A w \in Workers :
        pc[w] = "answered" /\ job[w].by # "gemini" /\ ~job[w].dto.pending =>
            LET alone == BundleOf[job[w].v][job[w].group]
                code == ToDto(alone.chosen, alone.mixed).code
            IN  /\ alone.chosen.known
                /\ job[w].dto.code \in {code} \cup {Trunk(code) : a \in Apis \cap {w}}

\* A group is priced at least as dear as each of its known members.
DearestMemberPriced ==
    \A w \in Fresh : job[w].dto.code # NoCode =>
        \A i \in DOMAIN job[w].group.models :
            LET m == MembersOf[job[w].v][job[w].group][i]
            IN  m.known => CategoryRank(m.category.code) <= CategoryRank(job[w].dto.code[1])

\* Every unknown member of a classified group is in the review queue, whatever
\* else the group holds, unless the write of its last sighting failed.
UnknownsReachReview ==
    \A w \in Fresh : \A i \in DOMAIN job[w].group.models :
        LET m == MembersOf[job[w].v][job[w].group][i]
        IN  ~m.known => m.name \in DOMAIN queue \/ m.name \in lost

\* What the operator decided stays decided until the operator changes it, and
\* stays as it was decided unless a sighting had read the row before the decision.
VerdictIsFinal ==
    [][\A n \in DOMAIN queue : queue[n].status # "pending_review" =>
          /\ n \in DOMAIN queue'
          /\ queue'[n].status = queue[n].status \/ UNCHANGED <<pc, job, jobs>>
          /\ \/ queue'[n].suggestion = queue[n].suggestion
             \/ \E w \in Workers : /\ pc[w] = "sighted" /\ pc'[w] = "answer"
                                   /\ n \in DOMAIN seen[w]
                                   /\ seen[w][n].status = "pending_review"]_vars

\* What the comment in _to_dto says: the cap of a mixed bundle is authoritative,
\* no later refresh raises it; the code collapses an unmaterialised petrol
\* letter afterwards and computes the flag again.
MixedBundleIsReviewed ==
    \A w \in Fresh : BundleOf[job[w].v][job[w].group].mixed => job[w].dto.pending

\* What the comment in classify says: an answer made while the language model was
\* out of reach is not cached; the engine's service reports no such failure, and
\* the route stores the empty answer for as long as the version lasts.
\* Not kept by the code (README, section 3).
OutageIsNotCached ==
    [][\A w \in Apis \cap unreached : pc[w] = "answer" /\ pc'[w] # "answer" => cache' = cache]_vars

\* What the docstring of gemini_service says: Pro is asked when Flash is unsure of
\* a group of the batch and asked for no review of it; the validation of each item
\* asks for that review first.
\* Not kept by the code (README, section 3).
DoubtIsPutToPro ==
    \A w \in Workers :
        pc[w] = "answered" /\ job[w].by = "gemini" /\ job[w].flash # Unknown /\ ~job[w].escalated =>
            \A i \in DOMAIN job[w].flash :
                LET item == job[w].flash[i]
                IN  item.pending \/ item.code \notin Codes \/ item.conf >= Sure
=============================================================================
