------------------------------- MODULE Search -------------------------------
(***************************************************************************)
(* The attendee's side of one event: searches with their limit, destroyed  *)
(* selfies and logs, opt-outs, and the keep-links that outlive the page.   *)
(* They run against the worker's passes, which delete and insert face rows *)
(* under them, and against retention, which deletes the event.             *)
(*                                                                         *)
(* An embedding is what its distances say: a selfie (template) and a face  *)
(* are as far apart as Distance tells, in hundredths of cosine distance.   *)
(* A row of faces is <<face, pass>>: each pass inserts rows with new ids.  *)
(* Every request of the model comes from one device within one hour.       *)
(***************************************************************************)
EXTENDS Naturals, FiniteSets

CONSTANTS
    Requests,         \* POST /api/search
    OptOuts,          \* POST /api/optout
    Templates,        \* the embeddings of the people who take selfies
    Selfie,           \* whose selfie a request or an opt-out carries
    Photos, Faces,    \* the photographs and the faces detected in them
    PhotoOf,          \* the photograph a face is in
    Tier,             \* faces.quality_tier
    Distance,         \* from a template to a face
    ExclusionRadius,  \* EXCLUSION_RADIUS
    HighDistance,     \* 1 - t_high
    LowDistance,      \* 1 - t_low
    RateLimit,        \* env.searchRateLimit
    AtOnce,           \* bound: searches in flight at a time
    MaxPasses         \* bound: passes over a photograph

ASSUME SearchAssumption ==
    /\ Requests \cap OptOuts = {}
    /\ IsFiniteSet(Faces)
    /\ Selfie \in [Requests \cup OptOuts -> Templates]
    /\ PhotoOf \in [Faces -> Photos]
    /\ Tier \in [Faces -> {1, 2}]
    /\ Distance \in [Templates -> [Faces -> Nat]]
    /\ ExclusionRadius \in Nat
    /\ HighDistance \in Nat
    /\ LowDistance \in Nat
    /\ HighDistance <= LowDistance
    /\ RateLimit \in Nat
    /\ AtOnce \in Nat
    /\ MaxPasses \in Nat

VARIABLES
    event,       \* events.status; "gone" once the row is deleted
    expired,     \* delete_after <= now()
    photo,       \* photos.status, "indexed" between replace_faces and finish
    passes,      \* how often replace_faces committed for a photograph
    rows,        \* the table faces
    faceCount,   \* events.face_count
    exclusions,  \* the table exclusions
    logs,        \* search_logs: <<request, whether the limit counts it>>
    audited,     \* what deletion_audit names
    stage,       \* where the handler of a request or an opt-out is
    found,       \* what a search found, confident and maybe
    kept,        \* the faces a keep-link carries
    exposed,     \* history: <<x, f>>, a page computed after x opted out shows f
    raced        \* history: an opt-out purged rows that were not yet counted

albumVars == <<event, expired, photo, passes>>
attendeeVars == <<audited, stage, found, kept, exposed>>
vars == <<albumVars, rows, faceCount, exclusions, logs, attendeeVars, raced>>

InFlight == {r \in Requests : stage[r] \in {"gated", "allowed", "enrolled",
                                            "searched", "destroyed"}}
Counted == {l \in logs : l[2]}
FacesIn(p) == {f \in Faces : PhotoOf[f] = p}
RowsOf(p) == {row \in rows : PhotoOf[row[1]] = p}

TypeOK ==
    /\ event \in {"draft", "indexing", "ready", "gone"}
    /\ expired \in BOOLEAN
    /\ photo \in [Photos -> {"none", "pending", "indexed", "done"}]
    /\ passes \in [Photos -> Nat]
    /\ rows \subseteq Faces \X Nat
    /\ faceCount \in Nat
    /\ exclusions \subseteq Templates
    /\ logs \subseteq Requests \X BOOLEAN
    /\ audited \subseteq Requests \cup OptOuts
    /\ stage \in [Requests \cup OptOuts ->
                    {"new", "gated", "allowed", "enrolled", "searched", "destroyed",
                     "answered", "refused", "failed"}]
    /\ found \in [Requests -> SUBSET (Faces \X Nat)]
    /\ kept \in [Requests -> SUBSET (Faces \X Nat)]
    /\ exposed \subseteq Templates \X Faces
    /\ raced \in BOOLEAN

Init ==
    /\ event = "draft"
    /\ expired = FALSE
    /\ photo = [p \in Photos |-> "none"]
    /\ passes = [p \in Photos |-> 0]
    /\ rows = {}
    /\ faceCount = 0
    /\ exclusions = {}
    /\ logs = {}
    /\ audited = {}
    /\ stage = [a \in Requests \cup OptOuts |-> "new"]
    /\ found = [r \in Requests |-> {}]
    /\ kept = [r \in Requests |-> {}]
    /\ exposed = {}
    /\ raced = FALSE

-----------------------------------------------------------------------------
(* The album under the attendees: IngestQueue and Retention in four steps. *)

Upload(p) ==
    /\ event # "gone"
    /\ photo[p] = "none"
    /\ photo' = [photo EXCEPT ![p] = "pending"]
    /\ event' = "indexing"
    /\ UNCHANGED <<expired, passes, rows, faceCount, exclusions, logs, attendeeVars,
                   raced>>

\* replace_faces(): a pass, the first or one after a kill, swaps the rows.  What a
\* worker does behind a lease that ran out is left to IngestQueue.
IndexFaces(p) ==
    /\ photo[p] \in {"pending", "indexed"}
    /\ passes[p] < MaxPasses
    /\ passes' = [passes EXCEPT ![p] = @ + 1]
    /\ rows' = (rows \ RowsOf(p)) \cup (FacesIn(p) \X {passes'[p]})
    /\ photo' = [photo EXCEPT ![p] = "indexed"]
    /\ UNCHANGED <<event, expired, faceCount, exclusions, logs, attendeeVars, raced>>

\* finish_ingest_job() adds what the pass detected.
FinishPhoto(p) ==
    /\ photo[p] = "indexed"
    /\ photo' = [photo EXCEPT ![p] = "done"]
    /\ faceCount' = faceCount + Cardinality(FacesIn(p))
    /\ event' = IF \A q \in Photos : photo'[q] \in {"none", "done"} THEN "ready"
                ELSE event
    /\ UNCHANGED <<expired, passes, rows, exclusions, logs, attendeeVars, raced>>

\* delete_after passes; later run_retention() deletes the event and, by cascade,
\* everything but deletion_audit.
Expire ==
    /\ ~expired
    /\ expired' = TRUE
    /\ UNCHANGED <<event, photo, passes, rows, faceCount, exclusions, logs,
                   attendeeVars, raced>>

DeleteEvent ==
    /\ expired
    /\ event # "gone"
    /\ event' = "gone"
    /\ photo' = [p \in Photos |-> "none"]
    /\ rows' = {}
    /\ faceCount' = 0
    /\ exclusions' = {}
    /\ logs' = {}
    /\ UNCHANGED <<expired, passes, attendeeVars, raced>>

-----------------------------------------------------------------------------
(* POST /api/search *)

To(a, s) == stage' = [stage EXCEPT ![a] = s]

Standing == UNCHANGED <<albumVars, rows, faceCount, exclusions, raced>>

\* The event is looked up once.
Gate(r) ==
    /\ stage[r] = "new"
    /\ Cardinality(InFlight) < AtOnce
    /\ To(r, IF event = "ready" /\ ~expired THEN "gated" ELSE "refused")
    /\ UNCHANGED <<logs, audited, found, kept, exposed>>
    /\ Standing

\* A faulty variant of Log: search_logs does not refer to the event.
LogUnreferenced(r, counts, s) == To(r, s) /\ logs' = logs \cup {<<r, counts>>}

\* logSearch(): the row refers to the event, so the insert fails without it.
Log(r, counts, s) ==
    IF event = "gone"
    THEN To(r, "failed") /\ UNCHANGED logs
    ELSE To(r, s) /\ logs' = logs \cup {<<r, counts>>}

\* A faulty variant of CheckLimit: one more than the limit passes.
CheckLimitOffByOne(r) ==
    /\ stage[r] = "gated"
    /\ IF Cardinality(Counted) > RateLimit
       THEN Log(r, FALSE, "refused")
       ELSE To(r, "allowed") /\ UNCHANGED logs
    /\ UNCHANGED <<audited, found, kept, exposed>>
    /\ Standing

\* The logged searches are counted; this one is logged at its end, or here if it
\* is one too many.
CheckLimit(r) ==
    /\ stage[r] = "gated"
    /\ IF Cardinality(Counted) >= RateLimit
       THEN Log(r, FALSE, "refused")
       ELSE To(r, "allowed") /\ UNCHANGED logs
    /\ UNCHANGED <<audited, found, kept, exposed>>
    /\ Standing

Enroll(r) ==
    /\ stage[r] = "allowed"
    /\ To(r, "enrolled")
    /\ UNCHANGED <<logs, audited, found, kept, exposed>>
    /\ Standing

\* No usable face, or the service is loading or down: logged, and counted.
EnrollFails(r) ==
    /\ stage[r] = "allowed"
    /\ Log(r, TRUE, "refused")
    /\ UNCHANGED <<audited, found, kept, exposed>>
    /\ Standing

\* A faulty variant of Searchable: an opt-out has deleted its faces already.
SearchableIfDone == {row \in rows : photo[PhotoOf[row[1]]] = "done"}

\* What a query may return: faces of finished photographs that no exclusion is
\* near.
Searchable ==
    {row \in rows : /\ photo[PhotoOf[row[1]]] = "done"
                    /\ \A x \in exclusions : Distance[x][row[1]] >= ExclusionRadius}

Exposing(seen) == exposed' = exposed \cup (exclusions \X {row[1] : row \in seen})

\* A photograph is shown by the closest of its rows that t_low lets through; its
\* bucket is that row's, and the confident ones go into the keep-link.
Matches(t) == {row \in Searchable : Distance[t][row[1]] <= LowDistance}
Closest(t, S) ==
    {row \in S : \A other \in S : PhotoOf[other[1]] = PhotoOf[row[1]] =>
                    Distance[t][row[1]] <= Distance[t][other[1]]}
Confident(t, S) == {row \in S : Distance[t][row[1]] <= HighDistance /\ Tier[row[1]] = 2}

\* searchEvent(): one query, one snapshot.
SearchEvent(r) ==
    /\ stage[r] = "enrolled"
    /\ found' = [found EXCEPT ![r] = Closest(Selfie[r], Matches(Selfie[r]))]
    /\ Exposing(found'[r])
    /\ To(r, "searched")
    /\ UNCHANGED <<logs, audited, kept>>
    /\ Standing

\* A faulty variant of Destroy: only a search that found something is on record.
DestroyIfFound(r) ==
    /\ stage[r] = "searched"
    /\ audited' = IF found[r] = {} THEN audited ELSE audited \cup {r}
    /\ To(r, "destroyed")
    /\ UNCHANGED <<logs, found, kept, exposed>>
    /\ Standing

\* The template is dropped and log_selfie_deletion() says so; its row refers to
\* no event and outlives it.
Destroy(r) ==
    /\ stage[r] = "searched"
    /\ audited' = audited \cup {r}
    /\ To(r, "destroyed")
    /\ UNCHANGED <<logs, found, kept, exposed>>
    /\ Standing

\* The search is logged, then answered with a link to its confident faces.
Answer(r) ==
    /\ stage[r] = "destroyed"
    /\ Log(r, TRUE, "answered")
    /\ kept' = IF event = "gone" THEN kept
               ELSE [kept EXCEPT ![r] = Confident(Selfie[r], found[r])]
    /\ UNCHANGED <<audited, found, exposed>>
    /\ Standing

\* A call raises what the handler does not expect, or the server goes down.
RequestFails(r) ==
    /\ r \in InFlight
    /\ To(r, "failed")
    /\ UNCHANGED <<logs, audited, found, kept, exposed>>
    /\ Standing

\* /e/<slug>/photos?k=...: the faces of the link that are still there.
OpenLink(r) ==
    /\ stage[r] = "answered"
    /\ event # "gone" /\ ~expired
    /\ Exposing(kept[r] \cap Searchable)
    /\ UNCHANGED <<logs, audited, stage, found, kept>>
    /\ Standing

-----------------------------------------------------------------------------
(* POST /api/optout *)

GateOptOut(o) ==
    /\ stage[o] = "new"
    /\ To(o, IF event # "gone" /\ ~expired THEN "gated" ELSE "refused")
    /\ UNCHANGED <<logs, audited, found, kept, exposed>>
    /\ Standing

\* The enrolment finds no face, or the request breaks off before it commits.
OptOutFails(o) ==
    /\ stage[o] = "gated"
    /\ To(o, "failed")
    /\ UNCHANGED <<logs, audited, found, kept, exposed>>
    /\ Standing

\* The faces that an opt-out takes out.
Near(o) == {row \in rows : Distance[Selfie[o]][row[1]] < ExclusionRadius}

\* Faulty variants of Corrected: the purged faces stay in the count; the count may
\* fall below zero.
CorrectedNever(n) == faceCount
CorrectedUnclamped(n) == faceCount - n

\* greatest(0, face_count - n)
Corrected(n) == IF n > faceCount THEN 0 ELSE faceCount - n

\* The transaction: faces out, exclusion in, the count corrected (never below
\* zero), the purge on record.  Without the event its exclusion has nowhere to go.
Purge(o) ==
    /\ stage[o] = "gated"
    /\ event # "gone"
    /\ rows' = rows \ Near(o)
    /\ exclusions' = exclusions \cup {Selfie[o]}
    /\ faceCount' = Corrected(Cardinality(Near(o)))
    /\ audited' = audited \cup {o}
    /\ raced' = (raced \/ \E row \in Near(o) : photo[PhotoOf[row[1]]] # "done")
    /\ To(o, "answered")
    /\ UNCHANGED <<albumVars, logs, found, kept, exposed>>

-----------------------------------------------------------------------------

Attend(r) ==
    \/ Gate(r)
    \/ CheckLimit(r)
    \/ Enroll(r)
    \/ EnrollFails(r)
    \/ SearchEvent(r)
    \/ Destroy(r)
    \/ Answer(r)
    \/ RequestFails(r)
    \/ OpenLink(r)

Next ==
    \/ \E p \in Photos : Upload(p) \/ IndexFaces(p) \/ FinishPhoto(p)
    \/ Expire
    \/ DeleteEvent
    \/ \E r \in Requests : Attend(r)
    \/ \E o \in OptOuts : GateOptOut(o) \/ OptOutFails(o) \/ Purge(o)

Spec == Init /\ [][Next]_vars

-----------------------------------------------------------------------------

\* What an opt-out takes out stays out: no search and no keep-link that is computed
\* after it shows a face within the exclusion radius, though passes insert the
\* deleted rows again and links carry ids from before it.
ExcludedUnseen == \A e \in exposed : Distance[e[1]][e[2]] >= ExclusionRadius

\* "Future searches will not return you": after an opt-out nobody is shown a face
\* that a search of the person who opted out would have returned as theirs.
OptedOutUnseen == \A e \in exposed : Distance[e[1]][e[2]] > LowDistance

\* The limit is counted before a search and logged after it: it is exceeded by no
\* more than the searches that overtake each other.
LimitHolds ==
    Cardinality({r \in Requests : stage[r] = "answered"}) <= RateLimit + AtOnce - 1

\* With the event goes all that was kept of its people; a late transaction of an
\* attendee brings nothing back.
NothingOutlivesEvent == event = "gone" => rows = {} /\ exclusions = {} /\ logs = {}

\* Nobody gets an answer before the destruction of the selfie is on record and,
\* while the event lasts, the search itself.
AnswersOnRecord ==
    \A r \in Requests : stage[r] = "answered" =>
        r \in audited /\ (event = "gone" \/ <<r, TRUE>> \in logs)

\* The operator's face count is that of the finished photographs' rows, opt-outs
\* subtracted, unless one purged rows whose photograph was still in a pass.
FaceCountExact ==
    ~raced => faceCount = Cardinality({row \in rows : photo[PhotoOf[row[1]]] = "done"})
=============================================================================
