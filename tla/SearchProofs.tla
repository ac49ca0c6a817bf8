---------------------------- MODULE SearchProofs ----------------------------
(***************************************************************************)
(* Theorems about Search, for any requests, people and photographs, any    *)
(* distances and any bounds.                                               *)
(***************************************************************************)
EXTENDS Search, FiniteSetTheorems, TLAPS

USE SearchAssumption
USE DEF albumVars, attendeeVars, To, Standing

\* Counts are taken of finite sets.
Types == TypeOK /\ IsFiniteSet(rows)

\* A deleted event has no photograph left, so that no step of a pass, a search or
\* an opt-out revives it.
NoneLeft == event = "gone" => photo = [p \in Photos |-> "none"]

\* Between the destruction of a selfie and the answer the record is there.
DestroyedOnRecord == \A r \in Requests : stage[r] = "destroyed" => r \in audited

IInv ==
    /\ Types
    /\ NoneLeft
    /\ NothingOutlivesEvent
    /\ DestroyedOnRecord
    /\ AnswersOnRecord
    /\ ExcludedUnseen

\* The invariant holds in the initial states.
LEMMA InitIInv == Init => IInv
<1>. SUFFICES ASSUME Init PROVE IInv OBVIOUS
<1>1. IsFiniteSet(rows)
  BY FS_EmptySet DEF Init
<1>2. TypeOK
  BY DEF Init, TypeOK
<1>. QED BY <1>1, <1>2
     DEF Init, IInv, Types, NoneLeft, NothingOutlivesEvent, DestroyedOnRecord,
         AnswersOnRecord, ExcludedUnseen

\* A photograph has finitely many faces.
LEMMA FacesFinite ==
  ASSUME NEW p \in Photos
  PROVE  IsFiniteSet(FacesIn(p)) /\ Cardinality(FacesIn(p)) \in Nat
BY FS_Subset, FS_CardinalityType DEF FacesIn

\* The worker's steps keep the types.
LEMMA AlbumTypes ==
  ASSUME NEW p \in Photos, Types, Upload(p) \/ IndexFaces(p) \/ FinishPhoto(p)
  PROVE  Types'
<1>1. CASE Upload(p)
  BY <1>1 DEF Upload, Types, TypeOK
<1>2. CASE IndexFaces(p)
  <2>1. passes' \in [Photos -> Nat] /\ passes'[p] \in Nat
    BY <1>2 DEF IndexFaces, Types, TypeOK
  <2>2. FacesIn(p) \X {passes'[p]} \subseteq Faces \X Nat
    BY <2>1 DEF FacesIn
  <2>3. IsFiniteSet(FacesIn(p) \X {passes'[p]})
    BY FacesFinite, FS_Singleton, FS_Product
  <2>4. rows' \subseteq Faces \X Nat
    BY <1>2, <2>2 DEF IndexFaces, Types, TypeOK
  <2>5. IsFiniteSet(rows')
    BY <1>2, <2>3, FS_Difference, FS_Union DEF IndexFaces, Types
  <2>. QED BY <1>2, <2>1, <2>4, <2>5 DEF IndexFaces, Types, TypeOK
<1>3. CASE FinishPhoto(p)
  BY <1>3, FacesFinite DEF FinishPhoto, Types, TypeOK
<1>. QED BY <1>1, <1>2, <1>3

\* So does retention.
LEMMA RetentionTypes == ASSUME Types, Expire \/ DeleteEvent PROVE Types'
<1>1. CASE Expire
  BY <1>1 DEF Expire, Types, TypeOK
<1>2. CASE DeleteEvent
  BY <1>2, FS_EmptySet DEF DeleteEvent, Types, TypeOK
<1>. QED BY <1>1, <1>2

\* What a search finds are rows.
LEMMA FoundAreRows ==
  ASSUME NEW t \in Templates
  PROVE  Closest(t, Matches(t)) \subseteq Searchable /\ Searchable \subseteq rows
BY DEF Closest, Matches, Searchable

\* Seeing some of the searchable rows keeps the type of the history.
LEMMA ExposingTypes ==
  ASSUME NEW seen \in SUBSET Searchable, Types, Exposing(seen)
  PROVE  exposed' \subseteq Templates \X Faces
<1>1. \A row \in seen : row[1] \in Faces
  BY DEF Searchable, Types, TypeOK
<1>. QED BY <1>1 DEF Exposing, Types, TypeOK

\* A log entry is well formed, and an entry or none is added.
LEMMA LogTypes ==
  ASSUME NEW r \in Requests, NEW counts \in BOOLEAN, NEW s, Types, Log(r, counts, s)
  PROVE  /\ logs' \subseteq Requests \X BOOLEAN
         /\ stage' = [stage EXCEPT ![r] = s] \/ stage' = [stage EXCEPT ![r] = "failed"]
<1>1. <<r, counts>> \in Requests \X BOOLEAN
  BY Zenon
<1>2. logs' = logs \/ logs' = logs \cup {<<r, counts>>}
  BY Zenon DEF Log
<1>. QED BY <1>1, <1>2 DEF Log, Types, TypeOK

\* And those of a search.
LEMMA AttendTypes == ASSUME NEW r \in Requests, Types, Attend(r) PROVE Types'
<1>1. CASE Gate(r) \/ Enroll(r) \/ RequestFails(r)
  BY <1>1 DEF Gate, Enroll, RequestFails, InFlight, Types, TypeOK
<1>2. CASE CheckLimit(r) \/ EnrollFails(r)
  <2>1. \/ Log(r, FALSE, "refused") \/ Log(r, TRUE, "refused")
        \/ To(r, "allowed") /\ UNCHANGED logs
    BY <1>2, Zenon DEF CheckLimit, EnrollFails
  <2>2. logs' \subseteq Requests \X BOOLEAN
    BY <2>1, LogTypes DEF Types, TypeOK
  <2>3. \E s \in {"refused", "allowed", "failed"} : stage' = [stage EXCEPT ![r] = s]
    BY <2>1, LogTypes
  <2>. QED BY <1>2, <2>2, <2>3 DEF CheckLimit, EnrollFails, Types, TypeOK
<1>3. CASE SearchEvent(r)
  <2>1. Selfie[r] \in Templates
    OBVIOUS
  <2>2. Closest(Selfie[r], Matches(Selfie[r])) \in SUBSET Searchable
    BY <2>1, FoundAreRows
  <2>3. found' \in [Requests -> SUBSET (Faces \X Nat)]
    BY <1>3, <2>2 DEF SearchEvent, Searchable, Types, TypeOK
  <2>4. found'[r] \in SUBSET Searchable
    BY <1>3, <2>2 DEF SearchEvent, Types, TypeOK
  <2>5. exposed' \subseteq Templates \X Faces
    BY <1>3, <2>4, ExposingTypes DEF SearchEvent
  <2>. QED BY <1>3, <2>3, <2>5 DEF SearchEvent, Types, TypeOK
<1>4. CASE Destroy(r)
  BY <1>4 DEF Destroy, Types, TypeOK
<1>5. CASE Answer(r)
  <2>1. kept' \in [Requests -> SUBSET (Faces \X Nat)]
    BY <1>5 DEF Answer, Confident, Types, TypeOK
  <2>2. Log(r, TRUE, "answered")
    BY <1>5, Zenon DEF Answer
  <2>3. /\ logs' \subseteq Requests \X BOOLEAN
        /\ stage' = [stage EXCEPT ![r] = "answered"] \/ stage' = [stage EXCEPT ![r] = "failed"]
    BY <2>2, LogTypes
  <2>. QED BY <1>5, <2>1, <2>3 DEF Answer, Types, TypeOK
<1>6. CASE OpenLink(r)
  <2>1. exposed' \subseteq Templates \X Faces
    BY <1>6, ExposingTypes DEF OpenLink
  <2>. QED BY <1>6, <2>1 DEF OpenLink, Types, TypeOK
<1>. QED BY <1>1, <1>2, <1>3, <1>4, <1>5, <1>6 DEF Attend

\* And those of an opt-out.
LEMMA OptOutTypes ==
  ASSUME NEW o \in OptOuts, Types, GateOptOut(o) \/ OptOutFails(o) \/ Purge(o)
  PROVE  Types'
<1>1. CASE GateOptOut(o) \/ OptOutFails(o)
  BY <1>1 DEF GateOptOut, OptOutFails, Types, TypeOK
<1>2. CASE Purge(o)
  <2>1. Near(o) \subseteq rows
    BY DEF Near
  <2>2. Cardinality(Near(o)) \in Nat /\ IsFiniteSet(rows \ Near(o))
    BY <2>1, FS_Subset, FS_Difference, FS_CardinalityType DEF Types
  <2>3. faceCount' \in Nat
    BY <1>2, <2>2 DEF Purge, Corrected, Types, TypeOK
  <2>. QED BY <1>2, <2>2, <2>3 DEF Purge, Types, TypeOK
<1>. QED BY <1>1, <1>2

\* A stutter keeps everything.
LEMMA StutterIInv == IInv /\ UNCHANGED vars => IInv'
BY DEF vars, IInv, Types, TypeOK, NoneLeft, NothingOutlivesEvent, DestroyedOnRecord,
       AnswersOnRecord, ExcludedUnseen

\* The types are inductive.
LEMMA NextTypes == Types /\ Next => Types'
BY AlbumTypes, RetentionTypes, AttendTypes, OptOutTypes DEF Next

-----------------------------------------------------------------------------

\* Nothing comes back into a deleted event.
LEMMA NextGone ==
  IInv /\ Next => NoneLeft' /\ NothingOutlivesEvent'
<1>. SUFFICES ASSUME IInv, Next PROVE NoneLeft' /\ NothingOutlivesEvent'
  OBVIOUS
<1>. USE DEF NoneLeft, NothingOutlivesEvent
<1>1. ASSUME NEW p \in Photos, Upload(p) \/ IndexFaces(p) \/ FinishPhoto(p)
      PROVE  NoneLeft' /\ NothingOutlivesEvent'
  <2>1. event # "gone"
    BY <1>1 DEF Upload, IndexFaces, FinishPhoto, IInv
  <2>2. event' # "gone"
    BY <1>1, <2>1 DEF Upload, IndexFaces, FinishPhoto
  <2>. QED BY <2>2
<1>2. CASE Expire \/ DeleteEvent
  BY <1>2 DEF Expire, DeleteEvent, IInv
<1>3. ASSUME NEW r \in Requests, Attend(r) PROVE NoneLeft' /\ NothingOutlivesEvent'
  <2>1. event = "gone" => logs' = logs
    BY <1>3 DEF Attend, Gate, CheckLimit, Enroll, EnrollFails, SearchEvent, Destroy,
                Answer, RequestFails, OpenLink, Log
  <2>2. UNCHANGED <<event, photo, rows, exclusions>>
    BY <1>3 DEF Attend, Gate, CheckLimit, Enroll, EnrollFails, SearchEvent, Destroy,
                Answer, RequestFails, OpenLink
  <2>. QED BY <2>1, <2>2 DEF IInv
<1>4. ASSUME NEW o \in OptOuts, GateOptOut(o) \/ OptOutFails(o) \/ Purge(o)
      PROVE  NoneLeft' /\ NothingOutlivesEvent'
  BY <1>4 DEF GateOptOut, OptOutFails, Purge, IInv
<1>. QED BY <1>1, <1>2, <1>3, <1>4 DEF Next

\* Whoever is answered is on record: the step that answers comes after the one that
\* destroys, and only retention takes a log away.
LEMMA NextOnRecord ==
  IInv /\ Next => DestroyedOnRecord' /\ AnswersOnRecord'
<1>. SUFFICES ASSUME IInv, Next PROVE DestroyedOnRecord' /\ AnswersOnRecord'
  OBVIOUS
<1>. USE DEF DestroyedOnRecord, AnswersOnRecord
<1>1. ASSUME NEW p \in Photos, Upload(p) \/ IndexFaces(p) \/ FinishPhoto(p)
      PROVE  DestroyedOnRecord' /\ AnswersOnRecord'
  <2>1. event # "gone"
    BY <1>1 DEF Upload, IndexFaces, FinishPhoto, IInv, NoneLeft
  <2>2. UNCHANGED <<stage, audited, logs>>
    BY <1>1 DEF Upload, IndexFaces, FinishPhoto
  <2>. QED BY <2>1, <2>2 DEF IInv
<1>2. CASE Expire \/ DeleteEvent
  BY <1>2 DEF Expire, DeleteEvent, IInv
<1>3. ASSUME NEW r \in Requests, Attend(r) PROVE DestroyedOnRecord' /\ AnswersOnRecord'
  <2>. event' = event
    BY <1>3 DEF Attend, Gate, CheckLimit, Enroll, EnrollFails, SearchEvent, Destroy,
                Answer, RequestFails, OpenLink
  <2>1. CASE Gate(r) \/ CheckLimit(r) \/ Enroll(r) \/ EnrollFails(r) \/ SearchEvent(r)
             \/ RequestFails(r)
    BY <2>1 DEF Gate, CheckLimit, Enroll, EnrollFails, SearchEvent, RequestFails, Log,
                IInv, Types, TypeOK
  <2>2. CASE Destroy(r)
    BY <2>2 DEF Destroy, IInv, Types, TypeOK
  <2>3. CASE Answer(r)
    BY <2>3 DEF Answer, Log, IInv, Types, TypeOK
  <2>4. CASE OpenLink(r)
    BY <2>4 DEF OpenLink, IInv
  <2>. QED BY <1>3, <2>1, <2>2, <2>3, <2>4 DEF Attend
<1>4. ASSUME NEW o \in OptOuts, GateOptOut(o) \/ OptOutFails(o) \/ Purge(o)
      PROVE  DestroyedOnRecord' /\ AnswersOnRecord'
  BY <1>4 DEF GateOptOut, OptOutFails, Purge, IInv, Types, TypeOK
<1>. QED BY <1>1, <1>2, <1>3, <1>4 DEF Next

\* Searchable rows lie beyond the radius of every exclusion there is.
LEMMA ExposingUnseen ==
  ASSUME NEW seen \in SUBSET Searchable, ExcludedUnseen, Types, Exposing(seen)
  PROVE  ExcludedUnseen'
<1>1. \A x \in exclusions, row \in seen : Distance[x][row[1]] >= ExclusionRadius
  BY DEF Searchable
<1>. QED BY <1>1 DEF Exposing, ExcludedUnseen

\* Every step that shows something shows searchable rows.
LEMMA NextUnseen == IInv /\ Next => ExcludedUnseen'
<1>. SUFFICES ASSUME IInv, Next PROVE ExcludedUnseen'
  OBVIOUS
<1>1. ASSUME NEW r \in Requests, SearchEvent(r) PROVE ExcludedUnseen'
  <2>1. found'[r] = Closest(Selfie[r], Matches(Selfie[r]))
    BY <1>1 DEF SearchEvent, IInv, Types, TypeOK
  <2>2. found'[r] \in SUBSET Searchable
    BY <2>1, FoundAreRows
  <2>. QED BY <1>1, <2>2, ExposingUnseen DEF SearchEvent, IInv
<1>2. ASSUME NEW r \in Requests, OpenLink(r) PROVE ExcludedUnseen'
  BY <1>2, ExposingUnseen DEF OpenLink, IInv
<1>3. CASE UNCHANGED exposed
  BY <1>3 DEF ExcludedUnseen, IInv
<1>4. \/ \E r \in Requests : SearchEvent(r) \/ OpenLink(r)
      \/ UNCHANGED exposed
  BY DEF Next, Attend, Upload, IndexFaces, FinishPhoto, Expire, DeleteEvent, Gate,
         CheckLimit, Enroll, EnrollFails, Destroy, Answer, RequestFails, GateOptOut,
         OptOutFails, Purge
<1>. QED BY <1>1, <1>2, <1>3, <1>4

\* The invariant is inductive.
THEOREM Inductive == Spec => []IInv
<1>1. Init => IInv
  BY InitIInv
<1>2. IInv /\ [Next]_vars => IInv'
  BY StutterIInv, NextTypes, NextGone, NextOnRecord, NextUnseen DEF IInv
<1>. QED BY <1>1, <1>2, PTL DEF Spec

\* Type correctness of the attendees' side.
THEOREM SearchTypeCorrect == Spec => []TypeOK
<1>1. IInv => TypeOK
  BY DEF IInv, Types
<1>. QED BY <1>1, Inductive, PTL

\* The deletion of the event is final for what was kept of its people: no search,
\* opt-out or pass that is still under way writes into it.
THEOREM GoneStaysEmpty == Spec => []NothingOutlivesEvent
<1>1. IInv => NothingOutlivesEvent
  BY DEF IInv
<1>. QED BY <1>1, Inductive, PTL

\* Every answered search has the destruction of its selfie on record, and itself
\* while its event lasts.
THEOREM AlwaysOnRecord == Spec => []AnswersOnRecord
<1>1. IInv => AnswersOnRecord
  BY DEF IInv
<1>. QED BY <1>1, Inductive, PTL

\* Nothing within the exclusion radius is shown after an opt-out, whatever passes,
\* searches and keep-links are under way.
THEOREM AlwaysExcluded == Spec => []ExcludedUnseen
<1>1. IInv => ExcludedUnseen
  BY DEF IInv
<1>. QED BY <1>1, Inductive, PTL

-----------------------------------------------------------------------------
(* The face count. *)

DoneRows == {row \in rows : photo[PhotoOf[row[1]]] = "done"}

\* What finish_ingest_job() will count of a photograph is what is there of it.
Uncounted ==
    ~raced => \A p \in Photos :
        photo[p] = "indexed" => RowsOf(p) = FacesIn(p) \X {passes[p]}

CInv == Types /\ Uncounted /\ FaceCountExact

\* Pairing a finite set with one value counts the same.
LEMMA TimesOne ==
  ASSUME NEW S, IsFiniteSet(S), NEW v
  PROVE  IsFiniteSet(S \X {v}) /\ Cardinality(S \X {v}) = Cardinality(S)
<1>1. IsFiniteSet({v}) /\ Cardinality({v}) = 1
  BY FS_Singleton, Zenon
<1>2. IsFiniteSet(S \X {v}) /\ Cardinality(S \X {v}) = Cardinality(S) * Cardinality({v})
  BY <1>1, FS_Product, Zenon
<1>3. Cardinality(S) \in Nat
  BY FS_CardinalityType
<1>. QED BY <1>1, <1>2, <1>3

\* The pairs with one value, one by one.
LEMMA PairsWith ==
  ASSUME NEW S, NEW T, NEW v, \A s \in S : <<s, v>> \in T
  PROVE  S \X {v} \subseteq T
OBVIOUS

\* A pass swaps rows that do not count yet.
LEMMA IndexCounts == ASSUME NEW p \in Photos, CInv, IndexFaces(p) PROVE CInv'
<1>. USE DEF CInv, Types, TypeOK, IndexFaces
<1>1. Types'
  BY AlbumTypes
<1>2. /\ passes'[p] \in Nat
      /\ \A q \in Photos : q # p => passes'[q] = passes[q] /\ photo'[q] = photo[q]
      /\ photo'[p] = "indexed" /\ photo[p] # "done"
  OBVIOUS
<1>3. \A row \in FacesIn(p) \X {passes'[p]} : PhotoOf[row[1]] = p
  BY DEF FacesIn
<1>4. RowsOf(p)' = FacesIn(p) \X {passes'[p]}
  BY <1>3 DEF RowsOf
<1>5. \A q \in Photos : q # p => RowsOf(q)' = RowsOf(q)
  BY <1>3 DEF RowsOf
<1>6. Uncounted'
  BY <1>2, <1>4, <1>5 DEF Uncounted, FacesIn
<1>7. DoneRows' = DoneRows
  <2>1. \A row \in rows : PhotoOf[row[1]] \in Photos
    OBVIOUS
  <2>2. \A row \in rows' \ rows : PhotoOf[row[1]] = p
    BY <1>3
  <2>3. \A row \in rows \ rows' : PhotoOf[row[1]] = p
    BY DEF RowsOf
  <2>. QED BY <1>2, <2>1, <2>2, <2>3 DEF DoneRows
<1>. QED BY <1>1, <1>6, <1>7 DEF FaceCountExact, DoneRows

\* A finish makes the rows of its pass count, and counts them.
LEMMA FinishCounts == ASSUME NEW p \in Photos, CInv, FinishPhoto(p) PROVE CInv'
<1>. USE DEF CInv, Types, TypeOK, FinishPhoto
<1>1. Types'
  BY AlbumTypes
<1>2. Uncounted'
  BY DEF Uncounted, RowsOf, FacesIn
<1>3. ASSUME ~raced PROVE faceCount' = Cardinality(DoneRows')
  <2>1. RowsOf(p) = FacesIn(p) \X {passes[p]}
    BY <1>3 DEF Uncounted
  <2>3. Cardinality(RowsOf(p)) = Cardinality(FacesIn(p))
    BY <2>1, FacesFinite, TimesOne
  <2>4. IsFiniteSet(RowsOf(p)) /\ IsFiniteSet(DoneRows)
    BY FS_Subset DEF RowsOf, DoneRows
  <2>5. DoneRows' = DoneRows \cup RowsOf(p)
    <3>1. \A row \in rows : PhotoOf[row[1]] \in Photos
      OBVIOUS
    <3>. QED BY <3>1 DEF DoneRows, RowsOf
  <2>6. DoneRows \cap RowsOf(p) = {}
    BY DEF DoneRows, RowsOf
  <2>7. Cardinality(DoneRows') = Cardinality(DoneRows) + Cardinality(RowsOf(p))
    <3>1. Cardinality(DoneRows) \in Nat /\ Cardinality(RowsOf(p)) \in Nat
      BY <2>4, FS_CardinalityType
    <3>2. Cardinality(DoneRows \cap RowsOf(p)) = 0
      BY <2>6, FS_EmptySet
    <3>3. Cardinality(DoneRows \cup RowsOf(p))
            = Cardinality(DoneRows) + Cardinality(RowsOf(p)) - Cardinality(DoneRows \cap RowsOf(p))
      BY <2>4, FS_Union, Zenon
    <3>. QED BY <2>5, <3>1, <3>2, <3>3
  <2>. QED BY <1>3, <2>3, <2>7 DEF FaceCountExact, DoneRows
<1>. QED BY <1>1, <1>2, <1>3 DEF FaceCountExact, DoneRows

\* An opt-out takes its rows out of the count, if they all count already.
LEMMA PurgeCounts == ASSUME NEW o \in OptOuts, CInv, Purge(o) PROVE CInv'
<1>. USE DEF CInv, Types, TypeOK, Purge
<1>1. Types'
  BY OptOutTypes
<1>2. ASSUME ~raced' PROVE ~raced /\ Near(o) \subseteq DoneRows
  BY <1>2 DEF Near, DoneRows
<1>3. Uncounted'
  <2>. SUFFICES ASSUME ~raced', NEW p \in Photos, photo[p] = "indexed"
                PROVE  RowsOf(p)' = FacesIn(p) \X {passes[p]}
    BY DEF Uncounted, FacesIn
  <2>1. RowsOf(p)' = RowsOf(p)
    BY <1>2 DEF RowsOf, DoneRows
  <2>. QED BY <1>2, <2>1 DEF Uncounted
<1>4. ASSUME ~raced' PROVE faceCount' = Cardinality(DoneRows')
  <2>0. Near(o) \subseteq DoneRows
    BY <1>2, <1>4
  <2>1. DoneRows' = DoneRows \ Near(o)
    BY DEF DoneRows
  <2>2. IsFiniteSet(DoneRows) /\ IsFiniteSet(Near(o))
    BY <2>0, FS_Subset DEF DoneRows
  <2>3. /\ Cardinality(DoneRows) \in Nat
        /\ Cardinality(Near(o)) \in Nat
        /\ Cardinality(Near(o)) <= Cardinality(DoneRows)
    BY <2>0, <2>2, FS_Subset, FS_CardinalityType
  <2>4. DoneRows \cap Near(o) = Near(o)
    BY <2>0
  <2>5. Cardinality(DoneRows') = Cardinality(DoneRows) - Cardinality(Near(o))
    BY <2>1, <2>2, <2>4, FS_Difference
  <2>6. faceCount = Cardinality(DoneRows)
    BY <1>2, <1>4 DEF FaceCountExact, DoneRows
  <2>. QED BY <2>3, <2>5, <2>6 DEF Corrected
<1>. QED BY <1>1, <1>3, <1>4 DEF FaceCountExact, DoneRows

\* The event's face count is that of its finished photographs' rows, for any number
\* of passes and opt-outs, unless an opt-out purged rows that were not counted yet.
THEOREM FaceCountAlwaysExact == Spec => []FaceCountExact
<1>1. Init => CInv
  BY InitIInv, FS_EmptySet DEF Init, IInv, CInv, Uncounted, FaceCountExact
<1>2. CInv /\ [Next]_vars => CInv'
  <2>. SUFFICES ASSUME CInv, [Next]_vars PROVE CInv'
    OBVIOUS
  <2>1. ASSUME NEW p \in Photos, Upload(p) PROVE CInv'
    <3>1. Types'
      BY <2>1, AlbumTypes DEF CInv
    <3>2. Uncounted'
      BY <2>1 DEF Upload, CInv, Types, TypeOK, Uncounted, RowsOf, FacesIn
    <3>3. DoneRows' = DoneRows
      BY <2>1 DEF Upload, CInv, Types, TypeOK, DoneRows
    <3>. QED BY <2>1, <3>1, <3>2, <3>3 DEF Upload, CInv, FaceCountExact, DoneRows
  <2>2. CASE DeleteEvent
    <3>1. Types' /\ Uncounted'
      BY <2>2, RetentionTypes DEF DeleteEvent, CInv, Uncounted
    <3>2. faceCount' = 0 /\ DoneRows' = {}
      BY <2>2 DEF DeleteEvent, DoneRows
    <3>. QED BY <3>1, <3>2, FS_EmptySet DEF CInv, FaceCountExact, DoneRows
  <2>3. CASE Next /\ UNCHANGED <<photo, passes, rows, faceCount, raced>>
    BY <2>3, NextTypes DEF CInv, Uncounted, FaceCountExact, RowsOf, FacesIn
  <2>4. CASE UNCHANGED vars
    BY <2>4 DEF vars, CInv, Types, TypeOK, Uncounted, FaceCountExact, RowsOf, FacesIn
  <2>5. ASSUME NEW r \in Requests, Attend(r)
        PROVE  UNCHANGED <<photo, passes, rows, faceCount, raced>>
    BY <2>5 DEF Attend, Gate, CheckLimit, Enroll, EnrollFails, SearchEvent, Destroy,
                Answer, RequestFails, OpenLink
  <2>6. ASSUME NEW o \in OptOuts, GateOptOut(o) \/ OptOutFails(o)
        PROVE  UNCHANGED <<photo, passes, rows, faceCount, raced>>
    BY <2>6 DEF GateOptOut, OptOutFails
  <2>7. Expire => UNCHANGED <<photo, passes, rows, faceCount, raced>>
    BY DEF Expire
  <2>. QED BY <2>1, <2>2, <2>3, <2>4, <2>5, <2>6, <2>7, IndexCounts, FinishCounts,
              PurgeCounts DEF Next
<1>3. CInv => FaceCountExact
  BY DEF CInv
<1>. QED BY <1>1, <1>2, <1>3, PTL DEF Spec

-----------------------------------------------------------------------------
(* The limit. *)

Answered == {r \in Requests : stage[r] = "answered"}
Passed == Answered \cup {r \in Requests : stage[r] \in {"allowed", "enrolled", "searched",
                                                        "destroyed"}}

\* Whoever is past the limit was let in below it, together with at most the others
\* that were in flight then.
LInv ==
    /\ IInv
    /\ Cardinality(InFlight) <= AtOnce
    /\ event # "gone" => Cardinality(Passed) <= RateLimit + AtOnce - 1
    /\ LimitHolds

\* The log of finitely many requests is finite.
LEMMA CountedFinite ==
  ASSUME IsFiniteSet(Requests), IInv
  PROVE  IsFiniteSet(Counted) /\ Cardinality(Counted) \in Nat
<1>1. IsFiniteSet({TRUE}) /\ IsFiniteSet({FALSE})
  BY FS_Singleton, Zenon
<1>2. BOOLEAN = {TRUE} \cup {FALSE}
  BY Zenon
<1>3. IsFiniteSet(BOOLEAN)
  <2>1. IsFiniteSet({TRUE} \cup {FALSE})
    BY <1>1, FS_Union, Zenon
  <2>. QED BY <1>2, <2>1
<1>4. IsFiniteSet(Requests \X BOOLEAN)
  BY <1>3, FS_Product, Zenon
<1>5. Counted \subseteq Requests \X BOOLEAN
  BY DEF Counted, IInv, Types, TypeOK
<1>. QED BY <1>4, <1>5, FS_Subset, FS_CardinalityType

\* While the event lasts every answer is counted.
LEMMA AnswersCounted ==
  ASSUME IsFiniteSet(Requests), IInv, event # "gone"
  PROVE  Cardinality(Answered) <= Cardinality(Counted)
<1>1. IsFiniteSet(Answered)
  BY FS_Subset DEF Answered
<1>3. Cardinality(Answered \X {TRUE}) = Cardinality(Answered)
  BY <1>1, TimesOne
<1>4. Answered \X {TRUE} \subseteq Counted
  <2>1. \A r \in Answered : <<r, TRUE>> \in logs
    BY DEF Answered, IInv, AnswersOnRecord
  <2>2. \A r \in Answered : <<r, TRUE>>[2]
    OBVIOUS
  <2>3. \A r \in Answered : <<r, TRUE>> \in Counted
    BY <2>1, <2>2 DEF Counted
  <2>. QED BY <2>3, PairsWith, Zenon
<1>5. IsFiniteSet(Counted)
  BY CountedFinite
<1>. QED BY <1>3, <1>4, <1>5, FS_Subset

\* What a step of a search does to those in flight and those past the limit.
LEMMA AttendMoves ==
  ASSUME IsFiniteSet(Requests), NEW r \in Requests, IInv, Attend(r)
  PROVE  /\ \/ InFlight' \subseteq InFlight
            \/ Cardinality(InFlight) < AtOnce /\ InFlight' \subseteq InFlight \cup {r}
         /\ \/ Passed' \subseteq Passed
            \/ /\ Cardinality(Counted) < RateLimit
               /\ r \in InFlight
               /\ Passed' \subseteq Passed \cup {r}
         /\ \/ Answered' \subseteq Answered
            \/ event # "gone" /\ Answered' \subseteq Passed
<1>. USE DEF IInv, Types, TypeOK
<1>1. CASE Gate(r)
  BY <1>1 DEF Gate, InFlight, Passed, Answered
<1>2. CASE CheckLimit(r)
  <2>1. stage[r] = "gated"
    BY <1>2 DEF CheckLimit
  <2>2. CASE To(r, "allowed") /\ Cardinality(Counted) < RateLimit
    BY <2>1, <2>2 DEF InFlight, Passed, Answered
  <2>3. CASE \E s \in {"refused", "failed"} : To(r, s)
    BY <2>1, <2>3 DEF InFlight, Passed, Answered
  <2>4. CASE Cardinality(Counted) >= RateLimit
    <3>1. Log(r, FALSE, "refused")
      BY <1>2, <2>4, Zenon DEF CheckLimit
    <3>. QED BY <2>3, <3>1 DEF Log
  <2>5. CASE ~(Cardinality(Counted) >= RateLimit)
    <3>1. To(r, "allowed")
      BY <1>2, <2>5, Zenon DEF CheckLimit
    <3>2. Cardinality(Counted) < RateLimit
      BY <2>5, CountedFinite
    <3>. QED BY <2>2, <3>1, <3>2
  <2>. QED BY <2>4, <2>5
<1>3. CASE Enroll(r) \/ SearchEvent(r) \/ Destroy(r)
  BY <1>3 DEF Enroll, SearchEvent, Destroy, InFlight, Passed, Answered
<1>4. CASE EnrollFails(r) \/ RequestFails(r) \/ OpenLink(r)
  BY <1>4 DEF EnrollFails, RequestFails, OpenLink, Log, InFlight, Passed, Answered
<1>5. CASE Answer(r)
  BY <1>5 DEF Answer, Log, InFlight, Passed, Answered
<1>. QED BY <1>1, <1>2, <1>3, <1>4, <1>5 DEF Attend

\* The limit is exceeded by no more than the searches that overtake each other, for
\* any limit and any number of requests; the event's end does not reopen it.
THEOREM LimitAlwaysHolds ==
  ASSUME IsFiniteSet(Requests), AtOnce # 0 PROVE Spec => []LimitHolds
<1>. USE DEF LInv
<1>0. \A S \in SUBSET Requests : IsFiniteSet(S) /\ Cardinality(S) \in Nat
  BY FS_Subset, FS_CardinalityType
<1>1. Init => LInv
  <2>. SUFFICES ASSUME Init PROVE LInv
    OBVIOUS
  <2>1. InFlight = {} /\ Passed = {} /\ Answered = {}
    BY DEF Init, InFlight, Passed, Answered
  <2>2. Cardinality(InFlight) = 0 /\ Cardinality(Passed) = 0 /\ Cardinality(Answered) = 0
    BY <2>1, FS_EmptySet
  <2>3. 0 <= AtOnce /\ 0 <= RateLimit + AtOnce - 1
    OBVIOUS
  <2>4. LimitHolds
    BY <2>2, <2>3 DEF Answered, LimitHolds
  <2>. QED BY <2>2, <2>3, <2>4, InitIInv
<1>2. LInv /\ [Next]_vars => LInv'
  <2>. SUFFICES ASSUME LInv, [Next]_vars PROVE LInv'
    OBVIOUS
  <2>0. IInv'
    BY StutterIInv, NextTypes, NextGone, NextOnRecord, NextUnseen DEF IInv
  <2>1. /\ InFlight \subseteq Requests /\ InFlight' \subseteq Requests
        /\ Passed \subseteq Requests /\ Passed' \subseteq Requests
        /\ Answered \subseteq Passed /\ Answered' \subseteq Requests
        /\ Answered' \subseteq Passed'
    BY DEF InFlight, Passed, Answered
  <2>2. ASSUME NEW r \in Requests, Attend(r) PROVE LInv'
    <3>. DEFINE Others == Passed \cup {r}
    <3>1. Cardinality(InFlight') <= AtOnce
      <4>1. CASE InFlight' \subseteq InFlight
        BY <1>0, <2>1, <4>1, FS_Subset
      <4>2. CASE Cardinality(InFlight) < AtOnce /\ InFlight' \subseteq InFlight \cup {r}
        <5>1. /\ IsFiniteSet(InFlight \cup {r})
              /\ Cardinality(InFlight \cup {r}) <= Cardinality(InFlight) + 1
              /\ Cardinality(InFlight \cup {r}) \in Nat
          <6>1. IsFiniteSet(InFlight) /\ Cardinality(InFlight) \in Nat
            BY <1>0, <2>1
          <6>2. /\ IsFiniteSet(InFlight \cup {r})
                /\ Cardinality(InFlight \cup {r}) = IF r \in InFlight
                      THEN Cardinality(InFlight) ELSE Cardinality(InFlight) + 1
            BY <6>1, FS_AddElement, Zenon
          <6>. QED BY <6>1, <6>2
        <5>2. Cardinality(InFlight') <= Cardinality(InFlight \cup {r})
          BY <4>2, <5>1, FS_Subset
        <5>. QED BY <1>0, <2>1, <4>2, <5>1, <5>2
      <4>. QED BY <2>2, <4>1, <4>2, AttendMoves
    <3>2. event' = event
      BY <2>2 DEF Attend, Gate, CheckLimit, Enroll, EnrollFails, SearchEvent, Destroy,
                  Answer, RequestFails, OpenLink
    <3>3. event # "gone" => Cardinality(Passed') <= RateLimit + AtOnce - 1
      <4>. SUFFICES ASSUME event # "gone"
                    PROVE  Cardinality(Passed') <= RateLimit + AtOnce - 1
        OBVIOUS
      <4>1. CASE Passed' \subseteq Passed
        <5>1. Cardinality(Passed') <= Cardinality(Passed)
          BY <1>0, <2>1, <4>1, FS_Subset
        <5>. QED BY <1>0, <2>1, <5>1
      <4>2. CASE /\ Cardinality(Counted) < RateLimit
                 /\ r \in InFlight
                 /\ Passed' \subseteq Passed \cup {r}
        <5>1. Passed' \subseteq Answered \cup InFlight
          BY <4>2 DEF Passed, InFlight
        <5>2. Cardinality(Answered) < RateLimit
          BY <1>0, <2>1, <4>2, AnswersCounted, CountedFinite
        <5>3. /\ IsFiniteSet(Answered) /\ IsFiniteSet(InFlight)
              /\ Cardinality(Answered) \in Nat /\ Cardinality(InFlight) \in Nat
              /\ Cardinality(Answered \cap InFlight) \in Nat
          BY <1>0, <2>1
        <5>4. Cardinality(Answered \cup InFlight)
                = Cardinality(Answered) + Cardinality(InFlight) - Cardinality(Answered \cap InFlight)
          BY <5>3, FS_Union, Zenon
        <5>5. Cardinality(Passed') <= Cardinality(Answered \cup InFlight)
          BY <1>0, <2>1, <5>1, FS_Subset
        <5>6. Cardinality(Passed') \in Nat /\ Cardinality(InFlight) <= AtOnce
          BY <1>0, <2>1
        <5>. QED BY <5>2, <5>3, <5>4, <5>5, <5>6
      <4>. QED BY <2>2, <4>1, <4>2, AttendMoves
    <3>4. LimitHolds'
      <4>1. CASE Answered' \subseteq Answered
        <5>1. Cardinality(Answered') <= Cardinality(Answered)
          BY <1>0, <2>1, <4>1, FS_Subset
        <5>2. Cardinality(Answered) <= RateLimit + AtOnce - 1
          BY DEF LimitHolds, Answered
        <5>3. Cardinality(Answered) \in Nat /\ Cardinality(Answered') \in Nat
          BY <1>0, <2>1
        <5>. QED BY <5>1, <5>2, <5>3 DEF LimitHolds, Answered
      <4>2. CASE event # "gone" /\ Answered' \subseteq Passed
        <5>1. Cardinality(Answered') <= Cardinality(Passed)
          BY <1>0, <2>1, <4>2, FS_Subset
        <5>2. Cardinality(Passed) \in Nat /\ Cardinality(Answered') \in Nat
          BY <1>0, <2>1
        <5>. QED BY <4>2, <5>1, <5>2 DEF LimitHolds, Answered
      <4>. QED BY <2>2, <4>1, <4>2, AttendMoves
    <3>. QED BY <2>0, <3>1, <3>2, <3>3, <3>4
  <2>3. CASE /\ InFlight' = InFlight /\ Passed' = Passed /\ Answered' = Answered
             /\ event' # "gone" => event # "gone"
    BY <2>0, <2>3 DEF LimitHolds, Answered
  <2>4. (\A r \in Requests : stage'[r] = stage[r]) =>
            InFlight' = InFlight /\ Passed' = Passed /\ Answered' = Answered
    BY DEF InFlight, Passed, Answered
  <2>5. ASSUME NEW p \in Photos, Upload(p) \/ IndexFaces(p) \/ FinishPhoto(p) PROVE LInv'
    <3>1. event # "gone"
      BY <2>5 DEF Upload, IndexFaces, FinishPhoto, IInv, NoneLeft
    <3>2. stage' = stage
      BY <2>5 DEF Upload, IndexFaces, FinishPhoto
    <3>. QED BY <2>3, <2>4, <3>1, <3>2
  <2>6. CASE Expire \/ DeleteEvent \/ UNCHANGED vars
    <3>1. stage' = stage /\ (event' # "gone" => event # "gone")
      BY <2>6 DEF Expire, DeleteEvent, vars
    <3>. QED BY <2>3, <2>4, <3>1
  <2>7. ASSUME NEW o \in OptOuts, GateOptOut(o) \/ OptOutFails(o) \/ Purge(o) PROVE LInv'
    <3>1. event' = event /\ \A r \in Requests : stage'[r] = stage[r]
      BY <2>7 DEF GateOptOut, OptOutFails, Purge, IInv, Types, TypeOK
    <3>. QED BY <2>3, <2>4, <3>1
  <2>. QED BY <2>2, <2>5, <2>6, <2>7 DEF Next
<1>3. LInv => LimitHolds
  OBVIOUS
<1>. QED BY <1>1, <1>2, <1>3, PTL DEF Spec
=============================================================================
