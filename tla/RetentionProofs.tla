-------------------------- MODULE RetentionProofs --------------------------
(***************************************************************************)
(* Theorems about Retention for every set of photographs and collectors,   *)
(* however uploads, passes, retention and collectors interleave and fail.  *)
(***************************************************************************)
EXTENDS Retention, TLAPS

\* While the event lives the collectors have nothing to do.
Quiet ==
    ~gone => /\ \A k \in Objects : rowState[k] = "none"
             /\ \A c \in Collectors : pc[c] \in {"claim", "over", "killed"}

\* The event takes its rows with it; no pass waits for its turn.
Emptied == gone => stored = {} /\ \A p \in Photos : pass[p] # "waiting"

\* While the event lives, what a row or a request has got to is stored.
Backed ==
    ~gone => \A p \in Photos :
        /\ p \in stored \/ upload[p] = "put" => Original(p) \in bucket
        /\ p \in derived \/ pass[p] \in {"preview", "thumb", "recorded"} =>
              <<p, "preview">> \in bucket
        /\ p \in derived \/ pass[p] \in {"thumb", "recorded"} => <<p, "thumb">> \in bucket

\* While the event lives, a pass has its photograph, and a pass that recorded its
\* keys has them in the row.
Joined ==
    ~gone => \A p \in Photos :
        /\ pass[p] # "none" => p \in stored
        /\ pass[p] \in {"recorded", "done"} => p \in derived

\* Nothing has been disturbed: what is stored has a row or a request that will
\* come to it ...
Awaited ==
    ~disturbed /\ ~gone => \A p \in Photos :
        /\ Original(p) \in bucket => p \in stored \/ upload[p] = "put"
        /\ <<p, "preview">> \in bucket =>
              p \in derived \/ pass[p] \in {"preview", "thumb", "recorded"}
        /\ <<p, "thumb">> \in bucket => p \in derived \/ pass[p] \in {"thumb", "recorded"}

\* ... and after the event nothing comes to it any more, and all is handed over.
HandedOver ==
    ~disturbed /\ gone =>
        /\ \A p \in Photos : ~InFlight(p)
        /\ \A k \in bucket : rowState[k] \in {"pending", "failed"}
        /\ \A c \in Collectors : pc[c] = "erased" => cur[c] \notin bucket

\* assert_safe_key() accepts every key that the code builds.
NoneRefused == \A c \in Collectors : pc[c] \notin {"refused", "deferred"}

IInv ==
    /\ TypeOK
    /\ Quiet
    /\ Emptied
    /\ Backed
    /\ Joined
    /\ Awaited
    /\ HandedOver
    /\ NoneRefused

\* The three objects of a photograph, and nothing else.
LEMMA ObjectKinds ==
  /\ \A p \in Photos : Original(p) \in Objects /\ Derivatives(p) \subseteq Objects
  /\ \A k \in Objects : \E p \in Photos :
        k \in {Original(p), <<p, "preview">>, <<p, "thumb">>}
BY DEF Objects, Original, Derivatives

\* The invariant holds in the initial state.
LEMMA InitIInv == Init => IInv
<1>. SUFFICES ASSUME Init PROVE IInv
  OBVIOUS
<1>1. TypeOK
  BY DEF Init, TypeOK, GC!RowsInit, GC!TypeOK, OnRoad
<1>2. Quiet /\ NoneRefused
  BY DEF Init, GC!RowsInit, Quiet, NoneRefused
<1>3. Emptied /\ Backed /\ Joined /\ Awaited /\ HandedOver
  BY DEF Init, Emptied, Backed, Joined, Awaited, HandedOver
<1>. QED BY <1>1, <1>2, <1>3 DEF IInv

-----------------------------------------------------------------------------
(* Uploads and passes. *)

\* The types under a step of an upload or a pass.
LEMMA AlbumTypes == ASSUME NEW p \in Photos, TypeOK, Album(p) PROVE TypeOK'
<1>. USE DEF TypeOK, OnRoad
<1>1. GC!TypeOK'
  BY ObjectKinds DEF Album, CheckEvent, PutOriginal, InsertPhoto, UploadFails,
     ClaimPhoto, WritePreview, WriteThumb, RecordDerivatives, FinishPass, PassFails,
     Smoothly, Elsewhere, queueVars, GC!TypeOK, Derivatives
<1>2. /\ gone' \in BOOLEAN
      /\ stored' \subseteq Photos
      /\ derived' \subseteq stored'
      /\ disturbed' \in BOOLEAN
  BY DEF Album, CheckEvent, PutOriginal, InsertPhoto, UploadFails,
     ClaimPhoto, WritePreview, WriteThumb, RecordDerivatives, FinishPass, PassFails,
     Smoothly
<1>3. upload' \in [Photos -> {"none", "checked", "put"}]
  BY DEF Album, CheckEvent, PutOriginal, InsertPhoto, UploadFails, UploadAt,
     ClaimPhoto, WritePreview, WriteThumb, RecordDerivatives, FinishPass, PassFails
<1>4. pass' \in [Photos -> OnRoad \cup {"none", "waiting", "done", "dead"}]
  BY DEF Album, CheckEvent, PutOriginal, InsertPhoto, UploadFails, PassAt,
     ClaimPhoto, WritePreview, WriteThumb, RecordDerivatives, FinishPass, PassFails
<1>. QED BY <1>1, <1>2, <1>3, <1>4

\* Uploads and passes leave the queue alone and do not revive the event.
LEMMA AlbumApart ==
  ASSUME NEW p \in Photos, IInv, Album(p)
  PROVE  Quiet' /\ NoneRefused' /\ Emptied'
<1>1. UNCHANGED <<gone, rowState, pc>>
  BY DEF Album, CheckEvent, PutOriginal, InsertPhoto, UploadFails, ClaimPhoto,
     WritePreview, WriteThumb, RecordDerivatives, FinishPass, PassFails, Smoothly,
     Elsewhere, queueVars
<1>2. gone => /\ stored' = stored
              /\ \A q \in Photos : pass'[q] = "waiting" => pass[q] = "waiting"
  BY DEF Album, CheckEvent, PutOriginal, InsertPhoto, UploadFails, ClaimPhoto, PassAt,
     WritePreview, WriteThumb, RecordDerivatives, FinishPass, PassFails, IInv, TypeOK
<1>. QED BY <1>1, <1>2 DEF IInv, Quiet, NoneRefused, Emptied

\* The steps of an upload.
LEMMA UploadRest ==
  ASSUME NEW p \in Photos, IInv,
         CheckEvent(p) \/ PutOriginal(p) \/ InsertPhoto(p) \/ UploadFails(p)
  PROVE  Backed' /\ Joined' /\ Awaited' /\ HandedOver'
<1>. USE DEF IInv, TypeOK, Original
<1>1. CASE CheckEvent(p)
  BY <1>1 DEF CheckEvent, UploadAt, Smoothly, Elsewhere, queueVars, Backed, Joined,
     Awaited, HandedOver, InFlight
<1>2. CASE PutOriginal(p)
  <2>1. Backed' /\ Joined'
    BY <1>2 DEF PutOriginal, UploadAt, Backed, Joined
  <2>2. Awaited'
    BY <1>2 DEF PutOriginal, UploadAt, Smoothly, Awaited
  <2>3. HandedOver'
    BY <1>2 DEF PutOriginal, UploadAt, Smoothly, HandedOver, InFlight
  <2>. QED BY <2>1, <2>2, <2>3
<1>3. CASE InsertPhoto(p)
  <2>1. Backed' /\ Joined'
    BY <1>3 DEF InsertPhoto, UploadAt, Backed, Joined
  <2>2. Awaited'
    <3>1. ~gone /\ p \notin stored => pass[p] = "none"
      BY DEF Joined
    <3>2. ~gone => p \in stored'
      BY <1>3 DEF InsertPhoto
    <3>. QED BY <1>3, <3>1, <3>2 DEF InsertPhoto, UploadAt, Smoothly, Awaited
  <2>3. HandedOver'
    BY <1>3 DEF InsertPhoto, UploadAt, Smoothly, HandedOver, InFlight
  <2>. QED BY <2>1, <2>2, <2>3
<1>4. CASE UploadFails(p)
  BY <1>4 DEF UploadFails, UploadAt, Backed, Joined, Awaited, HandedOver
<1>. QED BY <1>1, <1>2, <1>3, <1>4

\* The steps of a pass that write an object.
LEMMA WriteRest ==
  ASSUME NEW p \in Photos, IInv, WritePreview(p) \/ WriteThumb(p)
  PROVE  Backed' /\ Joined' /\ Awaited' /\ HandedOver'
<1>. USE DEF IInv, TypeOK, Original, PassAt, OnRoad
<1>1. Backed' /\ Joined'
  BY DEF WritePreview, WriteThumb, Backed, Joined
<1>2. Awaited'
  <2>1. CASE WritePreview(p)
    BY <2>1 DEF WritePreview, Smoothly, Awaited
  <2>2. CASE WriteThumb(p)
    BY <2>2 DEF WriteThumb, Smoothly, Awaited
  <2>. QED BY <2>1, <2>2
<1>3. HandedOver'
  BY DEF WritePreview, WriteThumb, Smoothly, HandedOver, InFlight
<1>. QED BY <1>1, <1>2, <1>3

\* The steps of a pass that only write rows.
LEMMA PassRest ==
  ASSUME NEW p \in Photos, IInv,
         ClaimPhoto(p) \/ RecordDerivatives(p) \/ FinishPass(p) \/ PassFails(p)
  PROVE  Backed' /\ Joined' /\ Awaited' /\ HandedOver'
<1>. USE DEF IInv, TypeOK, PassAt, OnRoad
<1>1. CASE ClaimPhoto(p)
  <2>1. HandedOver'
    BY <1>1 DEF ClaimPhoto, Smoothly, HandedOver, Emptied
  <2>2. Backed' /\ Joined' /\ Awaited'
    BY <1>1 DEF ClaimPhoto, Smoothly, Backed, Joined, Awaited
  <2>. QED BY <2>1, <2>2
<1>2. CASE RecordDerivatives(p)
  <2>1. Backed' /\ Joined' /\ Awaited'
    BY <1>2 DEF RecordDerivatives, Smoothly, Backed, Joined, Awaited
  <2>2. HandedOver'
    BY <1>2 DEF RecordDerivatives, Smoothly, HandedOver, InFlight
  <2>. QED BY <2>1, <2>2
<1>3. CASE FinishPass(p)
  <2>1. Backed' /\ Joined' /\ Awaited'
    BY <1>3 DEF FinishPass, Smoothly, Backed, Joined, Awaited
  <2>2. HandedOver'
    BY <1>3 DEF FinishPass, Smoothly, HandedOver, InFlight
  <2>. QED BY <2>1, <2>2
<1>4. CASE PassFails(p)
  <2>1. disturbed' /\ pass[p] # "none" /\ UNCHANGED <<gone, stored, derived, upload, bucket>>
    BY <1>4 DEF PassFails
  <2>2. ~gone => /\ pass'[p] \in {"waiting", "dead"}
                 /\ \A q \in Photos : q # p => pass'[q] = pass[q]
    BY <1>4 DEF PassFails
  <2>. QED BY <2>1, <2>2 DEF Backed, Joined, Awaited, HandedOver
<1>. QED BY <1>1, <1>2, <1>3, <1>4

\* A step of an upload or a pass keeps the invariant.
LEMMA AlbumIInv == ASSUME NEW p \in Photos, IInv, Album(p) PROVE IInv'
<1>1. TypeOK'
  BY AlbumTypes DEF IInv
<1>2. Backed' /\ Joined' /\ Awaited' /\ HandedOver'
  BY UploadRest, WriteRest, PassRest DEF Album
<1>. QED BY <1>1, <1>2, AlbumApart DEF IInv
-----------------------------------------------------------------------------
(* Retention. *)

\* run_retention() hands over what the rows name; in an undisturbed event that is
\* all there is.
LEMMA RetentionIInv == ASSUME IInv, RunRetention PROVE IInv'
<1>. USE DEF IInv
<1>1. \A k \in Objects : rowState[k] = "none"
  BY DEF RunRetention, Quiet
<1>2. TypeOK'
  BY DEF RunRetention, TypeOK, OnRoad, queueVars, GC!TypeOK, GC!Enqueued
<1>3. Quiet' /\ Backed' /\ Joined' /\ Awaited'
  BY DEF RunRetention, Quiet, Backed, Joined, Awaited
<1>4. Emptied'
  BY DEF RunRetention, Emptied, OnRoad, TypeOK
<1>5. NoneRefused'
  BY DEF RunRetention, NoneRefused, queueVars
<1>6. HandedOver'
  <2>. SUFFICES ASSUME ~disturbed'
                PROVE  /\ \A p \in Photos : ~InFlight(p)'
                       /\ \A k \in bucket' : rowState'[k] \in {"pending", "failed"}
                       /\ \A c \in Collectors : pc'[c] = "erased" => cur'[c] \notin bucket'
    BY DEF HandedOver
  <2>1. ~gone /\ ~disturbed /\ \A p \in Photos : ~InFlight(p)
    BY DEF RunRetention, TypeOK
  <2>2. \A p \in Photos : ~InFlight(p)'
    BY <2>1 DEF RunRetention, InFlight, OnRoad, TypeOK
  <2>3. \A c \in Collectors : pc'[c] # "erased"
    BY <2>1 DEF RunRetention, queueVars, Quiet
  <2>4. \A k \in bucket : rowState'[k] = "pending"
    <3>. SUFFICES ASSUME NEW k \in bucket PROVE rowState'[k] = "pending"
      OBVIOUS
    <3>1. k \in Objects
      BY DEF TypeOK, GC!TypeOK
    <3>2. PICK p \in Photos : k \in {Original(p), <<p, "preview">>, <<p, "thumb">>}
      BY <3>1, ObjectKinds
    <3>3. upload[p] = "none" /\ pass[p] \notin OnRoad
      BY <2>1 DEF InFlight
    <3>4. k = Original(p) => p \in stored
      BY <2>1, <3>3 DEF Awaited
    <3>5. k \in Derivatives(p) => p \in derived
      BY <2>1, <3>3 DEF Awaited, Derivatives, OnRoad
    <3>6. k = Original(p) \/ k \in Derivatives(p)
      BY <3>2 DEF Derivatives
    <3>7. k \in {Original(q) : q \in stored} \cup UNION {Derivatives(q) : q \in derived}
      BY <3>4, <3>5, <3>6
    <3>. QED BY <1>1, <3>1, <3>7 DEF RunRetention, GC!Enqueued
  <2>. QED BY <2>2, <2>3, <2>4 DEF RunRetention
<1>. QED BY <1>2, <1>3, <1>4, <1>5, <1>6

-----------------------------------------------------------------------------
(* The collectors. *)

\* The actions of Collect, one by one.
LEMMA CollectCases ==
  ASSUME GC!Collect
  PROVE  \/ \E k \in Objects : GC!BackoffElapses(k) \/ GC!LeaseExpires(k)
         \/ \E c \in Collectors : GC!Claim(c)
         \/ \E c \in Collectors : GC!ClaimNothing(c) \/ GC!Kill(c) \/ GC!Start(c)
         \/ \E c \in Collectors, k \in Objects :
               GC!Erase(c, k) \/ GC!EraseFails(c, k) \/ GC!Refuse(c, k)
         \/ \E c \in Collectors : GC!FinishErased(c) \/ GC!FinishRaised(c)
         \/ \E c \in Collectors : GC!FinishRefused(c) \/ GC!MarkFailed(c)
BY DEF GC!Collect, GC!Drain

\* The types under a step of the collectors.
LEMMA CollectTypes == ASSUME GC!TypeOK, GC!Collect PROVE GC!TypeOK'
<1>. USE DEF GC!TypeOK
<1>1. ASSUME NEW k \in Objects, GC!BackoffElapses(k) \/ GC!LeaseExpires(k)
      PROVE  GC!TypeOK'
  <2>1. CASE GC!BackoffElapses(k)
    BY <2>1 DEF GC!BackoffElapses, GC!procVars
  <2>2. CASE GC!LeaseExpires(k)
    BY <2>2 DEF GC!LeaseExpires, GC!procVars
  <2>. QED BY <1>1, <2>1, <2>2
<1>2. ASSUME NEW c \in Collectors, GC!Claim(c) PROVE GC!TypeOK'
  <2>. PICK S \in SUBSET GC!Claimable :
        /\ attempts' = [k \in Objects |-> IF k \in S THEN attempts[k] + 1 ELSE attempts[k]]
        /\ lockedBy' = [k \in Objects |-> IF k \in S THEN c ELSE lockedBy[k]]
        /\ lease' = [k \in Objects |-> IF k \in S THEN "live" ELSE lease[k]]
        /\ GC!Proceed(c, S, FALSE)
    BY <1>2 DEF GC!Claim
  <2>1. S \subseteq Objects
    BY DEF GC!Claimable
  <2>. QED BY <1>2, <2>1 DEF GC!Claim, GC!Proceed
<1>3. ASSUME NEW c \in Collectors, GC!ClaimNothing(c) \/ GC!Kill(c) \/ GC!Start(c)
      PROVE  GC!TypeOK'
  <2>1. CASE GC!ClaimNothing(c)
    BY <2>1 DEF GC!ClaimNothing, GC!Proceed, GC!rowVars
  <2>2. CASE GC!Kill(c)
    BY <2>2 DEF GC!Kill, GC!rowVars
  <2>3. CASE GC!Start(c)
    BY <2>3 DEF GC!Start, GC!rowVars
  <2>. QED BY <1>3, <2>1, <2>2, <2>3
<1>4. ASSUME NEW c \in Collectors, NEW k \in Objects,
             GC!Erase(c, k) \/ GC!EraseFails(c, k) \/ GC!Refuse(c, k)
      PROVE  GC!TypeOK'
  BY <1>4 DEF GC!Erase, GC!EraseFails, GC!Refuse, GC!At, GC!rowVars
<1>5. ASSUME NEW c \in Collectors, GC!FinishErased(c) PROVE GC!TypeOK'
  BY <1>5 DEF GC!FinishErased, GC!FinishRow, GC!Proceed
<1>6. ASSUME NEW c \in Collectors, GC!FinishRaised(c) PROVE GC!TypeOK'
  BY <1>6 DEF GC!FinishRaised, GC!FinishRow, GC!FailState, GC!Proceed
<1>7. ASSUME NEW c \in Collectors, GC!FinishRefused(c) \/ GC!MarkFailed(c)
      PROVE  GC!TypeOK'
  <2>1. CASE GC!FinishRefused(c)
    BY <2>1 DEF GC!FinishRefused, GC!FinishRow, GC!FailState
  <2>2. CASE GC!MarkFailed(c)
    BY <2>2 DEF GC!MarkFailed, GC!Proceed
  <2>. QED BY <1>7, <2>1, <2>2
<1>. QED BY CollectCases, <1>1, <1>2, <1>3, <1>4, <1>5, <1>6, <1>7

\* While no row is there the collectors find nothing and erase nothing.
LEMMA CollectQuiet ==
  ASSUME IInv, ~gone, GC!Collect
  PROVE  /\ UNCHANGED <<bucket, rowState>>
         /\ \A c \in Collectors : pc'[c] \in {"claim", "over", "killed"}
<1>. USE DEF IInv, TypeOK, GC!TypeOK
<1>1. GC!Claimable = {}
  BY DEF Quiet, GC!Claimable
<1>2. \A c \in Collectors : pc[c] \in {"claim", "over", "killed"}
  BY DEF Quiet
<1>3. ASSUME NEW k \in Objects, GC!BackoffElapses(k) \/ GC!LeaseExpires(k)
      PROVE  UNCHANGED <<bucket, rowState, pc>>
  BY <1>3 DEF GC!BackoffElapses, GC!LeaseExpires, GC!procVars
<1>4. ASSUME NEW c \in Collectors, GC!ClaimNothing(c) \/ GC!Kill(c) \/ GC!Start(c)
      PROVE  /\ UNCHANGED <<bucket, rowState>>
             /\ \A d \in Collectors : pc'[d] \in {"claim", "over", "killed"}
  BY <1>2, <1>4 DEF GC!ClaimNothing, GC!Proceed, GC!Kill, GC!Start, GC!rowVars
<1>5. \A c \in Collectors : ~GC!Claim(c)
  BY <1>1 DEF GC!Claim
<1>6. \A c \in Collectors, k \in Objects :
        ~(GC!Erase(c, k) \/ GC!EraseFails(c, k) \/ GC!Refuse(c, k))
  BY <1>2 DEF GC!Erase, GC!EraseFails, GC!Refuse
<1>7. \A c \in Collectors :
        ~(GC!FinishErased(c) \/ GC!FinishRaised(c) \/ GC!FinishRefused(c) \/ GC!MarkFailed(c))
  BY <1>2 DEF GC!FinishErased, GC!FinishRaised, GC!FinishRefused, GC!MarkFailed
<1>. QED BY CollectCases, <1>2, <1>3, <1>4, <1>5, <1>6, <1>7

\* After the event they answer for what they erased, and refuse nothing.
LEMMA CollectGone ==
  ASSUME IInv, GC!Collect, UNCHANGED albumVars, gone
  PROVE  HandedOver' /\ NoneRefused'
<1>. USE DEF IInv, TypeOK, GC!TypeOK
<1>1. UNCHANGED <<gone, disturbed, upload, pass>>
  BY DEF albumVars
<1>2. (\A p \in Photos : ~InFlight(p)) => \A p \in Photos : ~InFlight(p)'
  BY <1>1 DEF InFlight
<1>. DEFINE Sound == \A k \in bucket : rowState[k] \in {"pending", "failed"}
            Aware == \A c \in Collectors : pc[c] = "erased" => cur[c] \notin bucket
            Goal == NoneRefused' /\ (Sound /\ Aware => Sound' /\ Aware')
<1>3. ASSUME NEW k \in Objects, GC!BackoffElapses(k) \/ GC!LeaseExpires(k) PROVE Goal
  BY <1>3 DEF GC!BackoffElapses, GC!LeaseExpires, GC!procVars, NoneRefused
<1>4. ASSUME NEW c \in Collectors, GC!Claim(c) PROVE Goal
  BY <1>4 DEF GC!Claim, GC!Proceed, NoneRefused
<1>5. ASSUME NEW c \in Collectors, GC!ClaimNothing(c) \/ GC!Kill(c) \/ GC!Start(c)
      PROVE  Goal
  BY <1>5 DEF GC!ClaimNothing, GC!Proceed, GC!Kill, GC!Start, GC!rowVars, NoneRefused
<1>6. ASSUME NEW c \in Collectors, NEW k \in Objects,
             GC!Erase(c, k) \/ GC!EraseFails(c, k) \/ GC!Refuse(c, k)
      PROVE  Goal
  BY <1>6 DEF GC!Erase, GC!EraseFails, GC!Refuse, GC!At, GC!rowVars, NoneRefused
<1>7. ASSUME NEW c \in Collectors, GC!FinishErased(c) PROVE Goal
  BY <1>7 DEF GC!FinishErased, GC!FinishRow, GC!Proceed, NoneRefused
<1>8. ASSUME NEW c \in Collectors, GC!FinishRaised(c) PROVE Goal
  BY <1>8 DEF GC!FinishRaised, GC!FinishRow, GC!FailState, GC!Proceed, NoneRefused
<1>9. \A c \in Collectors : ~(GC!FinishRefused(c) \/ GC!MarkFailed(c))
  BY DEF NoneRefused, GC!FinishRefused, GC!MarkFailed
<1>10. Goal
  BY CollectCases, <1>3, <1>4, <1>5, <1>6, <1>7, <1>8, <1>9
<1>. QED BY <1>1, <1>2, <1>10 DEF HandedOver

\* A step of the collectors keeps the invariant.
LEMMA CollectIInv == ASSUME IInv, GC!Collect, UNCHANGED albumVars PROVE IInv'
<1>1. TypeOK'
  BY CollectTypes DEF IInv, TypeOK, albumVars
<1>2. CASE ~gone
  <2>1. Quiet' /\ NoneRefused'
    BY <1>2, CollectQuiet DEF IInv, Quiet, NoneRefused, albumVars
  <2>2. UNCHANGED bucket
    BY <1>2, CollectQuiet
  <2>3. Emptied' /\ Backed' /\ Joined' /\ Awaited' /\ HandedOver'
    BY <1>2, <2>2 DEF IInv, Emptied, Backed, Joined, Awaited, HandedOver, albumVars
  <2>. QED BY <1>1, <2>1, <2>3 DEF IInv
<1>3. CASE gone
  <2>1. Quiet' /\ Emptied' /\ Backed' /\ Joined' /\ Awaited'
    BY <1>3 DEF IInv, Quiet, Emptied, Backed, Joined, Awaited, albumVars
  <2>. QED BY <1>1, <1>3, <2>1, CollectGone DEF IInv
<1>. QED BY <1>2, <1>3

-----------------------------------------------------------------------------

\* The invariant is inductive.
LEMMA NextIInv == IInv /\ [Next]_vars => IInv'
<1>. SUFFICES ASSUME IInv, [Next]_vars PROVE IInv'
  OBVIOUS
<1>1. CASE UNCHANGED vars
  BY <1>1 DEF vars, albumVars, queueVars, IInv, TypeOK, GC!TypeOK, Quiet, Emptied,
     Backed, Joined, Awaited, HandedOver, InFlight, NoneRefused
<1>2. CASE Next
  BY <1>2, AlbumIInv, RetentionIInv, CollectIInv DEF Next
<1>. QED BY <1>1, <1>2

\* Event, requests, passes, queue and store keep together in every reachable state.
THEOREM RetentionInvariant == Spec => []IInv
BY InitIInv, NextIInv, PTL DEF Spec

\* The rows of the event and of its collectors keep their types.
THEOREM RetentionTypeCorrect == Spec => []TypeOK
BY RetentionInvariant, PTL DEF IInv

\* The collector, which works from keys alone, never takes an object that a photo
\* row still names, however many uploads, passes and collectors overlap or break off.
THEOREM ShownAlwaysStored == Spec => []ShownIsStored
<1>1. IInv => ShownIsStored
  BY DEF IInv, Emptied, Backed, TypeOK, ShownIsStored, Derivatives
<1>. QED BY <1>1, RetentionInvariant, PTL

\* run_retention() forgets no object of an event whose uploads and passes all came
\* to their ends before it did.
THEOREM UndisturbedAllErased == Spec => []NothingForgotten
<1>1. IInv => NothingForgotten
  BY DEF IInv, HandedOver, NothingForgotten, AllEnqueued
<1>. QED BY <1>1, RetentionInvariant, PTL
=============================================================================
