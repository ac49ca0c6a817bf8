---------------------------- MODULE EnrolService ----------------------------
(***************************************************************************)
(* faceapp_worker.service: the process that turns selfie frames into a     *)
(* template.  The model is loaded by whoever needs it first, under a       *)
(* double-checked lock: a thread started with the process, or the event    *)
(* loop itself, which runs the enrolments one at a time and answers        *)
(* nothing while it waits for the lock or loads.                           *)
(***************************************************************************)
EXTENDS Naturals, Sequences, FiniteSets

CONSTANTS
    Requests,      \* the enrolments that clients ask for
    Frames,        \* what the frames of a request may show, sequences of Shows
    MaxFrames,     \* MAX_FRAMES
    NoThread, NoRequest,
    MaxFailures,   \* bound on failed loads
    MaxRestarts    \* bound on restarts of the container

ASSUME ThreadsAssumption == NoThread \notin {"warm", "loop"} /\ NoRequest \notin Requests

\* What one frame shows: nothing that decodes, no face, several, one too far
\* away (MIN_FACE_FRACTION), or one to enrol from.
Shows == {"undecodable", "none", "many", "far", "face"}
Threads == {"warm", "loop"}

VARIABLES
    at,         \* thread -> where it is in engine(); "out" is outside
    holder,     \* _engine_lock
    engineSet,  \* _engine is not None
    policySet,  \* _policy is not None
    serving,    \* the request whose enroll() has the event loop
    frames,     \* request -> its frames
    request,    \* request -> how far it is, or its answer
    probe,      \* a health check waits for its answer
    failures, restarts

serviceVars == <<at, holder, engineSet, policySet, serving, frames, request, probe,
                 failures, restarts>>

Answers == {"template", "unusable", "refused", "error"}
Loading == {"model", "policy", "publish"}

NothingYet ==
    /\ holder = NoThread
    /\ engineSet = FALSE
    /\ policySet = FALSE
    /\ serving = NoRequest
    /\ frames = [q \in Requests |-> <<>>]
    /\ request = [q \in Requests |-> "none"]
    /\ probe = FALSE
    /\ failures = 0
    /\ restarts = 0

\* lifespan() starts the warming thread with the process.
ServiceInit ==
    /\ at = [t \in Threads |-> IF t = "warm" THEN "check" ELSE "out"]
    /\ NothingYet

\* The container runs another command.
ServiceAbsent == at = [t \in Threads |-> "out"] /\ NothingYet

Goes(t, from, to) ==
    /\ at[t] = from
    /\ at' = [at EXCEPT ![t] = to]

-----------------------------------------------------------------------------
(* engine() *)

requestVars == <<serving, frames, request, probe, failures, restarts>>

FirstLook(t) ==
    /\ Goes(t, "check", IF engineSet THEN "in" ELSE "lock")
    /\ UNCHANGED <<holder, engineSet, policySet, requestVars>>

TakeLock(t) ==
    /\ holder = NoThread
    /\ Goes(t, "lock", "recheck")
    /\ holder' = t
    /\ UNCHANGED <<engineSet, policySet, requestVars>>

\* A faulty variant of SecondLook: single-checked.
SecondLookSkipped(t) ==
    /\ Goes(t, "recheck", "model")
    /\ UNCHANGED <<holder, engineSet, policySet, requestVars>>

SecondLook(t) ==
    /\ Goes(t, "recheck", IF engineSet THEN "in" ELSE "model")
    /\ holder' = IF engineSet THEN NoThread ELSE holder
    /\ UNCHANGED <<engineSet, policySet, requestVars>>

LoadModel(t) ==
    /\ Goes(t, "model", "policy")
    /\ UNCHANGED <<holder, engineSet, policySet, requestVars>>

LoadPolicy(t) ==
    /\ Goes(t, "policy", "publish")
    /\ policySet' = TRUE
    /\ UNCHANGED <<holder, engineSet, requestVars>>

\* Published last.
Publish(t) ==
    /\ Goes(t, "publish", "in")
    /\ engineSet' = TRUE
    /\ holder' = NoThread
    /\ UNCHANGED <<policySet, requestVars>>

\* A faulty variant of LoadFails: the lock is not released.
LoadFailsHolding(t) ==
    /\ failures < MaxFailures
    /\ at[t] \in {"model", "policy"}
    /\ at' = [at EXCEPT ![t] = "out"]
    /\ request' = IF t = "loop" THEN [request EXCEPT ![serving] = "error"] ELSE request
    /\ serving' = IF t = "loop" THEN NoRequest ELSE serving
    /\ failures' = failures + 1
    /\ UNCHANGED <<holder, engineSet, policySet, frames, probe, restarts>>

\* The import, the constructor or the policy file raises: the lock is released,
\* the warming thread ends and a request is answered 500.
LoadFails(t) ==
    /\ failures < MaxFailures
    /\ at[t] \in {"model", "policy"}
    /\ at' = [at EXCEPT ![t] = "out"]
    /\ holder' = NoThread
    /\ request' = IF t = "loop" THEN [request EXCEPT ![serving] = "error"] ELSE request
    /\ serving' = IF t = "loop" THEN NoRequest ELSE serving
    /\ failures' = failures + 1
    /\ UNCHANGED <<engineSet, policySet, frames, probe, restarts>>

Warmed ==
    /\ Goes("warm", "in", "out")
    /\ UNCHANGED <<holder, engineSet, policySet, requestVars>>

-----------------------------------------------------------------------------
(* The event loop *)

Free == at["loop"] = "out"
engineVars == <<holder, engineSet, policySet>>

Ask(q) ==
    /\ request[q] = "none"
    /\ request' = [request EXCEPT ![q] = "asked"]
    /\ \E fs \in Frames : frames' = [frames EXCEPT ![q] = fs]
    /\ UNCHANGED <<at, engineVars, serving, probe, failures, restarts>>

\* require_token() and the awaits in enroll(): how many frames, what decodes.
Receive(q) ==
    /\ Free
    /\ request[q] = "asked"
    /\ request' = [request EXCEPT ![q] =
           IF frames[q] = <<>> \/ Len(frames[q]) > MaxFrames
              \/ \E i \in DOMAIN frames[q] : frames[q][i] = "undecodable"
           THEN "refused" ELSE "read"]
    /\ UNCHANGED <<at, engineVars, serving, frames, probe, failures, restarts>>

\* No await from here on: the loop is in engine() for this request.
Enter(q) ==
    /\ request[q] = "read"
    /\ Goes("loop", "out", "check")
    /\ serving' = q
    /\ UNCHANGED <<engineVars, frames, request, probe, failures, restarts>>

\* The template is averaged from the frames with one near face, if any.  The model and
\* the averaging may raise on what they are given, which is answered 500.
Enrolled(fs) ==
    IF \E i \in DOMAIN fs : fs[i] = "face" THEN "template" ELSE "unusable"

Answer ==
    /\ Goes("loop", "in", "out")
    /\ \E answer \in {"error"} \cup (IF policySet THEN {Enrolled(frames[serving])} ELSE {}) :
           request' = [request EXCEPT ![serving] = answer]
    /\ serving' = NoRequest
    /\ UNCHANGED <<engineVars, frames, probe, failures, restarts>>

\* health() loads nothing, but it is dispatched by the loop.
Probe ==
    /\ ~probe
    /\ probe' = TRUE
    /\ UNCHANGED <<at, engineVars, serving, frames, request, failures, restarts>>
AnswerProbe ==
    /\ Free /\ probe
    /\ probe' = FALSE
    /\ UNCHANGED <<at, engineVars, serving, frames, request, failures, restarts>>

\* The host restarts the container: a crash, a deployment, or health checks that
\* went unanswered.  What was asked is lost.
Restart ==
    /\ restarts < MaxRestarts
    /\ restarts' = restarts + 1
    /\ at' = [t \in Threads |-> IF t = "warm" THEN "check" ELSE "out"]
    /\ holder' = NoThread
    /\ engineSet' = FALSE
    /\ policySet' = FALSE
    /\ serving' = NoRequest
    /\ request' = [q \in Requests |->
           IF request[q] \in {"asked", "read"} THEN "error" ELSE request[q]]
    /\ probe' = FALSE
    /\ UNCHANGED <<frames, failures>>

EngineStep(t) ==
    \/ FirstLook(t)
    \/ TakeLock(t)
    \/ SecondLook(t)
    \/ LoadModel(t)
    \/ LoadPolicy(t)
    \/ Publish(t)
    \/ LoadFails(t)

ServiceNext ==
    \/ \E t \in Threads : EngineStep(t)
    \/ Warmed
    \/ \E q \in Requests : Ask(q) \/ Receive(q) \/ Enter(q)
    \/ Answer
    \/ Probe
    \/ AnswerProbe
    \/ Restart

ServiceSpec == ServiceInit /\ [][ServiceNext]_serviceVars

\* Threads run, the loop takes every coroutine up, and a load ends one way or the
\* other.
ServiceFairness ==
    /\ \A t \in Threads : WF_serviceVars(EngineStep(t))
    /\ WF_serviceVars(Warmed)
    /\ \A q \in Requests : SF_serviceVars(Receive(q) \/ Enter(q))
    /\ WF_serviceVars(Answer)
    /\ SF_serviceVars(AnswerProbe)

-----------------------------------------------------------------------------

\* "No other thread can see a half-built engine", nor does a second one load its
\* own copy: loading holds the lock, and nobody begins after it was published.
EngineWhole ==
    /\ engineSet => policySet
    /\ \A t \in Threads : at[t] \in Loading => holder = t /\ ~engineSet
    /\ \A t \in Threads : at[t] = "in" => engineSet

\* Every enrolment and every health check is answered (or ended by a restart), at
\* whatever point of a load it arrives and whichever loads fail.
EnrolmentsAnswered ==
    /\ \A q \in Requests : request[q] = "asked" ~> request[q] \in Answers
    /\ probe ~> ~probe
=============================================================================
