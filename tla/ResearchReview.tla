---------------------------- MODULE ResearchReview ----------------------------
(***************************************************************************)
(* The closed research loop.  The supervisor's model makes tool calls; the *)
(* middleware jw/middleware/research_review_orchestration.py lets each do  *)
(* the one action the store allows next: it reserves the action, runs the  *)
(* specialist, and persists what came back.  The calls of one response run *)
(* together and the next response comes when all have returned, so calls   *)
(* of one batch overlap: an action ends where a lock is given up or        *)
(* another agent runs.                                                     *)
(*                                                                         *)
(* What goes wrong (a failed specialist, a verdict that does not accept, a *)
(* crash, a second call in a batch, an operator who steps in) is           *)
(* counted in mishaps and bounded by MaxMishaps.                           *)
(***************************************************************************)
EXTENDS ReviewStore

CONSTANTS
    Calls,          \* the tool calls of one response of the model
    MaxMishaps      \* bound

ASSUME CallsAssumption == IsFiniteSet(Calls) /\ Calls # {}
\* A call looks in its own thread; the other threads are those of the router,
\* of evidence_review_get_status and of calls that were cancelled.
ASSUME LookersAssumption == Calls \subseteq Lookers
ASSUME MishapAssumption == MaxMishaps \in Nat

VARIABLES
    calls,          \* per call: where it is, its action, the version it saw
    failed,         \* failures of a specialist in the messages of this turn
    delivered,      \* history: the reports that were returned
    charged,        \* history: actions reserved, verdicts entered but blocks
    setBack,        \* history: the budgets whose counter a save has set back
    mishaps         \* how much has gone wrong

books == <<charged, setBack>>
vars == <<store, calls, failed, delivered, books, mishaps>>

Idle == [pc |-> "idle", act |-> Terminal, seen |-> 0]
Quiet == \A c \in Calls : calls[c] = Idle
NoFailures == [s \in Specialists |-> 0]

Init ==
    /\ InitStore
    /\ calls = [c \in Calls |-> Idle]
    /\ failed = NoFailures
    /\ delivered = {} /\ mishaps = 0
    /\ charged = [actions |-> 0, reviews |-> 0] /\ setBack = {}

Goto(c, pc)  == calls' = [calls EXCEPT ![c].pc = pc]
\* The batch is over when its last call returns.
Done == [Idle EXCEPT !.pc = "done"]
Return(c) ==
    calls' = IF \A d \in Calls \ {c} : calls[d] \in {Idle, Done}
             THEN [d \in Calls |-> Idle] ELSE [calls EXCEPT ![c] = Done]
Mishap == mishaps < MaxMishaps /\ mishaps' = mishaps + 1
\* The counters that are lower in a run state than in the one it replaces.
SetBackIn(st) == {budget \in {"actions", "reviews"} : st[budget] < state[budget]}
Sets(st) == setBack' = setBack \cup SetBackIn(st)
\* A failure the next call of this turn will count; two are enough.
CountFailure(owner) ==
    failed' = [failed EXCEPT ![owner] = IF @ < 2 THEN @ + 1 ELSE @]

-----------------------------------------------------------------------------
(* Before the specialist: _prepare.                                        *)

\* The calls of a response with an accepted report are dropped by the router.
ReportReady == route = <<>> /\ Accepted("final_release")

\* A batch of several calls counts as one mishap.
Begin(c) ==
    /\ calls[c].pc = "idle"
    /\ Quiet => ~ReportReady
    /\ IF Cardinality({d \in Calls : calls[d] # Idle}) = 1
       THEN Mishap ELSE UNCHANGED mishaps
    /\ Recover
    /\ Sets(state')
    /\ Goto(c, "decide")
    /\ UNCHANGED <<failed, delivered, charged>>

Decide(c) ==
    /\ calls[c].pc = "decide"
    /\ Looked
    /\ IF NextAction.kind \in {"terminal", "released"}
       THEN Return(c)
       ELSE calls' = [calls EXCEPT ![c].pc = "reserve", ![c].act = NextAction]
    /\ UNCHANGED <<failed, delivered, books, mishaps>>

\* A budget is used up.  The call returns when its thread has saved that, or
\* a transaction has saved over it.
DecideExhausted(c) ==
    /\ calls[c].pc = "decide"
    /\ LoadsExhausted(c)
    /\ Goto(c, "stop")
    /\ UNCHANGED <<failed, delivered, books, mishaps>>
ReturnExhausted(c) ==
    /\ calls[c].pc = "stop" /\ unsaved[c] = {}
    /\ Return(c)
    /\ UNCHANGED <<store, failed, delivered, books, mishaps>>

\* Any other call of next_action: the router, get_status, a wrong tool name.
Look ==
    /\ Looked \/ \E l \in Lookers \ Calls : LoadsExhausted(l)
    /\ UNCHANGED <<calls, failed, delivered, books, mishaps>>

\* In whatever thread it was found, and whatever was saved since.
SaveBlocked ==
    /\ \E l \in Lookers : SavesBlocked(l)
    /\ Sets(state')
    /\ UNCHANGED <<calls, failed, delivered, charged, mishaps>>

FailedTwice(c) ==
    /\ calls[c].pc = "reserve" /\ calls[c].act.kind # "prepare_release"
    /\ failed[calls[c].act.owner] = 2

\* The second failure in a turn blocks the task and ends the turn.
StopAfterFailures(c) ==
    /\ FailedTwice(c) /\ calls[c].act.stage # "integration"
    /\ BlockForFailures(calls[c].act.stage,
            IF calls[c].act.kind = "review" THEN "reviewer" ELSE "producer")
    /\ failed' = NoFailures
    /\ Return(c)
    /\ UNCHANGED <<delivered, books, mishaps>>

\* block_for_review_failures knows no stage "integration" and raises.
RaiseUnknownStage(c) ==
    /\ FailedTwice(c) /\ calls[c].act.stage = "integration"
    /\ Return(c)
    /\ UNCHANGED <<store, failed, delivered, books, mishaps>>

FirstStep == [producer |-> "work", review |-> "open", prepare_release |-> "read"]

\* Faulty: a reservation sets the task to active.
ReserveReactivates(c) ==
    /\ calls[c].pc = "reserve" /\ ~FailedTwice(c)
    /\ Save([state EXCEPT !.actions = @ + 1, !.status = "active"])
    /\ charged' = [charged EXCEPT !.actions = @ + 1]
    /\ Goto(c, FirstStep[calls[c].act.kind])
    /\ UNCHANGED <<files, failed, delivered, setBack, mishaps>>

\* Faulty: that the budget was there when the action was chosen is enough.
ReserveUnchecked(c) ==
    /\ calls[c].pc = "reserve" /\ ~FailedTwice(c)
    /\ Save([state EXCEPT !.actions = @ + 1])
    /\ charged' = [charged EXCEPT !.actions = @ + 1]
    /\ Goto(c, FirstStep[calls[c].act.kind])
    /\ UNCHANGED <<files, failed, delivered, setBack, mishaps>>

\* reserve_action.
Reserve(c) ==
    /\ calls[c].pc = "reserve" /\ ~FailedTwice(c)
    /\ IF state.actions >= MaxActions
       THEN /\ Save([state EXCEPT !.status = "blocked"])
            /\ Return(c)
            /\ UNCHANGED charged
       ELSE /\ Save([state EXCEPT !.actions = @ + 1])
            /\ Goto(c, FirstStep[calls[c].act.kind])
            /\ charged' = [charged EXCEPT !.actions = @ + 1]
    /\ UNCHANGED <<files, failed, delivered, setBack, mishaps>>

-----------------------------------------------------------------------------
(* A producer, and its result.                                             *)

SourcesWritten(s) == sources' = [sources EXCEPT ![s] = "changed"]

ProducerReturns(c) ==
    /\ calls[c].pc = "work"
    /\ \/ SourcesWritten(calls[c].act.stage) /\ UNCHANGED mishaps
       \/ UNCHANGED sources /\ Mishap
    /\ Goto(c, "finish")
    /\ UNCHANGED <<artifacts, verdicts, state, unsaved, failure, reopenings,
                   route, failed, delivered, books>>

\* It may have written its sources before it failed.
ProducerFails(c) ==
    /\ calls[c].pc = "work"
    /\ Mishap
    /\ UNCHANGED sources \/ SourcesWritten(calls[c].act.stage)
    /\ CountFailure(calls[c].act.owner)
    /\ Return(c)
    /\ UNCHANGED <<artifacts, verdicts, state, unsaved, failure, reopenings,
                   route, delivered, books>>

AtFinish(c, kind) == calls[c].pc = "finish" /\ calls[c].act.kind = kind

FinishProducer(c) ==
    LET act == calls[c].act IN
    /\ AtFinish(c, "producer")
    /\ \/ /\ Checkpoint(act.stage, act.phase, act.answers)
          /\ UNCHANGED failed
       \/ /\ CheckpointRefused(act.stage, act.phase, act.answers)
          /\ UNCHANGED store
          \* A plan that fails its preflight becomes a revision instead.
          /\ \/ CountFailure(act.owner)
             \/ act.stage = "planning" /\ UNCHANGED failed
    /\ Return(c)
    /\ UNCHANGED <<delivered, books, mishaps>>

-----------------------------------------------------------------------------
(* A reviewer, and its verdict.                                            *)

\* review_context: the version the reviewer reads.  It may look again, and
\* has to when its round is refused.
OpenContext(c) ==
    LET m == calls[c].act.stage IN
    /\ calls[c].pc \in {"open", "review"} /\ Reviewable(m)
    /\ EnsureIntegration(m)
    /\ calls' = [calls EXCEPT ![c].pc = "review", ![c].seen = Target(m)]
    /\ UNCHANGED <<verdicts, sources, failure, reopenings, route, failed,
                   delivered, books, mishaps>>

\* The assessment must name the claims of the latest version.  Claim ids
\* carry the version, except those of hypotheses and of the integration.
SameClaims(m, seen) == Target(m) = seen \/ m \in {"hypothesis", "integration"}

\* Issues found by the store itself are among what a reviewer may say.
Rulings(st, m) ==
    {Ruling(st, m, "accept", "none", "none"), Ruling(st, m, "block", "none", "stop")}
    \cup {Ruling(st, m, "revise", o, i) : o \in REVISION_OWNERS_FOR_MODE[m],
                                          i \in Issues}

MaySubmit(c) == /\ calls[c].pc = "review" /\ Reviewable(calls[c].act.stage)
                /\ SameClaims(calls[c].act.stage, calls[c].seen)

\* submit_verdict loads the run state for its ruling, and again to enter it.
SubmitVerdict(c) ==
    LET m == calls[c].act.stage IN
    /\ MaySubmit(c)
    /\ \E ruled \in MayFind(TargetState(m)) :
       \E entered \in MayFind(ruled), verdict \in Rulings(ruled, m) :
          /\ IF verdict = Ruling(ruled, m, "accept", "none", "none")
             THEN UNCHANGED mishaps ELSE Mishap
          /\ WriteVerdict(m, verdict)
          /\ Save(StateAfterVerdict(entered, m, verdict))
          /\ Finds(TargetState(m), ruled) /\ Finds(ruled, entered)
          /\ setBack' = setBack \cup SetBackIn(ruled) \cup SetBackIn(entered)
          /\ charged' = IF verdict.decision = "block" THEN charged
                        ELSE [charged EXCEPT !.reviews = @ + 1]
    /\ Goto(c, "finish")
    /\ UNCHANGED <<failed, delivered>>

ReviewerGivesUp(c) ==
    /\ calls[c].pc \in {"open", "review"}
    /\ IF Reviewable(calls[c].act.stage) THEN Mishap ELSE UNCHANGED mishaps
    /\ Goto(c, "finish")
    /\ UNCHANGED <<store, failed, delivered, books>>

\* A review counts as failed if the latest version has no verdict.
FinishReview(c) ==
    LET m == calls[c].act.stage
        persisted == Reviewable(m) /\ Decision(m, Target(m)) # "none"
    IN /\ AtFinish(c, "review")
       /\ IF Reviewable(m) THEN EnsureIntegration(m)
          ELSE UNCHANGED <<artifacts, state, unsaved>>
       /\ IF persisted THEN UNCHANGED failed ELSE CountFailure("solar-evidence")
       /\ Return(c)
       /\ UNCHANGED <<verdicts, sources, failure, reopenings, route,
                      delivered, books, mishaps>>

-----------------------------------------------------------------------------
(* The report.                                                             *)

\* prepare_release looks at the integration before it takes the lock.
ReadIntegration(c) ==
    /\ calls[c].pc = "read"
    /\ IF Accepted("integration")
       THEN calls' = [calls EXCEPT ![c].pc = "draft",
                                   ![c].seen = Latest("integration")]
       ELSE Return(c)
    /\ UNCHANGED <<store, failed, delivered, books, mishaps>>

PrepareRelease(c) ==
    /\ calls[c].pc = "draft"
    /\ WriteRelease(calls[c].seen)
    /\ Save(StateAfterRelease)
    /\ Return(c)
    /\ UNCHANGED <<failed, delivered, books, mishaps>>

\* accepted_release_markdown and mark_release_delivered, in the router after
\* a response of the model; the response becomes the report.
Deliver ==
    /\ Quiet /\ ReportReady
    /\ Save([state EXCEPT !.status = "released", !.current = "final_release"])
    /\ delivered' = delivered \cup {Latest("final_release")}
    /\ UNCHANGED <<files, calls, failed, books, mishaps>>

-----------------------------------------------------------------------------
(* The host.                                                               *)

\* A call is cancelled, or its tool rejects its arguments.  If its thread has
\* a block to save it saves it all the same: that thread only looks, then.
Abandon(c) ==
    /\ calls[c].pc \notin {"idle", "stop", "done"}
    /\ Mishap
    /\ Return(c)
    /\ UNCHANGED <<store, failed, delivered, books>>

\* What a thread has not saved is lost.
Die == /\ Mishap
       /\ calls' = [d \in Calls |-> Idle]
       /\ unsaved' = [l \in Lookers |-> {}]
       /\ UNCHANGED <<failed, delivered, charged>>

\* The process dies after a file is written and before the run state is.
DieInCheckpoint(c) ==
    LET act == calls[c].act IN
    /\ AtFinish(c, "producer")
    /\ ~CheckpointRefused(act.stage, act.phase, act.answers)
    /\ ~Duplicate(act.stage, act.phase, act.answers)
    /\ WriteCheckpoint(act.stage, act.phase, act.answers)
    /\ Die
    /\ UNCHANGED <<state, setBack>>

DieInVerdict(c) ==
    LET m == calls[c].act.stage IN
    /\ MaySubmit(c)
    /\ \E ruled \in MayFind(TargetState(m)) :
       \E entered \in MayFind(ruled), verdict \in Rulings(ruled, m) :
          /\ WriteVerdict(m, verdict)
          /\ state' = entered
          /\ setBack' = setBack \cup SetBackIn(ruled) \cup SetBackIn(entered)
    /\ Die

DieInRelease(c) ==
    /\ calls[c].pc = "draft"
    /\ WriteRelease(calls[c].seen)
    /\ Die
    /\ UNCHANGED <<state, setBack>>

Restart == ~Quiet /\ Die /\ UNCHANGED <<files, state, setBack>>

\* The user writes again: failures of the turn before are not counted.
NewTurn ==
    /\ Quiet /\ failed # NoFailures
    /\ failed' = NoFailures
    /\ UNCHANGED <<store, calls, delivered, books, mishaps>>

OperatorReopens ==
    /\ \E change \in Changes : Reopen(change) \/ RepairReopening(change)
    /\ UNCHANGED <<calls, failed, delivered, books, mishaps>>

-----------------------------------------------------------------------------
CallStep(c) ==
    \/ Begin(c) \/ Decide(c) \/ DecideExhausted(c) \/ ReturnExhausted(c)
    \/ StopAfterFailures(c) \/ RaiseUnknownStage(c) \/ Reserve(c)
    \/ ProducerReturns(c) \/ ProducerFails(c) \/ FinishProducer(c)
    \/ OpenContext(c) \/ SubmitVerdict(c) \/ ReviewerGivesUp(c) \/ FinishReview(c)
    \/ ReadIntegration(c) \/ PrepareRelease(c)
HostStep(c) ==
    \/ Abandon(c) \/ DieInCheckpoint(c) \/ DieInVerdict(c) \/ DieInRelease(c)

Next ==
    \/ \E c \in Calls : CallStep(c) \/ HostStep(c)
    \/ Look \/ SaveBlocked \/ Deliver \/ Restart \/ NewTurn \/ OperatorReopens

Spec == Init /\ [][Next]_vars

-----------------------------------------------------------------------------
(* Types.                                                                  *)

Statuses == {"active", "blocked", "release_ready", "released"}
StageStatuses == {"pending", "produced", "accepted", "revise", "blocked"}
Artifact == [refs : SUBSET Refs, phase : Phases, answers : Refs]
Verdict == [of : Nat, decision : {"accept", "revise", "block"},
            owner : Specialists \cup {"none"}, issue : Issues \cup {"none", "stop"}]
Action == [kind : {"producer", "review", "prepare_release", "terminal",
                   "released", "exhausted"},
           stage : Modes, owner : Specialists, phase : Phases, answers : Refs]
RunState == [status : Statuses, current : Modes, limit : Limits,
             stage : [Modes -> StageStatuses], actions : Nat, reviews : Nat,
             artifacts : SUBSET Refs, verdicts : SUBSET Refs]

StoreTypes ==
    /\ artifacts \in [Modes -> Seq(Artifact)]
    /\ verdicts \in [Modes -> Seq(Verdict)]
    /\ state \in RunState
    /\ unsaved \in [Lookers -> SUBSET RunState]
    /\ sources \in [Stages -> {"none", "same", "changed"}]
    /\ failure \in [stage : Modes, role : {"none", "producer", "reviewer"}]
    /\ reopenings \subseteq [stage : Modes, change : Changes,
                            restored : StageStatuses]
    /\ route \in Routes

\* The type invariant.
TypeOK ==
    /\ StoreTypes
    /\ calls \in [Calls -> [pc : {"idle", "decide", "reserve", "work", "finish",
                                 "open", "review", "read", "draft", "stop", "done"},
                           act : Action, seen : Nat]]
    /\ failed \in [Specialists -> 0..2]
    /\ charged \in [actions : Nat, reviews : Nat]
    /\ setBack \subseteq {"actions", "reviews"}
    /\ delivered \subseteq Nat /\ mishaps \in 0..MaxMishaps

-----------------------------------------------------------------------------
(* Safety.                                                                 *)

\* Some review has accepted this version, whatever a later one said.
WasAccepted(ref) ==
    \E i \in DOMAIN verdicts[ref[1]] :
        /\ verdicts[ref[1]][i].of = ref[2]
        /\ verdicts[ref[1]][i].decision = "accept"

\* The files of a mode that a run state knows about.
Registered(st, m) ==
    /\ \A v \in 1..Latest(m) : <<m, v>> \in st.artifacts
    /\ \A i \in DOMAIN verdicts[m] : <<m, i>> \in st.verdicts
StatusIsBacked(st) ==
    \A m \in Modes : Registered(st, m) =>
        /\ st.stage[m] = "accepted" => Accepted(m)
        /\ st.stage[m] = "revise" =>
             Latest(m) > 0 /\ Decision(m, Latest(m)) = "revise"
        /\ st.stage[m] = "produced" =>
             Latest(m) > 0 /\ Decision(m, Latest(m)) = "none"

\* The summary in run_state.json tells what the files say, for every mode
\* of which no save was lost: although it is written by whoever comes last,
\* and by threads that have not seen the last files.
StageStatusIsBacked == StatusIsBacked(state)

\* Nothing in a body of work was made from a version that is not in it, and
\* its hypothesis was updated after the result.
\* Only the experiment may have been designed for an older hypothesis.
Coherent(body) ==
    /\ \A r \in body : \A d \in artifacts[r[1]][r[2]].refs :
          d[1] # "hypothesis" => d \in body
    /\ \E r \in body : /\ r[1] = "hypothesis"
                        /\ \E d \in artifacts[r[1]][r[2]].refs :
                              d[1] = "experiment_result"

\* A report that was returned rests on one coherent body of work, although
\* stages are revised one by one.
ReportIsCoherent ==
    \A v \in delivered : \A i \in artifacts["final_release"][v].refs :
        Coherent(artifacts["integration"][i[2]].refs)

\* The budgets hold, whatever restarts, recoveries and reopenings there were:
\* what is counted is not what run_state.json says but the actions that were
\* reserved and the verdicts that were entered and were not a block (a verdict
\* that a death kept from being entered costs nothing).  Only a block that was
\* saved over later charges lets the loop go beyond a budget, and then by less
\* than the calls of one response: by nothing, when they come one at a time.
Within(done, budget, max) ==
    \/ done <= max
    \/ budget \in setBack /\ done < max + Cardinality(Calls)
BudgetHolds ==
    /\ Within(charged.reviews, "reviews", MaxReviews)
    /\ route = <<>> => Within(charged.actions, "actions", MaxActions)

\* A budget is used up: nothing but the delivery of a report is left.
Spent == state.actions >= MaxActions \/ state.reviews >= MaxReviews

\* A blocked task moves on only for a cause: a new version, a new verdict, a
\* change it has not been reopened for, work of a reopened stage that nobody
\* has reviewed, or the delivery of an accepted report.  And where a block that
\* a thread was about to save is saved over by a transaction under way, or
\* dies with the process, the budget it was for is used up all the same.
LiftsForCause ==
    state.status = "blocked" /\ state'.status # "blocked" =>
        \/ \E m \in Modes : \/ Len(artifacts'[m]) > Len(artifacts[m])
                            \/ Len(verdicts'[m]) > Len(verdicts[m])
        \/ reopenings' # reopenings
        \/ \E r \in reopenings : /\ r.stage = state'.current
                                /\ Latest(r.stage) > 0
                                /\ Decision(r.stage, Latest(r.stage)) = "none"
        \/ Accepted("final_release") /\ state'.status = "released"
DropsWhenSpent ==
    (\E l \in Lookers : unsaved[l] # {} /\ unsaved'[l] = {}) => Spent'
BlockIsLiftedForCause == [][LiftsForCause /\ DropsWhenSpent]_vars

\* A version that answered a review and was accepted settles it: no producer
\* is asked for the same review again.
AnsweredIsNotAskedAgain ==
    \A c \in Calls :
        calls[c].pc = "work" /\ calls[c].act.answers # NoReview =>
            \A v \in 1..Latest(calls[c].act.stage) :
                artifacts[calls[c].act.stage][v].answers = calls[c].act.answers
                    => ~WasAccepted(<<calls[c].act.stage, v>>)

\* The loop implements the gate.  An artifact is built on what it refers to.
Written == UNION {{<<m, v>> : v \in 1..Latest(m)} : m \in Modes}
Gate == INSTANCE ReviewGate WITH
    built <- {[ref |-> r, on |-> artifacts[r[1]][r[2]].refs] : r \in Written},
    accepted <- {r \in Written : WasAccepted(r)},
    published <- {<<"final_release", v>> : v \in delivered}
KeepsGate == Gate!GateSpec

-----------------------------------------------------------------------------
(* The inductive invariant behind the proof of ReportIsCoherent, for one or *)
(* two calls in a response.                                                 *)

AtMostTwoCalls == \A c, d, e \in Calls : c = d \/ d = e \/ c = e

\* An artifact was made from one version of each stage it may depend on.
MadeFrom(m) == STAGE_DEPENDENCIES[m] \cup
               (IF m = "hypothesis" THEN {"experiment_result"} ELSE {})
RefsAreUpstream ==
    \A m \in Modes : \A v \in 1..Latest(m) :
        /\ \A r \in artifacts[m][v].refs :
              r[1] \in MadeFrom(m) /\ r[2] \in 1..Latest(r[1])
        /\ \A r, q \in artifacts[m][v].refs : r[1] = q[1] => r = q

\* Every integration that was ever written, accepted or not, is coherent.
IntegrationsAreCoherent ==
    \A v \in 1..Latest("integration") :
        Coherent(artifacts["integration"][v].refs)

\* Producers make stages only, whether they are called or recovered.
ProducersAreOfStages ==
    /\ failure.role = "producer" => failure.stage \in Stages
    /\ \A c \in Calls : calls[c].act.kind = "producer"
                            => calls[c].act.stage \in Stages

\* At each place a call carries out an action of the kind it was given.
CallsAreInPlace ==
    \A c \in Calls :
        /\ calls[c].pc = "work" => calls[c].act.kind = "producer"
        /\ calls[c].pc \in {"open", "review"} => calls[c].act.kind = "review"

\* The latest versions of the stages are one body of work.
Settled == OpenStages = {} /\ ResultInterpreted

\* A call that may write the integration.
Reviewing(c) ==
    /\ calls[c].pc \in {"reserve", "open", "review", "finish"}
    /\ calls[c].act.kind = "review" /\ calls[c].act.stage = "integration"

\* A call that may yet accept a version of a stage.
MayAccept(c) ==
    /\ calls[c].pc \in {"reserve", "open", "review"}
    /\ calls[c].act.kind = "review" /\ calls[c].act.stage \in Stages

\* Beside a review of the integration a call may make a new version of a
\* stage but not accept one: a response has no third call for the review, and
\* a call that recovers a stage after the budget was spent gets no action.
AcceptsNothing(d) ==
    /\ ~MayAccept(d)
    /\ calls[d].pc = "idle" =>
          /\ AllAccepted
          /\ state.status = "blocked" => state.current = "integration" \/ Spent
    /\ calls[d].pc = "decide" =>
          AllAccepted \/ (Spent /\ state.status # "release_ready")

\* So while an integration is under review the stages are settled, or one of
\* them is not accepted and no integration is written.
ReviewsAreSettled ==
    \A c \in Calls : Reviewing(c) =>
        /\ route = <<>> /\ (AllAccepted => Settled)
        /\ \A d \in Calls \ {c} : AcceptsNothing(d)

\* And no review of the integration begins beside a review of a stage.
UndecidedMeansOpen ==
    \A c, d \in Calls :
        c # d /\ calls[c].pc \in {"idle", "decide"} /\ MayAccept(d)
            => ~Accepted(calls[d].act.stage)

CoherenceInv ==
    /\ delivered \subseteq 1..Latest("final_release")
    /\ RefsAreUpstream /\ IntegrationsAreCoherent /\ ProducersAreOfStages
    /\ CallsAreInPlace /\ ReviewsAreSettled /\ UndecidedMeansOpen

-----------------------------------------------------------------------------
(* The inductive invariant behind the proofs of BudgetHolds and of          *)
(* BlockIsLiftedForCause.                                                   *)

\* The run states that may be found in the file now or later.
Known == {state} \cup Pending
NoActionsLeft == \A st \in Known : st.actions >= MaxActions
NoReviewsLeft == \A st \in Known : st.reviews >= MaxReviews
NoWorkLeft == \A st \in Known : /\ st.reviews >= MaxReviews
                                /\ st.status # "release_ready"

\* Calls that may yet save a verdict; calls that may yet reserve an action.
OpenReviews == {c \in Calls : calls[c].pc \in {"open", "review"}}
Reserving   == {c \in Calls : calls[c].pc = "reserve"}
ReviewsAreFew == charged.reviews + Cardinality(OpenReviews)
                    < MaxReviews + Cardinality(Calls)
ActionsAreFew == charged.actions + Cardinality(Reserving)
                    < MaxActions + Cardinality(Calls)

\* A block that is not saved yet is a run state that is out of a budget, and
\* whatever is found in the file until then is out of it too.
PendingIsSpent ==
    /\ \A st \in Pending : st.status = "blocked"
    /\ Pending # {} => NoActionsLeft \/ NoReviewsLeft

\* A counter that was not set back has counted everything.  One that was can
\* be trusted no longer; but a block was found then, so the other budget is
\* used up for good, or this one is and the calls under way are all that is
\* left to count.
ReviewsAreCounted ==
    /\ Pending # {} => (NoActionsLeft /\ ReviewsAreFew) \/ NoReviewsLeft
    /\ \/ charged.reviews <= state.reviews /\ charged.reviews <= MaxReviews
       \/ /\ "reviews" \in setBack
          /\ \/ NoActionsLeft /\ ReviewsAreFew
             \/ /\ NoReviewsLeft
                /\ charged.reviews < MaxReviews + Cardinality(Calls)
ActionsAreCounted ==
    /\ Pending # {} => NoActionsLeft \/ (NoWorkLeft /\ ActionsAreFew)
    /\ \/ charged.actions <= state.actions /\ charged.actions <= MaxActions
       \/ /\ "actions" \in setBack
          /\ \/ /\ NoActionsLeft
                /\ charged.actions < MaxActions + Cardinality(Calls)
             \/ NoWorkLeft /\ ActionsAreFew

BudgetInv ==
    /\ PendingIsSpent
    /\ ReviewsAreCounted
    /\ route = <<>> => ActionsAreCounted
=============================================================================
