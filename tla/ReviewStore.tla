------------------------------ MODULE ReviewStore ------------------------------
(***************************************************************************)
(* The store of one research task, jw/research_review.py: immutable        *)
(* artifacts and verdicts, a file each, and run_state.json.  What is       *)
(* accepted, and what may happen next, is computed from the files; the     *)
(* run state keeps the budgets and a summary.  This module has the facts   *)
(* that are computed, and the transactions as updates of the files and of  *)
(* the run state; ResearchReview has the callers.                          *)
(*                                                                         *)
(* An artifact is named by its stage and version.  Its text is left out:   *)
(* all that is kept of the canonical sources it was made from is whether   *)
(* they still are the ones of the latest version.                          *)
(*                                                                         *)
(* A transaction loads and saves the run state under the store's lock.     *)
(* next_action and bounded_stage_action do not: they load it under the     *)
(* lock and, when a budget is used up, save it as blocked later, without   *)
(* the lock.  So such a save may undo what was saved in between, and may   *)
(* itself be undone by a transaction that is under way.                    *)
(***************************************************************************)
EXTENDS Integers, FiniteSets, Sequences

CONSTANTS
    MaxActions,     \* max_action_invocations
    MaxReviews,     \* max_review_invocations
    Patience,       \* no_progress_patience
    Limits,         \* max_revisions of a fixed policy; 0: the policy is adaptive
    Issues,         \* fingerprints of the major issues a reviewer may find
    Changes,        \* ids of the harness changes an operator may name
    Lookers,        \* threads in which next_action runs
    Routes          \* <<>>: full research; else the stages of a bounded request

VARIABLES
    artifacts,      \* artifacts/<stage>-artifact/v<n>.json
    verdicts,       \* verdicts/<mode>-review-<n>.json
    state,          \* run_state.json
    sources,        \* canonical sources of a stage: those of its latest artifact?
    unsaved,        \* per thread: the run state it will save as blocked
    failure,        \* the latest receipt under failures/
    reopenings,     \* receipts of harness changes under recoveries/
    route           \* the route of the request, fixed

files == <<artifacts, verdicts, sources, failure, reopenings, route>>
store == <<files, state, unsaved>>

REVIEW_SEQUENCE == <<"planning", "data", "hypothesis", "experiment_design",
                     "experiment_result">>
Stages == {REVIEW_SEQUENCE[i] : i \in 1..5}
Modes  == Stages \cup {"integration", "final_release"}

ASSUME BudgetAssumption == MaxActions \in Nat /\ MaxReviews \in Nat
ASSUME PatienceAssumption == Patience \in Nat \ {0}
ASSUME LimitAssumption == Limits \subseteq Nat
ASSUME RouteAssumption == Routes \subseteq Seq(Stages)

PRODUCER_FOR_STAGE ==
    [planning |-> "solar-planner", data |-> "solar-data",
     hypothesis |-> "solar-hypothesis",
     experiment_design |-> "solar-experiment",
     experiment_result |-> "solar-experiment", final_release |-> "main"]
Producers == {PRODUCER_FOR_STAGE[s] : s \in Stages}
Specialists == Producers \cup {"solar-evidence", "main"}

REVISION_OWNERS_FOR_MODE ==
    [planning |-> {"solar-planner"}, data |-> {"solar-planner", "solar-data"},
     hypothesis |-> Producers \ {"solar-experiment"},
     experiment_design |-> Producers, experiment_result |-> Producers,
     integration |-> Producers, final_release |-> Producers \cup {"main"}]

STAGE_DEPENDENCIES ==
    [planning |-> {}, data |-> {"planning"}, hypothesis |-> {"planning", "data"},
     experiment_design |-> {"planning", "data", "hypothesis"},
     experiment_result |-> Stages \ {"experiment_result"},
     integration |-> Stages, final_release |-> {"integration"}]

\* Phases of a producer's work.  The post-result ones read the result too.
PostResult == {"hypothesis_update", "integration_revision", "release_revision"}
Phases == PostResult \cup {"first", "refresh", "revision", "bounded",
                           "bounded_refresh", "bounded_revision"}
Bounded == {"bounded", "bounded_refresh", "bounded_revision"}

Refs == Modes \X Nat            \* artifact n of a stage, verdict n of a mode
NoReview == <<"planning", 0>>   \* answers no verdict
NoFailure == [stage |-> "planning", role |-> "none"]

-----------------------------------------------------------------------------
(* Facts that are computed from the files.                                 *)

Latest(m) == Len(artifacts[m])
LatestRef(m) == <<m, Latest(m)>>

\* matching_verdict: the last round about exactly this version decides.
\* Faulty: a verdict counts for every version.
RoundsOfAnyVersion(m, v) == DOMAIN verdicts[m]
Rounds(m, v) == {i \in DOMAIN verdicts[m] : verdicts[m][i].of = v}
\* Faulty: the round that was written first decides.
FirstRound(m, v) == CHOOSE i \in Rounds(m, v) : \A j \in Rounds(m, v) : i <= j
LastRound(m, v) == CHOOSE i \in Rounds(m, v) : \A j \in Rounds(m, v) : j <= i
Decision(m, v) == IF Rounds(m, v) = {} THEN "none"
                  ELSE verdicts[m][LastRound(m, v)].decision

Accepted(m) == Latest(m) > 0 /\ Decision(m, Latest(m)) = "accept"

\* _producer_upstream_refs: the stages whose accepted artifacts are bound.
Upstream(s, phase) ==
    IF phase \in Bounded
    THEN IF s = "hypothesis" /\ Accepted("data") THEN {"data"} ELSE {}
    ELSE STAGE_DEPENDENCIES[s] \cup
         (IF s = "hypothesis" /\ phase \in PostResult
          THEN {"experiment_result"} ELSE {})
UpstreamRefs(s, phase) == {LatestRef(d) : d \in Upstream(s, phase)}

\* A post-result hypothesis is newer than the design and the result it
\* interprets, but only in the phase hypothesis_update.
\* Faulty: it is enough that the dependencies are accepted.
DependenciesAccepted(s) == \A d \in STAGE_DEPENDENCIES[s] : Accepted(d)
DependenciesCurrent(s) ==
    LET art == artifacts[s][Latest(s)]
        isExperiment == s \in {"experiment_design", "experiment_result"}
        required == IF isExperiment THEN STAGE_DEPENDENCIES[s] \ {"hypothesis"}
                    ELSE STAGE_DEPENDENCIES[s]
    IN /\ \A d \in required : Accepted(d) /\ LatestRef(d) \in art.refs
       /\ isExperiment =>
            /\ \E r \in art.refs : r[1] = "hypothesis"
            /\ Accepted("hypothesis")
            /\ \/ artifacts["hypothesis"][Latest("hypothesis")].phase
                     = "hypothesis_update"
               \/ LatestRef("hypothesis") \in art.refs

AllAccepted == \A s \in Stages : Accepted(s)
AcceptedRefs == {LatestRef(s) : s \in Stages}
IntegrationCurrent ==
    /\ Latest("integration") > 0
    /\ artifacts["integration"][Latest("integration")].refs = AcceptedRefs
\* Faulty: any result will do.
SomeResultInterpreted ==
    \E r \in artifacts["hypothesis"][Latest("hypothesis")].refs :
        r[1] = "experiment_result"
ResultInterpreted ==
    LatestRef("experiment_result")
       \in artifacts["hypothesis"][Latest("hypothesis")].refs

-----------------------------------------------------------------------------
(* next_action and bounded_stage_action: the one action that is allowed.   *)

Act(kind, stage, owner, phase, answers) ==
    [kind |-> kind, stage |-> stage, owner |-> owner, phase |-> phase,
     answers |-> answers]
Produce(s, phase, answers) ==
    Act("producer", s, PRODUCER_FOR_STAGE[s], phase, answers)
Review(m)    == Act("review", m, "solar-evidence", "first", NoReview)
Draft(rid)   == Act("prepare_release", "final_release", "main", "first", rid)
Terminal     == Act("terminal", "planning", "main", "first", NoReview)
Released     == Act("released", "planning", "main", "first", NoReview)
Exhausted    == Act("exhausted", "planning", "main", "first", NoReview)

StageOfOwner(m, owner) ==
    IF owner = "solar-experiment"
    THEN IF m = "experiment_design" THEN m ELSE "experiment_result"
    ELSE CHOOSE s \in Stages : PRODUCER_FOR_STAGE[s] = owner

RevisionPhase(m) ==
    CASE m = "integration"   -> "integration_revision"
      [] m = "final_release" -> "release_revision"
      [] OTHER               -> "revision"

\* A revise verdict asks its owner; only the release is revised by main.
RevisionAction(m) ==
    LET round == LastRound(m, Latest(m))
        owner == verdicts[m][round].owner
    IN IF owner = "main" THEN Draft(<<m, round>>)
       ELSE Produce(StageOfOwner(m, owner), RevisionPhase(m), <<m, round>>)

\* What an artifact that is not accepted needs.
GateAction(m) ==
    CASE Decision(m, Latest(m)) = "none"   -> Review(m)
      [] Decision(m, Latest(m)) = "revise" -> RevisionAction(m)
      [] Decision(m, Latest(m)) = "block"  -> Terminal

Open(s) == ~Accepted(s) \/ ~DependenciesCurrent(s)
StageAction(s) ==
    IF Latest(s) = 0 THEN Produce(s, "first", NoReview)
    ELSE IF ~Accepted(s) THEN GateAction(s)
    ELSE Produce(s, "refresh", NoReview)

ReleaseAction ==
    IF Latest("final_release") = 0 THEN Draft(NoReview)
    ELSE IF ~Accepted("final_release") THEN GateAction("final_release")
    ELSE Released

OutOfBudget ==
    \/ state.actions >= MaxActions
    \/ state.status # "release_ready" /\ state.reviews >= MaxReviews

OpenStages == {i \in 1..5 : Open(REVIEW_SEQUENCE[i])}
FullAction ==
    IF OutOfBudget THEN Exhausted
    ELSE IF OpenStages # {}
    THEN StageAction(REVIEW_SEQUENCE[CHOOSE i \in OpenStages :
                                        \A j \in OpenStages : i <= j])
    ELSE IF ~ResultInterpreted
    THEN Produce("hypothesis", "hypothesis_update", NoReview)
    ELSE IF ~IntegrationCurrent THEN Review("integration")
    ELSE IF ~Accepted("integration") THEN GateAction("integration")
    ELSE ReleaseAction

BoundedStageAction(s) ==
    LET decision == Decision(s, Latest(s))
        noReviews == state.reviews >= MaxReviews
    IN CASE Latest(s) = 0 -> Produce(s, "bounded", NoReview)
         [] Latest(s) > 0 /\ decision = "none" ->
              IF noReviews THEN Exhausted ELSE Review(s)
         [] decision \in {"accept", "revise"} /\ state.stage[s] = "pending" ->
              Produce(s, "bounded_refresh", NoReview)
         [] decision = "accept" /\ state.stage[s] # "pending" -> Released
         [] decision = "revise" /\ state.stage[s] # "pending" ->
              LET round == LastRound(s, Latest(s)) IN
              IF noReviews THEN Exhausted
              ELSE IF verdicts[s][round].owner # PRODUCER_FOR_STAGE[s]
              THEN Terminal
              ELSE Produce(s, "bounded_revision", <<s, round>>)
         [] decision = "block" -> Terminal

\* bounded_sequence_action: the first stage that is not finished.
BoundedAction ==
    LET open == {i \in DOMAIN route :
                    BoundedStageAction(route[i]).kind # "released"}
    IN IF open = {} THEN Released
       ELSE BoundedStageAction(route[CHOOSE i \in open :
                                         \A j \in open : i <= j])

NextAction == IF state.status = "blocked" THEN Terminal
              ELSE IF route = <<>> THEN FullAction ELSE BoundedAction

-----------------------------------------------------------------------------
(* The transactions.  Each writes its file, then the run state: what the   *)
(* file and the run state become are separate, for the process may die in  *)
(* between.                                                                *)

\* Run states that are about to be saved without the lock.
Saving  == {l \in Lookers : unsaved[l] # {}}
Pending == UNION {unsaved[l] : l \in Lookers}

\* A transaction saves what it made of the state it loaded, over whatever was
\* saved without the lock in the meantime.
Overtakes ==
    \E lost \in SUBSET Saving :
        unsaved' = [l \in Lookers |-> IF l \in lost THEN {} ELSE unsaved[l]]
Save(st) == state' = st /\ Overtakes

\* One that loads the state a second time may find such a save.
MayFind(st) == {st} \cup Pending
Finds(st, found) ==
    \/ found = st
    \/ \E l \in Lookers : unsaved[l] = {found} /\ unsaved'[l] = {}

InitStore ==
    /\ artifacts = [m \in Modes |-> <<>>] /\ verdicts = [m \in Modes |-> <<>>]
    /\ state \in [status : {"active"}, current : {"planning"}, limit : Limits,
                  stage : {[m \in Modes |-> "pending"]}, actions : {0},
                  reviews : {0}, artifacts : {{}}, verdicts : {{}}]
    /\ sources = [s \in Stages |-> "none"]
    /\ unsaved = [l \in Lookers |-> {}]
    /\ failure = NoFailure /\ reopenings = {}
    /\ route \in Routes

WithArtifact(m, art) == [artifacts EXCEPT ![m] = Append(@, art)]
NextRef(m) == <<m, Latest(m) + 1>>

\* _invalidate_downstream.
Downstream(s, phase) ==
    CASE s = "planning" -> Modes \ {"planning"}
      [] s = "data"     -> Modes \ {"planning", "data"}
      [] s = "hypothesis" /\ phase \in PostResult ->
             {"integration", "final_release"}
      [] s = "hypothesis" /\ phase \notin PostResult ->
             {"experiment_design", "experiment_result", "integration",
              "final_release"}
      [] s = "experiment_design" ->
             {"experiment_result", "integration", "final_release"}
      [] s = "experiment_result" ->
             {"hypothesis", "integration", "final_release"}

\* checkpoint_producer_result: the verdict that is answered, if any.
AnsweredBy(s, rid) ==
    IF rid # NoReview THEN rid
    ELSE IF Latest(s) > 0 /\ Decision(s, Latest(s)) = "revise"
    THEN <<s, LastRound(s, Latest(s))>>
    ELSE NoReview
SameSources(s) == Latest(s) > 0 /\ sources[s] = "same"
\* No canonical source, a revision that changed none, a dependency that is
\* not accepted: nothing is written.
CheckpointRefused(s, phase, rid) ==
    \/ sources[s] = "none"
    \/ AnsweredBy(s, rid) # NoReview /\ SameSources(s)
    \/ \E d \in Upstream(s, phase) : ~Accepted(d)
\* The same science again: the previous artifact is returned.
Duplicate(s, phase, rid) ==
    /\ AnsweredBy(s, rid) = NoReview /\ SameSources(s)
    /\ artifacts[s][Latest(s)].phase = phase
    /\ artifacts[s][Latest(s)].refs = UpstreamRefs(s, phase)
NewArtifact(s, phase, rid) ==
    [refs |-> UpstreamRefs(s, phase), phase |-> phase,
     answers |-> AnsweredBy(s, rid)]
StateAfterCheckpoint(st, s, phase) ==
    [st EXCEPT
        !.status = "active", !.current = s, !.artifacts = @ \cup {NextRef(s)},
        !.stage = [m \in Modes |->
                      IF m = s THEN "produced"
                      ELSE IF m \in Downstream(s, phase) THEN "pending"
                      ELSE @[m]]]

WriteCheckpoint(s, phase, rid) ==
    /\ artifacts' = WithArtifact(s, NewArtifact(s, phase, rid))
    /\ sources' = [sources EXCEPT ![s] = "same"]
    /\ UNCHANGED <<verdicts, failure, reopenings, route>>
CheckpointOver(st, s, phase, rid) ==
    /\ ~CheckpointRefused(s, phase, rid)
    /\ IF Duplicate(s, phase, rid) THEN UNCHANGED store
       ELSE /\ WriteCheckpoint(s, phase, rid)
            /\ Save(StateAfterCheckpoint(st, s, phase))
            /\ Finds(state, st)
Checkpoint(s, phase, rid) == CheckpointOver(state, s, phase, rid)

\* ensure_integration_artifact, where it writes a new version.
NewIntegration == [refs |-> AcceptedRefs, phase |-> "first", answers |-> NoReview]
StateAfterIntegration ==
    [state EXCEPT !.current = "integration",
        !.artifacts = @ \cup {NextRef("integration")},
        !.stage = [@ EXCEPT !["integration"] = "produced",
                            !["final_release"] = "pending"]]

\* review_targets: the latest artifact of the mode, or an exception; the
\* integration is brought up to date first.
Reviewable(m) == IF m = "integration" THEN AllAccepted ELSE Latest(m) > 0
Outdated(m)   == m = "integration" /\ ~IntegrationCurrent
Target(m)     == IF Outdated(m) THEN Latest(m) + 1 ELSE Latest(m)
TargetFiles(m) == IF Outdated(m) THEN WithArtifact(m, NewIntegration)
                  ELSE artifacts
TargetState(m) == IF Outdated(m) THEN StateAfterIntegration ELSE state

EnsureIntegration(m) ==
    IF Outdated(m)
    THEN artifacts' = TargetFiles(m) /\ Save(StateAfterIntegration)
    ELSE UNCHANGED <<artifacts, state, unsaved>>

\* next_action makes the integration it wants reviewed.
Looked ==
    /\ NextAction # Exhausted
    /\ IF NextAction = Review("integration") THEN EnsureIntegration("integration")
       ELSE UNCHANGED <<artifacts, state, unsaved>>
    /\ UNCHANGED <<verdicts, sources, failure, reopenings, route>>

\* It loads a state whose budget is used up, and later saves what it loaded.
LoadsExhausted(l) ==
    /\ unsaved[l] = {} /\ NextAction = Exhausted
    /\ unsaved' = [unsaved EXCEPT ![l] = {[state EXCEPT !.status = "blocked"]}]
    /\ UNCHANGED <<files, state>>
SavesBlocked(l) ==
    /\ unsaved[l] # {}
    /\ state' \in unsaved[l]
    /\ unsaved' = [unsaved EXCEPT ![l] = {}]
    /\ UNCHANGED files

\* _no_progress_count: how many earlier versions, going back from this one,
\* had the same major issues in their last round.
Reviewed(m, v) == {w \in 1..(v - 1) : Rounds(m, w) # {}}
NoProgress(m, v, issue) ==
    Cardinality({w \in Reviewed(m, v) :
        \A u \in Reviewed(m, v) :
            u >= w => verdicts[m][LastRound(m, u)].issue = issue})
LimitReached(st, m) ==
    /\ st.limit > 0
    /\ Cardinality({i \in DOMAIN verdicts[m] :
                       verdicts[m][i].decision = "revise"}) >= st.limit

\* submit_verdict: what is written for a decision of the reviewer, by the
\* state loaded first; the verdict is entered in the state loaded last.
\* Faulty: the budget of reviews is not looked at again.
RulingOutOfBudget(st, m, decision, owner, issue) ==
    [of |-> Target(m), decision |-> decision, owner |-> owner, issue |-> issue]
Ruling(st, m, decision, owner, issue) ==
    IF \/ decision = "block" \/ st.reviews >= MaxReviews
       \/ /\ decision = "revise"
          /\ \/ NoProgress(m, Target(m), issue) >= Patience
             \/ LimitReached(st, m)
    THEN [of |-> Target(m), decision |-> "block", owner |-> "none",
          issue |-> "stop"]
    ELSE [of |-> Target(m), decision |-> decision, owner |-> owner,
          issue |-> issue]
StateAfterVerdict(st, m, verdict) ==
    [st EXCEPT
        !.reviews = @ + 1, !.current = m,
        !.verdicts = @ \cup {<<m, Len(verdicts[m]) + 1>>},
        !.stage[m] = CASE verdict.decision = "accept" -> "accepted"
                       [] verdict.decision = "revise" -> "revise"
                       [] verdict.decision = "block"  -> "blocked",
        !.status = IF verdict.decision = "block" THEN "blocked"
                   ELSE IF m = "final_release" /\ verdict.decision = "accept"
                   THEN "release_ready" ELSE "active"]
WriteVerdict(m, verdict) ==
    /\ Reviewable(m)
    /\ artifacts' = TargetFiles(m)
    /\ verdicts' = [verdicts EXCEPT ![m] = Append(@, verdict)]
    /\ UNCHANGED <<sources, failure, reopenings, route>>

\* prepare_release, of the integration it has read before the transaction.
NewRelease(integration) ==
    LET rid == AnsweredBy("final_release", NoReview) IN
    [refs |-> {<<"integration", integration>>}, phase |-> "first",
     answers |-> IF rid # NoReview /\ verdicts[rid[1]][rid[2]].owner = "main"
                 THEN rid ELSE NoReview]
StateAfterRelease ==
    [state EXCEPT !.status = "active", !.current = "final_release",
        !.artifacts = @ \cup {NextRef("final_release")},
        !.stage["final_release"] = "produced"]
WriteRelease(integration) ==
    /\ artifacts' = WithArtifact("final_release", NewRelease(integration))
    /\ UNCHANGED <<verdicts, sources, failure, reopenings, route>>

\* block_for_tool_failures, block_for_review_failures.
BlockForFailures(s, role) ==
    /\ failure' = [stage |-> s, role |-> role]
    /\ Save([state EXCEPT !.status = "blocked", !.current = s,
                          !.stage[s] = "blocked"])
    /\ UNCHANGED <<artifacts, verdicts, sources, reopenings, route>>

\* recover_canonical_producer_after_tool_failure.
Recoverable ==
    /\ route = <<>> /\ state.status = "blocked"
    /\ failure.role = "producer" /\ failure.stage = state.current
    /\ ~CheckpointRefused(failure.stage, "first", NoReview)
Recover ==
    IF Recoverable
    THEN \E st \in MayFind(state) :
            CheckpointOver(st, failure.stage, "first", NoReview)
    ELSE UNCHANGED store

\* reopen_tool_failure_after_harness_change, called by an operator.
\* Faulty: the decision of the review becomes the status of the stage.
RestoredDecision(s) ==
    IF Latest(s) = 0 THEN "pending" ELSE Decision(s, Latest(s))
Restored(s) ==
    IF Latest(s) = 0 THEN "pending"
    ELSE CASE Decision(s, Latest(s)) = "revise" -> "revise"
           [] Decision(s, Latest(s)) = "none"   -> "produced"
           [] OTHER                             -> "pending"
Reactivated(s, status) ==
    [state EXCEPT !.status = "active", !.current = s, !.stage[s] = status]
\* The same change again repairs what an older version restored wrongly.
RepairReopening(change) ==
    LET s == failure.stage IN
    /\ [stage |-> s, change |-> change, restored |-> "pending"] \in reopenings
    /\ Latest(s) > 0 /\ Decision(s, Latest(s)) = "none"
    /\ Save(Reactivated(s, "produced"))
    /\ UNCHANGED <<artifacts, verdicts, sources, failure, reopenings, route>>
Reopen(change) ==
    LET s == failure.stage IN
    /\ failure # NoFailure
    /\ \A r \in reopenings : r.stage = s => r.change # change
    /\ state.status = "blocked" \/ state.stage[s] = "blocked"
    /\ Save(Reactivated(s, Restored(s)))
    /\ reopenings' = reopenings \cup
           {[stage |-> s, change |-> change, restored |-> Restored(s)]}
    /\ UNCHANGED <<artifacts, verdicts, sources, failure, route>>
=============================================================================
