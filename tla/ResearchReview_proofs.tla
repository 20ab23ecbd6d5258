------------------------- MODULE ResearchReview_proofs -------------------------
(***************************************************************************)
(* For any batch of calls, any budgets and any number of failures, crashes *)
(* and operators: the loop keeps its types and implements ReviewGate.      *)
(***************************************************************************)
EXTENDS ResearchReview, FiniteSetTheorems, WellFoundedInduction, TLAPS

\* A set of numbers with an element has a least one.
LEMMA LeastNumber ==
    ASSUME NEW T \in SUBSET Nat, T # {}
    PROVE  \E n \in T : \A k \in T : n <= k
<1> DEFINE Below == {1..n : n \in T}
<1>1. Below \subseteq FiniteSubsetsOf(Nat)
  BY FS_Interval DEF FiniteSubsetsOf
<1>2. PICK b \in Below : \A c \in Below : <<c, b>> \notin StrictSubsetOrdering(Nat)
  <2>1. Below # {}
    OBVIOUS
  <2> QED
    BY <1>1, <2>1, FS_StrictSubsetOrderingWellFounded, WFMin
<1>3. PICK n \in T : b = 1..n
  OBVIOUS
<1>4. ASSUME NEW k \in T, k < n
      PROVE  FALSE
  <2>1. 1..k \in Below /\ 1..k \subseteq 1..n /\ n \in 1..n /\ n \notin 1..k
    BY <1>4
  <2>2. 1..k \in SUBSET Nat /\ 1..n \in SUBSET Nat
    OBVIOUS
  <2> QED
    BY <1>2, <1>3, <2>1, <2>2 DEF StrictSubsetOrdering
<1> QED
  BY <1>3, <1>4

\* A bounded one has a greatest.
LEMMA GreatestNumber ==
    ASSUME NEW n \in Nat, NEW T \in SUBSET (1..n), T # {}
    PROVE  \E k \in T : \A j \in T : j <= k
<1> DEFINE D == {n - j : j \in T}
<1>1. \A j \in T : j \in Nat /\ n - j \in Nat
  OBVIOUS
<1>2. PICK d \in D : \A e \in D : d <= e
  <2>1. D \in SUBSET Nat /\ D # {}
    BY <1>1
  <2> HIDE DEF D
  <2> QED
    BY <2>1, LeastNumber
<1>3. PICK k \in T : d = n - k
  OBVIOUS
<1>4. \A j \in T : n - k <= n - j
  BY <1>2, <1>3
<1> QED
  BY <1>1, <1>3, <1>4

-----------------------------------------------------------------------------
(* What the computed facts are.                                            *)

\* The last round about a version is one of its rounds.
LEMMA LastRoundIsRound ==
    ASSUME StoreTypes, NEW m \in Modes, NEW v, Rounds(m, v) # {}
    PROVE  /\ LastRound(m, v) \in Rounds(m, v)
           /\ \A j \in Rounds(m, v) : j <= LastRound(m, v)
<1>1. verdicts[m] \in Seq(Verdict)
  BY DEF StoreTypes
<1>2. Len(verdicts[m]) \in Nat /\ Rounds(m, v) \in SUBSET (1..Len(verdicts[m]))
  BY <1>1 DEF Rounds
<1>3. \E k \in Rounds(m, v) : \A j \in Rounds(m, v) : j <= k
  BY <1>2, GreatestNumber
<1> QED
  BY <1>3 DEF LastRound

\* So it has the number of a verdict, and that verdict is about the version.
LEMMA LastRoundIsVerdict ==
    ASSUME StoreTypes, NEW m \in Modes, NEW v, Rounds(m, v) # {}
    PROVE  /\ LastRound(m, v) \in DOMAIN verdicts[m]
           /\ LastRound(m, v) \in Nat
           /\ verdicts[m][LastRound(m, v)] \in Verdict
           /\ verdicts[m][LastRound(m, v)].of = v
<1>1. LastRound(m, v) \in Rounds(m, v)
  BY LastRoundIsRound
<1>2. verdicts[m] \in Seq(Verdict)
  BY DEF StoreTypes
<1> QED
  BY <1>1, <1>2 DEF Rounds

LEMMA DecisionIsOne ==
    ASSUME StoreTypes, NEW m \in Modes, NEW v
    PROVE  Decision(m, v) \in {"none", "accept", "revise", "block"}
BY LastRoundIsVerdict DEF Decision, Verdict

\* Versions are counted.
LEMMA LatestIsNumber ==
    ASSUME StoreTypes, NEW m \in Modes
    PROVE  /\ Latest(m) \in Nat /\ LatestRef(m) \in Refs /\ NextRef(m) \in Refs
<1>1. artifacts[m] \in Seq(Artifact)
  BY DEF StoreTypes
<1> QED
  BY <1>1 DEF Latest, LatestRef, NextRef, Refs

\* What is accepted now was accepted.
LEMMA AcceptedWasAccepted ==
    ASSUME StoreTypes, NEW m \in Modes, Accepted(m)
    PROVE  WasAccepted(LatestRef(m))
<1>1. Rounds(m, Latest(m)) # {}
  BY DEF Accepted, Decision
<1>2. /\ LastRound(m, Latest(m)) \in DOMAIN verdicts[m]
      /\ verdicts[m][LastRound(m, Latest(m))].of = Latest(m)
  BY <1>1, LastRoundIsVerdict
<1>3. verdicts[m][LastRound(m, Latest(m))].decision = "accept"
  BY <1>1 DEF Accepted, Decision
<1> QED
  BY <1>2, <1>3 DEF WasAccepted, LatestRef

-----------------------------------------------------------------------------
(* The next action is an action.                                           *)

\* A verdict that asks for a revision names an owner its mode allows.
RevisionsHaveOwners ==
    \A m \in Modes : \A i \in DOMAIN verdicts[m] :
        verdicts[m][i].decision = "revise" =>
            verdicts[m][i].owner \in REVISION_OWNERS_FOR_MODE[m]

LEMMA ModesAndStages ==
    /\ Stages = {"planning", "data", "hypothesis", "experiment_design",
                 "experiment_result"}
    /\ Modes = Stages \cup {"integration", "final_release"}
    /\ \A i \in 1..5 : REVIEW_SEQUENCE[i] \in Stages
<1> DEFINE Five == {"planning", "data", "hypothesis", "experiment_design",
                    "experiment_result"}
<1>1. /\ REVIEW_SEQUENCE[1] = "planning" /\ REVIEW_SEQUENCE[2] = "data"
      /\ REVIEW_SEQUENCE[3] = "hypothesis"
      /\ REVIEW_SEQUENCE[4] = "experiment_design"
      /\ REVIEW_SEQUENCE[5] = "experiment_result"
  BY DEF REVIEW_SEQUENCE
<1>2. 1..5 = {1, 2, 3, 4, 5}
  OBVIOUS
<1>3. Stages = Five
  BY <1>1, <1>2, Zenon DEF Stages
<1> QED
  BY <1>3, Zenon DEF Modes, Stages

LEMMA ProducersProduce ==
    ASSUME NEW s \in Stages
    PROVE  PRODUCER_FOR_STAGE[s] \in Specialists
BY ModesAndStages DEF Specialists, Producers, PRODUCER_FOR_STAGE

LEMMA ProduceIsAction ==
    ASSUME NEW s \in Stages, NEW phase \in Phases, NEW answers \in Refs
    PROVE  Produce(s, phase, answers) \in Action
BY ProducersProduce, ModesAndStages DEF Produce, Act, Action

LEMMA NoReviewIsRef == NoReview \in Refs
BY ModesAndStages DEF NoReview, Refs

LEMMA OtherActions ==
    /\ \A m \in Modes : Review(m) \in Action
    /\ \A rid \in Refs : Draft(rid) \in Action
    /\ Terminal \in Action /\ Released \in Action /\ Exhausted \in Action
BY NoReviewIsRef, ModesAndStages
   DEF Review, Draft, Terminal, Released, Exhausted, Act, Action, Specialists,
       Phases

LEMMA OwnerHasStage ==
    ASSUME NEW m \in Modes, NEW owner \in REVISION_OWNERS_FOR_MODE[m],
           owner # "main"
    PROVE  StageOfOwner(m, owner) \in Stages
<1>1. owner \in Producers
  BY ModesAndStages DEF REVISION_OWNERS_FOR_MODE, Producers, PRODUCER_FOR_STAGE
<1>2. \E s \in Stages : PRODUCER_FOR_STAGE[s] = owner
  BY <1>1 DEF Producers
<1> QED
  BY <1>2, ModesAndStages DEF StageOfOwner

LEMMA RevisionIsAction ==
    ASSUME StoreTypes, RevisionsHaveOwners, NEW m \in Modes,
           Decision(m, Latest(m)) = "revise"
    PROVE  RevisionAction(m) \in Action
<1> DEFINE round == LastRound(m, Latest(m))
           owner == verdicts[m][round].owner
<1>1. Rounds(m, Latest(m)) # {} /\ verdicts[m][round].decision = "revise"
  BY DEF Decision
<1>2. round \in DOMAIN verdicts[m] /\ round \in Nat
  BY <1>1, LastRoundIsVerdict
<1>3. owner \in REVISION_OWNERS_FOR_MODE[m] /\ <<m, round>> \in Refs
  BY <1>1, <1>2 DEF RevisionsHaveOwners, Refs
<1>4. CASE owner = "main"
  BY <1>3, <1>4, OtherActions DEF RevisionAction
<1>5. CASE owner # "main"
  <2>1. StageOfOwner(m, owner) \in Stages
    BY <1>3, <1>5, OwnerHasStage
  <2>2. RevisionPhase(m) \in Phases
    BY DEF RevisionPhase, Phases, PostResult
  <2> QED
    BY <1>3, <1>5, <2>1, <2>2, ProduceIsAction DEF RevisionAction
<1> QED
  BY <1>4, <1>5

LEMMA GateIsAction ==
    ASSUME StoreTypes, RevisionsHaveOwners, NEW m \in Modes, ~Accepted(m),
           Latest(m) # 0
    PROVE  GateAction(m) \in Action
<1>1. Decision(m, Latest(m)) \in {"none", "revise", "block"}
  BY DecisionIsOne, LatestIsNumber DEF Accepted
<1> QED
  BY <1>1, RevisionIsAction, OtherActions DEF GateAction

LEMMA FullActionIsAction ==
    ASSUME StoreTypes, RevisionsHaveOwners
    PROVE  FullAction \in Action
<1>p. {"first", "refresh", "hypothesis_update"} \subseteq Phases
  BY DEF Phases, PostResult
<1>1. ASSUME NEW s \in Stages
      PROVE  StageAction(s) \in Action
  BY <1>p, GateIsAction, ProduceIsAction, NoReviewIsRef, ModesAndStages
     DEF StageAction
<1>2. ReleaseAction \in Action
  BY GateIsAction, OtherActions, NoReviewIsRef, ModesAndStages
     DEF ReleaseAction
<1>3. ASSUME OpenStages # {}
      PROVE  (CHOOSE i \in OpenStages : \A j \in OpenStages : i <= j) \in 1..5
  <2>1. OpenStages \in SUBSET Nat /\ OpenStages \subseteq 1..5
    BY DEF OpenStages
  <2>2. \E i \in OpenStages : \A j \in OpenStages : i <= j
    BY <1>3, <2>1, LeastNumber
  <2> QED
    BY <2>1, <2>2
<1>4. Review("integration") \in Action /\ Exhausted \in Action
  BY OtherActions, ModesAndStages
<1>5. ASSUME IntegrationCurrent, ~Accepted("integration")
      PROVE  GateAction("integration") \in Action
  BY <1>5, GateIsAction, LatestIsNumber, ModesAndStages DEF IntegrationCurrent
<1>6. Produce("hypothesis", "hypothesis_update", NoReview) \in Action
  BY <1>p, ProduceIsAction, NoReviewIsRef, ModesAndStages
<1> QED
  BY <1>1, <1>2, <1>3, <1>4, <1>5, <1>6, ModesAndStages DEF FullAction

LEMMA BoundedActionIsAction ==
    ASSUME StoreTypes, RevisionsHaveOwners
    PROVE  BoundedAction \in Action
<1>p. {"bounded", "bounded_refresh", "bounded_revision"} \subseteq Phases
  BY DEF Phases, Bounded
<1>1. ASSUME NEW s \in Stages
      PROVE  BoundedStageAction(s) \in Action
  <2>1. s \in Modes /\ Latest(s) \in Nat
    BY LatestIsNumber, ModesAndStages
  <2>2. Decision(s, Latest(s)) \in {"none", "accept", "revise", "block"}
    BY <2>1, DecisionIsOne
  <2>3. ASSUME Decision(s, Latest(s)) = "revise"
        PROVE  <<s, LastRound(s, Latest(s))>> \in Refs
    BY <2>1, <2>3, LastRoundIsVerdict DEF Decision, Refs
  <2>4. Latest(s) = 0 \/ Latest(s) > 0
    BY <2>1
  <2>5. CASE Latest(s) = 0 /\ BoundedStageAction(s) = Produce(s, "bounded", NoReview)
    BY <1>p, <2>5, ProduceIsAction, NoReviewIsRef
  <2>6. CASE BoundedStageAction(s) \in {Exhausted, Review(s), Terminal, Released}
    BY <2>1, <2>6, OtherActions
  <2>7. CASE BoundedStageAction(s) = Produce(s, "bounded_refresh", NoReview)
    BY <1>p, <2>7, ProduceIsAction, NoReviewIsRef
  <2>8. CASE /\ Decision(s, Latest(s)) = "revise"
             /\ BoundedStageAction(s) = Produce(s, "bounded_revision",
                                           <<s, LastRound(s, Latest(s))>>)
    BY <1>p, <2>3, <2>8, ProduceIsAction
  <2> HIDE DEF BoundedStageAction
  <2> QED
    BY <2>2, <2>4, <2>5, <2>6, <2>7, <2>8 DEF BoundedStageAction
<1>2. route \in Seq(Stages)
  BY RouteAssumption DEF StoreTypes
<1> DEFINE open == {i \in DOMAIN route :
                       BoundedStageAction(route[i]).kind # "released"}
<1>3. ASSUME open # {}
      PROVE  (CHOOSE i \in open : \A j \in open : i <= j) \in DOMAIN route
  <2>1. open \in SUBSET Nat /\ open \subseteq DOMAIN route
    BY <1>2
  <2>2. \E i \in open : \A j \in open : i <= j
    BY <1>3, <2>1, LeastNumber
  <2> QED
    BY <2>1, <2>2
<1> QED
  BY <1>1, <1>2, <1>3, OtherActions DEF BoundedAction

LEMMA NextActionIsAction ==
    ASSUME StoreTypes, RevisionsHaveOwners
    PROVE  NextAction \in Action
BY FullActionIsAction, BoundedActionIsAction, OtherActions DEF NextAction

-----------------------------------------------------------------------------
(* What the transactions write.                                            *)

LEMMA AppendKeepsTypes ==
    ASSUME NEW X, NEW f \in [Modes -> Seq(X)], NEW m \in Modes, NEW x \in X,
           NEW g, g = [f EXCEPT ![m] = Append(@, x)]
    PROVE  /\ g \in [Modes -> Seq(X)]
           /\ Len(g[m]) = Len(f[m]) + 1 /\ g[m][Len(g[m])] = x
           /\ \A i \in DOMAIN f[m] : i \in DOMAIN g[m] /\ g[m][i] = f[m][i]
           /\ \A i \in DOMAIN g[m] : i \in DOMAIN f[m] \/ i = Len(g[m])
           /\ \A o \in Modes \ {m} : g[o] = f[o]
<1>1. f[m] \in Seq(X) /\ g[m] = Append(f[m], x)
  OBVIOUS
<1> QED
  BY <1>1

LEMMA UpstreamIsModes ==
    ASSUME NEW s \in Modes, NEW phase
    PROVE  Upstream(s, phase) \subseteq Modes
<1>1. STAGE_DEPENDENCIES[s] \subseteq Modes
  BY ModesAndStages DEF STAGE_DEPENDENCIES
<1> QED
  BY <1>1, ModesAndStages DEF Upstream

LEMMA AnsweredIsRef ==
    ASSUME StoreTypes, NEW s \in Modes, NEW rid \in Refs
    PROVE  AnsweredBy(s, rid) \in Refs
<1>1. ASSUME Decision(s, Latest(s)) = "revise"
      PROVE  <<s, LastRound(s, Latest(s))>> \in Refs
  BY <1>1, LastRoundIsVerdict DEF Decision, Refs
<1> QED
  BY <1>1, NoReviewIsRef DEF AnsweredBy

\* A reference to what some review accepted.
Backed(ref) == ref \in Refs /\ WasAccepted(ref)

LEMMA CheckpointArtifact ==
    ASSUME StoreTypes, NEW s \in Modes, NEW phase \in Phases, NEW rid \in Refs,
           ~CheckpointRefused(s, phase, rid)
    PROVE  /\ NewArtifact(s, phase, rid) \in Artifact
           /\ \A r \in NewArtifact(s, phase, rid).refs : Backed(r)
<1>1. \A d \in Upstream(s, phase) : d \in Modes /\ Accepted(d)
  BY UpstreamIsModes DEF CheckpointRefused
<1>2. \A r \in UpstreamRefs(s, phase) : Backed(r)
  BY <1>1, AcceptedWasAccepted, LatestIsNumber DEF UpstreamRefs, Backed
<1> QED
  BY <1>2, AnsweredIsRef DEF NewArtifact, Artifact, Backed

LEMMA IntegrationArtifact ==
    ASSUME StoreTypes, AllAccepted
    PROVE  /\ NewIntegration \in Artifact
           /\ \A r \in NewIntegration.refs : Backed(r)
<1>1. \A r \in AcceptedRefs : Backed(r)
  BY AcceptedWasAccepted, LatestIsNumber, ModesAndStages
     DEF AllAccepted, AcceptedRefs, Backed
<1> QED
  BY <1>1, NoReviewIsRef DEF NewIntegration, Artifact, Backed, Phases

LEMMA ReleaseArtifact ==
    ASSUME StoreTypes, NEW n \in Nat
    PROVE  /\ NewRelease(n) \in Artifact
           /\ NewRelease(n).refs = {<<"integration", n>>}
<1>1. AnsweredBy("final_release", NoReview) \in Refs
  BY AnsweredIsRef, NoReviewIsRef, ModesAndStages
<1> QED
  BY <1>1, NoReviewIsRef, ModesAndStages
     DEF NewRelease, Artifact, Phases, Refs

LEMMA TargetIsWritten ==
    ASSUME StoreTypes, NEW m \in Modes, Reviewable(m)
    PROVE  /\ TargetFiles(m) \in [Modes -> Seq(Artifact)]
           /\ Target(m) \in 1..Len(TargetFiles(m)[m])
           /\ \/ TargetFiles(m) = artifacts
              \/ AllAccepted /\ TargetFiles(m) = WithArtifact("integration",
                                                             NewIntegration)
<1>1. CASE Outdated(m)
  <2>1. m = "integration" /\ AllAccepted
    BY <1>1 DEF Outdated, Reviewable
  <2>2. TargetFiles(m) = [artifacts EXCEPT ![m] = Append(@, NewIntegration)]
    BY <1>1, <2>1 DEF TargetFiles, WithArtifact
  <2> DEFINE g == TargetFiles(m)
  <2>3. artifacts \in [Modes -> Seq(Artifact)] /\ NewIntegration \in Artifact
    BY <2>1, IntegrationArtifact DEF StoreTypes
  <2>h. g = [artifacts EXCEPT ![m] = Append(@, NewIntegration)]
    BY <2>2
  <2> HIDE DEF g
  <2>4. g \in [Modes -> Seq(Artifact)] /\ Len(g[m]) = Len(artifacts[m]) + 1
    BY ONLY <2>3, <2>h, AppendKeepsTypes, m \in Modes
  <2> QED
    BY <1>1, <2>1, <2>2, <2>4, LatestIsNumber
       DEF Target, Latest, WithArtifact, g
<1>2. CASE ~Outdated(m)
  <2>1. CASE m # "integration"
    BY <1>2, <2>1, LatestIsNumber
       DEF TargetFiles, Target, Latest, StoreTypes, Reviewable
  <2>2. CASE m = "integration"
    BY <1>2, <2>2, LatestIsNumber
       DEF TargetFiles, Target, Latest, StoreTypes, Outdated, IntegrationCurrent
  <2> QED
    BY <2>1, <2>2
<1> QED
  BY <1>1, <1>2

LEMMA RulingIsVerdict ==
    ASSUME StoreTypes, NEW m \in Modes, Reviewable(m), NEW st \in RunState,
           NEW verdict \in Rulings(st, m)
    PROVE  /\ verdict \in Verdict /\ verdict.of = Target(m)
           /\ verdict.decision = "revise" =>
                 verdict.owner \in REVISION_OWNERS_FOR_MODE[m]
           /\ verdict.decision # "block" => st.reviews < MaxReviews
<1>1. Target(m) \in Nat
  BY TargetIsWritten
<1>2. REVISION_OWNERS_FOR_MODE[m] \subseteq Specialists
  BY ModesAndStages
     DEF REVISION_OWNERS_FOR_MODE, Specialists, Producers, PRODUCER_FOR_STAGE
<1>3. \E d \in {"accept", "revise", "block"}, o \in Specialists \cup {"none"},
         i \in Issues \cup {"none", "stop"} :
            /\ verdict = Ruling(st, m, d, o, i)
            /\ d = "revise" => o \in REVISION_OWNERS_FOR_MODE[m]
  BY <1>2 DEF Rulings
<1>4. st.reviews \in Nat
  BY DEF RunState
<1> QED
  BY <1>1, <1>3, <1>4, BudgetAssumption DEF Ruling, Verdict

-----------------------------------------------------------------------------
(* The invariant of the store.                                             *)

\* A verdict is about a version that exists.
VersionsExist ==
    \A m \in Modes : \A i \in DOMAIN verdicts[m] :
        verdicts[m][i].of \in 1..Latest(m)

\* A run state names files that exist.
BooksExist(st) ==
    /\ \A ref \in st.artifacts : ref[2] \in 1..Latest(ref[1])
    /\ \A ref \in st.verdicts : ref[2] \in DOMAIN verdicts[ref[1]]

\* So it is with the one in the file, and with those that are not saved yet.
KnownAreSound == \A st \in Known : BooksExist(st) /\ StatusIsBacked(st)

StoreInv ==
    /\ StoreTypes /\ RevisionsHaveOwners /\ VersionsExist
    /\ KnownAreSound /\ PendingIsSpent

\* Files are added and never changed, an artifact rests on accepted ones, and
\* a verdict is about a version that exists.
FilesGrow ==
    /\ \A m \in Modes : \A v \in 1..Latest(m) :
          v \in 1..Len(artifacts'[m]) /\ artifacts'[m][v] = artifacts[m][v]
    /\ \A m \in Modes : \A v \in 1..Len(artifacts'[m]) :
          v \in 1..Latest(m) \/ \A r \in artifacts'[m][v].refs : Backed(r)
    /\ \A m \in Modes : \A i \in DOMAIN verdicts[m] :
          i \in DOMAIN verdicts'[m] /\ verdicts'[m][i] = verdicts[m][i]
    /\ \A m \in Modes : \A i \in DOMAIN verdicts'[m] :
          \/ i \in DOMAIN verdicts[m]
          \/ verdicts'[m][i].of \in 1..Len(artifacts'[m])

\* Every step of the store is of one of three kinds.  The rest of the store
\* does not matter to its invariant.
RestTypes ==
    /\ sources \in [Stages -> {"none", "same", "changed"}]
    /\ failure \in [stage : Modes, role : {"none", "producer", "reviewer"}]
    /\ reopenings \subseteq [stage : Modes, change : Changes,
                            restored : StageStatuses]
    /\ route \in Routes

\* What lifts a block without a new file.
Cause ==
    \/ reopenings' # reopenings
    \/ \E r \in reopenings : /\ r.stage = state'.current
                            /\ Latest(r.stage) > 0
                            /\ Decision(r.stage, Latest(r.stage)) = "none"
    \/ Accepted("final_release") /\ state'.status = "released"

\* A run state is made from one that is known: another status,
Revised(base, st) ==
    /\ st \in RunState
    /\ st.artifacts = base.artifacts /\ st.verdicts = base.verdicts
    /\ st.reviews = base.reviews /\ st.actions >= base.actions
    /\ \A m \in Modes : \/ st.stage[m] \in {base.stage[m], "pending", "blocked"}
                        \/ st.stage[m] = Restored(m)
\* a new artifact,
Entered(base, m, st) ==
    /\ st \in RunState
    /\ st.artifacts = base.artifacts \cup {NextRef(m)}
    /\ st.verdicts = base.verdicts
    /\ st.reviews = base.reviews /\ st.actions = base.actions
    /\ st.stage[m] = "produced"
    /\ \A o \in Modes \ {m} : st.stage[o] \in {base.stage[o], "pending"}
\* or a new verdict, which may get lost.
Judged(base, m, verdict, st) ==
    /\ st \in RunState
    /\ st.artifacts \subseteq base.artifacts \cup {<<m, Target(m)>>}
    /\ st.actions = base.actions
    /\ \A o \in Modes \ {m} : st.stage[o] \in {base.stage[o], "pending"}
    /\ \/ st.verdicts = base.verdicts /\ st.reviews = base.reviews
       \/ /\ st.verdicts = base.verdicts \cup {<<m, Len(verdicts[m]) + 1>>}
          /\ st.reviews = base.reviews + 1
          /\ verdict.decision = "accept" => st.stage[m] = "accepted"
          /\ verdict.decision = "revise" => st.stage[m] = "revise"
          /\ verdict.decision = "block" => st.stage[m] = "blocked"

\* The run states alone change.
StateStep ==
    /\ UNCHANGED <<artifacts, verdicts>> /\ RestTypes'
    /\ \A st \in Known' : \E base \in Known : Revised(base, st)
    /\ state'.status \in {state.status, "blocked"} \/ Cause

\* An artifact is written.
ArtifactStep(m, art) ==
    /\ art \in Artifact /\ \A r \in art.refs : Backed(r)
    /\ artifacts' = WithArtifact(m, art)
    /\ UNCHANGED verdicts /\ RestTypes'
    /\ \A st \in Known' : \E base \in Known : st = base \/ Entered(base, m, st)

\* A verdict is written.
VerdictStep(m, ruled, verdict) ==
    /\ ruled \in RunState /\ verdict \in Rulings(ruled, m)
    /\ WriteVerdict(m, verdict)
    /\ \A st \in Known' : \E base \in Known : Judged(base, m, verdict, st)

\* A saved run state counts what some known one has counted; a block to be
\* saved is that of a state out of budget.
PendingStep ==
    /\ unsaved' \in [Lookers -> SUBSET RunState] /\ state' \in RunState
    /\ \/ /\ Pending' \subseteq Pending
          /\ \E base \in Known : /\ state'.actions >= base.actions
                                 /\ state'.reviews >= base.reviews
       \/ /\ state' = state /\ Spent
          /\ Pending' \subseteq Pending \cup {[state EXCEPT !.status = "blocked"]}

StoreStep ==
    /\ PendingStep
    /\ \/ StateStep
       \/ \E m \in Modes, art \in Artifact : ArtifactStep(m, art)
       \/ \E m \in Modes, ruled \in RunState, verdict \in Verdict :
             VerdictStep(m, ruled, verdict)

LEMMA KnownAreStates ==
    ASSUME StoreTypes
    PROVE  /\ Known \subseteq RunState /\ Pending \subseteq Known
           /\ state \in Known
           /\ \A st \in RunState : st.actions \in Nat /\ st.reviews \in Nat
BY DEF StoreTypes, Known, Pending, RunState

LEMMA PendingStaysSpent ==
    ASSUME StoreInv, PendingStep
    PROVE  PendingIsSpent' /\ (Pending # {} => Spent')
<1>s. StoreTypes /\ PendingIsSpent
  BY DEF StoreInv
<1>k. /\ Known \subseteq RunState /\ Pending \subseteq Known /\ state \in Known
      /\ \A st \in RunState : st.actions \in Nat /\ st.reviews \in Nat
  BY <1>s, KnownAreStates
<1>n. /\ \A st \in Known' : st = state' \/ st \in Pending'
      /\ state' \in RunState /\ MaxActions \in Nat /\ MaxReviews \in Nat
  BY BudgetAssumption DEF PendingStep, Known
<1>1. ASSUME Pending' \subseteq Pending,
             NEW base \in Known, state'.actions >= base.actions,
             state'.reviews >= base.reviews
      PROVE  PendingIsSpent' /\ (Pending # {} => Spent')
  <2>1. \A st \in Pending' : st.status = "blocked"
    BY <1>s, <1>1 DEF PendingIsSpent
  <2>2. ASSUME NoActionsLeft
        PROVE  (\A st \in Known' : st.actions >= MaxActions) /\ Spent'
    BY <1>k, <1>n, <1>1, <2>2 DEF NoActionsLeft, Spent
  <2>3. ASSUME NoReviewsLeft
        PROVE  (\A st \in Known' : st.reviews >= MaxReviews) /\ Spent'
    BY <1>k, <1>n, <1>1, <2>3 DEF NoReviewsLeft, Spent
  <2>4. Pending' # {} => Pending # {}
    BY <1>1
  <2> QED
    BY <1>s, <2>1, <2>2, <2>3, <2>4 DEF PendingIsSpent, NoActionsLeft, NoReviewsLeft
<1>2. ASSUME state' = state, Spent,
             Pending' \subseteq Pending \cup {[state EXCEPT !.status = "blocked"]}
      PROVE  PendingIsSpent' /\ (Pending # {} => Spent')
  <2> DEFINE copy == [state EXCEPT !.status = "blocked"]
  <2>1. /\ copy.status = "blocked"
        /\ copy.actions = state.actions /\ copy.reviews = state.reviews
    BY <1>k DEF RunState
  <2>2. \A st \in Pending' : st \in Pending \/ st = copy
    BY <1>2
  <2> HIDE DEF copy
  <2>3. \A st \in Pending' : st.status = "blocked"
    BY <1>s, <2>1, <2>2 DEF PendingIsSpent
  <2>4. \A st \in Known' : st \in Known \/ st = copy
    BY <1>k, <1>n, <1>2, <2>2
  <2>5. Spent'
    BY <1>2 DEF Spent
  <2>6. CASE Pending # {}
    <3>1. NoActionsLeft => \A st \in Known' : st.actions >= MaxActions
      BY <1>k, <2>1, <2>4 DEF NoActionsLeft
    <3>2. NoReviewsLeft => \A st \in Known' : st.reviews >= MaxReviews
      BY <1>k, <2>1, <2>4 DEF NoReviewsLeft
    <3> QED
      BY <1>s, <2>3, <2>5, <2>6, <3>1, <3>2
         DEF PendingIsSpent, NoActionsLeft, NoReviewsLeft
  <2>7. CASE Pending = {}
    <3>1. \A st \in Known' : st.actions = state.actions /\ st.reviews = state.reviews
      BY <1>n, <1>2, <2>1, <2>2, <2>7
    <3> QED
      BY <1>2, <2>3, <2>5, <3>1
         DEF PendingIsSpent, NoActionsLeft, NoReviewsLeft, Spent
  <2> QED
    BY <2>6, <2>7
<1> QED
  BY <1>1, <1>2 DEF PendingStep

LEMMA StateStepKeeps ==
    ASSUME StoreInv, PendingStep, StateStep
    PROVE  StoreInv' /\ FilesGrow
<1>1. StoreTypes'
  BY DEF StoreInv, StateStep, PendingStep, StoreTypes, RestTypes
<1>2. RevisionsHaveOwners' /\ VersionsExist'
  BY DEF StoreInv, StateStep, RevisionsHaveOwners, VersionsExist, Latest
<1>4. KnownAreSound'
  <2> SUFFICES ASSUME NEW st \in Known'
               PROVE  BooksExist(st)' /\ StatusIsBacked(st)'
    BY DEF KnownAreSound
  <2>b. PICK base \in Known : Revised(base, st)
    BY DEF StateStep
  <2>k. BooksExist(base) /\ StatusIsBacked(base) /\ StoreTypes
    BY DEF StoreInv, KnownAreSound
  <2>1. BooksExist(st)'
    BY <2>b, <2>k DEF StateStep, Revised, BooksExist, Latest
  <2>2. ASSUME NEW m \in Modes, Registered(st, m)'
        PROVE  /\ st.stage[m] = "accepted" => Accepted(m)
               /\ st.stage[m] = "revise" =>
                    Latest(m) > 0 /\ Decision(m, Latest(m)) = "revise"
               /\ st.stage[m] = "produced" =>
                    Latest(m) > 0 /\ Decision(m, Latest(m)) = "none"
    <3>1. Registered(base, m)
      BY <2>b, <2>2 DEF StateStep, Revised, Registered, Latest
    <3>2. CASE st.stage[m] = base.stage[m]
      BY <2>k, <3>1, <3>2 DEF StatusIsBacked
    <3>3. CASE st.stage[m] = Restored(m)
      BY <2>k, <3>3, LatestIsNumber DEF Restored
    <3> QED
      BY <2>b, <3>2, <3>3 DEF Revised
  <2>3. StatusIsBacked(st)'
    BY <2>2 DEF StatusIsBacked, StateStep, Accepted, Decision, Latest, Rounds,
                LastRound
  <2> QED
    BY <2>1, <2>3
<1>5. FilesGrow
  BY DEF StateStep, FilesGrow, Latest
<1> QED
  BY <1>1, <1>2, <1>4, <1>5, PendingStaysSpent DEF StoreInv

\* What decides about a version is in the verdicts of its mode.
LEMMA SameVerdictsSameDecision ==
    ASSUME NEW m \in Modes, verdicts'[m] = verdicts[m], Latest(m)' = Latest(m)
    PROVE  Decision(m, Latest(m))' = Decision(m, Latest(m))
<1>1. Rounds(m, Latest(m))' = Rounds(m, Latest(m))
  BY DEF Rounds
<1>2. LastRound(m, Latest(m))' = LastRound(m, Latest(m))
  BY <1>1 DEF LastRound
<1> QED
  BY <1>1, <1>2 DEF Decision

LEMMA ArtifactStepKeeps ==
    ASSUME StoreInv, PendingStep, NEW m \in Modes, NEW art \in Artifact,
           ArtifactStep(m, art)
    PROVE  StoreInv' /\ FilesGrow
<1> USE DEF StoreInv
<1>t. /\ artifacts \in [Modes -> Seq(Artifact)] /\ verdicts \in [Modes -> Seq(Verdict)]
      /\ state \in RunState /\ verdicts' = verdicts
  BY DEF StoreTypes, ArtifactStep
<1>n. Latest(m) \in Nat /\ Latest(m)' \in Nat /\ Latest(m)' = Latest(m) + 1
  BY <1>t, AppendKeepsTypes DEF ArtifactStep, WithArtifact, Latest
<1>1. /\ artifacts' \in [Modes -> Seq(Artifact)]
      /\ artifacts'[m][Latest(m)'] = art
      /\ \A v \in 1..Latest(m) : artifacts'[m][v] = artifacts[m][v]
      /\ \A v \in 1..Latest(m)' : v \in 1..Latest(m) \/ v = Latest(m)'
      /\ \A o \in Modes \ {m} : artifacts'[o] = artifacts[o]
  <2>1. \A o \in Modes : artifacts[o] \in Seq(Artifact)
    BY <1>t
  <2>2. artifacts' = [artifacts EXCEPT ![m] = Append(@, art)]
    BY DEF ArtifactStep, WithArtifact
  <2> QED
    BY <1>t, <1>n, <2>1, <2>2, AppendKeepsTypes DEF Latest
<1>m. \A o \in Modes : Latest(o) \in Nat /\ 1..Latest(o) \subseteq 1..Latest(o)'
  BY <1>n, <1>1, LatestIsNumber DEF Latest
<1>2. StoreTypes'
  BY <1>t, <1>1 DEF ArtifactStep, PendingStep, StoreTypes, RestTypes
<1>3. RevisionsHaveOwners' /\ VersionsExist'
  BY <1>t, <1>m DEF RevisionsHaveOwners, VersionsExist
<1>4. KnownAreSound'
  <2> SUFFICES ASSUME NEW st \in Known'
               PROVE  BooksExist(st)' /\ StatusIsBacked(st)'
    BY DEF KnownAreSound
  <2>b. PICK base \in Known : st = base \/ Entered(base, m, st)
    BY DEF ArtifactStep
  <2>k. BooksExist(base) /\ StatusIsBacked(base) /\ base \in RunState
    BY KnownAreStates DEF KnownAreSound
  <2>s. /\ st.verdicts = base.verdicts
        /\ st.artifacts \subseteq base.artifacts \cup {NextRef(m)}
        /\ \A o \in Modes \ {m} : st.stage[o] \in {base.stage[o], "pending"}
        /\ st.stage[m] = "produced" \/ st.artifacts = base.artifacts
    BY <2>b DEF Entered
  <2>1. BooksExist(st)'
    <3>1. NextRef(m)[2] \in 1..Latest(m)' /\ NextRef(m)[1] = m
      BY <1>n DEF NextRef
    <3>2. /\ \A ref \in base.artifacts : ref[1] \in Modes
          /\ \A ref \in base.verdicts : ref[1] \in Modes
      BY <2>k DEF RunState, Refs
    <3>3. \A ref \in st.artifacts : ref[2] \in 1..Latest(ref[1])'
      BY <1>m, <2>k, <2>s, <3>1, <3>2 DEF BooksExist
    <3>4. \A ref \in st.verdicts : ref[2] \in DOMAIN verdicts'[ref[1]]
      BY <1>t, <2>k, <2>s DEF BooksExist
    <3> QED
      BY <3>3, <3>4 DEF BooksExist
  <2>2. ASSUME NEW o \in Modes, Registered(st, o)'
        PROVE  /\ st.stage[o] = "accepted" => Accepted(o)'
               /\ st.stage[o] = "revise" =>
                    Latest(o)' > 0 /\ Decision(o, Latest(o))' = "revise"
               /\ st.stage[o] = "produced" =>
                    Latest(o)' > 0 /\ Decision(o, Latest(o))' = "none"
    <3>1. CASE o # m
      <4>1. Latest(o)' = Latest(o)
        BY <1>1, <3>1 DEF Latest
      <4>2. Decision(o, Latest(o))' = Decision(o, Latest(o))
        BY <1>t, <4>1, SameVerdictsSameDecision
      <4>3. Registered(base, o)
        <5>1. \A v \in 1..Latest(o) : <<o, v>> # NextRef(m)
          BY <3>1 DEF NextRef
        <5> QED
          BY <1>t, <2>2, <2>s, <4>1, <5>1 DEF Registered
      <4> QED
        BY <2>k, <2>s, <3>1, <4>1, <4>2, <4>3 DEF StatusIsBacked, Accepted
    <3>2. CASE o = m
      <4>1. <<m, Latest(m)'>> \in st.artifacts
        BY <1>n, <2>2, <3>2 DEF Registered
      <4>2. <<m, Latest(m)'>> \notin base.artifacts
        BY <1>n, <2>k DEF BooksExist
      <4>3. st.stage[m] = "produced"
        BY <2>s, <4>1, <4>2
      <4>4. Rounds(m, Latest(m))' = {}
        BY <1>t, <1>n DEF Rounds, VersionsExist
      <4> QED
        BY <1>n, <3>2, <4>3, <4>4 DEF Decision
    <3> QED
      BY <3>1, <3>2
  <2> QED
    BY <2>1, <2>2 DEF StatusIsBacked
<1>7. FilesGrow
  <2>1. Latest(m)' = Len(artifacts'[m])
    BY DEF Latest
  <2> QED
    BY <1>t, <1>n, <1>m, <1>1, <2>1 DEF FilesGrow, Latest, ArtifactStep
<1> QED
  BY <1>2, <1>3, <1>4, <1>7, PendingStaysSpent

\* The run state that a reviewer finds: unchanged, or with a new integration.
LEMMA TargetStateIs ==
    ASSUME StoreTypes, NEW m \in Modes
    PROVE  /\ TargetState(m) \in RunState
           /\ TargetState(m).verdicts = state.verdicts
           /\ TargetState(m).reviews = state.reviews
           /\ TargetState(m).actions = state.actions
           /\ TargetState(m).status = state.status
           /\ TargetState(m).artifacts \subseteq
                 state.artifacts \cup {<<m, Target(m)>>}
           /\ \A o \in Modes \ {m} :
                 TargetState(m).stage[o] \in {state.stage[o], "pending"}
<1>1. state \in RunState
  BY DEF StoreTypes
<1>2. CASE Outdated(m)
  <2>1. m = "integration" /\ TargetState(m) = StateAfterIntegration
        /\ NextRef("integration") = <<m, Target(m)>>
    BY <1>2 DEF Outdated, TargetState, NextRef, Target
  <2>2. NextRef("integration") \in Refs
    BY LatestIsNumber, ModesAndStages
  <2>3. /\ StateAfterIntegration.verdicts = state.verdicts
        /\ StateAfterIntegration.reviews = state.reviews
        /\ StateAfterIntegration.actions = state.actions
        /\ StateAfterIntegration.status = state.status
        /\ StateAfterIntegration.artifacts =
              state.artifacts \cup {NextRef("integration")}
    BY <1>1 DEF StateAfterIntegration, RunState
  <2>4. StateAfterIntegration.stage =
           [state.stage EXCEPT !["integration"] = "produced",
                               !["final_release"] = "pending"]
    BY <1>1 DEF StateAfterIntegration, RunState
  <2>5. /\ StateAfterIntegration.stage \in [Modes -> StageStatuses]
        /\ \A o \in Modes \ {m} :
              StateAfterIntegration.stage[o] \in {state.stage[o], "pending"}
    BY <1>1, <2>1, <2>4, ModesAndStages DEF RunState, StageStatuses
  <2>6. StateAfterIntegration \in RunState
    <3>1. StateAfterIntegration.artifacts \subseteq Refs
      BY <1>1, <2>2, <2>3 DEF RunState
    <3> DEFINE St == StateAfterIntegration.stage
               As == StateAfterIntegration.artifacts
    <3>2. StateAfterIntegration = [state EXCEPT !.current = "integration",
                                                !.artifacts = As, !.stage = St]
      BY <2>3, <2>4 DEF StateAfterIntegration
    <3> HIDE DEF St, As
    <3>3. [state EXCEPT !.current = "integration", !.artifacts = As,
                        !.stage = St] \in RunState
      BY <1>1, <2>5, <3>1, ModesAndStages DEF RunState, St, As
    <3> QED
      BY <3>2, <3>3
  <2> QED
    BY <2>1, <2>3, <2>5, <2>6
<1>3. CASE ~Outdated(m)
  BY <1>1, <1>3 DEF TargetState
<1> QED
  BY <1>2, <1>3

\* After a verdict its round decides about the version it is about.
LEMMA NewVerdictDecides ==
    ASSUME StoreInv, NEW m \in Modes, NEW ruled, NEW verdict,
           VerdictStep(m, ruled, verdict)
    PROVE  /\ verdicts' \in [Modes -> Seq(Verdict)]
           /\ Len(verdicts'[m]) = Len(verdicts[m]) + 1
           /\ verdicts'[m][Len(verdicts'[m])] = verdict
           /\ \A i \in DOMAIN verdicts[m] :
                 i \in DOMAIN verdicts'[m] /\ verdicts'[m][i] = verdicts[m][i]
           /\ \A i \in DOMAIN verdicts'[m] :
                 i \in DOMAIN verdicts[m] \/ i = Len(verdicts'[m])
           /\ \A o \in Modes \ {m} : verdicts'[o] = verdicts[o]
           /\ Decision(m, Latest(m))' = verdict.decision
           /\ Latest(m)' = Target(m)
           /\ Latest(m)' \in Nat \ {0}
           /\ artifacts' \in [Modes -> Seq(Artifact)]
           /\ \A o \in Modes \ {m} : artifacts'[o] = artifacts[o]
<1> USE DEF StoreInv
<1>r. Reviewable(m) /\ artifacts' = TargetFiles(m)
      /\ verdicts' = [verdicts EXCEPT ![m] = Append(@, verdict)]
  BY DEF VerdictStep, WriteVerdict
<1>v. verdict \in Verdict /\ verdict.of = Target(m)
  BY <1>r, RulingIsVerdict DEF VerdictStep
<1>1. /\ verdicts' \in [Modes -> Seq(Verdict)]
      /\ Len(verdicts'[m]) = Len(verdicts[m]) + 1
      /\ verdicts'[m][Len(verdicts'[m])] = verdict
      /\ \A i \in DOMAIN verdicts[m] :
            i \in DOMAIN verdicts'[m] /\ verdicts'[m][i] = verdicts[m][i]
      /\ \A i \in DOMAIN verdicts'[m] :
            i \in DOMAIN verdicts[m] \/ i = Len(verdicts'[m])
      /\ \A o \in Modes \ {m} : verdicts'[o] = verdicts[o]
  <2>1. verdicts \in [Modes -> Seq(Verdict)]
    BY DEF StoreTypes
  <2> QED
    BY <1>r, <1>v, <2>1, AppendKeepsTypes
<1>2. /\ artifacts' \in [Modes -> Seq(Artifact)]
      /\ Latest(m)' = Target(m) /\ Latest(m)' \in Nat \ {0}
      /\ \A o \in Modes \ {m} : artifacts'[o] = artifacts[o]
  <2>1. artifacts' \in [Modes -> Seq(Artifact)] /\ Target(m) \in 1..Latest(m)'
    BY <1>r, TargetIsWritten DEF Latest
  <2>2. CASE Outdated(m)
    <3>1. m = "integration" /\ AllAccepted
      BY <1>r, <2>2 DEF Outdated, Reviewable
    <3>2. artifacts' = [artifacts EXCEPT ![m] = Append(@, NewIntegration)]
      BY <1>r, <2>2, <3>1 DEF TargetFiles, WithArtifact
    <3>3. artifacts \in [Modes -> Seq(Artifact)] /\ NewIntegration \in Artifact
      BY <3>1, IntegrationArtifact DEF StoreTypes
    <3>4. /\ Len(artifacts'[m]) = Len(artifacts[m]) + 1
          /\ \A o \in Modes \ {m} : artifacts'[o] = artifacts[o]
      BY ONLY <3>2, <3>3, AppendKeepsTypes, m \in Modes
    <3> QED
      BY <2>1, <2>2, <3>4, LatestIsNumber DEF Target, Latest
  <2>3. CASE ~Outdated(m)
    BY <1>r, <2>1, <2>3, LatestIsNumber DEF TargetFiles, Target, Latest
  <2> QED
    BY <2>2, <2>3
<1>3. Decision(m, Latest(m))' = verdict.decision
  <2> DEFINE n == Len(verdicts'[m])
  <2>1. n \in Nat /\ n \in DOMAIN verdicts'[m]
    BY <1>1 DEF StoreTypes
  <2>2. /\ n \in Rounds(m, Latest(m))'
        /\ \A i \in Rounds(m, Latest(m))' : i \in Nat /\ i <= n
    BY <1>1, <1>2, <1>v, <2>1 DEF Rounds
  <2>3. LastRound(m, Latest(m))' = n
    BY <2>1, <2>2 DEF LastRound
  <2> QED
    BY <1>1, <2>2, <2>3 DEF Decision
<1> QED
  BY <1>1, <1>2, <1>3

LEMMA AfterVerdictIs ==
    ASSUME StoreTypes, NEW m \in Modes, NEW verdict \in Verdict,
           NEW ts \in RunState
    PROVE  LET st == StateAfterVerdict(ts, m, verdict)
           IN /\ st \in RunState /\ st.artifacts = ts.artifacts
              /\ st.verdicts = ts.verdicts \cup {<<m, Len(verdicts[m]) + 1>>}
              /\ st.reviews = ts.reviews + 1 /\ st.actions = ts.actions
              /\ verdict.decision = "accept" => st.stage[m] = "accepted"
              /\ verdict.decision = "revise" => st.stage[m] = "revise"
              /\ verdict.decision = "block" => st.stage[m] = "blocked"
              /\ verdict.decision = "block" => st.status = "blocked"
              /\ \A o \in Modes \ {m} : st.stage[o] = ts.stage[o]
<1> DEFINE st == StateAfterVerdict(ts, m, verdict)
           outcome == CASE verdict.decision = "accept" -> "accepted"
                        [] verdict.decision = "revise" -> "revise"
                        [] verdict.decision = "block"  -> "blocked"
           status == IF verdict.decision = "block" THEN "blocked"
                     ELSE IF m = "final_release" /\ verdict.decision = "accept"
                     THEN "release_ready" ELSE "active"
           stage == [ts.stage EXCEPT ![m] = outcome]
           ref == <<m, Len(verdicts[m]) + 1>>
<1>2. ref \in Refs
  <2>1. verdicts[m] \in Seq(Verdict)
    BY DEF StoreTypes
  <2> QED
    BY <2>1 DEF Refs
<1>3. outcome \in StageStatuses /\ status \in Statuses
  BY DEF Verdict, StageStatuses, Statuses
<1>o. /\ verdict.decision = "accept" => outcome = "accepted"
      /\ verdict.decision = "revise" => outcome = "revise"
      /\ verdict.decision = "block"  => outcome = "blocked" /\ status = "blocked"
  OBVIOUS
<1>4. st = [ts EXCEPT !.reviews = @ + 1, !.current = m,
                      !.verdicts = @ \cup {ref}, !.stage[m] = outcome,
                      !.status = status]
  BY DEF StateAfterVerdict
<1> HIDE DEF st, outcome, status, ref
<1>6. /\ stage \in [Modes -> StageStatuses] /\ stage[m] = outcome
      /\ \A o \in Modes \ {m} : stage[o] = ts.stage[o]
  BY <1>3 DEF RunState
<1>7. st = [ts EXCEPT !.reviews = @ + 1, !.current = m,
                      !.verdicts = @ \cup {ref}, !.stage = stage,
                      !.status = status]
  BY <1>4
<1> HIDE DEF stage
<1>5. /\ st.artifacts = ts.artifacts /\ st.verdicts = ts.verdicts \cup {ref}
      /\ st.reviews = ts.reviews + 1 /\ st.actions = ts.actions
      /\ st.stage = stage /\ st.status = status
  BY <1>7 DEF RunState
<1>8. st \in RunState
  <2> DEFINE known == ts.verdicts \cup {ref}
             count == ts.reviews + 1
  <2>1. known \in SUBSET Refs /\ count \in Nat
    BY <1>2 DEF RunState
  <2>2. st = [ts EXCEPT !.reviews = count, !.current = m, !.verdicts = known,
                        !.stage = stage, !.status = status]
    BY <1>7
  <2> HIDE DEF known, count
  <2> QED
    BY <1>3, <1>6, <2>1, <2>2 DEF RunState
<1> QED
  BY <1>5, <1>6, <1>8, <1>o DEF st, ref

LEMMA VerdictStepKeeps ==
    ASSUME StoreInv, PendingStep, NEW m \in Modes, NEW ruled, NEW verdict,
           VerdictStep(m, ruled, verdict)
    PROVE  StoreInv' /\ FilesGrow
<1> USE DEF StoreInv
<1> DEFINE n == Len(verdicts'[m])
           ref == <<m, n>>
<1>r. Reviewable(m) /\ artifacts' = TargetFiles(m)
      /\ sources' = sources /\ failure' = failure /\ reopenings' = reopenings
      /\ route' = route
  BY DEF VerdictStep, WriteVerdict
<1>v. /\ verdict \in Verdict /\ verdict.of = Target(m)
      /\ verdict.decision = "revise" =>
            verdict.owner \in REVISION_OWNERS_FOR_MODE[m]
  BY <1>r, RulingIsVerdict DEF VerdictStep
<1>d. /\ verdicts' \in [Modes -> Seq(Verdict)]
      /\ n = Len(verdicts[m]) + 1 /\ verdicts'[m][n] = verdict
      /\ \A i \in DOMAIN verdicts[m] :
            i \in DOMAIN verdicts'[m] /\ verdicts'[m][i] = verdicts[m][i]
      /\ \A i \in DOMAIN verdicts'[m] : i \in DOMAIN verdicts[m] \/ i = n
      /\ \A o \in Modes \ {m} : verdicts'[o] = verdicts[o]
      /\ Decision(m, Latest(m))' = verdict.decision
      /\ Latest(m)' = Target(m) /\ Latest(m)' \in Nat \ {0}
      /\ artifacts' \in [Modes -> Seq(Artifact)]
      /\ \A o \in Modes \ {m} : artifacts'[o] = artifacts[o]
  BY NewVerdictDecides
<1>n. n \in Nat /\ n \in DOMAIN verdicts'[m] /\ n \notin DOMAIN verdicts[m]
  BY <1>d DEF StoreTypes
<1>e. ref = <<m, Len(verdicts[m]) + 1>>
  BY <1>d
<1> HIDE DEF n
<1>f. \A o \in Modes : \A i \in DOMAIN verdicts[o] :
         i \in DOMAIN verdicts'[o] /\ verdicts'[o][i] = verdicts[o][i]
  BY <1>d
<1>m. \A o \in Modes : Latest(o) \in Nat /\ 1..Latest(o) \subseteq 1..Latest(o)'
  <2>1. Latest(m) \in Nat /\ Latest(m)' \in {Latest(m), Latest(m) + 1}
    BY <1>d, LatestIsNumber DEF Target
  <2>2. \A o \in Modes \ {m} : Latest(o) \in Nat /\ Latest(o)' = Latest(o)
    BY <1>d, LatestIsNumber DEF Latest
  <2> HIDE DEF StoreInv
  <2> QED
    BY <2>1, <2>2
<1>1. StoreTypes'
  BY <1>r, <1>d DEF StoreTypes, PendingStep
<1>2. RevisionsHaveOwners' /\ VersionsExist'
  <2> SUFFICES ASSUME NEW o \in Modes, NEW i \in DOMAIN verdicts'[o]
               PROVE  /\ verdicts'[o][i].decision = "revise" =>
                            verdicts'[o][i].owner \in REVISION_OWNERS_FOR_MODE[o]
                      /\ verdicts'[o][i].of \in 1..Latest(o)'
    BY DEF RevisionsHaveOwners, VersionsExist
  <2>1. CASE i \in DOMAIN verdicts[o]
    BY <1>f, <1>m, <2>1 DEF RevisionsHaveOwners, VersionsExist
  <2>2. CASE i \notin DOMAIN verdicts[o]
    <3>1. o = m /\ i = n
      BY <1>d, <2>2
    <3> QED
      BY <1>d, <1>v, <3>1
  <2> QED
    BY <2>1, <2>2
<1>4. KnownAreSound'
  <2> SUFFICES ASSUME NEW st \in Known'
               PROVE  BooksExist(st)' /\ StatusIsBacked(st)'
    BY DEF KnownAreSound
  <2>b. PICK base \in Known : Judged(base, m, verdict, st)
    BY DEF VerdictStep
  <2>k. BooksExist(base) /\ StatusIsBacked(base) /\ base \in RunState
    BY KnownAreStates DEF KnownAreSound
  <2>s. /\ st.artifacts \subseteq base.artifacts \cup {<<m, Target(m)>>}
        /\ \A o \in Modes \ {m} : st.stage[o] \in {base.stage[o], "pending"}
        /\ \/ st.verdicts = base.verdicts
           \/ /\ st.verdicts = base.verdicts \cup {ref}
              /\ verdict.decision = "accept" => st.stage[m] = "accepted"
              /\ verdict.decision = "revise" => st.stage[m] = "revise"
              /\ verdict.decision = "block" => st.stage[m] = "blocked"
    BY <1>e, <2>b DEF Judged
  <2>1. BooksExist(st)'
    <3>0. /\ \A r \in base.artifacts : r[1] \in Modes
          /\ \A r \in base.verdicts : r[1] \in Modes
      BY <2>k DEF RunState, Refs
    <3>1. Target(m) \in 1..Latest(m)'
      BY <1>d
    <3>2. \A r \in st.artifacts : r[2] \in 1..Latest(r[1])'
      BY <1>m, <2>k, <2>s, <3>0, <3>1 DEF BooksExist
    <3>3. \A r \in st.verdicts : r[2] \in DOMAIN verdicts'[r[1]]
      BY <1>f, <1>n, <2>k, <2>s, <3>0 DEF BooksExist
    <3> QED
      BY <3>2, <3>3 DEF BooksExist
  <2>2. ASSUME NEW o \in Modes, Registered(st, o)'
        PROVE  /\ st.stage[o] = "accepted" => Accepted(o)'
               /\ st.stage[o] = "revise" =>
                    Latest(o)' > 0 /\ Decision(o, Latest(o))' = "revise"
               /\ st.stage[o] = "produced" =>
                    Latest(o)' > 0 /\ Decision(o, Latest(o))' = "none"
    <3>1. CASE o # m
      <4>1. Latest(o)' = Latest(o)
        BY <1>d, <3>1 DEF Latest
      <4>2. Decision(o, Latest(o))' = Decision(o, Latest(o))
        BY <1>d, <3>1, <4>1, SameVerdictsSameDecision
      <4>3. Registered(base, o)
        <5>1. \A v : <<o, v>> \in st.artifacts => <<o, v>> \in base.artifacts
          BY <2>s, <3>1
        <5>2. \A v : <<o, v>> \in st.verdicts => <<o, v>> \in base.verdicts
          BY <2>s, <3>1
        <5> QED
          BY <1>d, <2>2, <3>1, <4>1, <5>1, <5>2 DEF Registered
      <4> QED
        BY <2>k, <2>s, <3>1, <4>1, <4>2, <4>3 DEF StatusIsBacked, Accepted
    <3>2. CASE o = m
      <4>1. ref \in st.verdicts
        BY <1>n, <2>2, <3>2 DEF Registered
      <4>2. ref \notin base.verdicts
        BY <1>n, <2>k DEF BooksExist
      <4>3. verdict.decision \in {"accept", "revise", "block"}
        BY <1>v DEF Verdict
      <4> QED
        BY <1>d, <2>s, <3>2, <4>1, <4>2, <4>3 DEF Accepted
    <3> QED
      BY <3>1, <3>2
  <2> QED
    BY <2>1, <2>2 DEF StatusIsBacked
<1>7. FilesGrow
  <2>1. \A o \in Modes : Latest(o)' = Len(artifacts'[o])
    BY DEF Latest
  <2>2. \A o \in Modes : \A i \in DOMAIN verdicts'[o] :
           i \in DOMAIN verdicts[o] \/ verdicts'[o][i].of \in 1..Latest(o)'
    BY <1>2 DEF VersionsExist
  <2>3. CASE artifacts' = artifacts
    BY <1>f, <2>1, <2>2, <2>3 DEF FilesGrow, Latest
  <2>4. CASE AllAccepted
             /\ artifacts' = WithArtifact("integration", NewIntegration)
    <3> DEFINE k == Len(artifacts'["integration"])
    <3>1. NewIntegration \in Artifact /\ \A r \in NewIntegration.refs : Backed(r)
      BY <2>4, IntegrationArtifact
    <3>2. artifacts \in [Modes -> Seq(Artifact)]
          /\ artifacts' = [artifacts EXCEPT !["integration"] =
                              Append(@, NewIntegration)]
          /\ "integration" \in Modes
      BY <2>4, ModesAndStages DEF WithArtifact, StoreTypes
    <3>3. /\ artifacts'["integration"][k] = NewIntegration
          /\ \A v \in DOMAIN artifacts["integration"] :
                /\ v \in DOMAIN artifacts'["integration"]
                /\ artifacts'["integration"][v] = artifacts["integration"][v]
          /\ \A v \in DOMAIN artifacts'["integration"] :
                v \in DOMAIN artifacts["integration"] \/ v = k
          /\ \A o \in Modes \ {"integration"} : artifacts'[o] = artifacts[o]
      BY <3>1, <3>2, AppendKeepsTypes
    <3>4. \A o \in Modes : /\ DOMAIN artifacts[o] = 1..Latest(o)
                           /\ DOMAIN artifacts'[o] = 1..Len(artifacts'[o])
      BY <1>d, <3>2 DEF Latest
    <3> HIDE DEF k
    <3> QED
      BY <1>f, <2>1, <2>2, <3>1, <3>3, <3>4 DEF FilesGrow
  <2> QED
    BY <1>r, <2>3, <2>4, TargetIsWritten
<1> QED
  BY <1>1, <1>2, <1>4, <1>7, PendingStaysSpent

-----------------------------------------------------------------------------
(* Every transaction is such a step.                                       *)

FileVars == <<artifacts, verdicts>>
RestVars == <<sources, failure, reopenings, route>>

LEMMA RestStays ==
    ASSUME StoreInv, UNCHANGED RestVars
    PROVE  RestTypes'
BY DEF StoreInv, StoreTypes, RestTypes, RestVars

\* What is not saved yet is saved, saved over or lost, unless a thread looks.
FewerUnsaved ==
    \/ UNCHANGED unsaved \/ Overtakes \/ unsaved' = [l \in Lookers |-> {}]
    \/ \E l \in Lookers : unsaved' = [unsaved EXCEPT ![l] = {}]

LEMMA FewerPending ==
    ASSUME StoreInv, FewerUnsaved
    PROVE  /\ unsaved' \in [Lookers -> SUBSET RunState]
           /\ Pending' \subseteq Pending
<1>1. unsaved \in [Lookers -> SUBSET RunState]
  BY DEF StoreInv, StoreTypes
<1>2. /\ unsaved' \in [Lookers -> SUBSET RunState]
      /\ \A l \in Lookers : unsaved'[l] \in {unsaved[l], {}}
  <2>1. CASE UNCHANGED unsaved
    BY <1>1, <2>1
  <2>2. CASE Overtakes
    <3>1. PICK lost \in SUBSET Saving :
             unsaved' = [l \in Lookers |-> IF l \in lost THEN {} ELSE unsaved[l]]
      BY <2>2 DEF Overtakes
    <3> QED
      BY <1>1, <3>1
  <2>3. CASE unsaved' = [l \in Lookers |-> {}]
    BY <1>1, <2>3
  <2>4. ASSUME NEW k \in Lookers, unsaved' = [unsaved EXCEPT ![k] = {}]
        PROVE  /\ unsaved' \in [Lookers -> SUBSET RunState]
               /\ \A l \in Lookers : unsaved'[l] \in {unsaved[l], {}}
    BY <1>1, <2>4
  <2> QED
    BY <2>1, <2>2, <2>3, <2>4 DEF FewerUnsaved
<1> QED
  BY <1>2 DEF Pending

\* So the run states known after a step are those known before it, and the
\* one that was saved.
LEMMA KnownAfter ==
    ASSUME StoreInv, FewerUnsaved
    PROVE  /\ \A st \in Known' : st = state' \/ (st \in Known /\ st \in RunState)
           /\ state \in Known /\ state \in RunState /\ Pending \subseteq Known
           /\ Known \subseteq RunState
<1>1. Pending' \subseteq Pending
  BY FewerPending
<1>2. Known \subseteq RunState /\ Pending \subseteq Known /\ state \in Known
  BY KnownAreStates DEF StoreInv
<1> QED
  BY <1>1, <1>2 DEF Known

LEMMA StateIsSaved ==
    ASSUME StoreInv, FewerUnsaved, UNCHANGED FileVars, RestTypes',
           NEW base \in Known, Revised(base, state'),
           state'.status \in {state.status, "blocked"} \/ Cause
    PROVE  StoreStep
<1>1. PendingStep
  <2>1. base \in RunState
    BY KnownAfter
  <2> QED
    BY <2>1, FewerPending DEF PendingStep, Revised, RunState
<1>2. \A st \in Known' : \E known \in Known : Revised(known, st)
  <2> SUFFICES ASSUME NEW st \in Known'
               PROVE  \E known \in Known : Revised(known, st)
    OBVIOUS
  <2>1. CASE st = state'
    BY <2>1
  <2>2. CASE st \in Known /\ st \in RunState
    <3>1. Revised(st, st)
      BY <2>2 DEF Revised, RunState
    <3> QED
      BY <2>2, <3>1
  <2> QED
    BY <2>1, <2>2, KnownAfter
<1>3. StateStep
  BY <1>2 DEF StateStep, FileVars
<1> QED
  BY <1>1, <1>3 DEF StoreStep

LEMMA ArtifactIsSaved ==
    ASSUME StoreInv, FewerUnsaved, NEW m \in Modes, NEW art \in Artifact,
           \A r \in art.refs : Backed(r), artifacts' = WithArtifact(m, art),
           UNCHANGED verdicts, RestTypes',
           NEW base \in Known, state' = base \/ Entered(base, m, state')
    PROVE  StoreStep
<1>0. base \in RunState
  BY KnownAfter
<1>1. PendingStep
  BY <1>0, FewerPending DEF PendingStep, Entered, RunState
<1>2. \A st \in Known' :
         \E known \in Known : st = known \/ Entered(known, m, st)
  BY KnownAfter
<1>3. ArtifactStep(m, art)
  BY <1>2 DEF ArtifactStep
<1> QED
  BY <1>1, <1>3 DEF StoreStep

LEMMA VerdictIsSaved ==
    ASSUME StoreInv, FewerUnsaved, NEW m \in Modes, NEW ruled \in RunState,
           NEW verdict \in Rulings(ruled, m), WriteVerdict(m, verdict),
           NEW base \in Known, Judged(base, m, verdict, state')
    PROVE  StoreStep
<1>1. base \in RunState /\ verdict \in Verdict
  <2>1. StoreTypes /\ Reviewable(m)
    BY DEF StoreInv, WriteVerdict
  <2> QED
    BY <2>1, KnownAfter, RulingIsVerdict
<1>2. PendingStep
  <2>1. state' \in RunState /\ state'.actions >= base.actions
        /\ state'.reviews >= base.reviews
    BY <1>1 DEF Judged, RunState
  <2> QED
    BY <2>1, FewerPending DEF PendingStep
<1>3. \A st \in Known' : \E known \in Known : Judged(known, m, verdict, st)
  <2> SUFFICES ASSUME NEW st \in Known'
               PROVE  \E known \in Known : Judged(known, m, verdict, st)
    OBVIOUS
  <2>1. CASE st = state'
    BY <2>1
  <2>2. CASE st \in Known /\ st \in RunState
    <3>1. Judged(st, m, verdict, st)
      BY <2>2 DEF Judged
    <3> QED
      BY <2>2, <3>1
  <2> QED
    BY <2>1, <2>2, KnownAfter
<1>4. VerdictStep(m, ruled, verdict)
  BY <1>3 DEF VerdictStep
<1> QED
  BY <1>1, <1>2, <1>4 DEF StoreStep

\* Steps that leave files and run state alone.
LEMMA NothingSaved ==
    ASSUME StoreInv, FewerUnsaved, UNCHANGED <<FileVars, state>>, RestTypes'
    PROVE  StoreStep
<1>1. state \in Known /\ state \in RunState
  BY KnownAfter
<1>2. Revised(state, state')
  BY <1>1 DEF Revised, RunState
<1> QED
  BY <1>1, <1>2, StateIsSaved DEF FileVars

LEMMA NothingChanged ==
    ASSUME StoreInv, UNCHANGED store
    PROVE  StoreStep
BY NothingSaved, RestStays DEF store, files, FileVars, RestVars, FewerUnsaved

\* The integration that a review finds, brought up to date.
LEMMA TargetIsSaved ==
    ASSUME StoreInv, NEW m \in Modes, Reviewable(m), EnsureIntegration(m),
           UNCHANGED <<verdicts, RestVars>>
    PROVE  StoreStep
<1>r. RestTypes' /\ UNCHANGED verdicts
  BY RestStays
<1>1. CASE Outdated(m)
  <2>1. m = "integration" /\ AllAccepted
    BY <1>1 DEF Outdated, Reviewable
  <2>2. /\ artifacts' = WithArtifact("integration", NewIntegration)
        /\ state' = StateAfterIntegration /\ FewerUnsaved
    BY <1>1, <2>1 DEF EnsureIntegration, TargetFiles, Save, FewerUnsaved
  <2>3. NewIntegration \in Artifact /\ \A r \in NewIntegration.refs : Backed(r)
    BY <2>1, IntegrationArtifact DEF StoreInv
  <2>4. /\ state' \in RunState
        /\ state'.verdicts = state.verdicts /\ state'.reviews = state.reviews
        /\ state'.actions = state.actions
    <3>1. StoreTypes /\ TargetState(m) = state'
      BY <1>1, <2>2 DEF TargetState, StoreInv
    <3> QED
      BY <3>1, TargetStateIs
  <2>5. /\ state'.artifacts = state.artifacts \cup {NextRef("integration")}
        /\ state'.stage["integration"] = "produced"
        /\ \A o \in Modes \ {"integration"} :
              state'.stage[o] \in {state.stage[o], "pending"}
    <3>1. state \in RunState
      BY DEF StoreInv, StoreTypes
    <3>2. /\ state'.artifacts = state.artifacts \cup {NextRef("integration")}
          /\ state'.stage = [state.stage EXCEPT !["integration"] = "produced",
                                                !["final_release"] = "pending"]
      BY <2>2, <3>1 DEF StateAfterIntegration, RunState
    <3> QED
      BY <3>1, <3>2, ModesAndStages DEF RunState
  <2>6. Entered(state, "integration", state') /\ state \in Known
    BY <2>4, <2>5 DEF Entered, Known
  <2> QED
    BY <1>r, <2>1, <2>2, <2>3, <2>6, ArtifactIsSaved
<1>2. CASE ~Outdated(m)
  BY <1>2, <1>r, NothingSaved DEF EnsureIntegration, FileVars, FewerUnsaved
<1> QED
  BY <1>1, <1>2

LEMMA AfterCheckpointIs ==
    ASSUME StoreTypes, NEW s \in Modes, NEW phase, NEW base \in RunState
    PROVE  Entered(base, s, StateAfterCheckpoint(base, s, phase))
<1> DEFINE st == StateAfterCheckpoint(base, s, phase)
           known == base.artifacts \cup {NextRef(s)}
           stage == [m \in Modes |-> IF m = s THEN "produced"
                                     ELSE IF m \in Downstream(s, phase)
                                     THEN "pending" ELSE base.stage[m]]
<1>2. st = [base EXCEPT !.status = "active", !.current = s, !.artifacts = known,
                        !.stage = stage]
  BY DEF StateAfterCheckpoint
<1>3. known \in SUBSET Refs
  BY LatestIsNumber DEF RunState
<1>4. /\ stage \in [Modes -> StageStatuses] /\ stage[s] = "produced"
      /\ \A o \in Modes \ {s} : stage[o] \in {base.stage[o], "pending"}
  BY DEF RunState, StageStatuses
<1>5. "active" \in Statuses
  BY DEF Statuses
<1>6. known = base.artifacts \cup {NextRef(s)}
  OBVIOUS
<1> HIDE DEF st, known, stage
<1>7. st \in RunState /\ st.artifacts = known /\ st.stage = stage
      /\ st.verdicts = base.verdicts /\ st.reviews = base.reviews
      /\ st.actions = base.actions
  BY <1>2, <1>3, <1>4, <1>5 DEF RunState
<1> QED
  BY <1>4, <1>6, <1>7 DEF st, Entered

LEMMA CheckpointIsSaved ==
    ASSUME StoreInv, FewerUnsaved, NEW s \in Modes, NEW phase \in Phases,
           NEW rid \in Refs, NEW base \in Known,
           ~CheckpointRefused(s, phase, rid), WriteCheckpoint(s, phase, rid),
           state' = base \/ state' = StateAfterCheckpoint(base, s, phase)
    PROVE  StoreStep
<1>1. /\ NewArtifact(s, phase, rid) \in Artifact
      /\ \A r \in NewArtifact(s, phase, rid).refs : Backed(r)
  BY CheckpointArtifact DEF StoreInv
<1>2. RestTypes'
  BY DEF WriteCheckpoint, RestTypes, StoreInv, StoreTypes
<1>3. state' = base \/ Entered(base, s, state')
  <2>1. base \in RunState /\ StoreTypes
    BY KnownAfter DEF StoreInv
  <2> QED
    BY <2>1, AfterCheckpointIs
<1> HIDE DEF NewArtifact
<1> QED
  BY <1>1, <1>2, <1>3, ArtifactIsSaved DEF WriteCheckpoint

LEMMA CheckpointIsStep ==
    ASSUME StoreInv, NEW s \in Modes, NEW phase \in Phases, NEW rid \in Refs,
           NEW base \in Known, CheckpointOver(base, s, phase, rid)
    PROVE  StoreStep
<1>1. CASE UNCHANGED store
  BY <1>1, NothingChanged
<1>2. CASE /\ WriteCheckpoint(s, phase, rid)
           /\ Save(StateAfterCheckpoint(base, s, phase))
  <2>1. FewerUnsaved /\ state' = StateAfterCheckpoint(base, s, phase)
    BY <1>2 DEF Save, FewerUnsaved
  <2>2. ~CheckpointRefused(s, phase, rid)
    BY DEF CheckpointOver
  <2> QED
    BY <1>2, <2>1, <2>2, CheckpointIsSaved
<1> QED
  BY <1>1, <1>2 DEF CheckpointOver

LEMMA ReleaseIsSaved ==
    ASSUME StoreInv, FewerUnsaved, NEW n \in Nat,
           WasAccepted(<<"integration", n>>), WriteRelease(n),
           UNCHANGED state \/ state' = StateAfterRelease
    PROVE  StoreStep
<1> DEFINE m == "final_release"
<1>m. m \in Modes /\ "integration" \in Modes
  BY ModesAndStages
<1>1. NewRelease(n) \in Artifact /\ \A r \in NewRelease(n).refs : Backed(r)
  BY <1>m, ReleaseArtifact DEF StoreInv, Backed, Refs
<1>2. RestTypes'
  BY RestStays DEF WriteRelease, RestVars
<1>3. Entered(state, m, StateAfterRelease)
  <2> DEFINE known == state.artifacts \cup {NextRef(m)}
             stage == [state.stage EXCEPT ![m] = "produced"]
  <2>0. state \in RunState /\ "active" \in Statuses /\ NextRef(m) \in Refs
    <3>1. StoreTypes
      BY DEF StoreInv
    <3> QED
      BY <1>m, <3>1, LatestIsNumber DEF StoreTypes, Statuses
  <2>1. state \in RunState /\ known \in SUBSET Refs /\ "active" \in Statuses
    BY <2>0 DEF RunState
  <2>2. /\ stage \in [Modes -> StageStatuses] /\ stage[m] = "produced"
        /\ \A o \in Modes \ {m} : stage[o] = state.stage[o]
    BY <1>m, <2>1 DEF RunState, StageStatuses
  <2>3. StateAfterRelease = [state EXCEPT !.status = "active", !.current = m,
                                          !.artifacts = known, !.stage = stage]
    BY DEF StateAfterRelease
  <2>4. known = state.artifacts \cup {NextRef(m)}
    OBVIOUS
  <2> HIDE DEF known, stage
  <2>5. LET st == StateAfterRelease
        IN /\ st \in RunState /\ st.artifacts = known /\ st.stage = stage
           /\ st.verdicts = state.verdicts /\ st.reviews = state.reviews
           /\ st.actions = state.actions
    BY <1>m, <2>1, <2>2, <2>3 DEF RunState
  <2> QED
    BY <2>2, <2>4, <2>5 DEF Entered
<1>4. state \in Known
  BY DEF Known
<1> QED
  BY <1>m, <1>1, <1>2, <1>3, <1>4, ArtifactIsSaved DEF WriteRelease

\* The integration is reviewed only in full research, when every stage is
\* accepted and current, and the result has been interpreted.
LEMMA ReviewOfIntegration ==
    ASSUME StoreInv, NextAction = Review("integration")
    PROVE  route = <<>> /\ AllAccepted /\ OpenStages = {} /\ ResultInterpreted
<1> DEFINE goal == Review("integration")
<1>g. goal.kind = "review" /\ goal.stage = "integration"
  BY DEF Review, Act
<1>n. "integration" \notin Stages
  BY ModesAndStages
<1>p. \A s, phase, answers : Produce(s, phase, answers) # goal
  BY <1>g DEF Produce, Act
<1>d. \A rid : Draft(rid) # goal
  BY <1>g DEF Draft, Act
<1>o. Terminal # goal /\ Released # goal /\ Exhausted # goal
  BY <1>g DEF Terminal, Released, Exhausted, Act
<1>r. \A m : Review(m) = goal => m = "integration"
  BY <1>g DEF Review, Act
<1> HIDE DEF goal
<1>e. \A m : RevisionAction(m) # goal
  BY <1>p, <1>d DEF RevisionAction
<1>1. ASSUME NEW s \in Stages
      PROVE  StageAction(s) # goal
  <2>1. s # "integration" /\ s \in Modes
    BY <1>n, ModesAndStages
  <2>2. StoreTypes /\ ~Accepted(s) /\ Latest(s) # 0 => GateAction(s) # goal
    <3> SUFFICES ASSUME StoreTypes, ~Accepted(s), Latest(s) # 0
                 PROVE  GateAction(s) # goal
      OBVIOUS
    <3>1. Decision(s, Latest(s)) \in {"none", "revise", "block"}
      BY <2>1, DecisionIsOne, LatestIsNumber DEF Accepted
    <3> QED
      BY <1>e, <1>o, <1>r, <2>1, <3>1 DEF GateAction
  <2> QED
    BY <1>p, <2>2 DEF StageAction, StoreInv
<1>2. ASSUME NEW s \in Stages
      PROVE  BoundedStageAction(s) # goal
  <2>1. s # "integration" /\ s \in Modes /\ Latest(s) \in Nat
    BY <1>n, ModesAndStages, LatestIsNumber DEF StoreInv
  <2>2. Decision(s, Latest(s)) \in {"none", "accept", "revise", "block"}
    BY <2>1, DecisionIsOne DEF StoreInv
  <2>3. Review(s) # goal
    BY <1>r, <2>1
  <2> QED
    BY <1>p, <1>o, <2>1, <2>2, <2>3 DEF BoundedStageAction
<1>3. route \in Seq(Stages)
  BY RouteAssumption DEF StoreInv, StoreTypes
<1>4. BoundedAction # goal
  <2> DEFINE open == {i \in DOMAIN route :
                         BoundedStageAction(route[i]).kind # "released"}
  <2>1. ASSUME open # {}
        PROVE  (CHOOSE i \in open : \A j \in open : i <= j) \in DOMAIN route
    <3>1. open \in SUBSET Nat /\ open \subseteq DOMAIN route
      BY <1>3
    <3>2. \E i \in open : \A j \in open : i <= j
      BY <2>1, <3>1, LeastNumber
    <3> QED
      BY <3>1, <3>2
  <2> QED
    BY <1>2, <1>3, <1>o, <2>1 DEF BoundedAction
<1>5. route = <<>> /\ FullAction = goal
  BY <1>4, <1>o DEF NextAction, goal
<1>6. CASE OpenStages # {}
  <2> DEFINE first == CHOOSE i \in OpenStages : \A j \in OpenStages : i <= j
  <2>1. first \in 1..5
    <3>1. OpenStages \in SUBSET Nat /\ OpenStages \subseteq 1..5
      BY DEF OpenStages
    <3>2. \E i \in OpenStages : \A j \in OpenStages : i <= j
      BY <1>6, <3>1, LeastNumber
    <3> QED
      BY <3>1, <3>2
  <2>2. FullAction \in {Exhausted, StageAction(REVIEW_SEQUENCE[first])}
    BY <1>6 DEF FullAction
  <2>3. REVIEW_SEQUENCE[first] \in Stages
    <3> HIDE DEF first
    <3> QED
      BY <2>1, ModesAndStages
  <2> QED
    BY <1>1, <1>5, <1>o, <2>2, <2>3
<1>7. CASE OpenStages = {}
  <2>1. AllAccepted
    BY <1>7 DEF OpenStages, Open, AllAccepted, Stages
  <2>2. ResultInterpreted
    BY <1>5, <1>7, <1>o, <1>p DEF FullAction
  <2> QED
    BY <1>5, <1>7, <2>1, <2>2
<1> QED
  BY <1>6, <1>7

\* The only action of its kind, and a budget is used up then.
LEMMA ExhaustedIsSpent ==
    ASSUME StoreInv, NextAction.kind = "exhausted"
    PROVE  /\ NextAction = Exhausted /\ Spent
           /\ route = <<>> => OutOfBudget
<1>p. \A s, phase, answers : Produce(s, phase, answers).kind = "producer"
  BY DEF Produce, Act
<1>d. \A rid : Draft(rid).kind = "prepare_release"
  BY DEF Draft, Act
<1>o. Terminal.kind = "terminal" /\ Released.kind = "released"
  BY DEF Terminal, Released, Act
<1>r. \A m : Review(m).kind = "review"
  BY DEF Review, Act
<1>e. \A m : RevisionAction(m).kind # "exhausted"
  BY <1>p, <1>d DEF RevisionAction
<1>t. StoreTypes
  BY DEF StoreInv
<1>g. ASSUME NEW m \in Modes, ~Accepted(m), Latest(m) # 0
      PROVE  GateAction(m).kind # "exhausted"
  <2>1. Decision(m, Latest(m)) \in {"none", "revise", "block"}
    BY <1>t, <1>g, DecisionIsOne, LatestIsNumber DEF Accepted
  <2> QED
    BY <1>e, <1>o, <1>r, <2>1 DEF GateAction
<1>1. ASSUME NEW s \in Stages
      PROVE  StageAction(s).kind # "exhausted"
  BY <1>p, <1>g, ModesAndStages DEF StageAction
<1>2. ASSUME NEW s \in Stages, BoundedStageAction(s).kind = "exhausted"
      PROVE  BoundedStageAction(s) = Exhausted /\ state.reviews >= MaxReviews
  <2>1. s \in Modes /\ Latest(s) \in Nat
    BY <1>t, ModesAndStages, LatestIsNumber
  <2>2. Decision(s, Latest(s)) \in {"none", "accept", "revise", "block"}
    BY <1>t, <2>1, DecisionIsOne
  <2> QED
    BY <1>p, <1>o, <1>r, <1>2, <2>1, <2>2 DEF BoundedStageAction
<1>3. route \in Seq(Stages)
  BY <1>t, RouteAssumption DEF StoreTypes
<1>4. ASSUME BoundedAction.kind = "exhausted"
      PROVE  BoundedAction = Exhausted /\ state.reviews >= MaxReviews
  <2> DEFINE open == {i \in DOMAIN route :
                         BoundedStageAction(route[i]).kind # "released"}
             first == CHOOSE i \in open : \A j \in open : i <= j
  <2>1. open # {} /\ BoundedAction = BoundedStageAction(route[first])
    BY <1>4, <1>o DEF BoundedAction
  <2>2. first \in DOMAIN route
    <3>1. open \in SUBSET Nat /\ open \subseteq DOMAIN route
      BY <1>3
    <3>2. \E i \in open : \A j \in open : i <= j
      BY <2>1, <3>1, LeastNumber
    <3> QED
      BY <3>1, <3>2
  <2> HIDE DEF first
  <2> QED
    BY <1>2, <1>3, <1>4, <2>1, <2>2
<1>5. ASSUME FullAction.kind = "exhausted"
      PROVE  FullAction = Exhausted /\ OutOfBudget
  <2>1. CASE OutOfBudget
    BY <2>1 DEF FullAction
  <2>2. CASE ~OutOfBudget /\ OpenStages # {}
    <3> DEFINE first == CHOOSE i \in OpenStages : \A j \in OpenStages : i <= j
    <3>1. FullAction = StageAction(REVIEW_SEQUENCE[first])
      BY <2>2 DEF FullAction
    <3>2. first \in 1..5
      <4>1. OpenStages \in SUBSET Nat /\ OpenStages \subseteq 1..5
        BY DEF OpenStages
      <4>2. \E i \in OpenStages : \A j \in OpenStages : i <= j
        BY <2>2, <4>1, LeastNumber
      <4> QED
        BY <4>1, <4>2
    <3> HIDE DEF first
    <3> QED
      BY <1>1, <1>5, <3>1, <3>2, ModesAndStages
  <2>3. CASE ~OutOfBudget /\ OpenStages = {}
    <3>1. ReleaseAction.kind # "exhausted"
      BY <1>d, <1>g, <1>o, ModesAndStages DEF ReleaseAction
    <3>2. IntegrationCurrent => Latest("integration") # 0
      BY <1>t, LatestIsNumber, ModesAndStages DEF IntegrationCurrent
    <3> QED
      BY <1>g, <1>p, <1>r, <1>5, <2>3, <3>1, <3>2, ModesAndStages
         DEF FullAction
  <2> QED
    BY <2>1, <2>2, <2>3
<1>6. OutOfBudget => Spent
  BY DEF OutOfBudget, Spent
<1> QED
  BY <1>4, <1>5, <1>6, <1>o DEF NextAction, Spent

\* The run state alone, with another status and another status of a stage.
LEMMA StateReplaced ==
    ASSUME StoreInv, NEW status \in Statuses, NEW current \in Modes,
           NEW stage \in [Modes -> StageStatuses],
           state' = [state EXCEPT !.status = status, !.current = current,
                                  !.stage = stage]
    PROVE  /\ state' \in RunState
           /\ state'.artifacts = state.artifacts
           /\ state'.verdicts = state.verdicts
           /\ state'.reviews = state.reviews /\ state'.actions = state.actions
           /\ state'.actions \in Nat
           /\ state'.stage = stage /\ state'.status = status
           /\ state'.current = current
<1>1. state \in RunState
  BY DEF StoreInv, StoreTypes
<1> QED
  BY <1>1 DEF RunState

LEMMA LookIsStep ==
    ASSUME StoreInv, Looked
    PROVE  StoreStep
<1>l. UNCHANGED <<verdicts, RestVars>> /\ RestTypes'
  BY RestStays DEF Looked, RestVars
<1>1. CASE NextAction = Review("integration")
  <2>1. AllAccepted /\ "integration" \in Modes
    BY <1>1, ReviewOfIntegration, ModesAndStages
  <2> QED
    BY <1>l, <1>1, <2>1, TargetIsSaved DEF Looked, Reviewable
<1>2. CASE NextAction # Review("integration")
  BY <1>l, <1>2, NothingSaved DEF Looked, FileVars, FewerUnsaved
<1> QED
  BY <1>1, <1>2

\* A thread finds a budget used up, and has a block to save.
LEMMA LoadIsStep ==
    ASSUME StoreInv, NEW l \in Lookers, LoadsExhausted(l)
    PROVE  StoreStep
<1> DEFINE copy == [state EXCEPT !.status = "blocked"]
<1>1. /\ unsaved \in [Lookers -> SUBSET RunState] /\ state \in RunState
      /\ UNCHANGED <<FileVars, RestVars, state>>
  BY DEF StoreInv, StoreTypes, LoadsExhausted, files, FileVars, RestVars
<1>2. copy \in RunState /\ Revised(state, copy) /\ Revised(state, state)
  BY <1>1 DEF RunState, Statuses, Revised
<1>3. unsaved' = [unsaved EXCEPT ![l] = {copy}]
  BY DEF LoadsExhausted
<1> HIDE DEF copy
<1>4. unsaved' \in [Lookers -> SUBSET RunState]
  BY <1>1, <1>2, <1>3
<1>5. Pending' \subseteq Pending \cup {copy}
  BY <1>1, <1>3 DEF Pending
<1>6. Spent
  <2>1. NextAction.kind = "exhausted"
    BY DEF LoadsExhausted, Exhausted, Act
  <2> QED
    BY <2>1, ExhaustedIsSpent
<1>7. PendingStep
  BY <1>1, <1>4, <1>5, <1>6 DEF PendingStep, copy
<1>8. StateStep
  <2> SUFFICES ASSUME NEW st \in Known'
               PROVE  \E base \in Known : Revised(base, st)
    BY <1>1, RestStays DEF StateStep, FileVars
  <2>1. state \in Known /\ Pending \subseteq Known /\ Known \subseteq RunState
    BY KnownAreStates DEF StoreInv
  <2>2. st \in Known \/ st = copy
    BY <1>1, <1>5, <2>1 DEF Known
  <2>3. st \in Known => Revised(st, st)
    BY <2>1 DEF Revised, RunState
  <2> QED
    BY <1>2, <2>1, <2>2, <2>3
<1> QED
  BY <1>7, <1>8 DEF StoreStep

\* And saves it.
LEMMA BlockedIsSaved ==
    ASSUME StoreInv, NEW l \in Lookers, SavesBlocked(l)
    PROVE  StoreStep
<1>1. state' \in Pending /\ state' \in Known /\ state' \in RunState
  BY KnownAreStates DEF SavesBlocked, Pending, StoreInv
<1>2. Revised(state', state') /\ state'.status = "blocked"
  BY <1>1 DEF Revised, RunState, StoreInv, PendingIsSpent
<1>3. UNCHANGED <<FileVars, RestVars>> /\ RestTypes' /\ FewerUnsaved
  BY RestStays DEF SavesBlocked, files, FileVars, RestVars, FewerUnsaved
<1> QED
  BY <1>1, <1>2, <1>3, StateIsSaved

LEMMA BlockIsStep ==
    ASSUME StoreInv, NEW s \in Modes, NEW role \in {"producer", "reviewer"},
           BlockForFailures(s, role)
    PROVE  StoreStep
<1> DEFINE stage == [state.stage EXCEPT ![s] = "blocked"]
<1>1. state.stage \in [Modes -> StageStatuses] /\ "blocked" \in Statuses
  BY DEF StoreInv, StoreTypes, RunState, Statuses
<1>2. /\ stage \in [Modes -> StageStatuses]
      /\ \A m \in Modes : stage[m] \in {state.stage[m], "blocked"}
  BY <1>1 DEF StageStatuses
<1>3. RestTypes' /\ FewerUnsaved /\ UNCHANGED FileVars
  BY DEF BlockForFailures, RestTypes, StoreInv, StoreTypes, Save, FewerUnsaved,
         FileVars
<1>4. state' = [state EXCEPT !.status = "blocked", !.current = s, !.stage = stage]
  BY DEF BlockForFailures, Save
<1> HIDE DEF stage
<1>5. /\ state' \in RunState
      /\ state'.artifacts = state.artifacts
      /\ state'.verdicts = state.verdicts
      /\ state'.reviews = state.reviews /\ state'.actions = state.actions
      /\ state'.actions \in Nat
      /\ state'.stage = stage /\ state'.status = "blocked"
  BY <1>1, <1>2, <1>4, StateReplaced
<1>6. Revised(state, state') /\ state \in Known
  BY <1>2, <1>5 DEF Revised, Known
<1> QED
  BY <1>3, <1>5, <1>6, StateIsSaved

LEMMA RecoverIsStep ==
    ASSUME StoreInv, Recover
    PROVE  StoreStep
<1>1. CASE Recoverable
  <2>1. failure.stage \in Modes /\ "first" \in Phases /\ NoReview \in Refs
    BY NoReviewIsRef DEF StoreInv, StoreTypes, Phases
  <2>2. PICK st \in MayFind(state) :
           CheckpointOver(st, failure.stage, "first", NoReview)
    BY <1>1 DEF Recover
  <2>3. st \in Known
    BY DEF MayFind, Known
  <2> QED
    BY <2>1, <2>2, <2>3, CheckpointIsStep
<1>2. CASE ~Recoverable
  BY <1>2, NothingChanged DEF Recover
<1> QED
  BY <1>1, <1>2

LEMMA ReopenIsStep ==
    ASSUME StoreInv, NEW change \in Changes,
           Reopen(change) \/ RepairReopening(change)
    PROVE  StoreStep
<1> DEFINE s == failure.stage
<1>s. s \in Modes /\ state.stage \in [Modes -> StageStatuses]
      /\ "active" \in Statuses
  BY DEF StoreInv, StoreTypes, RunState, Statuses
<1>b. Restored(s) \in StageStatuses
  BY DEF Restored, StageStatuses
<1>1. ASSUME NEW status \in StageStatuses, Save(Reactivated(s, status)),
             status \in {"pending", Restored(s)},
             UNCHANGED FileVars, RestTypes', Cause
      PROVE  StoreStep
  <2> DEFINE stage == [state.stage EXCEPT ![s] = status]
  <2>1. /\ stage \in [Modes -> StageStatuses]
        /\ \A m \in Modes : \/ stage[m] \in {state.stage[m], "pending"}
                            \/ stage[m] = Restored(m)
    BY <1>s, <1>1
  <2>2. state' = [state EXCEPT !.status = "active", !.current = s, !.stage = stage]
    BY <1>1 DEF Reactivated, Save
  <2> HIDE DEF stage
  <2>s. s \in Modes
    BY <1>s
  <2> HIDE DEF s
  <2>r. /\ state' \in RunState
        /\ state'.artifacts = state.artifacts
        /\ state'.verdicts = state.verdicts
        /\ state'.reviews = state.reviews /\ state'.actions = state.actions
        /\ state'.actions \in Nat
        /\ state'.stage = stage
    BY <1>s, <2>s, <2>1, <2>2, StateReplaced
  <2>3. Revised(state, state') /\ state \in Known
    BY <2>1, <2>r DEF Revised, Known
  <2>4. FewerUnsaved
    BY <1>1 DEF Save, FewerUnsaved
  <2> QED
    BY <1>1, <2>3, <2>4, StateIsSaved
<1>2. CASE Reopen(change)
  <2>1. RestTypes'
    BY <1>2, <1>s, <1>b DEF Reopen, RestTypes, StoreInv, StoreTypes
  <2>2. Cause
    <3> DEFINE new == [stage |-> s, change |-> change, restored |-> Restored(s)]
    <3>1. new \notin reopenings /\ reopenings' = reopenings \cup {new}
      BY <1>2 DEF Reopen
    <3> QED
      BY <3>1 DEF Cause
  <2> QED
    BY <1>1, <1>2, <1>b, <2>1, <2>2 DEF Reopen, FileVars
<1>3. CASE RepairReopening(change)
  <2>1. RestTypes'
    BY <1>3, RestStays DEF RepairReopening, RestVars
  <2>2. Latest(s) > 0 /\ Decision(s, Latest(s)) = "none"
        /\ state' = Reactivated(s, "produced")
    BY <1>3 DEF RepairReopening, Save
  <2>3. Restored(s) = "produced" /\ "produced" \in StageStatuses
    BY <1>s, <2>2, LatestIsNumber DEF Restored, StageStatuses, StoreInv
  <2>4. state'.current = s
    BY <2>2 DEF Reactivated, StoreInv, StoreTypes, RunState
  <2>5. Cause
    <3> DEFINE old == [stage |-> s, change |-> change, restored |-> "pending"]
    <3>1. old \in reopenings /\ old.stage = s
      BY <1>3 DEF RepairReopening
    <3> QED
      BY <2>2, <2>4, <3>1 DEF Cause
  <2> QED
    BY <1>1, <1>3, <2>1, <2>2, <2>3, <2>5 DEF RepairReopening, FileVars
<1> QED
  BY <1>2, <1>3

-----------------------------------------------------------------------------
(* The calls.                                                              *)

Places == {"idle", "decide", "reserve", "work", "finish", "open", "review",
           "read", "draft", "stop", "done"}
Call == [pc : Places, act : Action, seen : Nat]
CallTypes ==
    /\ calls \in [Calls -> Call] /\ failed \in [Specialists -> 0..2]
    /\ delivered \subseteq Nat /\ mishaps \in 0..MaxMishaps
BookTypes ==
    /\ charged \in [actions : Nat, reviews : Nat]
    /\ setBack \subseteq {"actions", "reviews"}

\* A reserved action is one that a specialist carries out, and a draft rests
\* on an integration that was accepted when it was read.
Sensible(call) ==
    /\ call.pc = "reserve" =>
          call.act.kind \in {"producer", "review", "prepare_release"}
    /\ call.pc = "draft" => WasAccepted(<<"integration", call.seen>>)
CallsMakeSense == \A c \in Calls : Sensible(calls[c])

IInv == StoreInv /\ CallTypes /\ BookTypes /\ CallsMakeSense

\* What a step does to the calls.
CallsStep ==
    /\ calls' \in [Calls -> Call]
    /\ \A c \in Calls : calls'[c] = calls[c] \/ Sensible(calls'[c])

LEMMA IdleIsCall ==
    /\ Idle \in Call /\ Done \in Call /\ Sensible(Idle) /\ Sensible(Done)
BY OtherActions DEF Idle, Done, Call, Places, Sensible

LEMMA GotoIsStep ==
    ASSUME CallTypes, NEW c \in Calls, NEW pc \in Places \ {"reserve", "draft"},
           Goto(c, pc)
    PROVE  CallsStep
<1>1. calls[c] \in Call /\ calls' = [calls EXCEPT ![c].pc = pc]
  BY DEF CallTypes, Goto
<1>2. [calls[c] EXCEPT !.pc = pc] \in Call
  BY <1>1 DEF Call
<1>3. calls'[c] = [calls[c] EXCEPT !.pc = pc] /\ calls'[c].pc = pc
  BY <1>1 DEF CallTypes, Call
<1>4. Sensible(calls'[c])
  BY <1>3 DEF Sensible
<1> QED
  BY <1>1, <1>2, <1>3, <1>4 DEF CallsStep, CallTypes

LEMMA ReturnIsStep ==
    ASSUME CallTypes, NEW c \in Calls, Return(c)
    PROVE  CallsStep
<1>1. CASE calls' = [d \in Calls |-> Idle]
  BY <1>1, IdleIsCall DEF CallsStep
<1>2. CASE calls' = [calls EXCEPT ![c] = Done]
  BY <1>2, IdleIsCall DEF CallsStep, CallTypes
<1> QED
  BY <1>1, <1>2 DEF Return

LEMMA StayIsStep ==
    ASSUME CallTypes, UNCHANGED calls
    PROVE  CallsStep
BY DEF CallTypes, CallsStep

LEMMA MishapsAreCounted ==
    ASSUME CallTypes, Mishap \/ UNCHANGED mishaps
    PROVE  mishaps' \in 0..MaxMishaps
BY MishapAssumption DEF CallTypes, Mishap

LEMMA FailuresAreCounted ==
    ASSUME CallTypes, NEW owner \in Specialists,
           CountFailure(owner) \/ UNCHANGED failed
    PROVE  failed' \in [Specialists -> 0..2]
<1>1. failed[owner] \in 0..2
  BY DEF CallTypes
<1> QED
  BY <1>1 DEF CallTypes, CountFailure

LEMMA ActsAreActions ==
    ASSUME CallTypes, NEW c \in Calls
    PROVE  /\ calls[c] \in Call /\ calls[c].act \in Action
           /\ calls[c].act.stage \in Modes /\ calls[c].act.owner \in Specialists
           /\ calls[c].act.phase \in Phases /\ calls[c].act.answers \in Refs
           /\ calls[c].seen \in Nat
BY DEF CallTypes, Call, Action

\* Some review accepted it once and for all.
LEMMA AcceptanceStays ==
    ASSUME FilesGrow, NEW ref, ref[1] \in Modes, WasAccepted(ref)
    PROVE  WasAccepted(ref)'
BY DEF FilesGrow, WasAccepted

LEMMA StoreStepKeeps ==
    ASSUME StoreInv, StoreStep
    PROVE  StoreInv' /\ FilesGrow
BY StateStepKeeps, ArtifactStepKeeps, VerdictStepKeeps DEF StoreStep

LEMMA StepKeeps ==
    ASSUME IInv, StoreStep, CallTypes', BookTypes', CallsStep
    PROVE  IInv'
<1>1. StoreInv' /\ FilesGrow
  BY StoreStepKeeps DEF IInv
<1>2. ASSUME NEW c \in Calls
      PROVE  Sensible(calls[c])'
  <2>1. CASE calls'[c] = calls[c]
    <3>1. Sensible(calls[c])
      BY DEF IInv, CallsMakeSense
    <3> QED
      BY <1>1, <2>1, <3>1, AcceptanceStays, ModesAndStages DEF Sensible
  <2>2. CASE Sensible(calls'[c])
    BY <1>1, <2>2, AcceptanceStays, ModesAndStages DEF Sensible
  <2> QED
    BY <2>1, <2>2 DEF CallsStep
<1> QED
  BY <1>1, <1>2 DEF IInv, CallsMakeSense

-----------------------------------------------------------------------------
(* Every action is such a step.                                            *)

LEMMA BeforeTheSpecialist ==
    ASSUME IInv, NEW c \in Calls,
           \/ Begin(c) \/ Decide(c) \/ DecideExhausted(c)
           \/ ReturnExhausted(c) \/ StopAfterFailures(c)
           \/ RaiseUnknownStage(c) \/ Reserve(c)
    PROVE  StoreStep /\ CallTypes' /\ CallsStep
<1> USE DEF IInv
<1>a. /\ calls[c] \in Call /\ calls[c].act \in Action
      /\ calls[c].act.stage \in Modes /\ calls[c].act.owner \in Specialists
  BY ActsAreActions
<1>1. CASE Begin(c)
  <2>1. StoreStep
    BY <1>1, RecoverIsStep DEF Begin
  <2>2. CallsStep
    BY <1>1, GotoIsStep DEF Begin, Places
  <2>3. mishaps' \in 0..MaxMishaps
    BY <1>1, MishapsAreCounted DEF Begin
  <2> QED
    BY <1>1, <2>1, <2>2, <2>3 DEF Begin, CallTypes, CallsStep
<1>2. CASE Decide(c)
  <2>1. StoreStep /\ NextAction \in Action
    BY <1>2, LookIsStep, NextActionIsAction DEF Decide, StoreInv
  <2>2. CallsStep
    <3>1. CASE Return(c)
      BY <3>1, ReturnIsStep
    <3>2. CASE /\ NextAction.kind \notin {"terminal", "released"}
               /\ calls' = [calls EXCEPT ![c].pc = "reserve",
                                         ![c].act = NextAction]
      <4> DEFINE next == NextAction
                 to == [calls[c] EXCEPT !.pc = "reserve", !.act = next]
      <4>1. next \in Action /\ calls' = [calls EXCEPT ![c] = to]
        BY <2>1, <3>2 DEF CallTypes
      <4>2. next.kind \in {"producer", "review", "prepare_release"}
        <5>1. next.kind # "exhausted"
          BY <1>2, ExhaustedIsSpent DEF Decide, Looked
        <5> QED
          BY <2>1, <3>2, <5>1 DEF Action
      <4> HIDE DEF next
      <4>3. to \in Call /\ to.pc = "reserve" /\ to.act = next
        BY <1>a, <4>1 DEF Call, Places
      <4>4. Sensible(to)
        BY <4>2, <4>3 DEF Sensible
      <4> HIDE DEF to
      <4> QED
        BY <4>1, <4>3, <4>4 DEF CallTypes, CallsStep
    <3> QED
      BY <1>2, <3>1, <3>2 DEF Decide
  <2> QED
    BY <1>2, <2>1, <2>2 DEF Decide, CallTypes, CallsStep
<1>3. CASE StopAfterFailures(c)
  <2>1. StoreStep
    BY <1>3, <1>a, BlockIsStep DEF StopAfterFailures
  <2>2. CallsStep
    BY <1>3, ReturnIsStep DEF StopAfterFailures
  <2>3. NoFailures \in [Specialists -> 0..2]
    BY DEF NoFailures
  <2> QED
    BY <1>3, <2>1, <2>2, <2>3 DEF StopAfterFailures, CallTypes, CallsStep
<1>4. CASE RaiseUnknownStage(c)
  <2>1. StoreStep
    BY <1>4, NothingChanged DEF RaiseUnknownStage
  <2>2. CallsStep
    BY <1>4, ReturnIsStep DEF RaiseUnknownStage
  <2> QED
    BY <1>4, <2>1, <2>2 DEF RaiseUnknownStage, CallTypes, CallsStep
<1>5. CASE Reserve(c)
  <2>0. state \in RunState /\ state \in Known /\ state.actions \in Nat
    BY DEF StoreInv, StoreTypes, RunState, Known
  <2>r. RestTypes' /\ UNCHANGED FileVars
    BY <1>5, RestStays DEF Reserve, files, FileVars, RestVars
  <2>1. CASE state.actions >= MaxActions
    <3>1. state' = [state EXCEPT !.status = "blocked"] /\ Return(c) /\ FewerUnsaved
      BY <1>5, <2>1 DEF Reserve, Save, FewerUnsaved
    <3>2. Revised(state, state') /\ state'.status = "blocked"
      BY <2>0, <3>1 DEF Revised, RunState, Statuses
    <3>3. StoreStep
      BY <2>0, <2>r, <3>1, <3>2, StateIsSaved
    <3> QED
      BY <1>5, <3>1, <3>3, ReturnIsStep DEF Reserve, CallTypes, CallsStep
  <2>2. CASE ~(state.actions >= MaxActions)
    <3>1. state' = [state EXCEPT !.actions = @ + 1] /\ FewerUnsaved
          /\ Goto(c, FirstStep[calls[c].act.kind])
      BY <1>5, <2>2 DEF Reserve, Save, FewerUnsaved
    <3>2. Revised(state, state') /\ state'.status = state.status
      BY <2>0, <3>1 DEF Revised, RunState
    <3>3. StoreStep
      BY <2>0, <2>r, <3>1, <3>2, StateIsSaved
    <3>4. FirstStep[calls[c].act.kind] \in Places \ {"reserve", "draft"}
      <4>1. calls[c].act.kind \in {"producer", "review", "prepare_release"}
        BY <1>5 DEF Reserve, CallsMakeSense, Sensible
      <4> QED
        BY <4>1 DEF FirstStep, Places
    <3> QED
      BY <1>5, <3>1, <3>3, <3>4, GotoIsStep DEF Reserve, CallTypes, CallsStep
  <2> QED
    BY <2>1, <2>2
<1>6. CASE DecideExhausted(c)
  <2>1. StoreStep
    BY <1>6, LoadIsStep, LookersAssumption DEF DecideExhausted
  <2>2. CallsStep
    BY <1>6, GotoIsStep DEF DecideExhausted, Places
  <2> QED
    BY <1>6, <2>1, <2>2 DEF DecideExhausted, CallTypes, CallsStep
<1>7. CASE ReturnExhausted(c)
  <2>1. StoreStep
    BY <1>7, NothingChanged DEF ReturnExhausted
  <2>2. CallsStep
    BY <1>7, ReturnIsStep DEF ReturnExhausted
  <2> QED
    BY <1>7, <2>1, <2>2 DEF ReturnExhausted, CallTypes, CallsStep
<1> QED
  BY <1>1, <1>2, <1>3, <1>4, <1>5, <1>6, <1>7

LEMMA ProducerSteps ==
    ASSUME IInv, NEW c \in Calls,
           ProducerReturns(c) \/ ProducerFails(c) \/ FinishProducer(c)
    PROVE  StoreStep /\ CallTypes' /\ CallsStep
<1> USE DEF IInv
<1>a. /\ calls[c] \in Call /\ calls[c].act \in Action
      /\ calls[c].act.stage \in Modes /\ calls[c].act.owner \in Specialists
      /\ calls[c].act.phase \in Phases /\ calls[c].act.answers \in Refs
  BY ActsAreActions
<1>s. ASSUME UNCHANGED sources \/ SourcesWritten(calls[c].act.stage),
             UNCHANGED <<artifacts, verdicts, state, unsaved, failure,
                         reopenings, route>>
      PROVE  StoreStep
  <2>1. RestTypes'
    BY <1>s DEF SourcesWritten, RestTypes, StoreInv, StoreTypes
  <2> QED
    BY <1>s, <2>1, NothingSaved DEF FileVars, FewerUnsaved
<1>1. CASE ProducerReturns(c)
  <2>1. CallsStep
    BY <1>1, GotoIsStep DEF ProducerReturns, Places
  <2>2. mishaps' \in 0..MaxMishaps
    BY <1>1, MishapsAreCounted DEF ProducerReturns
  <2> QED
    BY <1>1, <1>s, <2>1, <2>2 DEF ProducerReturns, CallTypes, CallsStep
<1>2. CASE ProducerFails(c)
  <2>1. CallsStep
    BY <1>2, ReturnIsStep DEF ProducerFails
  <2>2. mishaps' \in 0..MaxMishaps /\ failed' \in [Specialists -> 0..2]
    BY <1>2, <1>a, MishapsAreCounted, FailuresAreCounted DEF ProducerFails
  <2> QED
    BY <1>2, <1>s, <2>1, <2>2 DEF ProducerFails, CallTypes, CallsStep
<1>3. CASE FinishProducer(c)
  <2>1. CallsStep
    BY <1>3, ReturnIsStep DEF FinishProducer
  <2>2. failed' \in [Specialists -> 0..2]
    BY <1>3, <1>a, FailuresAreCounted DEF FinishProducer
  <2>3. StoreStep
    <3>1. CASE Checkpoint(calls[c].act.stage, calls[c].act.phase,
                          calls[c].act.answers)
      BY <1>a, <3>1, CheckpointIsStep DEF Checkpoint, Known
    <3>2. CASE UNCHANGED store
      BY <3>2, NothingChanged
    <3> QED
      BY <1>3, <3>1, <3>2 DEF FinishProducer
  <2> QED
    BY <1>3, <2>1, <2>2, <2>3 DEF FinishProducer, CallTypes, CallsStep
<1> QED
  BY <1>1, <1>2, <1>3

\* A run state that a reviewer finds, on the first look or the second, is one
\* that is known, with the integration it reviews.
Targets(base, m, st) ==
    /\ st.artifacts \subseteq base.artifacts \cup {<<m, Target(m)>>}
    /\ st.verdicts = base.verdicts /\ st.reviews = base.reviews
    /\ st.actions = base.actions /\ st.status = base.status
    /\ \A o \in Modes \ {m} : st.stage[o] \in {base.stage[o], "pending"}

LEMMA FoundIsSound ==
    ASSUME StoreInv, NEW m \in Modes, NEW ruled \in MayFind(TargetState(m)),
           NEW entered \in MayFind(ruled)
    PROVE  /\ ruled \in RunState /\ entered \in RunState
           /\ \E base \in Known : Targets(base, m, entered)
<1>1. TargetState(m) \in RunState /\ Targets(state, m, TargetState(m))
  BY TargetStateIs DEF StoreInv, Targets
<1>2. state \in Known /\ Pending \subseteq Known /\ Known \subseteq RunState
  BY KnownAreStates DEF StoreInv
<1>3. ruled = TargetState(m) \/ ruled \in Pending
  BY DEF MayFind
<1>4. entered = TargetState(m) \/ entered \in Pending
  BY <1>3 DEF MayFind
<1>5. Targets(entered, m, entered)
  BY DEF Targets
<1> QED
  BY <1>1, <1>2, <1>3, <1>4, <1>5

LEMMA ReviewerSteps ==
    ASSUME IInv, NEW c \in Calls,
           \/ OpenContext(c) \/ SubmitVerdict(c) \/ ReviewerGivesUp(c)
           \/ FinishReview(c)
    PROVE  StoreStep /\ CallTypes' /\ CallsStep
<1> USE DEF IInv
<1> DEFINE m == calls[c].act.stage
<1>a. /\ calls[c] \in Call /\ m \in Modes /\ StoreTypes
  BY ActsAreActions DEF StoreInv
<1>1. CASE OpenContext(c)
  <2>1. StoreStep
    BY <1>1, <1>a, TargetIsSaved DEF OpenContext, RestVars
  <2>2. CallsStep
    <3> DEFINE n == Target(m)
               to == [calls[c] EXCEPT !.pc = "review", !.seen = n]
    <3>n. n \in Nat
      BY <1>1, <1>a, TargetIsWritten DEF OpenContext
    <3>c. calls' = [calls EXCEPT ![c].pc = "review", ![c].seen = n]
      BY <1>1 DEF OpenContext
    <3> HIDE DEF n
    <3>1. n \in Nat /\ calls' = [calls EXCEPT ![c] = to]
      BY <3>n, <3>c DEF CallTypes
    <3>2. to \in Call /\ to.pc = "review"
      BY <1>a, <3>1 DEF Call, Places
    <3>3. Sensible(to)
      BY <3>2 DEF Sensible
    <3> HIDE DEF to
    <3> QED
      BY <3>1, <3>2, <3>3 DEF CallTypes, CallsStep
  <2> QED
    BY <1>1, <2>1, <2>2 DEF OpenContext, CallTypes, CallsStep
<1>2. CASE SubmitVerdict(c)
  <2>p. PICK ruled \in MayFind(TargetState(m)) :
           \E entered \in MayFind(ruled), verdict \in Rulings(ruled, m) :
               /\ WriteVerdict(m, verdict)
               /\ Save(StateAfterVerdict(entered, m, verdict))
    BY <1>2 DEF SubmitVerdict
  <2>1. PICK entered \in MayFind(ruled), verdict \in Rulings(ruled, m) :
               /\ WriteVerdict(m, verdict)
               /\ Save(StateAfterVerdict(entered, m, verdict))
    BY <2>p
  <2>2. StoreStep
    <3>1. FewerUnsaved /\ Reviewable(m)
          /\ state' = StateAfterVerdict(entered, m, verdict)
      BY <2>1 DEF Save, FewerUnsaved, WriteVerdict
    <3>2. ruled \in RunState /\ entered \in RunState
      BY <1>a, FoundIsSound
    <3>3. verdict \in Verdict
      BY <1>a, <3>1, <3>2, RulingIsVerdict
    <3>4. PICK base \in Known : Targets(base, m, entered)
      BY <1>a, FoundIsSound
    <3>5. Judged(base, m, verdict, state')
      BY <1>a, <3>1, <3>2, <3>3, <3>4, AfterVerdictIs DEF Targets, Judged
    <3> QED
      BY <1>a, <2>1, <3>1, <3>2, <3>5, VerdictIsSaved
  <2>3. CallsStep
    BY <1>2, GotoIsStep DEF SubmitVerdict, Places
  <2>4. mishaps' \in 0..MaxMishaps
    BY <1>2, MishapsAreCounted DEF SubmitVerdict
  <2> QED
    BY <1>2, <2>2, <2>3, <2>4 DEF SubmitVerdict, CallTypes, CallsStep
<1>3. CASE ReviewerGivesUp(c)
  <2>1. StoreStep
    BY <1>3, NothingChanged DEF ReviewerGivesUp
  <2>2. CallsStep
    BY <1>3, GotoIsStep DEF ReviewerGivesUp, Places
  <2>3. mishaps' \in 0..MaxMishaps
    BY <1>3, MishapsAreCounted DEF ReviewerGivesUp
  <2> QED
    BY <1>3, <2>1, <2>2, <2>3 DEF ReviewerGivesUp, CallTypes, CallsStep
<1>4. CASE FinishReview(c)
  <2>1. StoreStep
    <3>1. CASE Reviewable(m)
      BY <1>4, <1>a, <3>1, TargetIsSaved DEF FinishReview, RestVars
    <3>2. CASE ~Reviewable(m)
      BY <1>4, <3>2, NothingSaved, RestStays
         DEF FinishReview, FileVars, RestVars, FewerUnsaved
    <3> QED
      BY <3>1, <3>2
  <2>2. CallsStep
    BY <1>4, ReturnIsStep DEF FinishReview
  <2>3. failed' \in [Specialists -> 0..2]
    <3>1. "solar-evidence" \in Specialists
      BY DEF Specialists
    <3> QED
      BY <1>4, <3>1, FailuresAreCounted DEF FinishReview
  <2> QED
    BY <1>4, <2>1, <2>2, <2>3 DEF FinishReview, CallTypes, CallsStep
<1> QED
  BY <1>1, <1>2, <1>3, <1>4

LEMMA ReportSteps ==
    ASSUME IInv, NEW c \in Calls, ReadIntegration(c) \/ PrepareRelease(c)
    PROVE  StoreStep /\ CallTypes' /\ CallsStep
<1> USE DEF IInv
<1>a. calls[c] \in Call /\ calls[c].seen \in Nat /\ StoreTypes
  BY ActsAreActions DEF StoreInv
<1>1. CASE ReadIntegration(c)
  <2>1. StoreStep
    BY <1>1, NothingChanged DEF ReadIntegration
  <2>2. CallsStep
    <3>1. CASE Return(c)
      BY <3>1, ReturnIsStep
    <3>2. CASE /\ Accepted("integration")
               /\ calls' = [calls EXCEPT ![c].pc = "draft",
                                         ![c].seen = Latest("integration")]
      <4> DEFINE n == Latest("integration")
                 to == [calls[c] EXCEPT !.pc = "draft", !.seen = n]
      <4>1. n \in Nat /\ WasAccepted(<<"integration", n>>)
        BY <1>a, <3>2, LatestIsNumber, AcceptedWasAccepted, ModesAndStages
           DEF LatestRef
      <4> HIDE DEF n
      <4>2. calls' = [calls EXCEPT ![c] = to]
        BY <3>2 DEF CallTypes, n
      <4>3. to \in Call /\ to.pc = "draft" /\ to.seen = n
        BY <1>a, <4>1 DEF Call, Places
      <4>4. Sensible(to)
        BY <4>1, <4>3 DEF Sensible
      <4> HIDE DEF to
      <4> QED
        BY <4>2, <4>3, <4>4 DEF CallTypes, CallsStep
    <3> QED
      BY <1>1, <3>1, <3>2 DEF ReadIntegration
  <2> QED
    BY <1>1, <2>1, <2>2 DEF ReadIntegration, CallTypes, CallsStep
<1>2. CASE PrepareRelease(c)
  <2>1. WasAccepted(<<"integration", calls[c].seen>>)
    BY <1>2 DEF PrepareRelease, CallsMakeSense, Sensible
  <2>2. StoreStep
    BY <1>2, <1>a, <2>1, ReleaseIsSaved DEF PrepareRelease, Save, FewerUnsaved
  <2>3. CallsStep
    BY <1>2, ReturnIsStep DEF PrepareRelease
  <2> QED
    BY <1>2, <2>2, <2>3 DEF PrepareRelease, CallTypes, CallsStep
<1> QED
  BY <1>1, <1>2

LEMMA DieIsStep ==
    ASSUME CallTypes, Die
    PROVE  CallTypes' /\ CallsStep /\ FewerUnsaved
<1>1. CallsStep
  BY IdleIsCall DEF Die, CallsStep
<1>2. mishaps' \in 0..MaxMishaps
  BY MishapsAreCounted DEF Die
<1> QED
  BY <1>1, <1>2 DEF Die, CallTypes, CallsStep, FewerUnsaved

LEMMA HostSteps ==
    ASSUME IInv, NEW c \in Calls, HostStep(c)
    PROVE  StoreStep /\ CallTypes' /\ CallsStep
<1> USE DEF IInv
<1>a. /\ calls[c].act.stage \in Modes /\ calls[c].act.phase \in Phases
      /\ calls[c].act.answers \in Refs /\ calls[c].seen \in Nat
  BY ActsAreActions
<1>1. CASE Abandon(c)
  <2>1. StoreStep
    BY <1>1, NothingChanged DEF Abandon
  <2>2. CallsStep
    BY <1>1, ReturnIsStep DEF Abandon
  <2>3. mishaps' \in 0..MaxMishaps
    BY <1>1, MishapsAreCounted DEF Abandon
  <2> QED
    BY <1>1, <2>1, <2>2, <2>3 DEF Abandon, CallTypes, CallsStep
<1>2. CASE DieInCheckpoint(c)
  <2>1. StoreStep
    BY <1>2, <1>a, CheckpointIsSaved, DieIsStep DEF DieInCheckpoint, Known
  <2> QED
    BY <1>2, <2>1, DieIsStep DEF DieInCheckpoint
<1>3. CASE DieInVerdict(c)
  <2> DEFINE m == calls[c].act.stage
  <2>p. PICK ruled \in MayFind(TargetState(m)) :
           \E entered \in MayFind(ruled), verdict \in Rulings(ruled, m) :
               WriteVerdict(m, verdict) /\ state' = entered
    BY <1>3 DEF DieInVerdict
  <2>1. PICK entered \in MayFind(ruled), verdict \in Rulings(ruled, m) :
               WriteVerdict(m, verdict) /\ state' = entered
    BY <2>p
  <2>3. StoreStep
    <3>1. ruled \in RunState /\ entered \in RunState /\ FewerUnsaved
      BY <1>3, <1>a, FoundIsSound, DieIsStep DEF DieInVerdict
    <3>2. PICK base \in Known : Targets(base, m, entered)
      BY <1>a, FoundIsSound
    <3>3. Judged(base, m, verdict, state')
      BY <2>1, <3>1, <3>2 DEF Targets, Judged
    <3> QED
      BY <1>a, <2>1, <3>1, <3>3, VerdictIsSaved
  <2> QED
    BY <1>3, <2>3, DieIsStep DEF DieInVerdict
<1>4. CASE DieInRelease(c)
  <2>1. WasAccepted(<<"integration", calls[c].seen>>)
    BY <1>4 DEF DieInRelease, CallsMakeSense, Sensible
  <2>2. StoreStep
    BY <1>4, <1>a, <2>1, ReleaseIsSaved, DieIsStep DEF DieInRelease
  <2> QED
    BY <1>4, <2>2, DieIsStep DEF DieInRelease
<1> QED
  BY <1>1, <1>2, <1>3, <1>4 DEF HostStep

LEMMA OtherSteps ==
    ASSUME IInv, \/ Look \/ SaveBlocked \/ Deliver \/ Restart \/ NewTurn
                 \/ OperatorReopens
    PROVE  StoreStep /\ CallTypes' /\ CallsStep
<1> USE DEF IInv
<1>1. CASE Look
  <2>1. StoreStep
    BY <1>1, LookIsStep, LoadIsStep DEF Look
  <2> QED
    BY <1>1, <2>1, StayIsStep DEF Look, CallTypes, CallsStep
<1>2. CASE Deliver
  <2>1. state \in RunState /\ RestTypes' /\ UNCHANGED FileVars /\ FewerUnsaved
    BY <1>2, RestStays DEF Deliver, Save, FewerUnsaved, files, FileVars, RestVars,
                           StoreInv, StoreTypes
  <2>2. state' = [state EXCEPT !.status = "released", !.current = "final_release"]
        /\ Accepted("final_release") /\ "final_release" \in Modes
    BY <1>2, ModesAndStages DEF Deliver, Save, ReportReady
  <2>s. /\ state' \in RunState /\ state'.status = "released"
        /\ state'.artifacts = state.artifacts
        /\ state'.verdicts = state.verdicts /\ state'.reviews = state.reviews
        /\ state'.actions = state.actions /\ state.actions \in Nat
        /\ state'.stage = state.stage
    BY <2>1, <2>2 DEF RunState, Statuses
  <2>3. Revised(state, state') /\ state'.status = "released" /\ state \in Known
    BY <2>s DEF Revised, Known
  <2>4. Cause
    BY <2>2, <2>3 DEF Cause
  <2>5. StoreStep
    BY <2>1, <2>3, <2>4, StateIsSaved
  <2>6. Latest("final_release") \in Nat
    BY <2>2, LatestIsNumber DEF StoreInv
  <2> QED
    BY <1>2, <2>5, <2>6, StayIsStep DEF Deliver, CallTypes, CallsStep
<1>3. CASE Restart
  <2>1. StoreStep
    BY <1>3, DieIsStep, NothingSaved, RestStays
       DEF Restart, files, FileVars, RestVars
  <2> QED
    BY <1>3, <2>1, DieIsStep DEF Restart
<1>4. CASE NewTurn
  <2>1. StoreStep
    BY <1>4, NothingChanged DEF NewTurn
  <2>2. NoFailures \in [Specialists -> 0..2]
    BY DEF NoFailures
  <2> QED
    BY <1>4, <2>1, <2>2, StayIsStep DEF NewTurn, CallTypes, CallsStep
<1>5. CASE OperatorReopens
  <2>1. StoreStep
    BY <1>5, ReopenIsStep DEF OperatorReopens
  <2> QED
    BY <1>5, <2>1, StayIsStep DEF OperatorReopens, CallTypes, CallsStep
<1>6. CASE SaveBlocked
  <2>1. StoreStep
    BY <1>6, BlockedIsSaved DEF SaveBlocked
  <2> QED
    BY <1>6, <2>1, StayIsStep DEF SaveBlocked, CallTypes, CallsStep
<1> QED
  BY <1>1, <1>2, <1>3, <1>4, <1>5, <1>6

\* The history counts one thing at a time.
LEMMA BooksAreKept ==
    ASSUME BookTypes, [Next]_vars
    PROVE  BookTypes'
<1> DEFINE Kept ==
      /\ setBack' \subseteq {"actions", "reviews"}
      /\ charged' \in {charged, [charged EXCEPT !.actions = @ + 1],
                       [charged EXCEPT !.reviews = @ + 1]}
<1>1. Kept
  <2>1. \A st : SetBackIn(st) \subseteq {"actions", "reviews"}
    BY DEF SetBackIn
  <2>2. ASSUME NEW c \in Calls, CallStep(c)
        PROVE  Kept
    BY <2>1, <2>2
       DEF CallStep, BookTypes, books, Begin, Sets, Decide, DecideExhausted,
           ReturnExhausted, StopAfterFailures, RaiseUnknownStage, Reserve,
           ProducerReturns, ProducerFails, FinishProducer, OpenContext,
           SubmitVerdict, ReviewerGivesUp, FinishReview, ReadIntegration,
           PrepareRelease
  <2>3. ASSUME NEW c \in Calls, HostStep(c)
        PROVE  Kept
    BY <2>1, <2>3
       DEF HostStep, BookTypes, books, Abandon, DieInCheckpoint, DieInVerdict,
           DieInRelease, Die
  <2>4. CASE UNCHANGED vars \/ Look \/ SaveBlocked \/ Deliver \/ Restart
             \/ NewTurn \/ OperatorReopens
    BY <2>1, <2>4
       DEF vars, BookTypes, books, Look, SaveBlocked, Sets, Deliver, Restart, Die,
           NewTurn, OperatorReopens
  <2> QED
    BY <2>2, <2>3, <2>4 DEF Next
<1> QED
  BY <1>1 DEF BookTypes

LEMMA EveryStep ==
    ASSUME IInv, [Next]_vars
    PROVE  StoreStep /\ CallTypes' /\ BookTypes' /\ CallsStep
<1>1. ASSUME UNCHANGED vars
      PROVE  StoreStep /\ CallTypes' /\ CallsStep
  <2>1. StoreStep
    BY <1>1, NothingChanged DEF vars, IInv
  <2> QED
    BY <1>1, <2>1, StayIsStep DEF vars, IInv, CallTypes, CallsStep
<1>2. ASSUME NEW c \in Calls, CallStep(c) \/ HostStep(c)
      PROVE  StoreStep /\ CallTypes' /\ CallsStep
  BY <1>2, BeforeTheSpecialist, ProducerSteps, ReviewerSteps, ReportSteps,
     HostSteps DEF CallStep
<1>3. BookTypes'
  BY BooksAreKept DEF IInv
<1> QED
  BY <1>1, <1>2, <1>3, OtherSteps DEF Next

-----------------------------------------------------------------------------
(* The theorems.                                                           *)

LEMMA InitEstablishes == Init => IInv
<1> SUFFICES ASSUME Init PROVE IInv
  OBVIOUS
<1>i. InitStore
  BY DEF Init
<1>s. /\ artifacts = [m \in Modes |-> <<>>] /\ verdicts = [m \in Modes |-> <<>>]
      /\ state.artifacts = {} /\ state.verdicts = {} /\ state.actions = 0
      /\ state.reviews = 0 /\ state.stage = [m \in Modes |-> "pending"]
  BY <1>i DEF InitStore
<1>1. StoreTypes
  <2>1. state \in RunState
    BY <1>i, ModesAndStages DEF InitStore, RunState, Statuses, StageStatuses
  <2>2. NoFailure \in [stage : Modes, role : {"none", "producer", "reviewer"}]
    BY ModesAndStages DEF NoFailure
  <2> QED
    BY <1>i, <1>s, <2>1, <2>2 DEF InitStore, StoreTypes
<1>p. Pending = {} /\ Known = {state}
  BY <1>i DEF InitStore, Pending, Known
<1>2. RevisionsHaveOwners /\ VersionsExist
  BY <1>s DEF RevisionsHaveOwners, VersionsExist
<1>3. PendingIsSpent
  BY <1>p DEF PendingIsSpent
<1>4. KnownAreSound
  <2>1. BooksExist(state) /\ StatusIsBacked(state)
    BY <1>s DEF BooksExist, StatusIsBacked
  <2> QED
    BY <1>p, <2>1 DEF KnownAreSound
<1>5. CallTypes /\ BookTypes
  BY IdleIsCall, MishapAssumption DEF Init, CallTypes, BookTypes, NoFailures
<1>6. CallsMakeSense
  BY IdleIsCall DEF Init, CallsMakeSense
<1> QED
  BY <1>1, <1>2, <1>3, <1>4, <1>5, <1>6 DEF IInv, StoreInv

LEMMA NextKeeps == IInv /\ [Next]_vars => IInv'
BY EveryStep, StepKeeps

THEOREM Invariance == Spec => []IInv
BY InitEstablishes, NextKeeps, PTL DEF Spec

\* Whatever the calls of a batch, the operator and crashes do, store and calls
\* keep their types.
THEOREM TypeCorrectness == Spec => []TypeOK
<1>1. IInv => TypeOK
  BY DEF IInv, StoreInv, CallTypes, BookTypes, Call, Places, TypeOK
<1> QED
  BY <1>1, Invariance, PTL

\* The summary in the run state is backed by the files.
THEOREM StatusesAreBacked == Spec => []StageStatusIsBacked
<1>1. IInv => StageStatusIsBacked
  BY DEF IInv, StoreInv, KnownAreSound, Known, StageStatusIsBacked
<1> QED
  BY <1>1, Invariance, PTL

\* A step that lifts a block has a cause, and a block that never comes to be
\* saved was for a budget that is used up all the same.
THEOREM BlocksAreLiftedForCause == Spec => BlockIsLiftedForCause
<1>1. IInv /\ [Next]_vars => LiftsForCause
  <2> SUFFICES ASSUME IInv, [Next]_vars
               PROVE  LiftsForCause
    OBVIOUS
  <2>1. CASE StateStep
    BY <2>1 DEF StateStep, Cause, LiftsForCause
  <2>2. ASSUME NEW m \in Modes, NEW art \in Artifact, ArtifactStep(m, art)
        PROVE  LiftsForCause
    <3>1. artifacts' = [artifacts EXCEPT ![m] = Append(@, art)]
          /\ artifacts \in [Modes -> Seq(Artifact)]
      BY <2>2 DEF ArtifactStep, WithArtifact, IInv, StoreInv, StoreTypes
    <3>2. Len(artifacts[m]) \in Nat /\ Len(artifacts'[m]) = Len(artifacts[m]) + 1
      BY <3>1, AppendKeepsTypes
    <3> QED
      BY <3>2 DEF LiftsForCause
  <2>3. ASSUME NEW m \in Modes, NEW ruled \in RunState, NEW verdict \in Verdict,
               VerdictStep(m, ruled, verdict)
        PROVE  LiftsForCause
    <3>1. Len(verdicts'[m]) = Len(verdicts[m]) + 1
      BY <2>3, NewVerdictDecides DEF IInv
    <3>2. verdicts[m] \in Seq(Verdict)
      BY DEF IInv, StoreInv, StoreTypes
    <3> QED
      BY <3>1, <3>2 DEF LiftsForCause
  <2> QED
    BY <2>1, <2>2, <2>3, EveryStep DEF StoreStep
<1>2. IInv /\ [Next]_vars => DropsWhenSpent
  <2> SUFFICES ASSUME IInv, [Next]_vars,
                      NEW l \in Lookers, unsaved[l] # {}
               PROVE  Spent'
    BY DEF DropsWhenSpent
  <2>1. Pending # {}
    BY DEF Pending
  <2>2. PendingStep
    BY EveryStep DEF StoreStep
  <2> QED
    BY <2>1, <2>2, PendingStaysSpent DEF IInv
<1> QED
  BY <1>1, <1>2, Invariance, PTL DEF Spec, BlockIsLiftedForCause

\* What a step publishes is the release that is accepted then.
LEMMA OnlyDeliverPublishes ==
    ASSUME [Next]_vars
    PROVE  \/ UNCHANGED delivered
           \/ /\ delivered' = delivered \cup {Latest("final_release")}
              /\ Accepted("final_release")
<1>1. CASE Deliver
  BY <1>1 DEF Deliver, ReportReady
<1>2. ASSUME NEW c \in Calls, CallStep(c) \/ HostStep(c)
      PROVE  UNCHANGED delivered
  BY <1>2 DEF CallStep, HostStep, Begin, Decide, DecideExhausted,
     ReturnExhausted, StopAfterFailures, RaiseUnknownStage, Reserve, ProducerReturns, ProducerFails, FinishProducer,
     OpenContext, SubmitVerdict, ReviewerGivesUp, FinishReview, ReadIntegration,
     PrepareRelease, Abandon, DieInCheckpoint, DieInVerdict, DieInRelease, Die
<1> QED
  BY <1>1, <1>2 DEF Next, vars, Look, SaveBlocked, Restart, Die, NewTurn,
                    OperatorReopens

Built == {[ref |-> r, on |-> artifacts[r[1]][r[2]].refs] : r \in Written}
AcceptedOnce == {r \in Written : WasAccepted(r)}
Published == {<<"final_release", v>> : v \in delivered}

LEMMA WrittenIs ==
    /\ \A m \in Modes : \A v : <<m, v>> \in Written <=> v \in 1..Latest(m)
    /\ \A r \in Written : r = <<r[1], r[2]>> /\ r[1] \in Modes
                          /\ r[2] \in 1..Latest(r[1])
<1>1. \A r \in Written : \E m \in Modes : \E v \in 1..Latest(m) : r = <<m, v>>
  BY DEF Written
<1>2. \A m \in Modes : \A v \in 1..Latest(m) : <<m, v>> \in Written
  BY DEF Written
<1> QED
  BY <1>1, <1>2

\* What was accepted exists.
LEMMA BackedIsWritten ==
    ASSUME VersionsExist, NEW r, Backed(r)
    PROVE  r \in AcceptedOnce
<1>1. r \in Refs /\ r[1] \in Modes /\ r = <<r[1], r[2]>> /\ WasAccepted(r)
  BY DEF Backed, Refs
<1>2. r[2] \in 1..Latest(r[1])
  BY <1>1 DEF WasAccepted, VersionsExist
<1> QED
  BY <1>1, <1>2, WrittenIs DEF AcceptedOnce

LEMMA GateStep ==
    ASSUME IInv, [Next]_vars
    PROVE  /\ Built \subseteq Built'
           /\ \A b \in Built : \A other \in Built' : other.ref = b.ref => other = b
           /\ \A b \in Built' \ Built : b.on \subseteq AcceptedOnce
           /\ AcceptedOnce \subseteq AcceptedOnce'
           /\ \A ref \in AcceptedOnce' \ AcceptedOnce : \E b \in Built' : b.ref = ref
           /\ Published \subseteq Published'
           /\ Published' \ Published \subseteq AcceptedOnce
<1>g. FilesGrow /\ StoreTypes /\ VersionsExist
  BY EveryStep, StoreStepKeeps DEF IInv, StoreInv
<1>l. \A m \in Modes : Latest(m)' = Len(artifacts'[m])
  BY DEF Latest
<1>w. /\ \A r \in Written : r = <<r[1], r[2]>> /\ r[1] \in Modes
                            /\ r[2] \in 1..Latest(r[1])
      /\ \A r \in Written' : r = <<r[1], r[2]>> /\ r[1] \in Modes
                             /\ r[2] \in 1..Len(artifacts'[r[1]])
      /\ \A m \in Modes : \A v : <<m, v>> \in Written <=> v \in 1..Latest(m)
      /\ \A m \in Modes : \A v :
            <<m, v>> \in Written' <=> v \in 1..Len(artifacts'[m])
  <2>1. \A r \in Written' : \E m \in Modes :
           \E v \in 1..Len(artifacts'[m]) : r = <<m, v>>
    BY <1>l DEF Written
  <2>2. \A m \in Modes : \A v \in 1..Len(artifacts'[m]) : <<m, v>> \in Written'
    BY <1>l DEF Written
  <2> QED
    BY <2>1, <2>2, WrittenIs
<1>1. \A r \in Written : /\ r \in Written'
                         /\ artifacts'[r[1]][r[2]] = artifacts[r[1]][r[2]]
  BY <1>g, <1>w DEF FilesGrow
<1>2. /\ Built \subseteq Built'
      /\ \A b \in Built : \A other \in Built' : other.ref = b.ref => other = b
  BY <1>1 DEF Built
<1>3. \A b \in Built' \ Built : b.on \subseteq AcceptedOnce
  <2> SUFFICES ASSUME NEW b \in Built', b \notin Built
               PROVE  b.on \subseteq AcceptedOnce
    OBVIOUS
  <2>1. PICK r \in Written' : b = [ref |-> r, on |-> artifacts'[r[1]][r[2]].refs]
    BY DEF Built
  <2>2. r \notin Written
    BY <1>1, <2>1 DEF Built
  <2>3. \A d \in artifacts'[r[1]][r[2]].refs : Backed(d)
    BY <1>g, <1>w, <2>2 DEF FilesGrow
  <2> QED
    BY <1>g, <2>1, <2>3, BackedIsWritten
<1>4. AcceptedOnce \subseteq AcceptedOnce'
  BY <1>g, <1>w, <1>1, AcceptanceStays DEF AcceptedOnce
<1>5. \A ref \in AcceptedOnce' \ AcceptedOnce : \E b \in Built' : b.ref = ref
  <2> SUFFICES ASSUME NEW ref \in Written'
               PROVE  \E b \in Built' : b.ref = ref
    BY DEF AcceptedOnce
  <2> DEFINE b == [ref |-> ref, on |-> artifacts'[ref[1]][ref[2]].refs]
  <2>1. b \in Built' /\ b.ref = ref
    BY DEF Built
  <2> QED
    BY <2>1
<1>6. Published \subseteq Published' /\ Published' \ Published \subseteq AcceptedOnce
  <2>1. CASE UNCHANGED delivered
    BY <2>1 DEF Published
  <2>2. CASE /\ delivered' = delivered \cup {Latest("final_release")}
             /\ Accepted("final_release")
    <3>1. LatestRef("final_release") \in AcceptedOnce
      BY <1>g, <2>2, AcceptedWasAccepted, BackedIsWritten, LatestIsNumber,
         ModesAndStages DEF Backed
    <3> QED
      BY <2>2, <3>1 DEF Published, LatestRef
  <2> QED
    BY <2>1, <2>2, OnlyDeliverPublishes
<1> QED
  BY <1>2, <1>3, <1>4, <1>5, <1>6

\* Every behaviour of the loop is one of the gate.
THEOREM GateIsKept == Spec => KeepsGate
<1>1. Init => Gate!GateInit
  <2> SUFFICES ASSUME Init PROVE Gate!GateInit
    OBVIOUS
  <2>1. artifacts = [m \in Modes |-> <<>>] /\ delivered = {}
    BY DEF Init, InitStore
  <2>2. Written = {}
    BY <2>1 DEF Written, Latest
  <2> QED
    BY <2>1, <2>2 DEF Gate!GateInit
<1>2. IInv /\ [Next]_vars => [Gate!GateNext]_(Gate!gate)
  <2> SUFFICES ASSUME IInv, [Next]_vars
               PROVE  Gate!GateNext
    OBVIOUS
  <2> QED
    BY GateStep
       DEF Gate!GateNext, Gate!Build, Gate!Accept, Gate!Publish, Gate!Kept,
           Built, AcceptedOnce, Published
<1> QED
  BY <1>1, <1>2, Invariance, PTL DEF Spec, KeepsGate, Gate!GateSpec
=============================================================================
