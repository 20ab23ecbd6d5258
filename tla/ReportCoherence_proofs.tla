------------------------ MODULE ReportCoherence_proofs ------------------------
(***************************************************************************)
(* What ResearchReview promises of a report when a response of the model   *)
(* has one or two tool calls: whatever was revised, refreshed, failed,     *)
(* recovered or restarted on the way, a delivered report rests on one      *)
(* coherent body of work.  Every integration ever written is coherent, for *)
(* when it is written each stage is current and the result was             *)
(* interpreted.  That is so long after it was decided to review it: beside *)
(* the call that reviews it there is one other, which may make a new       *)
(* version of a stage, and then no integration is written, but cannot get  *)
(* that version accepted.                                                  *)
(***************************************************************************)
EXTENDS ResearchReview_proofs

-----------------------------------------------------------------------------
(* What may be written.                                                    *)

LEMMA RevisionProduces ==
    ASSUME StoreInv, NEW m \in Modes, Decision(m, Latest(m)) = "revise",
           RevisionAction(m).kind = "producer"
    PROVE  RevisionAction(m).stage \in Stages
<1> DEFINE round == LastRound(m, Latest(m))
           owner == verdicts[m][round].owner
<1>1. Rounds(m, Latest(m)) # {} /\ verdicts[m][round].decision = "revise"
  BY DEF Decision
<1>2. round \in DOMAIN verdicts[m]
  BY <1>1, LastRoundIsVerdict DEF StoreInv
<1>3. owner \in REVISION_OWNERS_FOR_MODE[m]
  BY <1>1, <1>2 DEF StoreInv, RevisionsHaveOwners
<1>4. owner # "main"
  BY DEF RevisionAction, Draft, Act
<1> QED
  BY <1>3, <1>4, OwnerHasStage DEF RevisionAction, Produce, Act

\* The action the store allows makes a stage if it makes anything, a review
\* is of its stage, and of a stage that is not accepted; and if there is
\* none, a budget is used up.
LEMMA NextActionIsFine ==
    ASSUME StoreInv
    PROVE  /\ NextAction.kind = "producer" => NextAction.stage \in Stages
           /\ NextAction.kind = "review" => NextAction = Review(NextAction.stage)
           /\ NextAction.kind = "review" /\ NextAction.stage \in Stages
                 => ~Accepted(NextAction.stage)
           /\ NextAction.kind = "exhausted" => Spent
<1> DEFINE Fine(act) == /\ act.kind = "producer" => act.stage \in Stages
                        /\ act.kind = "review" => act = Review(act.stage)
                        /\ act.kind = "review" /\ act.stage \in Stages
                              => ~Accepted(act.stage)
                        /\ act.kind = "exhausted" => Spent
<1>o. /\ \A m : ~Accepted(m) \/ m \notin Stages => Fine(Review(m))
      /\ \A rid : Fine(Draft(rid))
      /\ Fine(Terminal) /\ Fine(Released) /\ (Spent => Fine(Exhausted))
  BY DEF Review, Draft, Terminal, Released, Exhausted, Act
<1>p. \A s \in Stages : \A phase, answers : Fine(Produce(s, phase, answers))
  BY DEF Produce, Act
<1>b. OutOfBudget => Spent
  BY DEF OutOfBudget, Spent
<1>r. \A m \in Modes : Decision(m, Latest(m)) = "revise" => Fine(RevisionAction(m))
  <2>1. \A m : RevisionAction(m).kind \notin {"review", "exhausted"}
    BY DEF RevisionAction, Draft, Produce, Act
  <2> QED
    BY <2>1, RevisionProduces
<1> HIDE DEF Fine
<1>g. ASSUME NEW m \in Modes, ~Accepted(m), Latest(m) # 0
      PROVE  Fine(GateAction(m))
  <2>1. Decision(m, Latest(m)) \in {"none", "revise", "block"}
    BY <1>g, DecisionIsOne, LatestIsNumber DEF Accepted, StoreInv
  <2> QED
    BY <1>g, <1>o, <1>r, <2>1 DEF GateAction
<1>1. ASSUME NEW s \in Stages PROVE Fine(StageAction(s))
  BY <1>p, <1>g, ModesAndStages DEF StageAction
<1>2. Fine(ReleaseAction)
  BY <1>o, <1>g, ModesAndStages DEF ReleaseAction
<1>3. ASSUME OpenStages # {}
      PROVE  (CHOOSE i \in OpenStages : \A j \in OpenStages : i <= j) \in 1..5
  <2>1. OpenStages \in SUBSET Nat /\ OpenStages \subseteq 1..5
    BY DEF OpenStages
  <2>2. \E i \in OpenStages : \A j \in OpenStages : i <= j
    BY <1>3, <2>1, LeastNumber
  <2> QED
    BY <2>1, <2>2
<1>4. IntegrationCurrent /\ ~Accepted("integration")
         => Fine(GateAction("integration"))
  BY <1>g, LatestIsNumber, ModesAndStages DEF IntegrationCurrent, StoreInv
<1>5. Fine(FullAction)
  <2>1. CASE OpenStages # {}
    <3> DEFINE first == CHOOSE i \in OpenStages : \A j \in OpenStages : i <= j
    <3>1. REVIEW_SEQUENCE[first] \in Stages
      <4>1. first \in 1..5
        BY <1>3, <2>1
      <4> HIDE DEF first
      <4> QED
        BY <4>1, ModesAndStages
    <3>2. \/ OutOfBudget /\ FullAction = Exhausted
          \/ FullAction = StageAction(REVIEW_SEQUENCE[first])
      BY <2>1 DEF FullAction
    <3> HIDE DEF first
    <3> QED
      BY <1>b, <1>o, <1>1, <3>1, <3>2
  <2>2. CASE OpenStages = {}
    BY <1>b, <1>o, <1>p, <1>2, <1>4, <2>2, ModesAndStages DEF FullAction
  <2> QED
    BY <2>1, <2>2
<1>6. ASSUME NEW s \in Stages PROVE Fine(BoundedStageAction(s))
  <2>1. s \in Modes /\ Latest(s) \in Nat
    BY ModesAndStages, LatestIsNumber DEF StoreInv
  <2>2. Decision(s, Latest(s)) \in {"none", "accept", "revise", "block"}
    BY <2>1, DecisionIsOne DEF StoreInv
  <2>3. state.reviews >= MaxReviews => Fine(Exhausted)
    BY <1>o DEF Spent
  <2>4. Decision(s, Latest(s)) = "none" => Fine(Review(s))
    BY <1>o DEF Accepted
  <2> QED
    BY <1>o, <1>p, <2>1, <2>2, <2>3, <2>4 DEF BoundedStageAction
<1>7. Fine(BoundedAction)
  <2> DEFINE open == {i \in DOMAIN route :
                         BoundedStageAction(route[i]).kind # "released"}
  <2>0. route \in Seq(Stages)
    BY RouteAssumption DEF StoreInv, StoreTypes
  <2>1. ASSUME open # {}
        PROVE  (CHOOSE i \in open : \A j \in open : i <= j) \in DOMAIN route
    <3>1. open \in SUBSET Nat /\ open \subseteq DOMAIN route
      BY <2>0
    <3>2. \E i \in open : \A j \in open : i <= j
      BY <2>1, <3>1, LeastNumber
    <3> QED
      BY <3>1, <3>2
  <2> QED
    BY <1>o, <1>6, <2>0, <2>1 DEF BoundedAction
<1>8. Fine(NextAction)
  BY <1>o, <1>5, <1>7 DEF NextAction
<1> QED
  BY <1>8 DEF Fine

\* When the stages are settled no review of one is next.
LEMMA SettledIsNotReviewed ==
    ASSUME StoreInv, route = <<>>, AllAccepted, Settled, NextAction.kind = "review"
    PROVE  NextAction.stage \notin Stages
<1>n. {"integration", "final_release"} \cap Stages = {}
  BY ModesAndStages
<1>1. ASSUME NEW m \in {"integration", "final_release"}, ~Accepted(m), Latest(m) # 0,
             GateAction(m).kind = "review"
      PROVE  GateAction(m).stage = m
  <2>1. m \in Modes
    BY ModesAndStages
  <2>2. Decision(m, Latest(m)) \in {"none", "revise", "block"}
    BY <1>1, <2>1, DecisionIsOne, LatestIsNumber DEF Accepted, StoreInv
  <2> QED
    BY <1>1, <2>2 DEF GateAction, RevisionAction, Draft, Produce, Review,
                      Terminal, Act
<1>2. NextAction = FullAction /\ OpenStages = {} /\ ResultInterpreted
  BY DEF NextAction, Terminal, Act, Settled
<1>3. IntegrationCurrent => Latest("integration") # 0
  BY LatestIsNumber, ModesAndStages DEF IntegrationCurrent, StoreInv
<1>4. ReleaseAction.kind = "review" => ReleaseAction.stage = "final_release"
  BY <1>1 DEF ReleaseAction, Draft, Released, Act
<1> QED
  BY <1>n, <1>1, <1>2, <1>3, <1>4 DEF FullAction, Exhausted, Review, Act

\* When a budget is used up and no report is ready, nothing is next.
LEMMA SpentHasNoAction ==
    ASSUME route = <<>>, Spent, state.status # "release_ready"
    PROVE  NextAction.kind \in {"terminal", "exhausted"}
BY DEF NextAction, FullAction, OutOfBudget, Spent, Terminal, Exhausted, Act

\* When nothing is open, the latest versions are one body of work.
LEMMA LatestIsCoherent ==
    ASSUME StoreInv, RefsAreUpstream, AllAccepted, OpenStages = {},
           ResultInterpreted
    PROVE  Coherent(AcceptedRefs)
<1>1. \A s \in Stages : Latest(s) \in 1..Latest(s) /\ DependenciesCurrent(s)
  <2>1. \A s \in Stages : Latest(s) > 0 /\ Latest(s) \in Nat
    BY LatestIsNumber, ModesAndStages DEF AllAccepted, Accepted, StoreInv
  <2>2. \A i \in 1..5 : ~Open(REVIEW_SEQUENCE[i])
    BY DEF OpenStages
  <2>3. \A s \in Stages : \E i \in 1..5 : s = REVIEW_SEQUENCE[i]
    BY DEF Stages
  <2> QED
    BY <2>1, <2>2, <2>3 DEF Open
<1>2. ASSUME NEW s \in Stages, NEW d \in artifacts[s][Latest(s)].refs,
             d[1] # "hypothesis"
      PROVE  d \in AcceptedRefs
  <2>0. s \in Modes
    BY ModesAndStages
  <2>1. /\ d[1] \in MadeFrom(s)
        /\ \A q \in artifacts[s][Latest(s)].refs : q[1] = d[1] => q = d
    BY <1>1, <2>0 DEF RefsAreUpstream
  <2>2. d[1] \in Stages
    BY <2>1, ModesAndStages DEF MadeFrom, STAGE_DEPENDENCIES
  <2>3. LatestRef(d[1]) \in artifacts[s][Latest(s)].refs
    <3>1. CASE d[1] \in STAGE_DEPENDENCIES[s]
      BY <1>1, <1>2, <3>1 DEF DependenciesCurrent
    <3>2. CASE d[1] \notin STAGE_DEPENDENCIES[s]
      BY <2>1, <3>2 DEF MadeFrom, ResultInterpreted
    <3> QED
      BY <3>1, <3>2
  <2>4. LatestRef(d[1])[1] = d[1]
    BY DEF LatestRef
  <2>5. d = LatestRef(d[1])
    BY <2>1, <2>3, <2>4
  <2> QED
    BY <2>2, <2>5 DEF AcceptedRefs
<1>3. \A r \in AcceptedRefs : \E s \in Stages : r[1] = s /\ r[2] = Latest(s)
  BY DEF AcceptedRefs, LatestRef
<1>4. \E r \in AcceptedRefs : /\ r[1] = "hypothesis"
                              /\ \E d \in artifacts[r[1]][r[2]].refs :
                                    d[1] = "experiment_result"
  <2>1. LatestRef("hypothesis") \in AcceptedRefs
    BY ModesAndStages DEF AcceptedRefs
  <2>2. LatestRef("experiment_result")[1] = "experiment_result"
    BY DEF LatestRef
  <2>3. /\ LatestRef("hypothesis")[1] = "hypothesis"
        /\ LatestRef("hypothesis")[2] = Latest("hypothesis")
    BY DEF LatestRef
  <2> QED
    BY <2>1, <2>2, <2>3 DEF ResultInterpreted
<1> QED
  BY <1>2, <1>3, <1>4 DEF Coherent

-----------------------------------------------------------------------------
(* A file that is added.                                                   *)

\* What is there stays, and one version of one mode is new.
LEMMA FileAdded ==
    ASSUME StoreInv, NEW m \in Modes, NEW art \in Artifact,
           artifacts' = WithArtifact(m, art)
    PROVE  /\ \A o \in Modes : Latest(o) \in Nat /\ Latest(o)' \in Nat
           /\ Latest(m)' = Latest(m) + 1 /\ artifacts'[m][Latest(m) + 1] = art
           /\ \A o \in Modes : \A v \in 1..Latest(o) :
                 v \in 1..Latest(o)' /\ artifacts'[o][v] = artifacts[o][v]
           /\ \A o \in Modes \ {m} : artifacts'[o] = artifacts[o]
           /\ \A o \in Modes : \A v \in 1..Latest(o)' :
                 v \in 1..Latest(o) \/ (o = m /\ v = Latest(m) + 1)
<1>1. artifacts \in [Modes -> Seq(Artifact)]
  BY DEF StoreInv, StoreTypes
<1>2. artifacts' = [artifacts EXCEPT ![m] = Append(@, art)]
  BY DEF WithArtifact
<1>3. /\ artifacts' \in [Modes -> Seq(Artifact)]
      /\ Len(artifacts'[m]) = Len(artifacts[m]) + 1
      /\ artifacts'[m][Len(artifacts'[m])] = art
      /\ \A i \in DOMAIN artifacts[m] :
            i \in DOMAIN artifacts'[m] /\ artifacts'[m][i] = artifacts[m][i]
      /\ \A o \in Modes \ {m} : artifacts'[o] = artifacts[o]
  BY <1>1, <1>2, AppendKeepsTypes
<1>4. /\ \A o \in Modes : /\ DOMAIN artifacts[o] = 1..Len(artifacts[o])
                          /\ Len(artifacts[o]) \in Nat /\ Len(artifacts'[o]) \in Nat
  BY <1>1, <1>3
<1>5. \A o \in Modes : Latest(o) = Len(artifacts[o]) /\ Latest(o)' = Len(artifacts'[o])
  BY DEF Latest
<1>6. \A o \in Modes : Latest(o) \in Nat /\ Latest(o)' \in Nat
  BY <1>4, <1>5
<1>7. Latest(m)' = Latest(m) + 1 /\ artifacts'[m][Latest(m) + 1] = art
  BY <1>3, <1>5
<1>8. ASSUME NEW o \in Modes, NEW v \in 1..Latest(o)
      PROVE  v \in 1..Latest(o)' /\ artifacts'[o][v] = artifacts[o][v]
  <2>1. CASE o = m
    BY <1>3, <1>4, <1>5, <1>6, <1>7, <2>1
  <2>2. CASE o # m
    BY <1>3, <1>5, <2>2
  <2> QED
    BY <2>1, <2>2
<1>9. ASSUME NEW o \in Modes, NEW v \in 1..Latest(o)'
      PROVE  v \in 1..Latest(o) \/ (o = m /\ v = Latest(m) + 1)
  <2>1. CASE o = m
    BY <1>6, <1>7, <2>1
  <2>2. CASE o # m
    BY <1>3, <1>5, <2>2
  <2> QED
    BY <2>1, <2>2
<1> QED
  BY <1>3, <1>6, <1>7, <1>8, <1>9

\* A body of work that exists stays what it is.
LEMMA CoherenceStays ==
    ASSUME NEW body, Coherent(body),
           \A r \in body : artifacts'[r[1]][r[2]] = artifacts[r[1]][r[2]]
    PROVE  Coherent(body)'
BY DEF Coherent

\* The references of a new artifact are like those of the others.
WellMade(m, refs) ==
    /\ \A r \in refs : r[1] \in MadeFrom(m) /\ r[2] \in 1..Latest(r[1])
    /\ \A r, q \in refs : r[1] = q[1] => r = q

LEMMA MadeFromModes ==
    \A m \in Modes : MadeFrom(m) \subseteq Modes
BY ModesAndStages DEF MadeFrom, STAGE_DEPENDENCIES

LEMMA RefsStayUpstream ==
    ASSUME StoreInv, RefsAreUpstream, NEW m \in Modes, NEW art \in Artifact,
           artifacts' = WithArtifact(m, art), WellMade(m, art.refs)
    PROVE  RefsAreUpstream'
<1>1. /\ \A o \in Modes : \A v \in 1..Latest(o) :
            v \in 1..Latest(o)' /\ artifacts'[o][v] = artifacts[o][v]
      /\ \A o \in Modes : \A v \in 1..Latest(o)' :
            v \in 1..Latest(o) \/ (o = m /\ v = Latest(m) + 1)
      /\ artifacts'[m][Latest(m) + 1] = art
  BY FileAdded
<1>2. ASSUME NEW o \in Modes, NEW v \in 1..Latest(o)'
      PROVE  /\ \A r \in artifacts'[o][v].refs :
                   r[1] \in MadeFrom(o) /\ r[2] \in 1..Latest(r[1])'
             /\ \A r, q \in artifacts'[o][v].refs : r[1] = q[1] => r = q
  <2>1. /\ \A r \in artifacts'[o][v].refs :
              r[1] \in MadeFrom(o) /\ r[2] \in 1..Latest(r[1])
        /\ \A r, q \in artifacts'[o][v].refs : r[1] = q[1] => r = q
    <3>1. CASE v \in 1..Latest(o)
      BY <1>1, <3>1 DEF RefsAreUpstream
    <3>2. CASE o = m /\ v = Latest(m) + 1
      BY <1>1, <3>2 DEF WellMade
    <3> QED
      BY <1>1, <3>1, <3>2
  <2> QED
    BY <1>1, <2>1, MadeFromModes
<1> QED
  BY <1>2 DEF RefsAreUpstream, MadeFrom

\* So a new file leaves the integrations coherent, unless it is one itself.
LEMMA IntegrationsStayCoherent ==
    ASSUME StoreInv, RefsAreUpstream, IntegrationsAreCoherent,
           NEW m \in Modes, NEW art \in Artifact,
           artifacts' = WithArtifact(m, art), WellMade(m, art.refs),
           m = "integration" => Coherent(art.refs)
    PROVE  IntegrationsAreCoherent'
<1>i. "integration" \in Modes
  BY ModesAndStages
<1>1. /\ \A o \in Modes : \A v \in 1..Latest(o) :
            v \in 1..Latest(o)' /\ artifacts'[o][v] = artifacts[o][v]
      /\ \A o \in Modes : \A v \in 1..Latest(o)' :
            v \in 1..Latest(o) \/ (o = m /\ v = Latest(m) + 1)
      /\ artifacts'[m][Latest(m) + 1] = art
  BY FileAdded
<1>2. ASSUME NEW v \in 1..Latest("integration")'
      PROVE  Coherent(artifacts["integration"][v].refs)'
  <2> DEFINE body == artifacts'["integration"][v].refs
  <2>1. Coherent(body) /\ \A r \in body : r[1] \in Modes /\ r[2] \in 1..Latest(r[1])
    <3>1. CASE v \in 1..Latest("integration")
      <4>1. body = artifacts["integration"][v].refs
        BY <1>1, <1>i, <3>1
      <4>2. \A r \in artifacts["integration"][v].refs :
               r[1] \in Modes /\ r[2] \in 1..Latest(r[1])
        BY <1>i, <3>1, MadeFromModes DEF RefsAreUpstream
      <4>3. Coherent(artifacts["integration"][v].refs)
        BY <3>1 DEF IntegrationsAreCoherent
      <4> HIDE DEF body
      <4> QED
        BY <4>1, <4>2, <4>3
    <3>2. CASE "integration" = m /\ v = Latest(m) + 1
      <4>1. body = art.refs
        BY <1>1, <3>2
      <4> HIDE DEF body
      <4> QED
        BY <3>2, <4>1, MadeFromModes DEF WellMade
    <3> QED
      BY <1>1, <1>i, <3>1, <3>2
  <2>2. \A r \in body : artifacts'[r[1]][r[2]] = artifacts[r[1]][r[2]]
    BY <1>1, <2>1
  <2> QED
    BY <2>1, <2>2 DEF Coherent
<1> QED
  BY <1>2 DEF IntegrationsAreCoherent

-----------------------------------------------------------------------------
(* What a step does to the files.                                          *)

CheckpointStep ==
    \E s \in Stages, phase \in Phases, rid \in Refs :
        /\ ~CheckpointRefused(s, phase, rid)
        /\ artifacts' = WithArtifact(s, NewArtifact(s, phase, rid))
IntegrationStep ==
    /\ artifacts' = WithArtifact("integration", NewIntegration)
    /\ AllAccepted /\ OpenStages = {} /\ ResultInterpreted
ReleaseStep ==
    \E n \in Nat : /\ WasAccepted(<<"integration", n>>)
                   /\ artifacts' = WithArtifact("final_release", NewRelease(n))

LEMMA NothingAdded ==
    ASSUME RefsAreUpstream, IntegrationsAreCoherent, UNCHANGED artifacts
    PROVE  RefsAreUpstream' /\ IntegrationsAreCoherent'
BY DEF RefsAreUpstream, MadeFrom, IntegrationsAreCoherent, Coherent, Latest

LEMMA CheckpointAdds ==
    ASSUME StoreInv, RefsAreUpstream, IntegrationsAreCoherent, CheckpointStep
    PROVE  RefsAreUpstream' /\ IntegrationsAreCoherent'
<1>1. PICK s \in Stages, phase \in Phases, rid \in Refs :
         /\ ~CheckpointRefused(s, phase, rid)
         /\ artifacts' = WithArtifact(s, NewArtifact(s, phase, rid))
  BY DEF CheckpointStep
<1> DEFINE art == NewArtifact(s, phase, rid)
<1>2. s \in Modes /\ s # "integration" /\ art \in Artifact
  BY <1>1, CheckpointArtifact, ModesAndStages DEF StoreInv
<1>3. art.refs = UpstreamRefs(s, phase)
  BY DEF NewArtifact
<1>4. WellMade(s, art.refs)
  <2>1. \A d \in Upstream(s, phase) :
           d \in MadeFrom(s) /\ LatestRef(d) = <<d, Latest(d)>>
    BY DEF Upstream, MadeFrom, LatestRef, STAGE_DEPENDENCIES
  <2>2. \A d \in Upstream(s, phase) : Latest(d) \in 1..Latest(d)
    <3>1. \A d \in Upstream(s, phase) : d \in Modes /\ Accepted(d)
      BY <1>1, <1>2, UpstreamIsModes DEF CheckpointRefused
    <3> QED
      BY <3>1, LatestIsNumber DEF Accepted, StoreInv
  <2> HIDE DEF art
  <2> QED
    BY <1>3, <2>1, <2>2 DEF WellMade, UpstreamRefs
<1> HIDE DEF art
<1>5. artifacts' = WithArtifact(s, art)
  BY <1>1 DEF art
<1> QED
  BY <1>2, <1>4, <1>5, RefsStayUpstream, IntegrationsStayCoherent

LEMMA IntegrationAdds ==
    ASSUME StoreInv, RefsAreUpstream, IntegrationsAreCoherent, IntegrationStep
    PROVE  RefsAreUpstream' /\ IntegrationsAreCoherent'
<1> DEFINE art == NewIntegration
<1>m. "integration" \in Modes /\ Stages \subseteq Modes \ {"integration"}
  BY ModesAndStages
<1>1. art \in Artifact /\ artifacts' = WithArtifact("integration", art)
      /\ art.refs = AcceptedRefs
  BY IntegrationArtifact DEF IntegrationStep, StoreInv, NewIntegration
<1> HIDE DEF art
<1>2. WellMade("integration", AcceptedRefs)
  <2>1. \A s \in Stages : Latest(s) \in 1..Latest(s)
    BY <1>m, LatestIsNumber DEF IntegrationStep, AllAccepted, Accepted, StoreInv
  <2>2. \A s \in Stages : s \in MadeFrom("integration")
    BY DEF MadeFrom, STAGE_DEPENDENCIES
  <2> QED
    BY <2>1, <2>2 DEF WellMade, AcceptedRefs, LatestRef
<1>3. Coherent(AcceptedRefs)
  BY LatestIsCoherent DEF IntegrationStep
<1> QED
  BY <1>m, <1>1, <1>2, <1>3, RefsStayUpstream, IntegrationsStayCoherent

LEMMA ReleaseAdds ==
    ASSUME StoreInv, RefsAreUpstream, IntegrationsAreCoherent, ReleaseStep
    PROVE  RefsAreUpstream' /\ IntegrationsAreCoherent'
<1>1. PICK n \in Nat :
         /\ WasAccepted(<<"integration", n>>)
         /\ artifacts' = WithArtifact("final_release", NewRelease(n))
  BY DEF ReleaseStep
<1> DEFINE art == NewRelease(n)
<1>2. /\ art \in Artifact /\ art.refs = {<<"integration", n>>}
      /\ "final_release" \in Modes /\ "integration" \in Modes
  BY ReleaseArtifact, ModesAndStages DEF StoreInv
<1>3. n \in 1..Latest("integration")
  BY <1>1, <1>2 DEF WasAccepted, StoreInv, VersionsExist
<1>4. WellMade("final_release", art.refs)
  <2>1. "integration" \in MadeFrom("final_release")
    BY DEF MadeFrom, STAGE_DEPENDENCIES
  <2> HIDE DEF art
  <2> QED
    BY <1>2, <1>3, <2>1 DEF WellMade
<1> HIDE DEF art
<1>5. artifacts' = WithArtifact("final_release", art)
  BY <1>1 DEF art
<1> QED
  BY <1>2, <1>4, <1>5, RefsStayUpstream, IntegrationsStayCoherent

-----------------------------------------------------------------------------
(* What a step does to the stages.                                         *)

\* It leaves them alone, or makes a new version of one.
StagesStay ==
    /\ UNCHANGED route
    /\ \A s \in Stages : artifacts'[s] = artifacts[s] /\ verdicts'[s] = verdicts[s]
StageMade == CheckpointStep /\ UNCHANGED <<verdicts, route>>
StagesFollow == StagesStay \/ StageMade

LEMMA StagesStayWhatTheyAre ==
    ASSUME StagesStay
    PROVE  /\ \A s \in Stages : Accepted(s)' <=> Accepted(s)
           /\ AllAccepted' <=> AllAccepted
           /\ Settled' <=> Settled
<1>1. \A s \in Stages : Latest(s)' = Latest(s) /\ LatestRef(s)' = LatestRef(s)
  BY DEF StagesStay, Latest, LatestRef
<1>2. ASSUME NEW s \in Stages
      PROVE  Decision(s, Latest(s))' = Decision(s, Latest(s))
  BY <1>1, SameVerdictsSameDecision, ModesAndStages DEF StagesStay
<1>3. \A s \in Stages : Accepted(s)' <=> Accepted(s)
  BY <1>1, <1>2 DEF Accepted
<1>4. ASSUME NEW s \in Stages
      PROVE  DependenciesCurrent(s)' <=> DependenciesCurrent(s)
  <2>1. STAGE_DEPENDENCIES[s] \subseteq Stages /\ "hypothesis" \in Stages
    BY ModesAndStages DEF STAGE_DEPENDENCIES
  <2>2. artifacts'[s][Latest(s)'] = artifacts[s][Latest(s)]
    BY <1>1 DEF StagesStay
  <2>3. artifacts'["hypothesis"][Latest("hypothesis")']
           = artifacts["hypothesis"][Latest("hypothesis")]
    BY <1>1, <2>1 DEF StagesStay
  <2> QED
    BY <1>1, <1>3, <2>1, <2>2, <2>3 DEF DependenciesCurrent
<1>5. OpenStages' = OpenStages
  <2>1. \A i \in 1..5 : Open(REVIEW_SEQUENCE[i])' <=> Open(REVIEW_SEQUENCE[i])
    BY <1>3, <1>4, ModesAndStages DEF Open
  <2> QED
    BY <2>1 DEF OpenStages
<1>6. ResultInterpreted' <=> ResultInterpreted
  BY <1>1, ModesAndStages DEF StagesStay, ResultInterpreted
<1> QED
  BY <1>3, <1>5, <1>6 DEF AllAccepted, Settled

\* Nobody has reviewed a new version.
LEMMA StageMadeIsOpen ==
    ASSUME StoreInv, StageMade
    PROVE  /\ ~AllAccepted'
           /\ \A s \in Stages : Accepted(s)' => Accepted(s)
<1>1. PICK s \in Stages, phase \in Phases, rid \in Refs :
         /\ ~CheckpointRefused(s, phase, rid)
         /\ artifacts' = WithArtifact(s, NewArtifact(s, phase, rid))
  BY DEF StageMade, CheckpointStep
<1>2. s \in Modes /\ NewArtifact(s, phase, rid) \in Artifact
  BY <1>1, CheckpointArtifact, ModesAndStages DEF StoreInv
<1>3. /\ Latest(s) \in Nat /\ Latest(s)' = Latest(s) + 1
      /\ \A o \in Modes \ {s} : artifacts'[o] = artifacts[o]
  BY <1>1, <1>2, FileAdded
<1>4. ~Accepted(s)'
  <2>1. Rounds(s, Latest(s))' = {}
    BY <1>2, <1>3 DEF StageMade, Rounds, StoreInv, VersionsExist
  <2> QED
    BY <2>1 DEF Accepted, Decision
<1>5. ASSUME NEW o \in Stages \ {s}
      PROVE  Accepted(o)' => Accepted(o)
  <2>1. Latest(o)' = Latest(o) /\ o \in Modes
    BY <1>3, ModesAndStages DEF Latest
  <2>2. Decision(o, Latest(o))' = Decision(o, Latest(o))
    BY <2>1, SameVerdictsSameDecision DEF StageMade
  <2> QED
    BY <2>1, <2>2 DEF Accepted
<1> QED
  BY <1>4, <1>5 DEF AllAccepted

\* So what is not accepted stays so, and the stages stay settled as long as
\* they all are accepted.
LEMMA StagesAreFollowed ==
    ASSUME StoreInv, StagesFollow
    PROVE  /\ \A s \in Stages : Accepted(s)' => Accepted(s)
           /\ (AllAccepted => Settled) => (AllAccepted' => Settled')
           /\ UNCHANGED route
<1>1. CASE StagesStay
  BY <1>1, StagesStayWhatTheyAre DEF StagesStay
<1>2. CASE StageMade
  BY <1>2, StageMadeIsOpen DEF StageMade
<1> QED
  BY <1>1, <1>2 DEF StagesFollow

\* An integration, or a report, is not a stage.
LEMMA OtherFilesLeaveStages ==
    ASSUME NEW m \in {"integration", "final_release"}, NEW art, StoreInv,
           artifacts' = WithArtifact(m, art)
    PROVE  \A s \in Stages : artifacts'[s] = artifacts[s]
BY ModesAndStages DEF WithArtifact, StoreInv, StoreTypes

LEMMA TargetsLeaveStages ==
    ASSUME NEW m, StoreInv, artifacts' = TargetFiles(m)
    PROVE  \A s \in Stages : artifacts'[s] = artifacts[s]
BY OtherFilesLeaveStages DEF TargetFiles, Outdated

-----------------------------------------------------------------------------
(* What a step does to the calls.                                          *)

CallsFollow == /\ ProducersAreOfStages' /\ CallsAreInPlace'
               /\ ReviewsAreSettled' /\ UndecidedMeansOpen'
FilesFollow ==
    UNCHANGED artifacts \/ CheckpointStep \/ IntegrationStep \/ ReleaseStep
FailureIsOfStage == failure.role = "producer" => failure.stage \in Stages
OthersStay(c) == \A d \in Calls \ {c} : calls'[d] = calls[d]

\* What keeps the budgets and the status fit for a call that may accept
\* nothing, if the stages stay.
BooksFollow ==
    /\ Spent => Spent'
    /\ state'.status = "release_ready" => state.status = "release_ready"
    /\ state'.status = "blocked" =>
          \/ Spent' \/ state'.current = "integration"
          \/ state.status = "blocked" /\ state'.current = state.current

LEMMA AcceptsNothingStill ==
    ASSUME NEW d \in Calls, calls'[d] = calls[d], StagesStay, BooksFollow,
           AcceptsNothing(d)
    PROVE  AcceptsNothing(d)'
<1>1. AllAccepted' <=> AllAccepted
  BY StagesStayWhatTheyAre
<1> QED
  BY <1>1 DEF AcceptsNothing, BooksFollow, MayAccept

\* All calls have returned, or the process died.
LEMMA AllIdle ==
    ASSUME \A d \in Calls : calls'[d] = Idle, FailureIsOfStage'
    PROVE  CallsFollow
BY DEF CallsFollow, ProducersAreOfStages, CallsAreInPlace, ReviewsAreSettled,
       UndecidedMeansOpen, Reviewing, MayAccept, FailureIsOfStage, Idle,
       Terminal, Act

\* No call moves.
LEMMA Stayed ==
    ASSUME CoherenceInv, UNCHANGED <<calls, failure>>, StagesStay, BooksFollow
    PROVE  CallsFollow
<1>1. /\ \A s \in Stages : Accepted(s)' <=> Accepted(s)
      /\ (AllAccepted => Settled) => (AllAccepted' => Settled')
      /\ UNCHANGED route
  BY StagesStayWhatTheyAre DEF StagesStay
<1>2. ProducersAreOfStages' /\ CallsAreInPlace'
  BY DEF CoherenceInv, ProducersAreOfStages, CallsAreInPlace
<1>3. ReviewsAreSettled'
  BY <1>1, AcceptsNothingStill DEF CoherenceInv, ReviewsAreSettled, Reviewing
<1>4. UndecidedMeansOpen'
  BY <1>1 DEF CoherenceInv, UndecidedMeansOpen, MayAccept
<1> QED
  BY <1>2, <1>3, <1>4 DEF CallsFollow

\* One call goes to a place its action belongs to.
LEMMA PlaceFollows ==
    ASSUME CoherenceInv, NEW c \in Calls, OthersStay(c), FailureIsOfStage',
           calls'[c].act.kind = "producer" => calls'[c].act.stage \in Stages,
           calls'[c].pc = "work" => calls'[c].act.kind = "producer",
           calls'[c].pc \in {"open", "review"} => calls'[c].act.kind = "review"
    PROVE  ProducersAreOfStages' /\ CallsAreInPlace'
BY DEF CoherenceInv, ProducersAreOfStages, CallsAreInPlace, OthersStay,
       FailureIsOfStage

\* It is there that it neither writes the integration nor accepts a stage.
LEMMA OutOfTheWay ==
    ASSUME AtMostTwoCalls, StoreInv, CoherenceInv, NEW c \in Calls, OthersStay(c),
           calls'[c].pc \notin {"idle", "decide"},
           ~Reviewing(c)', ~MayAccept(c)',
           StagesFollow \/ MayAccept(c)
    PROVE  ReviewsAreSettled' /\ UndecidedMeansOpen'
<1>1. ASSUME NEW d \in Calls, Reviewing(d)'
      PROVE  /\ route' = <<>> /\ (AllAccepted' => Settled')
             /\ \A e \in Calls \ {d} : AcceptsNothing(e)'
  <2>1. d # c /\ calls'[d] = calls[d]
    BY <1>1 DEF OthersStay
  <2>2. Reviewing(d)
    BY <1>1, <2>1 DEF Reviewing
  <2>3. route = <<>> /\ (AllAccepted => Settled) /\ AcceptsNothing(c)
    BY <2>1, <2>2 DEF CoherenceInv, ReviewsAreSettled
  <2>4. StagesFollow
    BY <2>3 DEF AcceptsNothing
  <2>5. route' = <<>> /\ (AllAccepted' => Settled')
    BY <2>3, <2>4, StagesAreFollowed
  <2>6. AcceptsNothing(c)'
    BY DEF AcceptsNothing
  <2>7. \A e \in Calls \ {d} : e = c
    BY <2>1 DEF AtMostTwoCalls
  <2> QED
    BY <2>5, <2>6, <2>7
<1>2. UndecidedMeansOpen'
  <2> SUFFICES ASSUME NEW d \in Calls, NEW e \in Calls, d # e,
                      calls'[d].pc \in {"idle", "decide"}, MayAccept(e)'
               PROVE  FALSE
    BY DEF UndecidedMeansOpen
  <2>1. d # c /\ e # c
    OBVIOUS
  <2> QED
    BY <2>1 DEF AtMostTwoCalls
<1> QED
  BY <1>1, <1>2 DEF ReviewsAreSettled

\* It goes on with its action, and leaves the stages alone.
LEMMA GoesOn ==
    ASSUME AtMostTwoCalls, StoreInv, CoherenceInv, NEW c \in Calls, OthersStay(c),
           calls'[c].pc \notin {"idle", "decide"}, calls'[c].act = calls[c].act,
           Reviewing(c)' => Reviewing(c), MayAccept(c)' => MayAccept(c),
           StagesStay, BooksFollow
    PROVE  ReviewsAreSettled' /\ UndecidedMeansOpen'
<1>s. /\ \A s \in Stages : Accepted(s)' <=> Accepted(s)
      /\ (AllAccepted => Settled) => (AllAccepted' => Settled')
      /\ UNCHANGED route
  BY StagesStayWhatTheyAre DEF StagesStay
<1>1. ASSUME NEW d \in Calls, Reviewing(d)'
      PROVE  /\ route' = <<>> /\ (AllAccepted' => Settled')
             /\ \A e \in Calls \ {d} : AcceptsNothing(e)'
  <2>1. Reviewing(d)
    BY <1>1 DEF OthersStay, Reviewing
  <2>2. /\ route = <<>> /\ (AllAccepted => Settled)
        /\ \A e \in Calls \ {d} : AcceptsNothing(e)
    BY <2>1 DEF CoherenceInv, ReviewsAreSettled
  <2>3. ASSUME NEW e \in Calls \ {d}
        PROVE  AcceptsNothing(e)'
    <3>1. CASE e = c
      <4>1. ~MayAccept(c)'
        BY <2>2, <3>1 DEF AcceptsNothing
      <4> QED
        BY <3>1, <4>1 DEF AcceptsNothing
    <3>2. CASE e # c
      BY <2>2, <3>2, AcceptsNothingStill DEF OthersStay
    <3> QED
      BY <3>1, <3>2
  <2> QED
    BY <1>s, <2>2, <2>3
<1>2. UndecidedMeansOpen'
  <2> SUFFICES ASSUME NEW d \in Calls, NEW e \in Calls, d # e,
                      calls'[d].pc \in {"idle", "decide"}, MayAccept(e)'
               PROVE  ~Accepted(calls[e].act.stage)'
    BY DEF UndecidedMeansOpen
  <2>1. d # c /\ calls'[d] = calls[d]
    BY DEF OthersStay
  <2>2. MayAccept(e) /\ calls'[e].act = calls[e].act
    BY DEF OthersStay, MayAccept
  <2>3. ~Accepted(calls[e].act.stage)
    BY <2>1, <2>2 DEF CoherenceInv, UndecidedMeansOpen
  <2> QED
    BY <1>s, <2>2, <2>3 DEF MayAccept
<1> QED
  BY <1>1, <1>2 DEF ReviewsAreSettled

\* A call returns, and the batch is over if it was the last.
LEMMA Returned ==
    ASSUME AtMostTwoCalls, StoreInv, CallTypes, CoherenceInv, NEW c \in Calls,
           Return(c), FailureIsOfStage', StagesFollow
    PROVE  CallsFollow
<1>1. CASE calls' = [d \in Calls |-> Idle]
  BY <1>1, AllIdle
<1>2. CASE calls' = [calls EXCEPT ![c] = Done]
  <2>1. calls'[c] = Done /\ OthersStay(c)
    BY <1>2 DEF CallTypes, OthersStay
  <2>2. Done.pc = "done" /\ Done.act.kind = "terminal"
    BY DEF Done, Idle, Terminal, Act
  <2>3. ProducersAreOfStages' /\ CallsAreInPlace'
    BY <2>1, <2>2, PlaceFollows
  <2>4. ~Reviewing(c)' /\ ~MayAccept(c)'
    BY <2>1, <2>2 DEF Reviewing, MayAccept
  <2> QED
    BY <2>1, <2>2, <2>3, <2>4, OutOfTheWay DEF CallsFollow
<1> QED
  BY <1>1, <1>2 DEF Return

LEMMA GotoMoves ==
    ASSUME CallTypes, NEW c \in Calls, NEW pc, Goto(c, pc)
    PROVE  /\ calls'[c].pc = pc /\ calls'[c].act = calls[c].act
           /\ OthersStay(c)
BY DEF CallTypes, Call, Goto, OthersStay

-----------------------------------------------------------------------------
(* What the transactions do.                                               *)

LEMMA BooksStay ==
    ASSUME UNCHANGED state
    PROVE  BooksFollow
BY DEF BooksFollow, Spent

\* A budget that is used up stays so, and so it is when a block is not saved
\* yet that it was found to be.
SpentRemains == (Spent => Spent') /\ (Pending # {} => Spent')

LEMMA SpentIsForGood ==
    ASSUME IInv, [Next]_vars
    PROVE  SpentRemains
<1>1. StoreInv /\ PendingStep
  BY EveryStep DEF IInv, StoreStep
<1>2. Pending # {} => Spent'
  BY <1>1, PendingStaysSpent
<1>3. ASSUME Spent, Pending = {} PROVE Spent'
  <2>1. Known = {state}
    BY <1>3 DEF Known
  <2>2. /\ state'.actions >= state.actions /\ state'.reviews >= state.reviews
        /\ state.actions \in Nat /\ state.reviews \in Nat
        /\ state'.actions \in Nat /\ state'.reviews \in Nat
    BY <1>1, <2>1, KnownAreStates DEF PendingStep, StoreInv
  <2> QED
    BY <1>3, <2>2, BudgetAssumption DEF Spent
<1> QED
  BY <1>2, <1>3 DEF SpentRemains

LEMMA NothingFollows ==
    ASSUME UNCHANGED store
    PROVE  UNCHANGED artifacts /\ StagesStay /\ BooksFollow /\ UNCHANGED failure
BY BooksStay DEF store, files, StagesStay

LEMMA CheckpointIsOfStage ==
    ASSUME NEW st, NEW s \in Stages, NEW phase \in Phases, NEW rid \in Refs,
           CheckpointOver(st, s, phase, rid)
    PROVE  /\ UNCHANGED artifacts \/ CheckpointStep
           /\ StagesFollow /\ UNCHANGED failure
<1>1. CASE UNCHANGED store
  BY <1>1 DEF store, files, StagesFollow, StagesStay
<1>2. CASE ~CheckpointRefused(s, phase, rid) /\ WriteCheckpoint(s, phase, rid)
  BY <1>2 DEF WriteCheckpoint, CheckpointStep, StagesFollow, StageMade
<1> QED
  BY <1>1, <1>2 DEF CheckpointOver

\* A recovered stage makes the task active, and spends nothing.
LEMMA RecoveryIsOfStage ==
    ASSUME StoreInv, FailureIsOfStage, SpentRemains, Recover
    PROVE  /\ UNCHANGED artifacts \/ CheckpointStep
           /\ StagesFollow /\ UNCHANGED failure
           /\ \/ StagesStay
              \/ /\ state.status = "blocked" /\ state.current \in Stages
                 /\ state'.status = "active" /\ (Spent => Spent')
<1>1. CASE Recoverable
  <2> DEFINE s == failure.stage
  <2>1. s \in Stages /\ "first" \in Phases /\ NoReview \in Refs
    BY <1>1, NoReviewIsRef DEF Recoverable, FailureIsOfStage, Phases
  <2>2. PICK st \in MayFind(state) : CheckpointOver(st, s, "first", NoReview)
    BY <1>1 DEF Recover
  <2>3. CASE UNCHANGED store
    BY <2>1, <2>2, <2>3, CheckpointIsOfStage, NothingFollows
  <2>4. CASE state' = StateAfterCheckpoint(st, s, "first")
    <3>1. state.status = "blocked" /\ state.current \in Stages
      BY <1>1, <2>1 DEF Recoverable
    <3>2. st \in RunState
      BY KnownAreStates DEF MayFind, Known, StoreInv
    <3>3. state'.status = "active"
      BY <2>4, <3>2 DEF StateAfterCheckpoint, RunState
    <3> QED
      BY <2>1, <2>2, <3>1, <3>3, CheckpointIsOfStage DEF SpentRemains
  <2> QED
    BY <2>2, <2>3, <2>4 DEF CheckpointOver, Save
<1>2. CASE ~Recoverable
  BY <1>2, NothingFollows DEF Recover, store, StagesFollow
<1> QED
  BY <1>1, <1>2

\* Whoever wants the integration reviewed brings it up to date.
LEMMA EnsuredIsTarget ==
    ASSUME NEW m, EnsureIntegration(m)
    PROVE  artifacts' = TargetFiles(m) /\ state' = TargetState(m)
BY DEF EnsureIntegration, TargetFiles, TargetState, Save

\* The run state a reviewer finds.
LEMMA TargetBooks ==
    ASSUME StoreInv, NEW m \in Modes, state' = TargetState(m)
    PROVE  BooksFollow /\ state'.status = state.status
<1>1. CASE Outdated(m)
  <2>1. /\ state'.actions = state.actions /\ state'.reviews = state.reviews
        /\ state'.status = state.status /\ state'.current = "integration"
    BY <1>1 DEF TargetState, StateAfterIntegration, StoreInv, StoreTypes, RunState
  <2> QED
    BY <2>1 DEF BooksFollow, Spent
<1>2. CASE ~Outdated(m)
  BY <1>2, BooksStay DEF TargetState
<1> QED
  BY <1>1, <1>2

\* A look at the store may write the integration it wants to be reviewed.
LEMMA LookFollows ==
    ASSUME StoreInv, Looked
    PROVE  /\ UNCHANGED artifacts \/ IntegrationStep
           /\ StagesStay /\ BooksFollow /\ UNCHANGED failure
           /\ NextAction.kind = "review"
                 => state.status # "blocked" /\ state'.status = state.status
<1>1. UNCHANGED <<verdicts, failure, route>>
  BY DEF Looked
<1>2. NextAction.kind = "review" => state.status # "blocked"
  BY DEF NextAction, Terminal, Act
<1>3. CASE NextAction = Review("integration")
  <2>1. EnsureIntegration("integration") /\ "integration" \in Modes
    BY <1>3, ModesAndStages DEF Looked
  <2>2. /\ artifacts' = TargetFiles("integration")
        /\ state' = TargetState("integration")
    BY <2>1, EnsuredIsTarget
  <2>3. UNCHANGED artifacts \/ IntegrationStep
    BY <1>3, <2>2, ReviewOfIntegration DEF TargetFiles, IntegrationStep, Settled
  <2>4. StagesStay
    BY <1>1, <2>2, TargetsLeaveStages DEF StagesStay
  <2> QED
    BY <1>1, <1>2, <2>1, <2>2, <2>3, <2>4, TargetBooks
<1>4. CASE NextAction # Review("integration")
  <2>1. UNCHANGED <<artifacts, state>>
    BY <1>4 DEF Looked
  <2> QED
    BY <1>1, <1>2, <2>1, BooksStay DEF StagesStay
<1> QED
  BY <1>3, <1>4

\* A look that finds a budget used up changes nothing yet; the block it saves
\* later is of a state that was out of a budget, as every later one is.
LEMMA LoadFollows ==
    ASSUME NEW l, LoadsExhausted(l)
    PROVE  UNCHANGED artifacts /\ StagesStay /\ BooksFollow /\ UNCHANGED failure
BY BooksStay DEF LoadsExhausted, files, StagesStay

LEMMA SavedBlockFollows ==
    ASSUME StoreInv, SpentRemains, NEW l \in Lookers, SavesBlocked(l)
    PROVE  UNCHANGED artifacts /\ StagesStay /\ BooksFollow /\ UNCHANGED failure
<1>1. UNCHANGED <<artifacts, verdicts, failure, route>>
  BY DEF SavesBlocked, files
<1>2. state' \in Pending
  BY DEF SavesBlocked, Pending
<1>3. state'.status = "blocked" /\ Spent'
  BY <1>2 DEF StoreInv, PendingIsSpent, SpentRemains
<1> QED
  BY <1>1, <1>3 DEF StagesStay, BooksFollow

\* What a reviewer reads, and what its verdict is about, is there already or
\* is a new integration of settled stages.
LEMMA TargetFollows ==
    ASSUME StoreInv, CoherenceInv, NEW c \in Calls, calls[c].act.kind = "review",
           calls[c].pc \in {"open", "review", "finish"},
           Reviewable(calls[c].act.stage),
           artifacts' = TargetFiles(calls[c].act.stage)
    PROVE  UNCHANGED artifacts \/ IntegrationStep
<1> DEFINE m == calls[c].act.stage
<1>1. CASE Outdated(m)
  <2>1. m = "integration" /\ AllAccepted
    BY <1>1 DEF Outdated, Reviewable
  <2>2. Settled
    BY <2>1 DEF CoherenceInv, ReviewsAreSettled, Reviewing
  <2> QED
    BY <1>1, <2>1, <2>2 DEF TargetFiles, IntegrationStep, Settled
<1>2. CASE ~Outdated(m)
  BY <1>2 DEF TargetFiles
<1> QED
  BY <1>1, <1>2

\* The run state it leaves.
LEMMA VerdictBooks ==
    ASSUME SpentRemains, NEW entered \in RunState, NEW verdict \in Verdict,
           state' = StateAfterVerdict(entered, "integration", verdict)
    PROVE  BooksFollow
<1>1. /\ state'.current = "integration"
      /\ state'.status = IF verdict.decision = "block" THEN "blocked" ELSE "active"
  BY DEF StateAfterVerdict, RunState
<1> QED
  BY <1>1 DEF BooksFollow, SpentRemains

-----------------------------------------------------------------------------
(* Every action, when a response has at most two calls.                    *)

\* A call that comes beside a review of the integration finds the stages
\* accepted, or recovers one when the budget is spent.
LEMMA CoherentBegin ==
    ASSUME AtMostTwoCalls, IInv, CoherenceInv, SpentRemains, NEW c \in Calls,
           Begin(c)
    PROVE  FilesFollow /\ CallsFollow
<1>a. /\ StoreInv /\ CallTypes /\ FailureIsOfStage
      /\ calls[c].act.kind = "producer" => calls[c].act.stage \in Stages
  BY DEF IInv, CoherenceInv, ProducersAreOfStages, FailureIsOfStage
<1>1. /\ UNCHANGED artifacts \/ CheckpointStep
      /\ StagesFollow /\ UNCHANGED failure
      /\ \/ StagesStay
         \/ /\ state.status = "blocked" /\ state.current \in Stages
            /\ state'.status = "active" /\ (Spent => Spent')
  BY <1>a, RecoveryIsOfStage DEF Begin
<1>2. /\ calls[c].pc = "idle" /\ calls'[c].pc = "decide"
      /\ calls'[c].act = calls[c].act /\ OthersStay(c)
  BY <1>a, GotoMoves DEF Begin
<1>3. ProducersAreOfStages' /\ CallsAreInPlace'
  <2>1. FailureIsOfStage'
    BY <1>a, <1>1 DEF FailureIsOfStage
  <2> QED
    BY <1>a, <1>2, <2>1, PlaceFollows
<1>4. ~Reviewing(c)' /\ ~MayAccept(c)'
  BY <1>2 DEF Reviewing, MayAccept
<1>5. ReviewsAreSettled'
  <2> SUFFICES ASSUME NEW d \in Calls, Reviewing(d)'
               PROVE  /\ route' = <<>> /\ (AllAccepted' => Settled')
                      /\ \A e \in Calls \ {d} : AcceptsNothing(e)'
    BY DEF ReviewsAreSettled
  <2>1. d # c /\ Reviewing(d)
    BY <1>2, <1>4 DEF OthersStay, Reviewing
  <2>2. route = <<>> /\ (AllAccepted => Settled) /\ AcceptsNothing(c)
    BY <2>1 DEF CoherenceInv, ReviewsAreSettled
  <2>3. AllAccepted /\ (state.status = "blocked" => state.current = "integration"
                                                    \/ Spent)
    BY <1>2, <2>2 DEF AcceptsNothing
  <2>4. AllAccepted' \/ (Spent' /\ state'.status # "release_ready")
    BY <1>1, <2>3, StagesStayWhatTheyAre, ModesAndStages
  <2>5. AcceptsNothing(c)'
    BY <1>2, <1>4, <2>4 DEF AcceptsNothing
  <2>6. \A e \in Calls \ {d} : e = c
    BY <2>1 DEF AtMostTwoCalls
  <2> QED
    BY <1>a, <1>1, <2>2, <2>5, <2>6, StagesAreFollowed
<1>6. UndecidedMeansOpen'
  <2> SUFFICES ASSUME NEW d \in Calls, NEW e \in Calls, d # e,
                      calls'[d].pc \in {"idle", "decide"}, MayAccept(e)'
               PROVE  ~Accepted(calls[e].act.stage)'
    BY DEF UndecidedMeansOpen
  <2>1. e # c /\ d = c
    BY <1>4 DEF AtMostTwoCalls
  <2>0. calls'[e] = calls[e]
    BY <1>2, <2>1 DEF OthersStay
  <2>2. calls'[e] = calls[e] /\ MayAccept(e)
    BY <2>0 DEF MayAccept
  <2>3. ~Accepted(calls[e].act.stage)
    BY <1>2, <2>1, <2>2 DEF CoherenceInv, UndecidedMeansOpen
  <2> QED
    BY <1>a, <1>1, <2>2, <2>3, StagesAreFollowed DEF MayAccept
<1> QED
  BY <1>1, <1>3, <1>5, <1>6 DEF FilesFollow, CallsFollow

\* A review is decided upon: that of the integration when the stages are
\* settled, that of a stage when no review of the integration goes on.
LEMMA CoherentDecide ==
    ASSUME AtMostTwoCalls, IInv, CoherenceInv, NEW c \in Calls, Decide(c)
    PROVE  FilesFollow /\ CallsFollow
<1> DEFINE next == NextAction
<1>a. /\ StoreInv /\ CallTypes /\ FailureIsOfStage /\ calls[c].pc = "decide"
  BY DEF IInv, CoherenceInv, ProducersAreOfStages, FailureIsOfStage, Decide
<1>1. /\ UNCHANGED artifacts \/ IntegrationStep
      /\ StagesStay /\ BooksFollow /\ UNCHANGED failure
      /\ next.kind = "review"
            => state.status # "blocked" /\ state'.status = state.status
  BY <1>a, LookFollows DEF Decide
<1>n. /\ next.kind = "producer" => next.stage \in Stages
      /\ next.kind = "review" => next = Review(next.stage)
      /\ next.kind = "review" /\ next.stage \in Stages => ~Accepted(next.stage)
  BY <1>a, NextActionIsFine
<1>i. next = Review("integration")
         => route = <<>> /\ AllAccepted /\ Settled
  BY <1>a, ReviewOfIntegration DEF Settled
\* Beside a review of the integration nothing is decided that accepts a stage.
<1>r. ASSUME NEW d \in Calls, d # c, Reviewing(d)
      PROVE  ~(next.kind = "review" /\ next.stage \in Stages)
  <2>1. route = <<>> /\ (AllAccepted => Settled) /\ AcceptsNothing(c)
    BY <1>r DEF CoherenceInv, ReviewsAreSettled
  <2>2. AllAccepted \/ (Spent /\ state.status # "release_ready")
    BY <1>a, <2>1 DEF AcceptsNothing
  <2> QED
    BY <1>a, <2>1, <2>2, SettledIsNotReviewed, SpentHasNoAction
<1>f. FailureIsOfStage'
  BY <1>a, <1>1 DEF FailureIsOfStage
<1>2. CASE Return(c)
  BY <1>a, <1>1, <1>2, <1>f, Returned DEF FilesFollow, StagesFollow
<1>3. CASE calls' = [calls EXCEPT ![c].pc = "reserve", ![c].act = next]
  <2> HIDE DEF next
  <2>1. calls'[c].pc = "reserve" /\ calls'[c].act = next /\ OthersStay(c)
    BY <1>a, <1>3 DEF CallTypes, Call, OthersStay
  <2>2. ProducersAreOfStages' /\ CallsAreInPlace'
    BY <1>f, <1>n, <2>1, PlaceFollows
  <2>s. /\ \A s \in Stages : Accepted(s)' <=> Accepted(s)
        /\ AllAccepted' <=> AllAccepted
        /\ Settled' <=> Settled
        /\ UNCHANGED route
    BY <1>1, StagesStayWhatTheyAre DEF StagesStay
  <2>3. CASE next = Review("integration")
    <3>0. next.kind = "review" /\ next.stage = "integration"
      BY <2>3 DEF Review, Act
    <3>1. ~MayAccept(c)' /\ Reviewing(c)'
      BY <2>1, <3>0, ModesAndStages DEF MayAccept, Reviewing
    <3>2. ASSUME NEW e \in Calls \ {c}
          PROVE  AcceptsNothing(e)'
      <4>1. ~MayAccept(e)
        BY <1>a, <1>i, <2>3
           DEF CoherenceInv, UndecidedMeansOpen, AllAccepted, MayAccept
      <4>2. ~MayAccept(e)'
        BY <2>1, <4>1 DEF OthersStay, MayAccept
      <4>3. AllAccepted' /\ state'.status # "blocked"
        BY <1>1, <1>i, <2>3, <2>s, <3>0
      <4> QED
        BY <4>2, <4>3 DEF AcceptsNothing
    <3>3. ReviewsAreSettled'
      <4>1. ASSUME NEW d \in Calls, Reviewing(d)'
            PROVE  \A e \in Calls \ {d} : AcceptsNothing(e)'
        <5>1. ASSUME NEW e \in Calls \ {d}, e = c
              PROVE  AcceptsNothing(c)'
          BY <2>1, <3>1 DEF AcceptsNothing
        <5> QED
          BY <3>2, <5>1
      <4> QED
        BY <1>i, <2>3, <2>s, <4>1 DEF ReviewsAreSettled
    <3>4. UndecidedMeansOpen'
      <4> SUFFICES ASSUME NEW d \in Calls, NEW e \in Calls, d # e,
                          calls'[d].pc \in {"idle", "decide"}, MayAccept(e)'
                   PROVE  FALSE
        BY DEF UndecidedMeansOpen
      <4>1. d # c /\ e # c
        BY <2>1, <3>1
      <4> QED
        BY <4>1 DEF AtMostTwoCalls
    <3> QED
      BY <1>1, <2>2, <3>3, <3>4 DEF FilesFollow, CallsFollow
  <2>4. CASE next.kind = "review" /\ next.stage \in Stages
    <3>1. ~Reviewing(c)' /\ ~Accepted(next.stage)
      BY <1>n, <2>1, <2>4, ModesAndStages DEF Reviewing
    <3>2. ReviewsAreSettled'
      <4> SUFFICES ASSUME NEW d \in Calls, Reviewing(d)' PROVE FALSE
        BY DEF ReviewsAreSettled
      <4>1. d # c /\ Reviewing(d)
        BY <2>1, <3>1 DEF OthersStay, Reviewing
      <4> QED
        BY <1>r, <2>4, <4>1
    <3>3. UndecidedMeansOpen'
      <4> SUFFICES ASSUME NEW d \in Calls, NEW e \in Calls, d # e,
                          calls'[d].pc \in {"idle", "decide"}, MayAccept(e)'
                   PROVE  ~Accepted(calls[e].act.stage)'
        BY DEF UndecidedMeansOpen
      <4>1. e = c
        BY <2>1 DEF AtMostTwoCalls
      <4> QED
        BY <2>1, <2>4, <2>s, <3>1, <4>1
    <3> QED
      BY <1>1, <2>2, <3>2, <3>3 DEF FilesFollow, CallsFollow
  <2>5. CASE /\ next # Review("integration")
             /\ ~(next.kind = "review" /\ next.stage \in Stages)
    <3>1. ~Reviewing(c)' /\ ~MayAccept(c)'
      BY <1>n, <2>1, <2>5 DEF Reviewing, MayAccept
    <3>2. ReviewsAreSettled' /\ UndecidedMeansOpen'
      BY <1>a, <1>1, <2>1, <3>1, OutOfTheWay DEF StagesFollow
    <3> QED
      BY <1>1, <2>2, <3>2 DEF FilesFollow, CallsFollow
  <2> QED
    BY <2>3, <2>4, <2>5
<1> QED
  BY <1>2, <1>3 DEF Decide

\* A budget is used up: the call waits until that is saved, and returns.
LEMMA CoherentExhausted ==
    ASSUME AtMostTwoCalls, IInv, CoherenceInv, NEW c \in Calls,
           DecideExhausted(c) \/ ReturnExhausted(c)
    PROVE  FilesFollow /\ CallsFollow
<1>a. /\ StoreInv /\ CallTypes /\ FailureIsOfStage
      /\ calls[c].act.kind = "producer" => calls[c].act.stage \in Stages
  BY DEF IInv, CoherenceInv, ProducersAreOfStages, FailureIsOfStage
<1>1. CASE DecideExhausted(c)
  <2>1. UNCHANGED artifacts /\ StagesStay /\ UNCHANGED failure
    BY <1>1, LoadFollows DEF DecideExhausted
  <2>2. calls'[c].pc = "stop" /\ calls'[c].act = calls[c].act /\ OthersStay(c)
    BY <1>a, <1>1, GotoMoves DEF DecideExhausted
  <2>3. FailureIsOfStage' /\ ~Reviewing(c)' /\ ~MayAccept(c)'
    BY <1>a, <2>1, <2>2 DEF FailureIsOfStage, Reviewing, MayAccept
  <2>4. ProducersAreOfStages' /\ CallsAreInPlace'
    BY <1>a, <2>2, <2>3, PlaceFollows
  <2>5. ReviewsAreSettled' /\ UndecidedMeansOpen'
    BY <1>a, <2>1, <2>2, <2>3, OutOfTheWay DEF StagesFollow
  <2> QED
    BY <2>1, <2>4, <2>5 DEF FilesFollow, CallsFollow
<1>2. CASE ReturnExhausted(c)
  <2>1. UNCHANGED artifacts /\ StagesStay /\ UNCHANGED failure /\ Return(c)
    BY <1>2, NothingFollows DEF ReturnExhausted
  <2>2. FailureIsOfStage'
    BY <1>a, <2>1 DEF FailureIsOfStage
  <2> QED
    BY <1>a, <2>1, <2>2, Returned DEF FilesFollow, StagesFollow
<1> QED
  BY <1>1, <1>2

LEMMA CoherentBeforeSpecialist ==
    ASSUME AtMostTwoCalls, IInv, CoherenceInv, SpentRemains, NEW c \in Calls,
           StopAfterFailures(c) \/ RaiseUnknownStage(c) \/ Reserve(c)
    PROVE  FilesFollow /\ CallsFollow
<1>a. /\ StoreInv /\ CallTypes /\ Sensible(calls[c]) /\ FailureIsOfStage
      /\ calls[c].act.kind = "producer" => calls[c].act.stage \in Stages
  BY DEF IInv, CallsMakeSense, CoherenceInv, ProducersAreOfStages,
         FailureIsOfStage
<1>1. CASE StopAfterFailures(c)
  <2>1. /\ UNCHANGED artifacts /\ StagesStay
        /\ failure' = [stage |-> calls[c].act.stage,
                       role |-> IF calls[c].act.kind = "review"
                                THEN "reviewer" ELSE "producer"]
    BY <1>1 DEF StopAfterFailures, BlockForFailures, StagesStay
  <2>2. calls[c].act.kind \in {"producer", "review"}
    BY <1>a, <1>1 DEF StopAfterFailures, FailedTwice, Sensible
  <2>3. FailureIsOfStage'
    BY <1>a, <2>1, <2>2 DEF FailureIsOfStage
  <2>4. Return(c)
    BY <1>1 DEF StopAfterFailures
  <2> QED
    BY <1>a, <2>1, <2>3, <2>4, Returned DEF FilesFollow, StagesFollow
<1>2. CASE RaiseUnknownStage(c)
  <2>1. UNCHANGED artifacts /\ StagesStay /\ UNCHANGED failure /\ Return(c)
    BY <1>2, NothingFollows DEF RaiseUnknownStage
  <2>2. FailureIsOfStage'
    BY <1>a, <2>1 DEF FailureIsOfStage
  <2> QED
    BY <1>a, <2>1, <2>2, Returned DEF FilesFollow, StagesFollow
<1>3. CASE Reserve(c)
  <2>1. /\ UNCHANGED <<artifacts, failure>> /\ StagesStay
        /\ calls[c].pc = "reserve"
    BY <1>3 DEF Reserve, files, StagesStay
  <2>2. FailureIsOfStage'
    BY <1>a, <2>1 DEF FailureIsOfStage
  <2>3. CASE Return(c)
    BY <1>a, <2>1, <2>2, <2>3, Returned DEF FilesFollow, StagesFollow
  <2>4. CASE /\ state' = [state EXCEPT !.actions = @ + 1]
             /\ Goto(c, FirstStep[calls[c].act.kind])
    <3>1. /\ calls'[c].pc = FirstStep[calls[c].act.kind]
          /\ calls'[c].act = calls[c].act /\ OthersStay(c)
      BY <1>a, <2>4, GotoMoves
    <3>2. calls[c].act.kind \in {"producer", "review", "prepare_release"}
      BY <1>a, <2>1 DEF Sensible
    <3>3. /\ calls'[c].pc \in {"work", "open", "read"}
          /\ calls'[c].pc = "work" => calls[c].act.kind = "producer"
          /\ calls'[c].pc = "open" => calls[c].act.kind = "review"
      BY <3>1, <3>2 DEF FirstStep
    <3>4. BooksFollow
      <4>1. /\ state'.actions = state.actions + 1
            /\ state'.reviews = state.reviews /\ state'.status = state.status
            /\ state'.current = state.current
            /\ state.actions \in Nat
        BY <1>a, <2>4 DEF StoreInv, StoreTypes, RunState
      <4> QED
        BY <4>1 DEF BooksFollow, SpentRemains
    <3>5. /\ Reviewing(c)' => Reviewing(c)
          /\ MayAccept(c)' => MayAccept(c)
      BY <2>1, <3>1 DEF Reviewing, MayAccept
    <3>6. ReviewsAreSettled' /\ UndecidedMeansOpen'
      BY <1>a, <2>1, <3>1, <3>3, <3>4, <3>5, GoesOn
    <3>7. ProducersAreOfStages' /\ CallsAreInPlace'
      BY <1>a, <2>2, <3>1, <3>3, PlaceFollows
    <3> QED
      BY <2>1, <3>6, <3>7 DEF FilesFollow, CallsFollow
  <2> QED
    BY <1>3, <2>3, <2>4 DEF Reserve, Save
<1> QED
  BY <1>1, <1>2, <1>3

LEMMA CoherentProducerSteps ==
    ASSUME AtMostTwoCalls, IInv, CoherenceInv, NEW c \in Calls,
           ProducerReturns(c) \/ ProducerFails(c) \/ FinishProducer(c)
    PROVE  FilesFollow /\ CallsFollow
<1>a. /\ StoreInv /\ CallTypes /\ FailureIsOfStage
      /\ calls[c].act.kind = "producer" => calls[c].act.stage \in Stages
      /\ calls[c].pc = "work" => calls[c].act.kind = "producer"
  BY DEF IInv, CoherenceInv, ProducersAreOfStages, CallsAreInPlace,
         FailureIsOfStage
<1>1. CASE ProducerReturns(c)
  <2>1. /\ UNCHANGED <<artifacts, failure>> /\ StagesStay
        /\ calls[c].act.kind = "producer" /\ calls'[c].pc = "finish"
        /\ calls'[c].act = calls[c].act /\ OthersStay(c)
    BY <1>a, <1>1, GotoMoves DEF ProducerReturns, StagesStay
  <2>2. FailureIsOfStage' /\ ~Reviewing(c)' /\ ~MayAccept(c)'
    BY <1>a, <2>1 DEF FailureIsOfStage, Reviewing, MayAccept
  <2>3. ProducersAreOfStages' /\ CallsAreInPlace'
    BY <1>a, <2>1, <2>2, PlaceFollows
  <2>4. ReviewsAreSettled' /\ UndecidedMeansOpen'
    BY <1>a, <2>1, <2>2, OutOfTheWay DEF StagesFollow
  <2> QED
    BY <2>1, <2>3, <2>4 DEF FilesFollow, CallsFollow
<1>2. CASE ProducerFails(c)
  <2>1. UNCHANGED <<artifacts, failure>> /\ StagesStay /\ Return(c)
    BY <1>2 DEF ProducerFails, StagesStay
  <2>2. FailureIsOfStage'
    BY <1>a, <2>1 DEF FailureIsOfStage
  <2> QED
    BY <1>a, <2>1, <2>2, Returned DEF FilesFollow, StagesFollow
<1>3. CASE FinishProducer(c)
  <2>1. /\ calls[c].act.stage \in Stages /\ calls[c].act.phase \in Phases
        /\ calls[c].act.answers \in Refs
    BY <1>a, <1>3, ActsAreActions DEF FinishProducer, AtFinish
  <2>2. /\ UNCHANGED artifacts \/ CheckpointStep
        /\ StagesFollow /\ UNCHANGED failure
    <3>1. CASE Checkpoint(calls[c].act.stage, calls[c].act.phase,
                          calls[c].act.answers)
      BY <2>1, <3>1, CheckpointIsOfStage DEF Checkpoint
    <3>2. CASE UNCHANGED store
      BY <3>2, NothingFollows DEF StagesFollow
    <3> QED
      BY <1>3, <3>1, <3>2 DEF FinishProducer
  <2>3. FailureIsOfStage' /\ Return(c)
    BY <1>a, <1>3, <2>2 DEF FailureIsOfStage, FinishProducer
  <2> QED
    BY <1>a, <2>2, <2>3, Returned DEF FilesFollow
<1> QED
  BY <1>1, <1>2, <1>3

LEMMA CoherentReviewerSteps ==
    ASSUME AtMostTwoCalls, IInv, CoherenceInv, NEW c \in Calls,
           OpenContext(c) \/ ReviewerGivesUp(c) \/ FinishReview(c)
    PROVE  FilesFollow /\ CallsFollow
<1>a. /\ StoreInv /\ CallTypes /\ FailureIsOfStage
      /\ calls[c].act.kind = "producer" => calls[c].act.stage \in Stages
      /\ calls[c].pc \in {"open", "review"} => calls[c].act.kind = "review"
      /\ calls[c].act.stage \in Modes
  BY ActsAreActions DEF IInv, CoherenceInv, ProducersAreOfStages,
     CallsAreInPlace, FailureIsOfStage
<1>m. ASSUME calls[c].pc \in {"open", "review"}, UNCHANGED failure,
             UNCHANGED artifacts \/ IntegrationStep, StagesStay, BooksFollow,
             calls'[c].pc \in {"review", "finish"}, calls'[c].act = calls[c].act,
             OthersStay(c)
      PROVE  FilesFollow /\ CallsFollow
  <2>1. FailureIsOfStage' /\ calls'[c].pc \notin {"idle", "decide", "work"}
    BY <1>a, <1>m DEF FailureIsOfStage
  <2>2. /\ Reviewing(c)' => Reviewing(c)
        /\ MayAccept(c)' => MayAccept(c)
    BY <1>m DEF Reviewing, MayAccept
  <2>3. ReviewsAreSettled' /\ UndecidedMeansOpen'
    BY <1>a, <1>m, <2>1, <2>2, GoesOn
  <2>4. ProducersAreOfStages' /\ CallsAreInPlace'
    BY <1>a, <1>m, <2>1, PlaceFollows
  <2> QED
    BY <1>m, <2>3, <2>4 DEF FilesFollow, CallsFollow
<1>1. CASE OpenContext(c)
  <2>1. /\ calls[c].pc \in {"open", "review"} /\ UNCHANGED failure
        /\ Reviewable(calls[c].act.stage)
        /\ artifacts' = TargetFiles(calls[c].act.stage)
        /\ state' = TargetState(calls[c].act.stage)
        /\ UNCHANGED <<verdicts, route>>
    BY <1>1, EnsuredIsTarget DEF OpenContext
  <2>2. calls'[c].pc = "review" /\ calls'[c].act = calls[c].act /\ OthersStay(c)
    BY <1>a, <1>1 DEF OpenContext, CallTypes, Call, OthersStay
  <2>3. UNCHANGED artifacts \/ IntegrationStep
    BY <1>a, <2>1, TargetFollows
  <2>4. StagesStay /\ BooksFollow
    BY <1>a, <2>1, TargetsLeaveStages, TargetBooks DEF StagesStay
  <2> QED
    BY <1>m, <2>1, <2>2, <2>3, <2>4
<1>2. CASE ReviewerGivesUp(c)
  <2>1. /\ calls[c].pc \in {"open", "review"} /\ UNCHANGED store
        /\ calls'[c].pc = "finish" /\ calls'[c].act = calls[c].act
        /\ OthersStay(c)
    BY <1>a, <1>2, GotoMoves DEF ReviewerGivesUp
  <2> QED
    BY <1>m, <2>1, NothingFollows
<1>3. CASE FinishReview(c)
  <2>1. /\ calls[c].pc = "finish" /\ calls[c].act.kind = "review"
        /\ UNCHANGED <<failure, verdicts, route>> /\ Return(c)
        /\ \/ /\ Reviewable(calls[c].act.stage)
              /\ artifacts' = TargetFiles(calls[c].act.stage)
           \/ UNCHANGED artifacts
    BY <1>3, EnsuredIsTarget DEF FinishReview, AtFinish
  <2>2. UNCHANGED artifacts \/ IntegrationStep
    BY <1>a, <2>1, TargetFollows
  <2>3. FailureIsOfStage' /\ StagesStay
    BY <1>a, <2>1, TargetsLeaveStages DEF FailureIsOfStage, StagesStay
  <2> QED
    BY <1>a, <2>1, <2>2, <2>3, Returned DEF FilesFollow, StagesFollow
<1> QED
  BY <1>1, <1>2, <1>3

\* Accepting a stage is for a call beside which no integration is reviewed.
LEMMA CoherentVerdict ==
    ASSUME AtMostTwoCalls, IInv, CoherenceInv, SpentRemains, NEW c \in Calls,
           SubmitVerdict(c)
    PROVE  FilesFollow /\ CallsFollow
<1> DEFINE m == calls[c].act.stage
<1>a. /\ StoreInv /\ CallTypes /\ FailureIsOfStage /\ calls[c].pc = "review"
      /\ calls[c].act.kind = "review" /\ m \in Modes /\ Reviewable(m)
  BY ActsAreActions DEF IInv, CoherenceInv, ProducersAreOfStages,
     CallsAreInPlace, FailureIsOfStage, SubmitVerdict, MaySubmit
<1>p. PICK ruled \in MayFind(TargetState(m)) :
         \E entered \in MayFind(ruled), verdict \in Rulings(ruled, m) :
            /\ WriteVerdict(m, verdict)
            /\ state' = StateAfterVerdict(entered, m, verdict)
  BY DEF SubmitVerdict, Save
<1>1. PICK entered \in MayFind(ruled), verdict \in Rulings(ruled, m) :
         /\ WriteVerdict(m, verdict)
         /\ state' = StateAfterVerdict(entered, m, verdict)
  BY <1>p
<1>v. verdict \in Verdict /\ entered \in RunState
  BY <1>a, FoundIsSound, RulingIsVerdict DEF StoreInv
<1>2. calls'[c].pc = "finish" /\ calls'[c].act = calls[c].act /\ OthersStay(c)
  BY <1>a, GotoMoves DEF SubmitVerdict
<1>3. /\ UNCHANGED artifacts \/ IntegrationStep
      /\ UNCHANGED <<failure, route>>
      /\ artifacts' = TargetFiles(m)
      /\ verdicts' = [verdicts EXCEPT ![m] = Append(@, verdict)]
  BY <1>a, <1>1, TargetFollows DEF WriteVerdict
<1>4. ProducersAreOfStages' /\ CallsAreInPlace'
  <2>1. FailureIsOfStage'
    BY <1>a, <1>3 DEF FailureIsOfStage
  <2> QED
    BY <1>a, <1>2, <2>1, PlaceFollows
<1>5. m \notin Stages => StagesStay
  <2>1. \A s \in Stages : artifacts'[s] = artifacts[s]
    BY <1>a, <1>3, TargetsLeaveStages
  <2>2. verdicts \in [Modes -> Seq(Verdict)] /\ Stages \subseteq Modes
    BY <1>a, ModesAndStages DEF StoreInv, StoreTypes
  <2>3. m \notin Stages => \A s \in Stages : verdicts'[s] = verdicts[s]
    <3> HIDE DEF m
    <3> QED
      BY <1>3, <2>2
  <2> QED
    BY <1>3, <2>1, <2>3 DEF StagesStay
<1>6. ~MayAccept(c)' /\ (m \in Stages => MayAccept(c))
  BY <1>a, <1>2 DEF MayAccept
<1>7. ReviewsAreSettled' /\ UndecidedMeansOpen'
  <2>1. CASE m = "integration"
    <3>1. StagesStay
      BY <1>5, <2>1, ModesAndStages
    <3>2. BooksFollow
      BY <1>1, <1>v, <2>1, VerdictBooks
    <3>3. Reviewing(c)
      BY <1>a, <2>1 DEF Reviewing
    <3> QED
      BY <1>a, <1>2, <1>6, <3>1, <3>2, <3>3, GoesOn
  <2>2. CASE m # "integration"
    <3>1. ~Reviewing(c)'
      BY <1>2, <2>2 DEF Reviewing
    <3> QED
      BY <1>a, <1>2, <1>5, <1>6, <3>1, OutOfTheWay DEF StagesFollow
  <2> QED
    BY <2>1, <2>2
<1> QED
  BY <1>3, <1>4, <1>7 DEF FilesFollow, CallsFollow

LEMMA CoherentReportSteps ==
    ASSUME AtMostTwoCalls, IInv, CoherenceInv, NEW c \in Calls,
           ReadIntegration(c) \/ PrepareRelease(c)
    PROVE  FilesFollow /\ CallsFollow
<1>a. /\ StoreInv /\ CallTypes /\ FailureIsOfStage /\ Sensible(calls[c])
      /\ calls[c].act.kind = "producer" => calls[c].act.stage \in Stages
      /\ calls[c].seen \in Nat
  BY ActsAreActions DEF IInv, CoherenceInv, ProducersAreOfStages,
     CallsMakeSense, FailureIsOfStage
<1>1. CASE ReadIntegration(c)
  <2>1. UNCHANGED artifacts /\ StagesStay /\ UNCHANGED failure
    BY <1>1, NothingFollows DEF ReadIntegration
  <2>2. FailureIsOfStage'
    BY <1>a, <2>1 DEF FailureIsOfStage
  <2>3. CASE Return(c)
    BY <1>a, <2>1, <2>2, <2>3, Returned DEF FilesFollow, StagesFollow
  <2>4. CASE calls' = [calls EXCEPT ![c].pc = "draft",
                                    ![c].seen = Latest("integration")]
    <3>1. /\ calls'[c].pc = "draft" /\ calls'[c].act = calls[c].act
          /\ OthersStay(c)
      BY <1>a, <2>4 DEF CallTypes, Call, OthersStay
    <3>2. ProducersAreOfStages' /\ CallsAreInPlace'
      BY <1>a, <2>2, <3>1, PlaceFollows
    <3>3. ~Reviewing(c)' /\ ~MayAccept(c)'
      BY <3>1 DEF Reviewing, MayAccept
    <3>4. ReviewsAreSettled' /\ UndecidedMeansOpen'
      BY <1>a, <2>1, <3>1, <3>3, OutOfTheWay DEF StagesFollow
    <3> QED
      BY <2>1, <3>2, <3>4 DEF FilesFollow, CallsFollow
  <2> QED
    BY <1>1, <2>3, <2>4 DEF ReadIntegration
<1>2. CASE PrepareRelease(c)
  <2>1. /\ UNCHANGED <<failure, verdicts, route>> /\ Return(c) /\ ReleaseStep
        /\ artifacts' = WithArtifact("final_release", NewRelease(calls[c].seen))
    BY <1>a, <1>2 DEF PrepareRelease, WriteRelease, ReleaseStep, Sensible
  <2>2. FailureIsOfStage' /\ StagesStay
    BY <1>a, <2>1, OtherFilesLeaveStages DEF FailureIsOfStage, StagesStay
  <2> QED
    BY <1>a, <2>1, <2>2, Returned DEF FilesFollow, StagesFollow
<1> QED
  BY <1>1, <1>2

LEMMA CoherentHostSteps ==
    ASSUME AtMostTwoCalls, IInv, CoherenceInv, NEW c \in Calls, HostStep(c)
    PROVE  FilesFollow /\ CallsFollow
<1>a. /\ StoreInv /\ CallTypes /\ FailureIsOfStage /\ Sensible(calls[c])
      /\ calls[c].act.kind = "producer" => calls[c].act.stage \in Stages
      /\ calls[c].pc \in {"open", "review"} => calls[c].act.kind = "review"
      /\ calls[c].act.phase \in Phases /\ calls[c].act.answers \in Refs
      /\ calls[c].seen \in Nat
  BY ActsAreActions DEF IInv, CoherenceInv, ProducersAreOfStages,
     CallsAreInPlace, CallsMakeSense, FailureIsOfStage
<1>d. ASSUME Die, FilesFollow, UNCHANGED failure
      PROVE  FilesFollow /\ CallsFollow
  <2>1. FailureIsOfStage' /\ \A d \in Calls : calls'[d] = Idle
    BY <1>a, <1>d DEF FailureIsOfStage, Die
  <2> QED
    BY <1>d, <2>1, AllIdle
<1>1. CASE Abandon(c)
  <2>1. UNCHANGED artifacts /\ StagesStay /\ UNCHANGED failure /\ Return(c)
    BY <1>1, NothingFollows DEF Abandon
  <2>2. FailureIsOfStage'
    BY <1>a, <2>1 DEF FailureIsOfStage
  <2> QED
    BY <1>a, <2>1, <2>2, Returned DEF FilesFollow, StagesFollow
<1>2. CASE DieInCheckpoint(c)
  <2>1. calls[c].act.stage \in Stages
    BY <1>a, <1>2 DEF DieInCheckpoint, AtFinish
  <2>2. CheckpointStep /\ UNCHANGED failure /\ Die
    BY <1>a, <1>2, <2>1 DEF DieInCheckpoint, WriteCheckpoint, CheckpointStep
  <2> QED
    BY <1>d, <2>2 DEF FilesFollow
<1>3. CASE DieInVerdict(c)
  <2>1. /\ calls[c].pc = "review" /\ UNCHANGED failure /\ Die
        /\ Reviewable(calls[c].act.stage)
        /\ artifacts' = TargetFiles(calls[c].act.stage)
    BY <1>3 DEF DieInVerdict, MaySubmit, WriteVerdict
  <2>2. UNCHANGED artifacts \/ IntegrationStep
    BY <1>a, <2>1, TargetFollows
  <2> QED
    BY <1>d, <2>1, <2>2 DEF FilesFollow
<1>4. CASE DieInRelease(c)
  <2>1. ReleaseStep /\ UNCHANGED failure /\ Die
    BY <1>a, <1>4 DEF DieInRelease, WriteRelease, ReleaseStep, Sensible
  <2> QED
    BY <1>d, <2>1 DEF FilesFollow
<1> QED
  BY <1>1, <1>2, <1>3, <1>4 DEF HostStep

LEMMA CoherentOtherSteps ==
    ASSUME IInv, CoherenceInv, SpentRemains,
           \/ Look \/ SaveBlocked \/ Deliver \/ Restart \/ NewTurn
           \/ OperatorReopens \/ UNCHANGED vars
    PROVE  FilesFollow /\ CallsFollow
<1>a. /\ StoreInv /\ FailureIsOfStage
  BY DEF IInv, CoherenceInv, ProducersAreOfStages, FailureIsOfStage
<1>1. CASE Look \/ SaveBlocked
  <2>1. UNCHANGED artifacts \/ IntegrationStep
    BY <1>a, <1>1, LookFollows, LoadFollows, SavedBlockFollows
       DEF Look, SaveBlocked
  <2>2. StagesStay /\ BooksFollow /\ UNCHANGED <<calls, failure>>
    BY <1>a, <1>1, LookFollows, LoadFollows, SavedBlockFollows
       DEF Look, SaveBlocked
  <2> QED
    BY <2>1, <2>2, Stayed DEF FilesFollow
<1>2. CASE Deliver
  <2>1. /\ UNCHANGED <<artifacts, failure>>
        /\ \A d \in Calls : calls'[d] = Idle
    BY <1>2 DEF Deliver, files, Quiet
  <2>2. FailureIsOfStage'
    BY <1>a, <2>1 DEF FailureIsOfStage
  <2> QED
    BY <2>1, <2>2, AllIdle DEF FilesFollow
<1>3. CASE Restart
  <2>1. UNCHANGED <<artifacts, failure>> /\ \A d \in Calls : calls'[d] = Idle
    BY <1>3 DEF Restart, Die, files
  <2>2. FailureIsOfStage'
    BY <1>a, <2>1 DEF FailureIsOfStage
  <2> QED
    BY <2>1, <2>2, AllIdle DEF FilesFollow
<1>4. CASE NewTurn \/ UNCHANGED vars
  <2>1. UNCHANGED store /\ UNCHANGED calls
    BY <1>4 DEF NewTurn, vars
  <2> QED
    BY <2>1, NothingFollows, Stayed DEF FilesFollow
<1>5. CASE OperatorReopens
  <2>1. PICK s, status : state' = Reactivated(s, status)
    BY <1>5 DEF OperatorReopens, Reopen, RepairReopening, Save
  <2>2. UNCHANGED <<artifacts, failure, calls>> /\ StagesStay
    BY <1>5 DEF OperatorReopens, Reopen, RepairReopening, StagesStay
  <2>3. BooksFollow
    <3>1. /\ state'.actions = state.actions /\ state'.reviews = state.reviews
          /\ state'.status = "active"
      BY <1>a, <2>1 DEF Reactivated, StoreInv, StoreTypes, RunState
    <3> QED
      BY <3>1 DEF BooksFollow, Spent
  <2> QED
    BY <2>2, <2>3, Stayed DEF FilesFollow
<1> QED
  BY <1>1, <1>2, <1>3, <1>4, <1>5

\* Reports are delivered from what is there.
LEMMA DeliveredExist ==
    ASSUME IInv, CoherenceInv, [Next]_vars
    PROVE  delivered' \subseteq 1..Latest("final_release")'
<1>m. "final_release" \in Modes
  BY ModesAndStages
<1>1. \A v \in 1..Latest("final_release") : v \in 1..Latest("final_release")'
  <2>1. FilesGrow
    BY EveryStep, StoreStepKeeps DEF IInv
  <2>2. Latest("final_release")' = Len(artifacts'["final_release"])
    BY DEF Latest
  <2> QED
    BY <1>m, <2>1, <2>2 DEF FilesGrow
<1>2. Accepted("final_release")
         => Latest("final_release") \in 1..Latest("final_release")
  BY <1>m, LatestIsNumber DEF Accepted, IInv, StoreInv
<1>3. delivered \subseteq 1..Latest("final_release")
  BY DEF CoherenceInv
<1>4. CASE UNCHANGED delivered
  BY <1>1, <1>3, <1>4
<1>5. CASE /\ delivered' = delivered \cup {Latest("final_release")}
           /\ Accepted("final_release")
  BY <1>1, <1>2, <1>3, <1>5
<1> QED
  BY <1>4, <1>5, OnlyDeliverPublishes

LEMMA CoherenceStep ==
    ASSUME AtMostTwoCalls, IInv, CoherenceInv, [Next]_vars
    PROVE  CoherenceInv'
<1>s. SpentRemains
  BY SpentIsForGood
<1>1. FilesFollow /\ CallsFollow
  <2>1. ASSUME NEW c \in Calls, CallStep(c) \/ HostStep(c)
        PROVE  FilesFollow /\ CallsFollow
    BY <1>s, <2>1, CoherentBegin, CoherentDecide, CoherentExhausted,
       CoherentBeforeSpecialist, CoherentProducerSteps, CoherentReviewerSteps,
       CoherentVerdict, CoherentReportSteps, CoherentHostSteps DEF CallStep
  <2> QED
    BY <1>s, <2>1, CoherentOtherSteps DEF Next
<1>2. RefsAreUpstream' /\ IntegrationsAreCoherent'
  <2>1. StoreInv /\ RefsAreUpstream /\ IntegrationsAreCoherent
    BY DEF IInv, CoherenceInv
  <2> QED
    BY <1>1, <2>1, NothingAdded, CheckpointAdds, IntegrationAdds, ReleaseAdds
       DEF FilesFollow
<1> QED
  BY <1>1, <1>2, DeliveredExist DEF CoherenceInv, CallsFollow

-----------------------------------------------------------------------------
(* The theorems.                                                           *)

\* One or two calls in a response keep every integration coherent.
THEOREM CoherenceInvariance ==
    ASSUME AtMostTwoCalls
    PROVE  Spec => []CoherenceInv
<1>1. Init => CoherenceInv
  <2> SUFFICES ASSUME Init PROVE CoherenceInv
    OBVIOUS
  <2>1. /\ artifacts = [m \in Modes |-> <<>>] /\ failure = NoFailure
        /\ delivered = {} /\ calls = [c \in Calls |-> Idle]
    BY DEF Init, InitStore
  <2>2. \A m \in Modes : Latest(m) = 0
    BY <2>1 DEF Latest
  <2>3. RefsAreUpstream /\ IntegrationsAreCoherent
    BY <2>2, ModesAndStages DEF RefsAreUpstream, IntegrationsAreCoherent
  <2>4. /\ ProducersAreOfStages /\ CallsAreInPlace /\ ReviewsAreSettled
        /\ UndecidedMeansOpen
    BY <2>1 DEF ProducersAreOfStages, CallsAreInPlace, ReviewsAreSettled,
                UndecidedMeansOpen, Reviewing, MayAccept, Idle, Terminal, Act,
                NoFailure
  <2> QED
    BY <2>1, <2>3, <2>4 DEF CoherenceInv
<1>2. IInv /\ CoherenceInv /\ [Next]_vars => CoherenceInv'
  BY CoherenceStep
<1> QED
  BY <1>1, <1>2, Invariance, PTL DEF Spec

\* A delivered report rests on one coherent body of work, when a response
\* has one or two calls: whatever they do at the same time.
THEOREM ReportsAreCoherent ==
    ASSUME AtMostTwoCalls
    PROVE  Spec => []ReportIsCoherent
<1>1. CoherenceInv => ReportIsCoherent
  <2> SUFFICES ASSUME CoherenceInv, NEW v \in delivered,
                      NEW i \in artifacts["final_release"][v].refs
               PROVE  Coherent(artifacts["integration"][i[2]].refs)
    BY DEF ReportIsCoherent
  <2>1. v \in 1..Latest("final_release")
    BY DEF CoherenceInv
  <2>2. i[1] \in MadeFrom("final_release") /\ i[2] \in 1..Latest(i[1])
    BY <2>1, ModesAndStages DEF CoherenceInv, RefsAreUpstream
  <2>3. i[1] = "integration"
    BY <2>2 DEF MadeFrom, STAGE_DEPENDENCIES
  <2> QED
    BY <2>2, <2>3 DEF CoherenceInv, IntegrationsAreCoherent
<1> QED
  BY <1>1, CoherenceInvariance, PTL
=============================================================================
