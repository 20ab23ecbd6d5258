------------------------ MODULE ExperimentSerial_proofs ------------------------
(***************************************************************************)
(* What ExperimentRun promises when calls do not overlap.  As long as only *)
(* one caller executes attempts, every verdict rests on the recorded       *)
(* facts.  When there is one caller, which may die in every call, each     *)
(* attempt is launched once, what is published is consistent and final,    *)
(* and the run keeps its contract.                                         *)
(***************************************************************************)
EXTENDS ExperimentRun_proofs

-----------------------------------------------------------------------------
(* Facts and verdicts, for any number of callers.                          *)

FactLabels == {"execute", "launch", "sandbox", "finished", "charge",
               "store", "settle", "close"}

\* A step of c that changes no facts has to account for c and the record only.
LEMMA FactsAreKept ==
    ASSUME FactsInv, NEW c \in Callers, UNCHANGED facts,
           \A d \in Callers \ {c} : /\ pc'[d] = pc[d] /\ mem'[d] = mem[d]
                                    /\ held'[d] = held[d],
           CallerHasFacts(c)',
           RecordHasFacts', RecordRestsOnFacts'
    PROVE  FactsInv'
<1>1. ASSUME NEW d \in Callers \ {c} PROVE CallerHasFacts(d)'
  BY DEF FactsInv, CallerHasFacts, MayExecute
<1> QED BY <1>1 DEF FactsInv

\* A call that ends, or goes on to where facts do not matter.
LEMMA FactsAreLeft ==
    ASSUME TypeOK, FactsInv, NEW c \in Callers, Leave(c),
           UNCHANGED <<facts, record>>
    PROVE  FactsInv'
<1>1. pc'[c] = "idle" /\ \A d \in Callers \ {c} :
         pc'[d] = pc[d] /\ mem'[d] = mem[d] /\ held'[d] = held[d]
  BY DEF TypeOK, Leave, Goto, Keep, Hold
<1>2. CallerHasFacts(c)' /\ RecordHasFacts' /\ RecordRestsOnFacts'
  BY <1>1 DEF CallerHasFacts, FactsInv, RecordHasFacts, RecordRestsOnFacts
<1> QED BY <1>1, <1>2, FactsAreKept

LEMMA FactsDoNotMatter ==
    ASSUME TypeOK, FactsInv, NEW c \in Callers,
           NEW label \in Labels \ FactLabels, Goto(c, label),
           mem' = mem \/ (\E st : Keep(c, st)),
           held' = held \/ (\E r : Hold(c, r)),
           UNCHANGED facts,
           record' = record \/ record'.basis \in {NoOutcome, "early"}
    PROVE  FactsInv'
<1>1. pc'[c] = label /\ \A d \in Callers \ {c} :
         pc'[d] = pc[d] /\ mem'[d] = mem[d] /\ held'[d] = held[d]
  BY DEF TypeOK, Goto, Keep, Hold
<1>2. CallerHasFacts(c)' /\ RecordHasFacts' /\ RecordRestsOnFacts'
  BY <1>1 DEF CallerHasFacts, FactLabels, FactsInv, RecordHasFacts,
              RecordRestsOnFacts
<1> QED BY <1>1, <1>2, FactsAreKept

\* Only facts that were recorded support a verdict.
LEMMA VerdictsNeedFacts ==
    ASSUME NEW reason \in StopReasons, NEW v \in Verdicts(reason)
    PROVE  reason # "none" /\ v \in Outcomes
BY DEF StopReasons, Verdicts, Outcomes, Scientific

\* execute: the only caller that may be in a sandbox records facts that nobody
\* has recorded.
LEMMA ExecuteKeepsFacts ==
    ASSUME OneExecutor, IInv, FactsInv, NEW c \in Callers, ExecuteStep(c)
    PROVE  FactsInv'
<1>0. /\ TypeOK /\ CallerIsSound(c) /\ CallerHasFacts(c)
      /\ mem[c] \in RunStates
  BY DEF IInv, SafeParts, FactsInv, TypeOK
<1>1. CASE ExecuteBudgetStop(c)
  BY <1>0, <1>1, FactsAreLeft
     DEF ExecuteBudgetStop, BudgetStop, SaveAndLeave, attemptFiles, bundleFiles
<1>2. CASE ExecuteStart(c)
  <2>1. /\ pc[c] = "execute" /\ pc' = [pc EXCEPT ![c] = "launch"]
        /\ held' = held /\ \E st : Keep(c, st)
        /\ UNCHANGED <<facts, record>>
    BY <1>2 DEF ExecuteStart, SaveAndGoto, Goto, attemptFiles, bundleFiles
  <2>2. pc'[c] = "launch" /\ \A d \in Callers \ {c} :
           pc'[d] = pc[d] /\ mem'[d] = mem[d] /\ held'[d] = held[d]
    BY <1>0, <2>1 DEF TypeOK, Keep
  <2>3. CallerHasFacts(c)' /\ RecordHasFacts' /\ RecordRestsOnFacts'
    BY <1>0, <2>1, <2>2 DEF CallerHasFacts, MayExecute, FactsInv,
                            RecordHasFacts, RecordRestsOnFacts
  <2> QED BY <2>1, <2>2, <2>3, FactsAreKept
<1>3. CASE Launch(c)
  <2>1. /\ pc[c] = "launch" /\ pc' = [pc EXCEPT ![c] = "sandbox"]
        /\ facts[mem[c].attempt] = "none"
        /\ UNCHANGED <<facts, record, mem, held>>
    BY <1>3 DEF Launch, MayLaunch, Goto, attemptFiles, bundleFiles
  <2>2. pc'[c] = "sandbox" /\ \A d \in Callers \ {c} : pc'[d] = pc[d]
    BY <1>0, <2>1 DEF TypeOK
  <2>3. CallerHasFacts(c)' /\ RecordHasFacts' /\ RecordRestsOnFacts'
    BY <1>0, <2>1, <2>2 DEF CallerHasFacts, MayExecute, FactsInv,
                            RecordHasFacts, RecordRestsOnFacts
  <2> QED BY <2>1, <2>2, <2>3, FactsAreKept
<1>4. CASE ExecuteFails(c)
  BY <1>0, <1>4, FactsAreLeft
     DEF ExecuteFails, SaveAndLeave, attemptFiles, bundleFiles
<1>5. CASE SandboxEnds(c)
  <2> DEFINE a == mem[c].attempt
  <2>1. /\ pc[c] = "sandbox" /\ pc' = [pc EXCEPT ![c] = "finished"]
        /\ \E reason : facts' = [facts EXCEPT ![a] = reason]
        /\ UNCHANGED <<record, mem, held>>
    BY <1>5 DEF SandboxEnds, Goto, bundleFiles
  <2>2. facts[a] = "none" /\ MayExecute(c)
    BY <1>0, <2>1 DEF CallerHasFacts
  <2>3. ASSUME NEW b \in Attempts, b # a PROVE facts'[b] = facts[b]
    BY <1>0, <2>1, <2>3 DEF TypeOK
  <2>4. ASSUME NEW b \in Attempts, NEW v \in Verdicts(facts[b])
        PROVE  v \in Verdicts(facts'[b])
    <3>1. facts[b] # "none"
      BY <1>0, <2>4, VerdictsNeedFacts DEF TypeOK
    <3> QED BY <2>2, <2>3, <2>4, <3>1
  <2>5. ASSUME NEW d \in Callers \ {c} PROVE CallerHasFacts(d)'
    <3>1. pc'[d] = pc[d] /\ CallerHasFacts(d)
      BY <1>0, <2>1 DEF TypeOK, FactsInv
    <3>2. pc[d] \notin {"execute", "launch", "sandbox", "finished", "charge"}
      BY <2>2, <3>1 DEF OneExecutor, CallerHasFacts
    <3> QED BY <2>1, <2>4, <3>1, <3>2 DEF CallerHasFacts
  <2>6. CallerHasFacts(c)'
    BY <1>0, <2>1, <2>2 DEF CallerHasFacts, MayExecute, TypeOK
  <2>7. RecordHasFacts' /\ RecordRestsOnFacts'
    BY <2>1, <2>4 DEF FactsInv, RecordHasFacts, RecordRestsOnFacts
  <2> QED BY <2>5, <2>6, <2>7 DEF FactsInv
<1>6. CASE ExecuteFinish(c)
  <2>1. /\ pc[c] = "finished" /\ pc' = [pc EXCEPT ![c] = "charge"]
        /\ held' = held /\ \E st : Keep(c, st)
        /\ UNCHANGED <<facts, record>>
    BY <1>6 DEF ExecuteFinish, SaveAndGoto, Goto, attemptFiles, bundleFiles
  <2>2. pc'[c] = "charge" /\ \A d \in Callers \ {c} :
           pc'[d] = pc[d] /\ mem'[d] = mem[d] /\ held'[d] = held[d]
    BY <1>0, <2>1 DEF TypeOK, Keep
  <2>3. CallerHasFacts(c)' /\ RecordHasFacts' /\ RecordRestsOnFacts'
    BY <1>0, <2>1, <2>2 DEF CallerHasFacts, MayExecute, FactsInv,
                            RecordHasFacts, RecordRestsOnFacts
  <2> QED BY <2>1, <2>2, <2>3, FactsAreKept
<1>7. CASE ExecuteCharge(c)
  BY <1>0, <1>7, FactsAreLeft
     DEF ExecuteCharge, SaveAndLeave, attemptFiles, bundleFiles
<1> QED BY <1>1, <1>2, <1>3, <1>4, <1>5, <1>6, <1>7 DEF ExecuteStep

\* verify: the verdict is one of the facts it has just read, and nothing but the
\* target of the stage is changed before it becomes the record.
LEMMA VerifyKeepsFacts ==
    ASSUME IInv, FactsInv, NEW c \in Callers, VerifyStep(c)
    PROVE  FactsInv'
<1>0. /\ TypeOK /\ CallerIsSound(c) /\ CallerHasFacts(c)
      /\ mem[c] \in RunStates /\ held[c] \in Records
  BY DEF IInv, SafeParts, FactsInv, TypeOK
<1>1. CASE VerifyAttempt(c)
  <2>1. PICK v \in Verdicts(facts[mem[c].attempt]) :
           Hold(c, [id |-> 0, attempt |-> mem[c].attempt, outcome |-> v,
                    basis |-> v])
    BY <1>1 DEF VerifyAttempt
  <2>2. /\ pc[c] = "verify" /\ pc' = [pc EXCEPT ![c] = "store"]
        /\ UNCHANGED <<facts, record, mem>>
    BY <1>1 DEF VerifyAttempt, Goto, attemptFiles, bundleFiles
  <2>3. /\ pc'[c] = "store" /\ held'[c].attempt = mem[c].attempt
        /\ held'[c].basis = v
        /\ \A d \in Callers \ {c} : pc'[d] = pc[d] /\ held'[d] = held[d]
    BY <1>0, <2>1, <2>2 DEF TypeOK, Hold
  <2>4. mem[c].attempt \in Attempts
    BY <1>0, <2>2 DEF CallerIsSound, Attempting, RunStates, Attempts
  <2>5. CallerHasFacts(c)' /\ RecordHasFacts' /\ RecordRestsOnFacts'
    BY <2>1, <2>2, <2>3, <2>4 DEF CallerHasFacts, FactsInv, RecordHasFacts,
                                  RecordRestsOnFacts
  <2> QED BY <2>2, <2>3, <2>5, FactsAreKept
<1>2. CASE VerifyRefused(c)
  BY <1>0, <1>2, FactsAreLeft DEF VerifyRefused, Raise, attemptFiles, bundleFiles
<1>3. ASSUME NEW label \in {"settle", "close"}, pc[c] \in {"store", "settle"},
             Goto(c, label), UNCHANGED <<facts, record, mem, held>>
      PROVE  FactsInv'
  <2>1. pc'[c] = label /\ \A d \in Callers \ {c} : pc'[d] = pc[d]
    BY <1>0, <1>3 DEF TypeOK, Goto
  <2>2. CallerHasFacts(c)' /\ RecordHasFacts' /\ RecordRestsOnFacts'
    BY <1>0, <1>3, <2>1 DEF CallerHasFacts, FactsInv, RecordHasFacts,
                            RecordRestsOnFacts
  <2> QED BY <1>3, <2>1, <2>2, FactsAreKept
<1>4. CASE VerifyStore(c) \/ VerifyFreeze(c)
  BY <1>3, <1>4 DEF VerifyStore, VerifyFreeze, attemptFiles, bundleFiles
<1>5. CASE VerifyRepair(c) \/ VerifyTransition(c) \/ VerifyCommit(c)
  <2>1. Leave(c) /\ UNCHANGED <<facts, record>>
    BY <1>5 DEF VerifyRepair, VerifyTransition, VerifyCommit, SaveAndLeave,
                attemptFiles, bundleFiles
  <2> QED BY <1>0, <2>1, FactsAreLeft
<1>6. CASE VerifyAggregate(c)
  <2>1. /\ pc[c] = "close" /\ pc' = [pc EXCEPT ![c] = "verified"]
        /\ record'.basis = held[c].basis /\ record'.attempt = held[c].attempt
        /\ \E r : Hold(c, r)
        /\ \E st : Keep(c, st)
        /\ UNCHANGED facts
    BY <1>0, <1>6 DEF VerifyAggregate, Goto, attemptFiles, Records
  <2>2. pc'[c] = "verified" /\ \A d \in Callers \ {c} :
           pc'[d] = pc[d] /\ mem'[d] = mem[d] /\ held'[d] = held[d]
    BY <1>0, <2>1 DEF TypeOK, Keep, Hold
  <2>3. CallerHasFacts(c)' /\ RecordHasFacts' /\ RecordRestsOnFacts'
    BY <1>0, <2>1, <2>2 DEF CallerHasFacts, RecordHasFacts, RecordRestsOnFacts
  <2> QED BY <2>1, <2>2, <2>3, FactsAreKept
<1> QED BY <1>1, <1>2, <1>4, <1>5, <1>6 DEF VerifyStep

\* The other calls have nothing to do with facts, and their records no verdict.
LEMMA OtherCallsKeepFacts ==
    ASSUME IInv, FactsInv, NEW c \in Callers,
           \/ InspectStep(c) \/ DesignStep(c) \/ PrepareStep(c)
           \/ FinalizeStep(c) \/ InterruptStep(c) \/ StopStep(c)
    PROVE  FactsInv'
<1>0. TypeOK /\ mem[c] \in RunStates /\ held[c] \in Records
  BY DEF IInv, TypeOK
<1>1. CASE InspectStep(c)
  <2>1. CASE SnapshotCopy(c)
    BY <1>0, <2>1, FactsDoNotMatter
       DEF SnapshotCopy, Labels, FactLabels, attemptFiles, bundleFiles
  <2>2. CASE SnapshotWrite(c)
    BY <1>0, <2>2, FactsDoNotMatter
       DEF SnapshotWrite, Labels, FactLabels, attemptFiles, bundleFiles
  <2>3. CASE SnapshotBlocked(c) \/ SnapshotCommit(c)
    BY <1>0, <2>3, FactsAreLeft
       DEF SnapshotBlocked, SnapshotCommit, SaveAndLeave, attemptFiles, bundleFiles
  <2> QED BY <1>1, <2>1, <2>2, <2>3 DEF InspectStep
<1>2. CASE DesignStep(c)
  <2>1. CASE DesignRespond(c)
    BY <1>0, <2>1, FactsDoNotMatter
       DEF DesignRespond, Labels, FactLabels, attemptFiles, bundleFiles
  <2>2. CASE DesignWrite(c)
    BY <1>0, <2>2, FactsDoNotMatter
       DEF DesignWrite, Labels, FactLabels, attemptFiles, bundleFiles
  <2>3. CASE DesignTerminal(c) \/ DesignRefused(c) \/ DesignCommit(c)
    BY <1>0, <2>3, FactsAreLeft
       DEF DesignTerminal, DesignRefused, DesignCommit, SaveAndLeave, Raise,
           attemptFiles, bundleFiles
  <2> QED BY <1>2, <2>1, <2>2, <2>3 DEF DesignStep
<1>3. CASE PrepareStep(c)
  <2>1. CASE PrepareMkdir(c)
    BY <1>0, <2>1, FactsDoNotMatter
       DEF PrepareMkdir, Labels, FactLabels, bundleFiles
  <2>2. CASE PrepareDescribe(c)
    BY <1>0, <2>2, FactsDoNotMatter
       DEF PrepareDescribe, Labels, FactLabels, bundleFiles
  <2>3. CASE PrepareBudgetStop(c) \/ PrepareRefused(c) \/ PrepareCommit(c)
    BY <1>0, <2>3, FactsAreLeft
       DEF PrepareBudgetStop, PrepareRefused, PrepareCommit, BudgetStop,
           SaveAndLeave, Raise, attemptFiles, bundleFiles
  <2> QED BY <1>3, <2>1, <2>2, <2>3 DEF PrepareStep
<1>4. CASE FinalizeStep(c)
  <2>1. CASE FinalizeVerified(c)
    BY <1>0, <2>1, FactsDoNotMatter
       DEF FinalizeVerified, Labels, FactLabels, attemptFiles, bundleFiles
  <2>2. CASE FinalizeEarly(c)
    BY <1>0, <2>2, FactsDoNotMatter
       DEF FinalizeEarly, EarlyRecord, Labels, FactLabels, attemptFiles
  <2>3. CASE FinalizeEarlyCommit(c)
    BY <1>0, <2>3, FactsDoNotMatter
       DEF FinalizeEarlyCommit, SaveAndGoto, Labels, FactLabels, attemptFiles,
           bundleFiles
  <2>4. CASE WriteAudit(c)
    BY <1>0, <2>4, FactsDoNotMatter
       DEF WriteAudit, Labels, FactLabels, attemptFiles
  <2>5. CASE WriteReport(c)
    BY <1>0, <2>5, FactsDoNotMatter
       DEF WriteReport, Labels, FactLabels, attemptFiles
  <2>6. CASE WriteEntry(c)
    BY <1>0, <2>6, FactsDoNotMatter
       DEF WriteEntry, Labels, FactLabels, attemptFiles
  <2>7. CASE FinalizeRecover(c) \/ FinalizeRefused(c) \/ FinalizeCommit(c)
    BY <1>0, <2>7, FactsAreLeft
       DEF FinalizeRecover, FinalizeRefused, FinalizeCommit, SaveAndLeave,
           Raise, attemptFiles, bundleFiles
  <2> QED BY <1>4, <2>1, <2>2, <2>3, <2>4, <2>5, <2>6, <2>7 DEF FinalizeStep
<1>5. CASE InterruptStep(c)
  <2>1. CASE InterruptVerified(c)
    BY <1>0, <2>1, FactsDoNotMatter
       DEF InterruptVerified, Labels, FactLabels, attemptFiles, bundleFiles
  <2>2. CASE InterruptRecord(c)
    BY <1>0, <2>2, FactsDoNotMatter
       DEF InterruptRecord, EarlyRecord, Labels, FactLabels, attemptFiles
  <2>3. CASE InterruptCommit(c)
    BY <1>0, <2>3, FactsDoNotMatter
       DEF InterruptCommit, SaveAndGoto, Labels, FactLabels, attemptFiles,
           bundleFiles
  <2>4. CASE Reload(c)
    BY <1>0, <2>4, FactsDoNotMatter
       DEF Reload, Labels, FactLabels, attemptFiles, bundleFiles
  <2> QED BY <1>5, <2>1, <2>2, <2>3, <2>4 DEF InterruptStep
<1>6. CASE StopStep(c)
  <2>1. CASE StopMark(c)
    BY <1>0, <2>1, FactsDoNotMatter
       DEF StopMark, Labels, FactLabels, attemptFiles, bundleFiles
  <2>2. CASE StopSave(c)
    BY <1>0, <2>2, FactsAreLeft
       DEF StopSave, SaveAndLeave, attemptFiles, bundleFiles
  <2> QED BY <1>6, <2>1, <2>2 DEF StopStep
<1> QED BY <1>1, <1>2, <1>3, <1>4, <1>5, <1>6

\* A call begins where facts do not matter, or with a caller that executes.
LEMMA BeginKeepsFacts ==
    ASSUME IInv, FactsInv, NEW c \in Callers, NEW op \in Operations[c],
           Begin(c, op)
    PROVE  FactsInv'
<1>1. TypeOK /\ op \in AllOperations
  BY ChoicesAssumption DEF IInv
<1>2. /\ pc' = [pc EXCEPT ![c] = op] /\ \E st : Keep(c, st)
      /\ UNCHANGED <<facts, record, held>>
  BY DEF Begin, Goto, attemptFiles, bundleFiles
<1>3. pc'[c] = op /\ \A d \in Callers \ {c} :
         pc'[d] = pc[d] /\ mem'[d] = mem[d] /\ held'[d] = held[d]
  BY <1>1, <1>2 DEF TypeOK, Keep
<1>4. CallerHasFacts(c)' /\ RecordHasFacts' /\ RecordRestsOnFacts'
  BY <1>1, <1>2, <1>3 DEF CallerHasFacts, MayExecute, AllOperations, FactsInv,
                          RecordHasFacts, RecordRestsOnFacts
<1> QED BY <1>2, <1>3, <1>4, FactsAreKept

\* However many processes work on a run, whatever dies and whatever is
\* stopped: as long as one of them executes attempts, each verdict in
\* record.json rests on the facts recorded for its attempt.
THEOREM VerdictsRestOnFacts ==
    ASSUME OneExecutor
    PROVE  Spec => []RecordRestsOnFacts
<1>1. Init => FactsInv
  BY DEF Init, FactsInv, CallerHasFacts, RecordHasFacts, RecordRestsOnFacts,
         NoRecord
<1>2. IInv /\ FactsInv /\ [Next]_vars => FactsInv'
  <2> SUFFICES ASSUME IInv, FactsInv, [Next]_vars PROVE FactsInv'
    OBVIOUS
  <2>1. ASSUME NEW c \in Callers, NEW op \in Operations[c], Begin(c, op)
        PROVE  FactsInv'
    BY <2>1, BeginKeepsFacts
  <2>2. ASSUME NEW c \in Callers, Step(c)
        PROVE  FactsInv'
    BY <2>2, OtherCallsKeepFacts, ExecuteKeepsFacts, VerifyKeepsFacts DEF Step
  <2>3. ASSUME NEW c \in Callers, Die(c)
        PROVE  FactsInv'
    BY <2>3, FactsAreLeft DEF Die, IInv, attemptFiles, bundleFiles
  <2>4. CASE ClockExpires \/ UNCHANGED vars
    BY <2>4 DEF ClockExpires, vars, attemptFiles, bundleFiles, FactsInv,
                CallerHasFacts, RecordHasFacts, RecordRestsOnFacts, MayExecute
  <2> QED BY <2>1, <2>2, <2>3, <2>4 DEF Next
<1>3. FactsInv => RecordRestsOnFacts
  BY DEF FactsInv
<1> QED BY <1>1, <1>2, <1>3, Invariance, PTL DEF Spec

-----------------------------------------------------------------------------
(* One caller.                                                             *)

\* With one caller, what is true of it is true of all.
LEMMA OneIsAll ==
    ASSUME OneCaller, NEW c \in Callers,
           CopyIsCurrent(c)', PhaseIsRight(c)', HeldIsRecord(c)',
           LaunchesAreCharged', BooksAgree', BundleIsConsistent'
    PROVE  SerialInv'
<1>1. ASSUME NEW d \in Callers
      PROVE  CopyIsCurrent(d)' /\ PhaseIsRight(d)' /\ HeldIsRecord(d)'
  <2>1. d = c
    BY DEF OneCaller
  <2> QED BY <2>1
<1> QED BY <1>1 DEF SerialInv

\* Nothing is asked of a call that is over.
LEMMA CallIsOver ==
    ASSUME NEW c \in Callers, pc'[c] = "idle"
    PROVE  CopyIsCurrent(c)' /\ PhaseIsRight(c)' /\ HeldIsRecord(c)'
BY DEF CopyIsCurrent, PhaseIsRight, HeldIsRecord, Rendering

\* The state is saved before a record of it is written, or after a technical
\* failure: no books are closed.
LEMMA StateMovesOn ==
    ASSUME TypeOK, BooksAgree, disk' \in RunStates,
           disk.phase # "report_finalized", disk'.phase # "report_finalized",
           disk.phase = "verification_finished" =>
               disk.outcome = "technical_failure",
           disk'.verified \in {disk.verified, 0},
           UNCHANGED bundleFiles
    PROVE  BooksAgree' /\ BundleIsConsistent'
<1>0. /\ record \in Records /\ entry \in Entries /\ disk \in RunStates
      /\ UNCHANGED <<record, audit, report, entry>>
  BY DEF TypeOK, bundleFiles
<1>1. record # NoRecord /\ disk.verified = record.id => Repairable
  BY DEF BooksAgree, CurrentRecord, Repairable
<1>2. entry # NoEntry /\ entry.record = record.id => Repairable
  <2> SUFFICES ASSUME entry # NoEntry, entry.record = record.id PROVE Repairable
    OBVIOUS
  <2>1. record # NoRecord
    BY <1>0 DEF BooksAgree, NoRecord
  <2> QED BY <1>1, <2>1 DEF BooksAgree
<1>3. /\ disk'.verified <= record.id
      /\ record # NoRecord /\ disk'.verified = record.id => Repairable
  BY <1>0, <1>1 DEF BooksAgree, Records, RunStates
<1>4. BooksAgree'
  BY <1>0, <1>2, <1>3 DEF BooksAgree, Repairable
<1>5. BundleIsConsistent'
  BY DEF BundleIsConsistent
<1> QED BY <1>4, <1>5

\* What only reads the state and the bundle keeps them as they are.
LEMMA BooksAreKept ==
    ASSUME BooksAgree, BundleIsConsistent, UNCHANGED <<disk, bundleFiles>>
    PROVE  BooksAgree' /\ BundleIsConsistent'
BY DEF bundleFiles, BooksAgree, BundleIsConsistent, EntryMatchesBundle,
       CurrentRecord, Repairable

\* Nothing is launched, and no attempt is charged.
LEMMA LaunchesStay ==
    ASSUME OneCaller, TypeOK, LaunchesAreCharged, NEW c \in Callers,
           disk' \in RunStates,
           UNCHANGED launches, disk'.count = disk.count,
           disk'.attempt \in {disk.attempt, 0},
           \/ disk'.phase # "attempt_prepared"
           \/ disk'.phase = disk.phase /\ disk'.attempt = disk.attempt,
           pc'[c] # "launch"
    PROVE  LaunchesAreCharged'
<1>1. ~ \E d \in Callers : pc'[d] = "launch"
  BY DEF OneCaller
<1>2. disk'.attempt <= disk'.count
  BY DEF LaunchesAreCharged, TypeOK, RunStates
<1> QED BY <1>1, <1>2 DEF LaunchesAreCharged

\* A new record is about the current attempt; nothing else is about it yet.
LEMMA RecordIsNew ==
    ASSUME TypeOK, BooksAgree, disk.phase # "report_finalized",
           UNCHANGED <<disk, audit, report, entry>>,
           record' \in Records, record'.id = record.id + 1,
           record'.outcome \in Outcomes
    PROVE  BooksAgree' /\ BundleIsConsistent' /\ record' # NoRecord
<1>0. /\ record \in Records /\ entry \in Entries /\ disk \in RunStates
      /\ record.id \in Nat /\ entry.record \in Nat /\ disk.verified \in Nat
  BY DEF TypeOK, Records, Entries, RunStates
<1>1. record'.id > 0 /\ disk'.verified < record'.id /\ entry'.record < record'.id
  BY <1>0 DEF BooksAgree
<1>2. BooksAgree'
  BY <1>0, <1>1 DEF BooksAgree
<1>3. record' # NoRecord
  BY <1>1 DEF NoRecord
<1> QED BY <1>2, <1>3 DEF BundleIsConsistent

\* The record is verified: state.json has its hash and its outcome.
LEMMA RecordIsVerified ==
    ASSUME TypeOK, BooksAgree, record # NoRecord, record.attempt = disk'.attempt,
           UNCHANGED bundleFiles, disk' \in RunStates,
           disk'.phase = "verification_finished",
           disk'.verified = record.id, disk'.outcome = record.outcome
    PROVE  BooksAgree' /\ BundleIsConsistent' /\ CurrentRecord(disk)'
<1>0. UNCHANGED <<record, audit, report, entry>> /\ record \in Records
  BY DEF bundleFiles, TypeOK
<1>1. CurrentRecord(disk)'
  BY <1>0 DEF CurrentRecord
<1>2. record.id \in Nat
  BY <1>0 DEF Records
<1>3. BooksAgree'
  BY <1>0, <1>1, <1>2 DEF BooksAgree, Repairable
<1> QED BY <1>1, <1>3 DEF BundleIsConsistent

\* The call goes on with what it has, and has written no state and no bundle.
LEMMA CallMoves ==
    ASSUME OneCaller, TypeOK, SerialInv, NEW c \in Callers,
           NEW label, Goto(c, label), label \notin {"launch", "verified", "finalized"},
           pc[c] \notin {"idle", "verified", "finalized"},
           UNCHANGED <<disk, bundleFiles, launches, mem>>,
           PhaseIsRight(c)', HeldIsRecord(c)'
    PROVE  SerialInv'
<1>1. pc'[c] = label
  BY DEF TypeOK, Goto
<1>2. CopyIsCurrent(c)'
  BY <1>1 DEF SerialInv, CopyIsCurrent
<1>3. LaunchesAreCharged'
  BY <1>1, LaunchesStay DEF TypeOK, SerialInv
<1>4. BooksAgree' /\ BundleIsConsistent'
  BY BooksAreKept DEF SerialInv
<1> QED BY <1>2, <1>3, <1>4, OneIsAll

\* The call leaves with nothing saved.
LEMMA CallEndsUnsaved ==
    ASSUME OneCaller, TypeOK, SerialInv, NEW c \in Callers, Leave(c),
           UNCHANGED <<disk, bundleFiles, launches>>
    PROVE  SerialInv'
<1>1. pc'[c] = "idle"
  BY DEF TypeOK, Leave, Goto
<1>2. LaunchesAreCharged'
  BY <1>1, LaunchesStay DEF TypeOK, SerialInv
<1>3. BooksAgree' /\ BundleIsConsistent'
  BY BooksAreKept DEF SerialInv
<1> QED BY <1>1, <1>2, <1>3, CallIsOver, OneIsAll

\* The call ends with the state of a run that goes on.
LEMMA CallEndsSaved ==
    ASSUME OneCaller, TypeOK, SerialInv, NEW c \in Callers,
           NEW st \in RunStates, SaveAndLeave(c, st), UNCHANGED launches,
           disk.phase # "report_finalized", st.phase # "report_finalized",
           disk.phase = "verification_finished" =>
               disk.outcome = "technical_failure",
           st.verified \in {disk.verified, 0}, st.count = disk.count,
           st.attempt \in {disk.attempt, 0},
           \/ st.phase # "attempt_prepared"
           \/ st.phase = disk.phase /\ st.attempt = disk.attempt
    PROVE  SerialInv'
<1>1. pc'[c] = "idle" /\ disk' = st /\ UNCHANGED bundleFiles
  BY DEF TypeOK, SaveAndLeave, Leave, Goto
<1>2. LaunchesAreCharged'
  BY <1>1, LaunchesStay DEF SerialInv
<1>3. BooksAgree' /\ BundleIsConsistent'
  BY <1>1, StateMovesOn DEF SerialInv
<1> QED BY <1>1, <1>2, <1>3, CallIsOver, OneIsAll

\* The same for a new outcome.
LEMMA CallEndsAnnotated ==
    ASSUME OneCaller, TypeOK, SerialInv, NEW c \in Callers,
           NEW o \in Outcomes, mem[c] = disk,
           SaveAndLeave(c, [mem[c] EXCEPT !.outcome = o]), UNCHANGED launches,
           disk.phase # "report_finalized",
           disk.phase = "verification_finished" =>
               disk.outcome = "technical_failure"
    PROVE  SerialInv'
<1> DEFINE st == [disk EXCEPT !.outcome = o]
<1>1. /\ st \in RunStates /\ st.phase = disk.phase /\ st.verified = disk.verified
      /\ st.count = disk.count /\ st.attempt = disk.attempt
  BY DEF TypeOK, RunStates
<1> HIDE DEF st
<1>2. SaveAndLeave(c, st)
  BY DEF st
<1> QED BY <1>1, <1>2, CallEndsSaved

\* inspect_inputs
LEMMA InspectIsSerial ==
    ASSUME OneCaller, IInv, SerialInv, NEW c \in Callers, InspectStep(c)
    PROVE  SerialInv'
<1>0. /\ TypeOK /\ mem[c] = disk /\ disk \in RunStates
      /\ disk.phase \in {"request_bound", "inputs_snapshotted"}
      /\ UNCHANGED launches
  BY DEF IInv, SafeParts, TypeOK, SerialInv, CopyIsCurrent, CallerIsSound,
         Designing, InspectStep, SnapshotCopy, SnapshotWrite, SnapshotBlocked,
         SnapshotCommit, environment
<1>1. ASSUME NEW label \in {"snapshot", "inspected"}, Goto(c, label),
             pc[c] \in {"inspect", "snapshot"},
             UNCHANGED <<disk, bundleFiles, mem>>
      PROVE  SerialInv'
  <2>1. pc'[c] = label
    BY <1>0, <1>1 DEF TypeOK, Goto
  <2>2. PhaseIsRight(c)' /\ HeldIsRecord(c)'
    BY <2>1 DEF PhaseIsRight, HeldIsRecord, Rendering
  <2> QED BY <1>0, <1>1, <2>2, CallMoves
<1>2. CASE SnapshotCopy(c)
  BY <1>1, <1>2 DEF SnapshotCopy
<1>3. CASE SnapshotWrite(c)
  BY <1>1, <1>3 DEF SnapshotWrite
<1>4. CASE SnapshotBlocked(c)
  BY <1>0, <1>4, CallEndsAnnotated DEF SnapshotBlocked, Outcomes
<1>5. CASE SnapshotCommit(c)
  <2> DEFINE st == [disk EXCEPT !.phase = "inputs_snapshotted"]
  <2>1. /\ st \in RunStates /\ st.phase = "inputs_snapshotted"
        /\ st.verified = disk.verified /\ st.count = disk.count
        /\ st.attempt = disk.attempt
    BY <1>0 DEF RunStates, Phases
  <2> HIDE DEF st
  <2>2. SaveAndLeave(c, st)
    BY <1>0, <1>5 DEF SnapshotCommit, st
  <2> QED BY <1>0, <2>1, <2>2, CallEndsSaved
<1> QED BY <1>2, <1>3, <1>4, <1>5 DEF InspectStep

\* validate_and_store_design
LEMMA DesignIsSerial ==
    ASSUME OneCaller, IInv, SerialInv, NEW c \in Callers, DesignStep(c)
    PROVE  SerialInv'
<1>0. /\ TypeOK /\ mem[c] = disk /\ disk \in RunStates
      /\ disk.phase \in {"request_bound", "inputs_snapshotted"}
      /\ UNCHANGED launches
  BY DEF IInv, SafeParts, TypeOK, SerialInv, CopyIsCurrent, CallerIsSound,
         Designing, DesignStep, DesignRespond, DesignTerminal, DesignWrite,
         DesignRefused, DesignCommit, environment, Raise
<1>1. ASSUME NEW label \in {"decide", "validated"}, Goto(c, label),
             pc[c] \in {"design", "decide"},
             UNCHANGED <<disk, bundleFiles, mem>>
      PROVE  SerialInv'
  <2>1. pc'[c] = label
    BY <1>0, <1>1 DEF TypeOK, Goto
  <2>2. PhaseIsRight(c)' /\ HeldIsRecord(c)'
    BY <2>1 DEF PhaseIsRight, HeldIsRecord, Rendering
  <2> QED BY <1>0, <1>1, <2>2, CallMoves
<1>2. CASE DesignRespond(c)
  BY <1>1, <1>2 DEF DesignRespond
<1>3. CASE DesignWrite(c)
  BY <1>1, <1>3 DEF DesignWrite
<1>4. CASE DesignTerminal(c)
  <2>1. PICK o \in Outcomes : SaveAndLeave(c, [mem[c] EXCEPT !.outcome = o])
    BY <1>4 DEF DesignTerminal, Outcomes
  <2> QED BY <1>0, <2>1, CallEndsAnnotated
<1>5. CASE DesignRefused(c)
  BY <1>0, <1>5, CallEndsUnsaved DEF DesignRefused, Raise
<1>6. CASE DesignCommit(c)
  <2> DEFINE st == [disk EXCEPT !.phase = "design_validated", !.stage = 1,
                                !.tries = [s \in Stages |-> 0]]
  <2>1. /\ st \in RunStates /\ st.phase = "design_validated"
        /\ st.verified = disk.verified /\ st.count = disk.count
        /\ st.attempt = disk.attempt
    <3>1. 1 \in 0 .. NumStages /\ 0 \in 0 .. MaxTotalAttempts
      BY BoundsAssumption
    <3> QED BY <1>0, <3>1 DEF RunStates, Phases
  <2> HIDE DEF st
  <2>2. SaveAndLeave(c, st)
    BY <1>0, <1>6 DEF DesignCommit, st
  <2> QED BY <1>0, <2>1, <2>2, CallEndsSaved
<1> QED BY <1>2, <1>3, <1>4, <1>5, <1>6 DEF DesignStep

\* prepare: the number of the attempt it charges was never launched.
LEMMA ChargeIsSerial ==
    ASSUME OneCaller, IInv, SerialInv, NEW c \in Callers, PrepareCommit(c)
    PROVE  SerialInv'
<1> DEFINE st == ChargedState(disk)
<1>0. /\ TypeOK /\ pc[c] = "prepared" /\ mem[c] = disk /\ disk \in RunStates
      /\ Sound(disk) /\ disk.remaining > 0 /\ disk.stage \in Stages
      /\ disk.tries[disk.stage] < MaxStageAttempts
      /\ NextAttempt(disk) \in dirs /\ attemptStage[NextAttempt(disk)] = disk.stage
  BY DEF IInv, SafeParts, TypeOK, SerialInv, CopyIsCurrent, CallerIsSound,
         Preparing, PrepareCommit
<1>1. st \in RunStates
  BY <1>0, ChargedIsSound
<1>2. /\ st.phase = "attempt_prepared" /\ st.attempt = disk.count + 1
      /\ st.count = disk.count + 1 /\ st.verified = disk.verified
  BY <1>0 DEF ChargedState, NextAttempt, RunStates
<1> HIDE DEF st
<1>3. SaveAndLeave(c, st) /\ UNCHANGED launches
  BY <1>0 DEF PrepareCommit, st
<1>4. pc'[c] = "idle" /\ disk' = st /\ UNCHANGED bundleFiles
  BY <1>0, <1>3 DEF TypeOK, SaveAndLeave, Leave, Goto
<1>5. LaunchesAreCharged'
  <2>1. disk.count + 1 \in Attempts
    BY <1>1, <1>2, <1>0 DEF RunStates, Attempts
  <2>2. launches[disk.count + 1] = 0
    BY <1>0, <2>1 DEF SerialInv, LaunchesAreCharged, RunStates
  <2>3. \A a \in Attempts : launches[a] # 0 =>
           launches[a] = 1 /\ a <= disk.count + 1
    BY <1>0 DEF SerialInv, LaunchesAreCharged, RunStates, Attempts
  <2>4. ~ \E d \in Callers : pc'[d] = "launch"
    BY <1>4 DEF OneCaller
  <2>5. disk.count + 1 <= disk.count + 1
    BY <1>0 DEF RunStates
  <2> QED BY <1>2, <1>3, <1>4, <2>2, <2>3, <2>4, <2>5 DEF LaunchesAreCharged
<1>6. disk.phase # "report_finalized" /\
      (disk.phase = "verification_finished" => disk.outcome = "technical_failure")
  BY <1>0 DEF SerialInv, PhaseIsRight, Admits, Admitted
<1>7. BooksAgree' /\ BundleIsConsistent'
  BY <1>0, <1>1, <1>2, <1>4, <1>6, StateMovesOn DEF SerialInv
<1> QED BY <1>4, <1>5, <1>7, CallIsOver, OneIsAll

LEMMA PrepareIsSerial ==
    ASSUME OneCaller, IInv, SerialInv, NEW c \in Callers, PrepareStep(c)
    PROVE  SerialInv'
<1>0. /\ TypeOK /\ mem[c] = disk /\ disk \in RunStates
      /\ pc[c] \in {"prepare", "describe", "prepared"} /\ Admits("prepare", disk)
      /\ UNCHANGED launches
  BY DEF IInv, TypeOK, SerialInv, CopyIsCurrent, PhaseIsRight, PrepareStep,
         PrepareBudgetStop, PrepareRefused, PrepareMkdir, PrepareDescribe,
         PrepareCommit, environment, Raise
<1>1. ASSUME NEW label \in {"describe", "prepared"}, Goto(c, label),
             UNCHANGED <<disk, bundleFiles, mem>>
      PROVE  SerialInv'
  <2>1. pc'[c] = label
    BY <1>0, <1>1 DEF TypeOK, Goto
  <2>2. PhaseIsRight(c)' /\ HeldIsRecord(c)'
    BY <1>0, <1>1, <2>1 DEF PhaseIsRight, HeldIsRecord, Rendering, Admits
  <2> QED BY <1>0, <1>1, <2>2, CallMoves
<1>2. CASE PrepareMkdir(c)
  BY <1>1, <1>2 DEF PrepareMkdir
<1>3. CASE PrepareDescribe(c)
  BY <1>1, <1>3 DEF PrepareDescribe
<1>4. CASE PrepareBudgetStop(c)
  <2>1. disk.phase # "report_finalized" /\
        (disk.phase = "verification_finished" => disk.outcome = "technical_failure")
    BY <1>0 DEF Admits, Admitted
  <2> QED BY <1>0, <1>4, <2>1, CallEndsAnnotated
          DEF PrepareBudgetStop, BudgetStop, Outcomes
<1>5. CASE PrepareRefused(c)
  BY <1>0, <1>5, CallEndsUnsaved DEF PrepareRefused, Raise
<1>6. CASE PrepareCommit(c)
  BY <1>6, ChargeIsSerial
<1> QED BY <1>2, <1>3, <1>4, <1>5, <1>6 DEF PrepareStep

\* execute: the phase is saved before the sandbox starts, so whatever dies, the
\* attempt is not executed again.
LEMMA ExecuteIsSerial ==
    ASSUME OneCaller, IInv, SerialInv, NEW c \in Callers, ExecuteStep(c)
    PROVE  SerialInv'
<1>0. /\ TypeOK /\ mem[c] = disk /\ disk \in RunStates
      /\ CopyIsCurrent(c) /\ PhaseIsRight(c) /\ HeldIsRecord(c)
      /\ LaunchesAreCharged /\ BooksAgree /\ BundleIsConsistent
  BY DEF IInv, TypeOK, SerialInv, CopyIsCurrent, ExecuteStep, ExecuteBudgetStop,
         ExecuteStart, Launch, ExecuteFails, SandboxEnds, ExecuteFinish,
         ExecuteCharge
<1>1. CASE ExecuteBudgetStop(c)
  <2>1. disk.phase = "attempt_prepared" /\ UNCHANGED launches
    BY <1>0, <1>1 DEF ExecuteBudgetStop, PhaseIsRight, environment
  <2> QED BY <1>0, <1>1, <2>1, CallEndsAnnotated
          DEF ExecuteBudgetStop, BudgetStop, Outcomes
<1>2. CASE ExecuteStart(c)
  <2> DEFINE st == [disk EXCEPT !.phase = "execution_started"]
  <2>1. /\ st \in RunStates /\ st.phase = "execution_started"
        /\ st.verified = disk.verified /\ st.count = disk.count
        /\ st.attempt = disk.attempt
    BY <1>0 DEF RunStates, Phases
  <2> HIDE DEF st
  <2>2. SaveAndGoto(c, st, "launch") /\ UNCHANGED launches /\ pc[c] = "execute"
    BY <1>0, <1>2 DEF ExecuteStart, st, environment
  <2>3. /\ pc'[c] = "launch" /\ mem'[c] = st /\ disk' = st
        /\ UNCHANGED bundleFiles
    BY <1>0, <2>2 DEF TypeOK, SaveAndGoto, Goto, Keep
  <2>4. /\ CopyIsCurrent(c)'
        /\ PhaseIsRight(c)' /\ HeldIsRecord(c)'
    BY <2>1, <2>3 DEF CopyIsCurrent, PhaseIsRight, HeldIsRecord, Rendering
  <2>5. LaunchesAreCharged'
    BY <1>0, <2>1, <2>2, <2>3 DEF PhaseIsRight, LaunchesAreCharged
  <2>6. BooksAgree' /\ BundleIsConsistent'
    BY <1>0, <2>1, <2>2, <2>3, StateMovesOn DEF PhaseIsRight
  <2> QED BY <2>4, <2>5, <2>6, OneIsAll
<1>3. CASE Launch(c)
  <2> DEFINE a == disk.attempt
  <2>1. /\ pc[c] = "launch" /\ launches' = [launches EXCEPT ![a] = @ + 1]
        /\ UNCHANGED <<disk, bundleFiles, mem>> /\ pc' = [pc EXCEPT ![c] = "sandbox"]
    BY <1>0, <1>3 DEF Launch, Goto
  <2>2. pc'[c] = "sandbox"
    BY <1>0, <2>1 DEF TypeOK
  <2>3. CopyIsCurrent(c)' /\ PhaseIsRight(c)' /\ HeldIsRecord(c)'
    BY <1>0, <2>1, <2>2 DEF CopyIsCurrent, PhaseIsRight, HeldIsRecord, Rendering
  <2>4. a \in Attempts /\ launches[a] = 0 /\ a <= disk.count
    <3>1. a # 0
      BY <1>0, <2>1 DEF IInv, SafeParts, CallerIsSound, Attempting
    <3> QED BY <1>0, <2>1, <3>1 DEF LaunchesAreCharged, RunStates, Attempts
  <2>5. LaunchesAreCharged'
    <3>1. \A b \in Attempts : launches'[b] # 0 =>
             launches'[b] = 1 /\ b <= disk.count
      BY <1>0, <2>1, <2>4 DEF LaunchesAreCharged, TypeOK
    <3>2. disk.phase = "execution_started"
      BY <1>0, <2>1 DEF PhaseIsRight
    <3>3. ~ \E d \in Callers : pc'[d] = "launch"
      BY <2>2 DEF OneCaller
    <3> QED BY <1>0, <2>1, <3>1, <3>2, <3>3 DEF LaunchesAreCharged
  <2>6. BooksAgree' /\ BundleIsConsistent'
    BY <1>0, <2>1, BooksAreKept
  <2> QED BY <2>3, <2>5, <2>6, OneIsAll
<1>4. CASE ExecuteFails(c)
  <2>1. disk.phase = "execution_started" /\ UNCHANGED launches
    BY <1>0, <1>4 DEF ExecuteFails, PhaseIsRight, environment
  <2> QED BY <1>0, <1>4, <2>1, CallEndsAnnotated DEF ExecuteFails, Outcomes
<1>5. CASE SandboxEnds(c)
  <2>1. /\ pc[c] = "sandbox" /\ Goto(c, "finished")
        /\ UNCHANGED <<disk, bundleFiles, launches, mem>>
    BY <1>5 DEF SandboxEnds
  <2>2. pc'[c] = "finished"
    BY <1>0, <2>1 DEF TypeOK, Goto
  <2>3. PhaseIsRight(c)' /\ HeldIsRecord(c)'
    BY <1>0, <2>1, <2>2 DEF PhaseIsRight, HeldIsRecord, Rendering
  <2> QED BY <1>0, <2>1, <2>3, CallMoves
<1>6. CASE ExecuteFinish(c)
  <2> DEFINE st == [disk EXCEPT !.phase = "execution_finished"]
  <2>1. /\ st \in RunStates /\ st.phase = "execution_finished"
        /\ st.verified = disk.verified /\ st.count = disk.count
        /\ st.attempt = disk.attempt
    BY <1>0 DEF RunStates, Phases
  <2> HIDE DEF st
  <2>2. SaveAndGoto(c, st, "charge") /\ UNCHANGED launches /\ pc[c] = "finished"
    BY <1>0, <1>6 DEF ExecuteFinish, st, environment
  <2>3. /\ pc'[c] = "charge" /\ mem'[c] = st /\ disk' = st
        /\ UNCHANGED bundleFiles
    BY <1>0, <2>2 DEF TypeOK, SaveAndGoto, Goto, Keep
  <2>4. /\ CopyIsCurrent(c)'
        /\ PhaseIsRight(c)' /\ HeldIsRecord(c)'
    BY <2>1, <2>3 DEF CopyIsCurrent, PhaseIsRight, HeldIsRecord, Rendering
  <2>5. LaunchesAreCharged'
    BY <1>0, <2>1, <2>2, <2>3, LaunchesStay
  <2>6. BooksAgree' /\ BundleIsConsistent'
    BY <1>0, <2>1, <2>2, <2>3, StateMovesOn DEF PhaseIsRight
  <2> QED BY <2>4, <2>5, <2>6, OneIsAll
<1>7. CASE ExecuteCharge(c)
  <2>1. /\ disk.phase = "execution_finished" /\ UNCHANGED launches
        /\ SaveAndLeave(c, disk)
    BY <1>0, <1>7 DEF ExecuteCharge, PhaseIsRight, environment
  <2> QED BY <1>0, <2>1, CallEndsSaved
<1> QED BY <1>1, <1>2, <1>3, <1>4, <1>5, <1>6, <1>7 DEF ExecuteStep

\* verify: the record is written once for a verified attempt, and state.json has
\* its hash with the next save.
LEMMA VerifyIsSerial ==
    ASSUME OneCaller, IInv, SerialInv, NEW c \in Callers, VerifyStep(c)
    PROVE  SerialInv'
<1>0. /\ TypeOK /\ disk \in RunStates /\ held[c] \in Records
      /\ CopyIsCurrent(c) /\ PhaseIsRight(c) /\ HeldIsRecord(c)
      /\ LaunchesAreCharged /\ BooksAgree /\ BundleIsConsistent
  BY DEF IInv, TypeOK, SerialInv
<1>a. UNCHANGED launches
  BY DEF VerifyStep, VerifyAttempt, VerifyRefused, VerifyStore, VerifyRepair,
         VerifyFreeze, VerifyTransition, VerifyAggregate, VerifyCommit,
         environment, Raise
<1>b. disk.phase = "execution_finished"
  BY <1>0 DEF VerifyStep, VerifyAttempt, VerifyRefused, VerifyStore,
              VerifyRepair, VerifyFreeze, VerifyTransition, VerifyAggregate,
              VerifyCommit, PhaseIsRight
<1>c. disk' \in RunStates /\ record' \in Records
  BY VerifyIsSafe DEF IInv, TypeOK
<1>1. CASE VerifyAttempt(c)
  <2>1. PICK v \in Verdicts(facts[mem[c].attempt]) :
           Hold(c, [id |-> 0, attempt |-> mem[c].attempt, outcome |-> v,
                    basis |-> v])
    BY <1>1 DEF VerifyAttempt
  <2>2. /\ pc[c] = "verify" /\ Goto(c, "store")
        /\ UNCHANGED <<disk, bundleFiles, mem>>
    BY <1>1 DEF VerifyAttempt
  <2>3. mem[c] = disk /\ disk.attempt \in Attempts
    BY <1>0, <2>2 DEF CopyIsCurrent, IInv, SafeParts, CallerIsSound, Attempting,
                      RunStates, Attempts
  <2>4. v \in Outcomes
    BY <1>0, <2>1, <2>3, VerdictsNeedFacts DEF TypeOK
  <2>5. /\ pc'[c] = "store" /\ held'[c].attempt = disk.attempt
        /\ held'[c].outcome = v
    BY <1>0, <2>1, <2>2, <2>3 DEF TypeOK, Hold, Goto
  <2>6. PhaseIsRight(c)' /\ HeldIsRecord(c)'
    BY <1>b, <2>2, <2>4, <2>5 DEF PhaseIsRight, HeldIsRecord, Rendering
  <2> QED BY <1>0, <1>a, <2>2, <2>6, CallMoves
<1>2. CASE VerifyRefused(c)
  BY <1>0, <1>a, <1>2, CallEndsUnsaved DEF VerifyRefused, Raise
<1>3. ASSUME NEW label \in {"settle", "close"}, pc[c] \in {"store", "settle"},
             Goto(c, label), UNCHANGED <<disk, bundleFiles, mem, held>>
      PROVE  SerialInv'
  <2>1. pc'[c] = label
    BY <1>0, <1>3 DEF TypeOK, Goto
  <2>2. PhaseIsRight(c)' /\ HeldIsRecord(c)'
    BY <1>0, <1>b, <1>3, <2>1 DEF PhaseIsRight, HeldIsRecord, Rendering
  <2> QED BY <1>0, <1>a, <1>3, <2>2, CallMoves
<1>4. CASE VerifyStore(c)
  BY <1>3, <1>4 DEF VerifyStore
<1>5. CASE VerifyFreeze(c)
  BY <1>3, <1>5 DEF VerifyFreeze
<1>6. CASE VerifyRepair(c)
  <2> DEFINE st == [disk EXCEPT !.phase = "verification_finished",
                                !.outcome = "technical_failure"]
  <2>1. mem[c] = disk
    BY <1>0, <1>6 DEF VerifyRepair, CopyIsCurrent
  <2>2. /\ st.phase = "verification_finished" /\ st.verified = disk.verified
        /\ st.count = disk.count /\ st.attempt = disk.attempt
    BY <1>0 DEF RunStates
  <2> HIDE DEF st
  <2>3. SaveAndLeave(c, st)
    BY <1>6, <2>1 DEF VerifyRepair, st
  <2>4. st \in RunStates
    BY <1>c, <2>3 DEF SaveAndLeave
  <2> QED BY <1>0, <1>a, <1>b, <2>2, <2>3, <2>4, CallEndsSaved
<1>7. CASE VerifyTransition(c)
  <2>1. PICK next \in Stages :
           SaveAndLeave(c, [ClosedState(mem[c]) EXCEPT
                               !.phase = "stage_transitioned", !.stage = next,
                               !.attempt = 0, !.outcome = NoOutcome,
                               !.verified = 0])
    BY <1>7 DEF VerifyTransition
  <2> DEFINE st == [ClosedState(disk) EXCEPT
                       !.phase = "stage_transitioned", !.stage = next,
                       !.attempt = 0, !.outcome = NoOutcome, !.verified = 0]
  <2>2. mem[c] = disk
    BY <1>0, <1>7 DEF VerifyTransition, CopyIsCurrent
  <2>3. /\ st.phase = "stage_transitioned" /\ st.verified = 0
        /\ st.count = disk.count /\ st.attempt = 0
    BY <1>0 DEF RunStates, ClosedState
  <2> HIDE DEF st
  <2>4. SaveAndLeave(c, st)
    BY <2>1, <2>2 DEF st
  <2>5. st \in RunStates
    BY <1>c, <2>4 DEF SaveAndLeave
  <2> QED BY <1>0, <1>a, <1>b, <2>3, <2>4, <2>5, CallEndsSaved
<1>8. CASE VerifyAggregate(c)
  <2>1. PICK target \in Outcomes :
           /\ record' = [held[c] EXCEPT !.id = record.id + 1, !.outcome = target]
           /\ Hold(c, record')
    BY <1>8, ChoicesAssumption DEF VerifyAggregate, DirectTerminal, Outcomes
  <2>2. /\ pc[c] = "close" /\ Goto(c, "verified") /\ Keep(c, ClosedState(mem[c]))
        /\ UNCHANGED <<disk, audit, report, entry>>
    BY <1>8 DEF VerifyAggregate
  <2>3. /\ pc'[c] = "verified" /\ held'[c] = record'
        /\ mem'[c] = ClosedState(disk)
    BY <1>0, <2>1, <2>2 DEF TypeOK, Goto, Keep, Hold, CopyIsCurrent
  <2>4. /\ record'.id = record.id + 1 /\ record'.outcome = target
        /\ record'.attempt = disk.attempt
    BY <1>0, <2>1, <2>2 DEF Records, HeldIsRecord
  <2>5. BooksAgree' /\ BundleIsConsistent' /\ record' # NoRecord
    BY <1>0, <1>b, <1>c, <2>2, <2>4, RecordIsNew
  <2>6. CopyIsCurrent(c)' /\ PhaseIsRight(c)' /\ HeldIsRecord(c)'
    BY <1>b, <2>2, <2>3, <2>4, <2>5 DEF CopyIsCurrent, PhaseIsRight,
                                        HeldIsRecord, Rendering, ClosedState
  <2>7. LaunchesAreCharged'
    BY <1>0, <1>a, <2>2, <2>3, LaunchesStay
  <2> QED BY <2>5, <2>6, <2>7, OneIsAll
<1>9. CASE VerifyCommit(c)
  <2>1. /\ pc[c] = "verified" /\ mem[c] = ClosedState(disk) /\ held[c] = record
        /\ record # NoRecord /\ record.attempt = disk.attempt
    BY <1>0, <1>9 DEF VerifyCommit, CopyIsCurrent, HeldIsRecord
  <2>2. /\ pc'[c] = "idle" /\ disk' = RecordedState(ClosedState(disk), record)
        /\ UNCHANGED bundleFiles
    BY <1>0, <1>9, <2>1 DEF VerifyCommit, SaveAndLeave, Leave, Goto, TypeOK
  <2>3. /\ disk'.phase = "verification_finished" /\ disk'.verified = record.id
        /\ disk'.outcome = record.outcome /\ disk'.attempt = disk.attempt
        /\ disk'.count = disk.count
    BY <1>0, <2>2 DEF RecordedState, ClosedState, RunStates
  <2>4. LaunchesAreCharged'
    BY <1>0, <1>a, <1>c, <2>2, <2>3, LaunchesStay
  <2>5. BooksAgree' /\ BundleIsConsistent'
    BY <1>0, <1>c, <2>1, <2>2, <2>3, RecordIsVerified
  <2> QED BY <2>2, <2>4, <2>5, CallIsOver, OneIsAll
<1> QED BY <1>1, <1>2, <1>4, <1>5, <1>6, <1>7, <1>8, <1>9 DEF VerifyStep

\* A record is committed in the middle of a call.
LEMMA CommitIsSerial ==
    ASSUME OneCaller, TypeOK, SerialInv, NEW c \in Callers,
           pc[c] \in {"early", "interrupted"},
           NEW label \in {"audit", "refinalize"},
           label = "audit" => pc[c] = "early",
           SaveAndGoto(c, RecordedState(mem[c], held[c]), label),
           UNCHANGED launches, disk' \in RunStates
    PROVE  SerialInv'
<1>0. /\ CopyIsCurrent(c) /\ PhaseIsRight(c) /\ HeldIsRecord(c)
      /\ LaunchesAreCharged /\ BooksAgree /\ BundleIsConsistent
      /\ disk \in RunStates
  BY DEF SerialInv, TypeOK
<1>1. /\ mem[c] = disk /\ held[c] = record /\ record # NoRecord
      /\ record.attempt = disk.attempt /\ (pc[c] = "early" => entry = NoEntry)
  BY <1>0 DEF CopyIsCurrent, HeldIsRecord
<1>2. /\ pc'[c] = label /\ disk' = RecordedState(disk, record) /\ mem'[c] = disk'
      /\ UNCHANGED <<bundleFiles, held>>
  BY <1>1 DEF TypeOK, SaveAndGoto, Keep, Goto
<1>3. /\ disk'.phase = "verification_finished" /\ disk'.verified = record.id
      /\ disk'.outcome = record.outcome /\ disk'.attempt = disk.attempt
      /\ disk'.count = disk.count
  BY <1>0, <1>2 DEF RecordedState, RunStates
<1>4. BooksAgree' /\ BundleIsConsistent' /\ CurrentRecord(disk)'
  BY <1>0, <1>1, <1>2, <1>3, RecordIsVerified
<1>5. LaunchesAreCharged'
  BY <1>0, <1>2, <1>3, LaunchesStay
<1>6. CopyIsCurrent(c)' /\ PhaseIsRight(c)' /\ HeldIsRecord(c)'
  BY <1>1, <1>2, <1>3, <1>4 DEF CopyIsCurrent, PhaseIsRight, HeldIsRecord,
                                Rendering, bundleFiles
<1> QED BY <1>4, <1>5, <1>6, OneIsAll

\* A record of a run that ends without a verdict is written.
LEMMA EarlyIsSerial ==
    ASSUME OneCaller, TypeOK, SerialInv, NEW c \in Callers,
           pc[c] \in {"finalize", "interrupt"}, NEW o \in Outcomes,
           NEW label \in {"early", "interrupted"},
           label = "early" => entry = NoEntry,
           record' = EarlyRecord(mem[c], o), Hold(c, record'), Goto(c, label),
           UNCHANGED <<disk, audit, report, entry, mem, launches>>
    PROVE  SerialInv'
<1>0. /\ CopyIsCurrent(c) /\ PhaseIsRight(c) /\ HeldIsRecord(c)
      /\ LaunchesAreCharged /\ BooksAgree /\ BundleIsConsistent
      /\ disk \in RunStates
  BY DEF SerialInv, TypeOK
<1>1. mem[c] = disk /\ disk.phase # "report_finalized"
  BY <1>0 DEF CopyIsCurrent, PhaseIsRight
<1>2. /\ record' \in Records /\ record'.id = record.id + 1
      /\ record'.outcome = o /\ record'.attempt = disk.attempt
  BY <1>0, <1>1, EarlyRecordIsTyped DEF EarlyRecord
<1>3. pc'[c] = label /\ held'[c] = record'
  BY DEF TypeOK, Goto, Hold
<1>4. BooksAgree' /\ BundleIsConsistent' /\ record' # NoRecord
  BY <1>0, <1>1, <1>2, RecordIsNew
<1>5. CopyIsCurrent(c)' /\ PhaseIsRight(c)' /\ HeldIsRecord(c)'
  BY <1>1, <1>2, <1>3, <1>4 DEF CopyIsCurrent, PhaseIsRight, HeldIsRecord,
                                Rendering
<1>6. LaunchesAreCharged'
  BY <1>0, <1>3, LaunchesStay
<1> QED BY <1>4, <1>5, <1>6, OneIsAll

\* finalize: the entry is written when all it names has been rendered from the
\* record, and a run that died after that is published as the entry says.
LEMMA FinalizeIsSerial ==
    ASSUME OneCaller, IInv, SerialInv, NEW c \in Callers, FinalizeStep(c)
    PROVE  SerialInv'
<1>0. /\ TypeOK /\ disk \in RunStates /\ record \in Records /\ entry \in Entries
      /\ CopyIsCurrent(c) /\ PhaseIsRight(c) /\ HeldIsRecord(c)
      /\ LaunchesAreCharged /\ BooksAgree /\ BundleIsConsistent
  BY DEF IInv, TypeOK, SerialInv
<1>a. UNCHANGED launches
  BY DEF FinalizeStep, FinalizeRecover, FinalizeRefused, FinalizeVerified,
         FinalizeEarly, FinalizeEarlyCommit, WriteAudit, WriteReport,
         WriteEntry, FinalizeCommit, environment, Raise
<1>b. disk' \in RunStates
  BY FinalizeIsSafe DEF IInv, TypeOK
<1>1. CASE FinalizeRecover(c)
  <2>1. /\ mem[c] = disk /\ entry # NoEntry /\ EntryMatchesBundle(disk)
        /\ disk.phase = "verification_finished"
    BY <1>0, <1>1 DEF FinalizeRecover, CopyIsCurrent, MayRecover
  <2>2. /\ pc'[c] = "idle" /\ UNCHANGED <<record, audit, report, entry>>
        /\ disk' = [disk EXCEPT !.phase = "report_finalized",
                                !.reported = entry.report]
    BY <1>0, <1>1, <2>1 DEF FinalizeRecover, SaveAndLeave, Leave, Goto, TypeOK,
                            bundleFiles
  <2>3. /\ disk'.phase = "report_finalized" /\ disk'.reported = entry.report
        /\ disk'.verified = disk.verified /\ disk'.outcome = disk.outcome
        /\ disk'.attempt = disk.attempt /\ disk'.count = disk.count
    BY <1>0, <2>2 DEF RunStates
  <2>4. LaunchesAreCharged'
    BY <1>0, <1>a, <1>b, <2>2, <2>3, LaunchesStay
  <2>5. BooksAgree'
    BY <1>0, <2>1, <2>2, <2>3 DEF BooksAgree, CurrentRecord, Repairable
  <2>6. record # NoRecord
    BY <1>0, <2>1 DEF BooksAgree, EntryMatchesBundle, NoRecord
  <2>7. BundleIsConsistent'
    BY <1>0, <2>1, <2>2, <2>3, <2>6
       DEF BooksAgree, EntryMatchesBundle, CurrentRecord, Repairable,
           BundleIsConsistent
  <2> QED BY <2>2, <2>4, <2>5, <2>7, CallIsOver, OneIsAll
<1>2. CASE FinalizeRefused(c)
  BY <1>0, <1>a, <1>2, CallEndsUnsaved DEF FinalizeRefused, Raise
<1>3. CASE FinalizeVerified(c)
  <2>1. /\ mem[c] = disk /\ MayRender(disk) /\ disk.phase # "report_finalized"
        /\ pc[c] = "finalize"
    BY <1>0, <1>3 DEF FinalizeVerified, CopyIsCurrent, PhaseIsRight
  <2>2. /\ Goto(c, "audit") /\ Hold(c, record)
        /\ UNCHANGED <<disk, bundleFiles, mem>>
    BY <1>3 DEF FinalizeVerified
  <2>3. pc'[c] = "audit" /\ held'[c] = record
    BY <1>0, <2>2 DEF TypeOK, Goto, Hold
  <2>4. PhaseIsRight(c)' /\ HeldIsRecord(c)'
    BY <2>1, <2>2, <2>3 DEF PhaseIsRight, HeldIsRecord, Rendering, MayRender,
                            CurrentRecord, bundleFiles
  <2> QED BY <1>0, <1>a, <2>1, <2>2, <2>4, CallMoves
<1>4. CASE FinalizeEarly(c)
  <2>1. mem[c].outcome \in Outcomes /\ entry = NoEntry
    BY <1>0, <1>4 DEF FinalizeEarly, MayRecordEarly, TypeOK, RunStates
  <2> QED BY <1>0, <1>a, <1>4, <2>1, EarlyIsSerial DEF FinalizeEarly
<1>5. CASE FinalizeEarlyCommit(c)
  BY <1>0, <1>a, <1>b, <1>5, CommitIsSerial DEF FinalizeEarlyCommit
<1>6. CASE WriteAudit(c)
  <2>1. /\ pc[c] = "audit" /\ audit' = record.id
        /\ UNCHANGED <<disk, record, report, entry, mem, held>>
        /\ entry = NoEntry
    BY <1>0, <1>6 DEF WriteAudit, HeldIsRecord, Rendering
  <2>2. pc'[c] = "report"
    BY <1>0, <1>6 DEF WriteAudit, Goto, TypeOK
  <2>3. CopyIsCurrent(c)' /\ PhaseIsRight(c)' /\ HeldIsRecord(c)'
    BY <1>0, <2>1, <2>2 DEF CopyIsCurrent, PhaseIsRight, HeldIsRecord, Rendering,
                            CurrentRecord
  <2>4. BooksAgree' /\ BundleIsConsistent'
    BY <1>0, <2>1 DEF BooksAgree, BundleIsConsistent, PhaseIsRight, Rendering,
                      CurrentRecord, Repairable
  <2>5. LaunchesAreCharged'
    BY <1>0, <1>a, <2>1, <2>2, LaunchesStay
  <2> QED BY <2>3, <2>4, <2>5, OneIsAll
<1>7. CASE WriteReport(c)
  <2>1. /\ pc[c] = "report" /\ report' = record.id /\ audit = record.id
        /\ UNCHANGED <<disk, record, audit, entry, mem, held>>
        /\ entry = NoEntry
    BY <1>0, <1>7 DEF WriteReport, HeldIsRecord, Rendering
  <2>2. pc'[c] = "entry"
    BY <1>0, <1>7 DEF WriteReport, Goto, TypeOK
  <2>3. CopyIsCurrent(c)' /\ PhaseIsRight(c)' /\ HeldIsRecord(c)'
    BY <1>0, <2>1, <2>2 DEF CopyIsCurrent, PhaseIsRight, HeldIsRecord, Rendering,
                            CurrentRecord
  <2>4. BooksAgree' /\ BundleIsConsistent'
    BY <1>0, <2>1 DEF BooksAgree, BundleIsConsistent, PhaseIsRight, Rendering,
                      CurrentRecord, Repairable
  <2>5. LaunchesAreCharged'
    BY <1>0, <1>a, <2>1, <2>2, LaunchesStay
  <2> QED BY <2>3, <2>4, <2>5, OneIsAll
<1>8. CASE WriteEntry(c)
  <2>1. /\ pc[c] = "entry" /\ held[c] = record /\ record # NoRecord
        /\ audit = record.id /\ report = record.id /\ CurrentRecord(disk)
        /\ disk.phase = "verification_finished" /\ mem[c] = disk
    BY <1>0, <1>8 DEF WriteEntry, HeldIsRecord, Rendering, PhaseIsRight,
                      CopyIsCurrent
  <2>2. /\ entry' = [record |-> record.id, report |-> report, audit |-> audit,
                     outcome |-> record.outcome]
        /\ mem'[c] = [disk EXCEPT !.outcome = record.outcome,
                                  !.reported = report]
        /\ pc'[c] = "finalized"
        /\ UNCHANGED <<disk, record, audit, report, held>>
    BY <1>0, <1>8, <2>1 DEF WriteEntry, Goto, Keep, TypeOK
  <2>3. record.id > 0 /\ record.id \in Nat /\ entry' # NoEntry
    BY <1>0, <2>1, <2>2 DEF BooksAgree, NoEntry, Records
  <2>4. CopyIsCurrent(c)' /\ PhaseIsRight(c)' /\ HeldIsRecord(c)'
    BY <2>1, <2>2, <2>3 DEF CopyIsCurrent, PhaseIsRight, HeldIsRecord, Rendering,
                            CurrentRecord
  <2>5. BooksAgree' /\ BundleIsConsistent'
    BY <1>0, <2>1, <2>2, <2>3 DEF BooksAgree, BundleIsConsistent, CurrentRecord,
                                  Repairable
  <2>6. LaunchesAreCharged'
    BY <1>0, <1>a, <2>2, LaunchesStay
  <2> QED BY <2>4, <2>5, <2>6, OneIsAll
<1>9. CASE FinalizeCommit(c)
  <2>1. /\ pc[c] = "finalized" /\ held[c] = record /\ record # NoRecord
        /\ audit = record.id /\ report = record.id /\ CurrentRecord(disk)
        /\ entry # NoEntry /\ entry.record = record.id
        /\ mem[c] = [disk EXCEPT !.outcome = record.outcome, !.reported = report]
    BY <1>0, <1>9 DEF FinalizeCommit, HeldIsRecord, Rendering, CopyIsCurrent
  <2>2. /\ pc'[c] = "idle" /\ UNCHANGED <<record, audit, report, entry>>
        /\ disk' = [mem[c] EXCEPT !.phase = "report_finalized"]
    BY <1>0, <1>9 DEF FinalizeCommit, SaveAndLeave, Leave, Goto, TypeOK,
                      bundleFiles
  <2>3. /\ disk'.phase = "report_finalized" /\ disk'.reported = report
        /\ disk'.verified = disk.verified /\ disk'.outcome = record.outcome
        /\ disk'.attempt = disk.attempt /\ disk'.count = disk.count
    BY <1>0, <2>1, <2>2 DEF RunStates
  <2>4. LaunchesAreCharged'
    BY <1>0, <1>a, <1>b, <2>2, <2>3, LaunchesStay
  <2>5. BooksAgree' /\ BundleIsConsistent'
    BY <1>0, <2>1, <2>2, <2>3 DEF BooksAgree, BundleIsConsistent, CurrentRecord,
                                  Repairable, EntryMatchesBundle
  <2> QED BY <2>2, <2>4, <2>5, CallIsOver, OneIsAll
<1> QED BY <1>1, <1>2, <1>3, <1>4, <1>5, <1>6, <1>7, <1>8, <1>9 DEF FinalizeStep

\* finalize_interrupted writes a record only of a run that has none.
LEMMA InterruptIsSerial ==
    ASSUME OneCaller, IInv, SerialInv, NEW c \in Callers, InterruptStep(c)
    PROVE  SerialInv'
<1>0. /\ TypeOK /\ disk \in RunStates
      /\ CopyIsCurrent(c) /\ PhaseIsRight(c) /\ HeldIsRecord(c)
      /\ LaunchesAreCharged /\ BooksAgree /\ BundleIsConsistent
  BY DEF IInv, TypeOK, SerialInv
<1>a. UNCHANGED launches
  BY DEF InterruptStep, InterruptVerified, InterruptRecord, InterruptCommit,
         Reload, environment
<1>1. CASE InterruptVerified(c)
  <2>1. /\ pc[c] = "interrupt" /\ Goto(c, "refinalize")
        /\ disk.phase = "verification_finished"
        /\ UNCHANGED <<disk, bundleFiles, mem>>
    BY <1>0, <1>1 DEF InterruptVerified, CopyIsCurrent, GoesToFinalize
  <2>2. pc'[c] = "refinalize"
    BY <1>0, <2>1 DEF TypeOK, Goto
  <2>3. PhaseIsRight(c)' /\ HeldIsRecord(c)'
    BY <2>1, <2>2 DEF PhaseIsRight, HeldIsRecord, Rendering
  <2> QED BY <1>0, <1>a, <2>1, <2>3, CallMoves
<1>2. CASE InterruptRecord(c)
  <2>1. PICK o \in InterruptionOutcomes(mem[c]) : record' = EarlyRecord(mem[c], o)
    BY <1>2 DEF InterruptRecord
  <2>2. o \in Outcomes
    BY <2>1, ChoicesAssumption DEF InterruptionOutcomes, Outcomes
  <2> QED BY <1>0, <1>a, <1>2, <2>1, <2>2, EarlyIsSerial DEF InterruptRecord
<1>3. CASE InterruptCommit(c)
  <2>1. disk' \in RunStates
    BY InterruptIsSafe DEF IInv, TypeOK
  <2> QED BY <1>0, <1>a, <1>3, <2>1, CommitIsSerial DEF InterruptCommit
<1>4. CASE Reload(c)
  <2>1. /\ pc[c] = "refinalize" /\ pc'[c] = "finalize" /\ mem'[c] = disk
        /\ UNCHANGED <<disk, bundleFiles>>
    BY <1>0, <1>4 DEF Reload, Goto, Keep, TypeOK
  <2>2. CopyIsCurrent(c)' /\ PhaseIsRight(c)' /\ HeldIsRecord(c)'
    BY <1>0, <2>1 DEF CopyIsCurrent, PhaseIsRight, HeldIsRecord, Rendering
  <2>3. LaunchesAreCharged'
    BY <1>0, <1>a, <2>1, LaunchesStay
  <2>4. BooksAgree' /\ BundleIsConsistent'
    BY <1>0, <2>1, BooksAreKept
  <2> QED BY <2>2, <2>3, <2>4, OneIsAll
<1> QED BY <1>1, <1>2, <1>3, <1>4 DEF InterruptStep

\* stop adds the request to the state it has read.
LEMMA StopIsSerial ==
    ASSUME OneCaller, IInv, SerialInv, NEW c \in Callers, StopStep(c)
    PROVE  SerialInv'
<1>0. /\ TypeOK /\ disk \in RunStates /\ CopyIsCurrent(c)
      /\ LaunchesAreCharged /\ BooksAgree /\ BundleIsConsistent
  BY DEF IInv, TypeOK, SerialInv
<1>1. CASE StopMark(c)
  <2>1. /\ pc[c] = "stop" /\ Goto(c, "stopped")
        /\ UNCHANGED <<disk, bundleFiles, launches, mem>>
    BY <1>1 DEF StopMark
  <2>2. pc'[c] = "stopped"
    BY <1>0, <2>1 DEF TypeOK, Goto
  <2>3. PhaseIsRight(c)' /\ HeldIsRecord(c)'
    BY <2>2 DEF PhaseIsRight, HeldIsRecord, Rendering
  <2> QED BY <1>0, <2>1, <2>3, CallMoves
<1>2. CASE StopSave(c)
  <2>1. /\ pc'[c] = "idle" /\ UNCHANGED <<launches, record, audit, report, entry>>
        /\ disk' = [disk EXCEPT !.cancel = TRUE]
    BY <1>0, <1>2 DEF StopSave, SaveAndLeave, Leave, Goto, TypeOK, CopyIsCurrent,
                      bundleFiles, environment
  <2>2. /\ disk'.phase = disk.phase /\ disk'.reported = disk.reported
        /\ disk'.verified = disk.verified /\ disk'.outcome = disk.outcome
        /\ disk'.attempt = disk.attempt /\ disk'.count = disk.count
        /\ disk' \in RunStates
    BY <1>0, <2>1 DEF RunStates
  <2>3. LaunchesAreCharged'
    BY <1>0, <2>1, <2>2, LaunchesStay
  <2>4. BooksAgree' /\ BundleIsConsistent'
    BY <1>0, <2>1, <2>2 DEF BooksAgree, BundleIsConsistent, CurrentRecord,
                            Repairable, EntryMatchesBundle
  <2> QED BY <2>1, <2>3, <2>4, CallIsOver, OneIsAll
<1> QED BY <1>1, <1>2 DEF StopStep

\* A call begins with the state as it is.
LEMMA BeginIsSerial ==
    ASSUME OneCaller, IInv, SerialInv, NEW c \in Callers,
           NEW op \in Operations[c], Begin(c, op)
    PROVE  SerialInv'
<1>0. /\ TypeOK /\ op \in AllOperations
      /\ LaunchesAreCharged /\ BooksAgree /\ BundleIsConsistent
  BY ChoicesAssumption DEF IInv, SerialInv
<1>1. /\ pc'[c] = op /\ mem'[c] = disk /\ Admits(op, disk)
      /\ UNCHANGED <<disk, bundleFiles, launches>>
  BY <1>0 DEF Begin, Goto, Keep, TypeOK
<1>2. CopyIsCurrent(c)' /\ PhaseIsRight(c)' /\ HeldIsRecord(c)'
  BY <1>0, <1>1 DEF AllOperations, Admits, Admitted, CopyIsCurrent, PhaseIsRight,
                    HeldIsRecord, Rendering
<1>3. LaunchesAreCharged'
  BY <1>0, <1>1, LaunchesStay DEF AllOperations, TypeOK
<1>4. BooksAgree' /\ BundleIsConsistent'
  BY <1>0, <1>1, BooksAreKept
<1> QED BY <1>2, <1>3, <1>4, OneIsAll

LEMMA InitiallySerial == Init => SerialInv
<1> SUFFICES ASSUME Init PROVE SerialInv
  OBVIOUS
<1>1. \A c \in Callers : CopyIsCurrent(c) /\ PhaseIsRight(c) /\ HeldIsRecord(c)
  BY DEF Init, CopyIsCurrent, PhaseIsRight, HeldIsRecord, Rendering
<1>2. LaunchesAreCharged /\ BooksAgree /\ BundleIsConsistent
  BY DEF Init, InitialState, NoRecord, NoEntry, LaunchesAreCharged, BooksAgree,
         BundleIsConsistent
<1> QED BY <1>1, <1>2 DEF SerialInv

\* Every step of a run with one caller keeps the serial invariant.
LEMMA SerialStep ==
    ASSUME OneCaller, IInv, SerialInv, [Next]_vars
    PROVE  SerialInv'
<1>1. ASSUME NEW c \in Callers, NEW op \in Operations[c], Begin(c, op)
      PROVE  SerialInv'
  BY <1>1, BeginIsSerial
<1>2. ASSUME NEW c \in Callers, Step(c)
      PROVE  SerialInv'
  BY <1>2, InspectIsSerial, DesignIsSerial, PrepareIsSerial, ExecuteIsSerial,
     VerifyIsSerial, FinalizeIsSerial, InterruptIsSerial, StopIsSerial DEF Step
<1>3. ASSUME NEW c \in Callers, Die(c)
      PROVE  SerialInv'
  BY <1>3, CallEndsUnsaved DEF Die, IInv
<1>4. CASE ClockExpires \/ UNCHANGED vars
  <2>1. UNCHANGED <<disk, bundleFiles, launches, pc, mem, held>>
    BY <1>4 DEF ClockExpires, vars, environment
  <2>2. UNCHANGED <<disk, record, audit, report, entry, launches, pc, mem, held>>
    BY <2>1 DEF bundleFiles
  <2>3. ASSUME NEW c \in Callers
        PROVE  CopyIsCurrent(c)' /\ PhaseIsRight(c)' /\ HeldIsRecord(c)'
    <3>1. CopyIsCurrent(c)'
      BY <2>2 DEF SerialInv, CopyIsCurrent
    <3>2. PhaseIsRight(c)'
      BY <2>2 DEF SerialInv, PhaseIsRight, Rendering, Admits
    <3>3. HeldIsRecord(c)'
      BY <2>2 DEF SerialInv, HeldIsRecord, Rendering, CurrentRecord
    <3> QED BY <3>1, <3>2, <3>3
  <2>4. LaunchesAreCharged'
    BY <2>2 DEF SerialInv, LaunchesAreCharged
  <2>5. BooksAgree' /\ BundleIsConsistent'
    BY <2>1, BooksAreKept DEF SerialInv
  <2> QED BY <2>3, <2>4, <2>5 DEF SerialInv
<1> QED BY <1>1, <1>2, <1>3, <1>4 DEF Next

\* With one caller, whatever dies: its copy of state.json is the file, an
\* attempt is launched after it was charged and once, and record, audit, report
\* and entry agree with the state as far as they claim to.
THEOREM SerialInvariance ==
    ASSUME OneCaller
    PROVE  Spec => []SerialInv
<1>1. IInv /\ SerialInv /\ [Next]_vars => SerialInv'
  BY SerialStep
<1> QED BY <1>1, InitiallySerial, Invariance, PTL DEF Spec

\* "each attempt executes at most once", when calls do not overlap.
THEOREM ExecutedOnce ==
    ASSUME OneCaller
    PROVE  Spec => []LaunchedAtMostOnce
<1>1. TypeOK /\ SerialInv => LaunchedAtMostOnce
  <2> SUFFICES ASSUME TypeOK, SerialInv, NEW a \in Attempts
               PROVE  launches[a] <= 1
    BY DEF LaunchedAtMostOnce
  <2> QED BY DEF SerialInv, LaunchesAreCharged, TypeOK
<1> QED BY <1>1, SerialInvariance, TypeCorrectness, PTL

\* A run that is published has a bundle that agrees with its state, and the
\* verified record of its current attempt unless it is a technical failure.
THEOREM BundlesAreConsistent ==
    ASSUME OneCaller
    PROVE  Spec => []BundleIsConsistent
<1>1. SerialInv => BundleIsConsistent
  BY DEF SerialInv
<1> QED BY <1>1, SerialInvariance, PTL

-----------------------------------------------------------------------------
(* The history, for one caller and no stage routed to a technical failure.  *)

NoTechnicalTarget == "technical_failure" \notin TerminalTargets

\* The saves of a call other than verify append nothing to the history, and
\* leave a stage closed once it is closed.
LEMMA HistoryStays ==
    ASSUME OneCaller, HistoryInv, NEW c \in Callers,
           disk'.history = disk.history, UNCHANGED stageRecord,
           disk'.stage = disk.stage \/ disk.history = {},
           disk'.phase \in {"request_bound", "inputs_snapshotted"} =>
               disk.phase \in {"request_bound", "inputs_snapshotted"},
           StageIsClosed => StageIsClosed',
           pc'[c] \notin {"settle", "close", "verified"}
    PROVE  HistoryInv'
<1>1. ASSUME NEW d \in Callers
      PROVE  pc'[d] \notin {"settle", "close", "verified"}
  BY DEF OneCaller
<1>2. \A row \in disk'.history : row[1] < disk'.stage \/ StageIsClosed'
  BY DEF HistoryInv
<1>3. HistoryIsBacked'
  BY DEF HistoryInv, HistoryIsBacked
<1> QED BY <1>1, <1>2, <1>3 DEF HistoryInv

\* A step that writes neither the state nor the record.
LEMMA HistoryIsRead ==
    ASSUME OneCaller, TypeOK, HistoryInv, NEW c \in Callers,
           NEW label, label \notin {"settle", "close", "verified"}, Goto(c, label),
           UNCHANGED <<disk, record, stageRecord>>
    PROVE  HistoryInv'
<1>1. pc'[c] = label
  BY DEF TypeOK, Goto
<1>2. StageIsClosed => StageIsClosed'
  BY DEF StageIsClosed, Repairable
<1> QED BY <1>1, <1>2, HistoryStays

\* Before a stage is closed, calls save what they will.
LEMMA OpenHistoryStays ==
    ASSUME OneCaller, HistoryInv, NEW c \in Callers, ~StageIsClosed,
           pc'[c] \notin {"settle", "close", "verified"},
           NEW st, disk' = st, st.history = disk.history,
           UNCHANGED stageRecord,
           st.stage = disk.stage \/ disk.history = {},
           st.phase \in {"request_bound", "inputs_snapshotted"} =>
               disk.phase \in {"request_bound", "inputs_snapshotted"}
    PROVE  HistoryInv'
BY HistoryStays

\* inspect_inputs and validate_and_store_design come before any history.
LEMMA EarlyCallsKeepHistory ==
    ASSUME OneCaller, IInv, SerialInv, HistoryInv, NEW c \in Callers,
           InspectStep(c) \/ DesignStep(c)
    PROVE  HistoryInv'
<1>0. /\ TypeOK /\ mem[c] = disk /\ disk \in RunStates
      /\ disk.phase \in {"request_bound", "inputs_snapshotted"}
      /\ pc[c] \in {"inspect", "snapshot", "inspected", "design", "decide",
                    "validated"}
  BY DEF IInv, SafeParts, TypeOK, SerialInv, CopyIsCurrent, CallerIsSound,
         Designing, InspectStep, SnapshotCopy, SnapshotWrite, SnapshotBlocked,
         SnapshotCommit, DesignStep, DesignRespond, DesignTerminal,
         DesignWrite, DesignRefused, DesignCommit
<1>1. ~StageIsClosed /\ disk.history = {}
  BY <1>0 DEF StageIsClosed, HistoryInv
<1>2. CASE SnapshotCopy(c) \/ SnapshotWrite(c) \/ DesignRespond(c) \/ DesignWrite(c)
  <2>1. /\ \E label \in {"snapshot", "inspected", "decide", "validated"} :
              Goto(c, label)
        /\ UNCHANGED <<disk, record, stageRecord>>
    BY <1>2 DEF SnapshotCopy, SnapshotWrite, DesignRespond, DesignWrite,
                stageFiles, bundleFiles
  <2> QED BY <1>0, <2>1, HistoryIsRead
<1>3. CASE SnapshotBlocked(c) \/ DesignTerminal(c)
  <2>1. PICK o \in Outcomes : SaveAndLeave(c, [disk EXCEPT !.outcome = o])
    BY <1>0, <1>3 DEF SnapshotBlocked, DesignTerminal, Outcomes
  <2> DEFINE st == [disk EXCEPT !.outcome = o]
  <2>2. pc'[c] = "idle" /\ disk' = st /\ UNCHANGED stageRecord
    BY <1>0, <2>1 DEF SaveAndLeave, Leave, Goto, TypeOK, stageFiles
  <2>3. st.history = disk.history /\ st.stage = disk.stage /\ st.phase = disk.phase
    BY <1>0 DEF RunStates
  <2> HIDE DEF st
  <2> QED BY <1>1, <2>2, <2>3, OpenHistoryStays
<1>4. CASE SnapshotCommit(c) \/ DesignCommit(c)
  <2>1. /\ pc'[c] = "idle" /\ UNCHANGED stageRecord
        /\ disk'.history = disk.history
    BY <1>0, <1>4 DEF SnapshotCommit, DesignCommit, SaveAndLeave, Leave, Goto,
                      TypeOK, stageFiles, RunStates
  <2> QED BY <1>0, <1>1, <2>1, OpenHistoryStays
<1>5. CASE DesignRefused(c)
  <2>1. Goto(c, "idle") /\ UNCHANGED <<disk, record, stageRecord>>
    BY <1>5 DEF DesignRefused, Raise, Leave, stageFiles, bundleFiles
  <2> QED BY <1>0, <2>1, HistoryIsRead
<1> QED BY <1>2, <1>3, <1>4, <1>5 DEF InspectStep, DesignStep

\* prepare and execute belong to a stage that is not closed.
LEMMA AttemptsKeepHistory ==
    ASSUME OneCaller, IInv, SerialInv, HistoryInv, NEW c \in Callers,
           PrepareStep(c) \/ ExecuteStep(c)
    PROVE  HistoryInv'
<1>0. /\ TypeOK /\ mem[c] = disk /\ disk \in RunStates
      /\ pc[c] \in {"prepare", "describe", "prepared", "execute", "launch",
                    "sandbox", "finished", "charge"}
  BY DEF IInv, TypeOK, SerialInv, CopyIsCurrent, PrepareStep,
         PrepareBudgetStop, PrepareRefused, PrepareMkdir, PrepareDescribe,
         PrepareCommit, ExecuteStep, ExecuteBudgetStop, ExecuteStart, Launch,
         ExecuteFails, SandboxEnds, ExecuteFinish, ExecuteCharge
<1>1. ~StageIsClosed /\ disk.phase \notin {"request_bound", "inputs_snapshotted"}
  BY <1>0 DEF SerialInv, PhaseIsRight, Admits, Admitted, StageIsClosed
<1>2. CASE \/ PrepareMkdir(c) \/ PrepareDescribe(c) \/ Launch(c) \/ SandboxEnds(c)
           \/ PrepareRefused(c)
  <2>1. /\ \E label \in {"describe", "prepared", "sandbox", "finished", "idle"} :
              Goto(c, label)
        /\ UNCHANGED <<disk, record, stageRecord>>
    BY <1>2 DEF PrepareMkdir, PrepareDescribe, Launch, SandboxEnds,
                PrepareRefused, Raise, Leave, stageFiles, bundleFiles
  <2> QED BY <1>0, <2>1, HistoryIsRead
<1>3. CASE PrepareBudgetStop(c) \/ ExecuteBudgetStop(c) \/ ExecuteFails(c)
  <2>1. PICK o \in Outcomes : SaveAndLeave(c, [disk EXCEPT !.outcome = o])
    BY <1>0, <1>3 DEF PrepareBudgetStop, ExecuteBudgetStop, BudgetStop,
                      ExecuteFails, Outcomes
  <2> DEFINE st == [disk EXCEPT !.outcome = o]
  <2>2. pc'[c] = "idle" /\ disk' = st /\ UNCHANGED stageRecord
    BY <1>0, <2>1 DEF SaveAndLeave, Leave, Goto, TypeOK, stageFiles
  <2>3. st.history = disk.history /\ st.stage = disk.stage /\ st.phase = disk.phase
    BY <1>0 DEF RunStates
  <2> HIDE DEF st
  <2> QED BY <1>1, <2>2, <2>3, OpenHistoryStays
<1>4. CASE PrepareCommit(c)
  <2> DEFINE st == ChargedState(disk)
  <2>1. pc'[c] = "idle" /\ disk' = st /\ UNCHANGED stageRecord
    BY <1>0, <1>4 DEF PrepareCommit, SaveAndLeave, Leave, Goto, TypeOK, stageFiles
  <2>2. /\ st.history = disk.history /\ st.stage = disk.stage
        /\ st.phase = "attempt_prepared"
    BY <1>0 DEF RunStates, ChargedState
  <2> HIDE DEF st
  <2> QED BY <1>1, <2>1, <2>2, OpenHistoryStays
<1>5. CASE ExecuteStart(c) \/ ExecuteFinish(c) \/ ExecuteCharge(c)
  <2>1. /\ pc'[c] \in {"launch", "charge", "idle"} /\ UNCHANGED stageRecord
        /\ disk'.history = disk.history /\ disk'.stage = disk.stage
        /\ disk'.phase \in {"execution_started", "execution_finished", disk.phase}
    BY <1>0, <1>5 DEF ExecuteStart, ExecuteFinish, ExecuteCharge, SaveAndGoto,
                      SaveAndLeave, Leave, Goto, TypeOK, stageFiles, RunStates
  <2> QED BY <1>1, <2>1, OpenHistoryStays
<1> QED BY <1>2, <1>3, <1>4, <1>5 DEF PrepareStep, ExecuteStep

\* verify: the row it appends is about the attempt the stage record is about,
\* and no record of another attempt is stored for that stage afterwards.
LEMMA VerifyKeepsHistory ==
    ASSUME OneCaller, NoTechnicalTarget, IInv, SerialInv, HistoryInv,
           NEW c \in Callers, VerifyStep(c)
    PROVE  HistoryInv'
<1>0. /\ TypeOK /\ disk \in RunStates /\ held[c] \in Records
      /\ CopyIsCurrent(c) /\ PhaseIsRight(c) /\ HeldIsRecord(c)
  BY DEF IInv, TypeOK, SerialInv
<1>a. disk.phase = "execution_finished"
  BY <1>0 DEF VerifyStep, VerifyAttempt, VerifyRefused, VerifyStore,
              VerifyRepair, VerifyFreeze, VerifyTransition, VerifyAggregate,
              VerifyCommit, PhaseIsRight
<1>b. /\ ~StageIsClosed
      /\ \A row \in disk.history : row[1] < disk.stage
  BY <1>a DEF StageIsClosed, HistoryInv
<1>c. disk.history \subseteq Stages \X Attempts
  BY <1>0 DEF RunStates
<1>d. \A d \in Callers : d = c
  BY DEF OneCaller
<1>1. CASE VerifyAttempt(c) \/ VerifyRefused(c)
  <2>1. /\ \E label \in {"store", "idle"} : Goto(c, label)
        /\ UNCHANGED <<disk, record, stageRecord>>
    BY <1>1 DEF VerifyAttempt, VerifyRefused, Raise, Leave, stageFiles,
                bundleFiles
  <2> QED BY <1>0, <2>1, HistoryIsRead
<1>2. CASE VerifyStore(c)
  <2>1. /\ pc'[c] = "settle" /\ UNCHANGED <<disk, record>>
        /\ stageRecord' = [stageRecord EXCEPT ![disk.stage] = disk.attempt]
    BY <1>0, <1>2 DEF VerifyStore, CopyIsCurrent, Goto, TypeOK, bundleFiles
  <2>2. disk.stage \in Stages
    BY <1>0, <1>2 DEF VerifyStore, CopyIsCurrent, IInv, SafeParts,
                      CallerIsSound, Attempting, Sound
  <2>3. stageRecord'[disk.stage] = disk.attempt
    BY <1>0, <2>1, <2>2 DEF TypeOK
  <2>4. ASSUME NEW row \in disk.history PROVE stageRecord'[row[1]] = row[2]
    <3>1. row[1] \in Stages /\ row[1] # disk.stage
      BY <1>b, <1>c, <2>2, <2>4 DEF Stages
    <3> QED BY <1>0, <2>1, <2>4, <3>1 DEF TypeOK, HistoryInv, HistoryIsBacked
  <2> QED BY <1>a, <1>b, <1>d, <2>1, <2>3, <2>4 DEF HistoryInv, HistoryIsBacked
<1>3. CASE VerifyRepair(c)
  <2> DEFINE st == [disk EXCEPT !.phase = "verification_finished",
                                !.outcome = "technical_failure"]
  <2>1. pc'[c] = "idle" /\ disk' = st /\ UNCHANGED stageRecord
    BY <1>0, <1>3 DEF VerifyRepair, CopyIsCurrent, SaveAndLeave, Leave, Goto,
                      TypeOK, stageFiles
  <2>2. /\ st.history = disk.history /\ st.stage = disk.stage
        /\ st.phase = "verification_finished"
    BY <1>0 DEF RunStates
  <2> HIDE DEF st
  <2> QED BY <1>b, <2>1, <2>2, OpenHistoryStays
<1>4. CASE VerifyFreeze(c)
  <2>1. /\ pc[c] = "settle" /\ pc'[c] = "close"
        /\ UNCHANGED <<disk, record, stageRecord>>
    BY <1>0, <1>4 DEF VerifyFreeze, Goto, TypeOK, bundleFiles
  <2> QED BY <1>a, <1>b, <1>d, <2>1 DEF HistoryInv, HistoryIsBacked
<1>5. ASSUME pc[c] \in {"close", "verified"}, UNCHANGED stageRecord,
             disk'.history = disk.history \cup {<<disk.stage, disk.attempt>>}
      PROVE  HistoryIsBacked'
  <2>1. stageRecord[disk.stage] = disk.attempt
    BY <1>5 DEF HistoryInv
  <2> QED BY <1>5, <2>1 DEF HistoryInv, HistoryIsBacked
<1>6. CASE VerifyTransition(c)
  <2>1. PICK next \in Stages :
           /\ next > mem[c].stage
           /\ SaveAndLeave(c, [ClosedState(mem[c]) EXCEPT
                                  !.phase = "stage_transitioned",
                                  !.stage = next, !.attempt = 0,
                                  !.outcome = NoOutcome, !.verified = 0])
    BY <1>6 DEF VerifyTransition
  <2>2. /\ pc[c] = "close" /\ mem[c] = disk /\ pc'[c] = "idle"
        /\ UNCHANGED stageRecord
        /\ disk' = [ClosedState(disk) EXCEPT
                       !.phase = "stage_transitioned", !.stage = next,
                       !.attempt = 0, !.outcome = NoOutcome, !.verified = 0]
    BY <1>0, <1>6, <2>1 DEF VerifyTransition, CopyIsCurrent, SaveAndLeave,
                            Leave, Goto, TypeOK, stageFiles
  <2>3. /\ disk'.history = disk.history \cup {<<disk.stage, disk.attempt>>}
        /\ disk'.stage = next /\ disk'.phase = "stage_transitioned"
    BY <1>0, <2>2 DEF RunStates, ClosedState
  <2>4. \A row \in disk'.history : row[1] < next
    BY <1>0, <1>b, <1>c, <2>1, <2>2, <2>3 DEF RunStates, Stages
  <2> QED BY <1>5, <1>d, <2>2, <2>3, <2>4 DEF HistoryInv
<1>7. CASE VerifyAggregate(c)
  <2>1. PICK target \in Outcomes \ {"technical_failure"} :
           record' = [held[c] EXCEPT !.id = record.id + 1, !.outcome = target]
    BY <1>7, ChoicesAssumption
       DEF VerifyAggregate, DirectTerminal, NoTechnicalTarget, Outcomes
  <2>2. /\ pc[c] = "close" /\ pc'[c] = "verified"
        /\ UNCHANGED <<disk, stageRecord>>
    BY <1>0, <1>7 DEF VerifyAggregate, Goto, TypeOK, stageFiles
  <2>3. ~Repairable'
    BY <1>0, <2>1 DEF Records, Repairable
  <2> QED BY <1>a, <1>b, <1>d, <2>2, <2>3 DEF HistoryInv, HistoryIsBacked
<1>8. CASE VerifyCommit(c)
  <2>1. /\ pc[c] = "verified" /\ mem[c] = ClosedState(disk) /\ held[c] = record
        /\ record # NoRecord /\ ~Repairable
    BY <1>0, <1>8 DEF VerifyCommit, CopyIsCurrent, HeldIsRecord, HistoryInv
  <2>2. /\ pc'[c] = "idle" /\ UNCHANGED <<record, stageRecord>>
        /\ disk' = RecordedState(ClosedState(disk), record)
    BY <1>0, <1>8, <2>1 DEF VerifyCommit, SaveAndLeave, Leave, Goto, TypeOK,
                            stageFiles, bundleFiles
  <2>3. /\ disk'.history = disk.history \cup {<<disk.stage, disk.attempt>>}
        /\ disk'.phase = "verification_finished"
        /\ disk'.outcome = record.outcome
    BY <1>0, <2>2 DEF RecordedState, ClosedState, RunStates
  <2>4. StageIsClosed'
    BY <2>1, <2>2, <2>3 DEF StageIsClosed, Repairable
  <2> QED BY <1>5, <1>d, <2>1, <2>2, <2>3, <2>4 DEF HistoryInv
<1> QED BY <1>1, <1>2, <1>3, <1>4, <1>6, <1>7, <1>8 DEF VerifyStep

\* A new record is written only while the stage is open.
LEMMA NewRecordKeepsHistory ==
    ASSUME OneCaller, TypeOK, HistoryInv, NEW c \in Callers, ~StageIsClosed,
           NEW label, label \notin {"settle", "close", "verified"}, Goto(c, label),
           UNCHANGED <<disk, stageRecord>>
    PROVE  HistoryInv'
<1>1. pc'[c] = label
  BY DEF TypeOK, Goto
<1> QED BY <1>1, HistoryStays

\* The commit of a record keeps a closed stage closed.
LEMMA CommitKeepsHistory ==
    ASSUME OneCaller, TypeOK, SerialInv, HistoryInv, NEW c \in Callers,
           pc[c] \in {"early", "interrupted"},
           NEW label \in {"audit", "refinalize"},
           SaveAndGoto(c, RecordedState(mem[c], held[c]), label)
    PROVE  HistoryInv'
<1>0. mem[c] = disk /\ held[c] = record /\ disk \in RunStates
  BY DEF SerialInv, CopyIsCurrent, HeldIsRecord, TypeOK
<1>1. /\ pc'[c] = label /\ disk' = RecordedState(disk, record)
      /\ UNCHANGED <<record, stageRecord>>
  BY <1>0 DEF TypeOK, SaveAndGoto, Goto, stageFiles, bundleFiles
<1>2. /\ disk'.phase = "verification_finished" /\ disk'.outcome = record.outcome
      /\ disk'.history = disk.history /\ disk'.stage = disk.stage
  BY <1>0, <1>1 DEF RecordedState, RunStates
<1>3. StageIsClosed => StageIsClosed'
  BY <1>1, <1>2 DEF StageIsClosed, Repairable
<1> QED BY <1>1, <1>2, <1>3, HistoryStays

\* What is rendered and published is the record of the closed stage, and an
\* interrupted run gets its record while its stage is open.
LEMMA PublishingKeepsHistory ==
    ASSUME OneCaller, IInv, SerialInv, HistoryInv, NEW c \in Callers,
           FinalizeStep(c) \/ InterruptStep(c) \/ StopStep(c)
    PROVE  HistoryInv'
<1>0. /\ TypeOK /\ disk \in RunStates
      /\ CopyIsCurrent(c) /\ PhaseIsRight(c) /\ HeldIsRecord(c)
  BY DEF IInv, TypeOK, SerialInv
<1>1. CASE \/ FinalizeRefused(c) \/ FinalizeVerified(c) \/ WriteAudit(c)
           \/ WriteReport(c) \/ WriteEntry(c) \/ InterruptVerified(c) \/ Reload(c)
           \/ StopMark(c)
  <2>1. /\ \E label \in {"idle", "audit", "report", "entry", "finalized",
                         "refinalize", "finalize", "stopped"} : Goto(c, label)
        /\ UNCHANGED <<disk, record, stageRecord>>
    BY <1>1 DEF FinalizeRefused, FinalizeVerified, WriteAudit, WriteReport,
                WriteEntry, InterruptVerified, Reload, StopMark, Raise, Leave,
                stageFiles, bundleFiles
  <2> QED BY <1>0, <2>1, HistoryIsRead
<1>2. CASE FinalizeEarly(c)
  <2>1. ~StageIsClosed
    BY <1>2 DEF FinalizeEarly, MayRecordEarly, StageIsClosed
  <2>2. Goto(c, "early") /\ UNCHANGED <<disk, stageRecord>>
    BY <1>2 DEF FinalizeEarly, stageFiles
  <2> QED BY <1>0, <2>1, <2>2, NewRecordKeepsHistory
<1>3. CASE InterruptRecord(c)
  <2>1. ~StageIsClosed
    BY <1>0, <1>3 DEF InterruptRecord, GoesToFinalize, CopyIsCurrent,
                      PhaseIsRight, StageIsClosed
  <2>2. Goto(c, "interrupted") /\ UNCHANGED <<disk, stageRecord>>
    BY <1>3 DEF InterruptRecord, stageFiles
  <2> QED BY <1>0, <2>1, <2>2, NewRecordKeepsHistory
<1>4. CASE FinalizeEarlyCommit(c) \/ InterruptCommit(c)
  BY <1>0, <1>4, CommitKeepsHistory DEF FinalizeEarlyCommit, InterruptCommit
<1>5. CASE FinalizeRecover(c)
  <2>1. /\ pc'[c] = "idle" /\ UNCHANGED <<record, stageRecord>>
        /\ disk' = [disk EXCEPT !.phase = "report_finalized",
                                !.reported = entry.report]
    BY <1>0, <1>5 DEF FinalizeRecover, CopyIsCurrent, SaveAndLeave, Leave, Goto,
                      TypeOK, stageFiles, bundleFiles
  <2>2. /\ disk'.phase = "report_finalized" /\ disk'.outcome = disk.outcome
        /\ disk'.history = disk.history /\ disk'.stage = disk.stage
    BY <1>0, <2>1 DEF RunStates
  <2>3. StageIsClosed => StageIsClosed'
    BY <2>1, <2>2 DEF StageIsClosed, Repairable
  <2> QED BY <2>1, <2>2, <2>3, HistoryStays
<1>6. CASE FinalizeCommit(c)
  <2>1. /\ pc'[c] = "idle" /\ UNCHANGED <<record, stageRecord>>
        /\ disk' = [[disk EXCEPT !.outcome = record.outcome,
                                 !.reported = report]
                      EXCEPT !.phase = "report_finalized"]
    BY <1>0, <1>6 DEF FinalizeCommit, CopyIsCurrent, HeldIsRecord, Rendering,
                      SaveAndLeave, Leave, Goto, TypeOK, stageFiles, bundleFiles
  <2>2. /\ disk'.phase = "report_finalized" /\ disk'.outcome = record.outcome
        /\ disk'.history = disk.history /\ disk'.stage = disk.stage
    BY <1>0, <2>1 DEF RunStates
  <2>3. StageIsClosed => StageIsClosed'
    BY <2>1, <2>2 DEF StageIsClosed, Repairable
  <2> QED BY <2>1, <2>2, <2>3, HistoryStays
<1>7. CASE StopSave(c)
  <2>1. /\ pc'[c] = "idle" /\ UNCHANGED <<record, stageRecord>>
        /\ disk' = [disk EXCEPT !.cancel = TRUE]
    BY <1>0, <1>7 DEF StopSave, CopyIsCurrent, SaveAndLeave, Leave, Goto,
                      TypeOK, stageFiles, bundleFiles
  <2>2. /\ disk'.phase = disk.phase /\ disk'.outcome = disk.outcome
        /\ disk'.history = disk.history /\ disk'.stage = disk.stage
    BY <1>0, <2>1 DEF RunStates
  <2>3. StageIsClosed => StageIsClosed'
    BY <2>1, <2>2 DEF StageIsClosed, Repairable
  <2> QED BY <2>1, <2>2, <2>3, HistoryStays
<1> QED BY <1>1, <1>2, <1>3, <1>4, <1>5, <1>6, <1>7
        DEF FinalizeStep, InterruptStep, StopStep

LEMMA HistoryStep ==
    ASSUME OneCaller, NoTechnicalTarget, IInv, SerialInv, HistoryInv, [Next]_vars
    PROVE  HistoryInv'
<1>0. TypeOK
  BY DEF IInv
<1>1. ASSUME NEW c \in Callers, NEW op \in Operations[c], Begin(c, op)
      PROVE  HistoryInv'
  <2>1. op \notin {"settle", "close", "verified"}
    BY <1>1, ChoicesAssumption DEF AllOperations
  <2>2. Goto(c, op) /\ UNCHANGED <<disk, record, stageRecord>>
    BY <1>1 DEF Begin, stageFiles, bundleFiles
  <2> QED BY <1>0, <1>1, <2>1, <2>2, HistoryIsRead
<1>2. ASSUME NEW c \in Callers, Step(c)
      PROVE  HistoryInv'
  BY <1>2, EarlyCallsKeepHistory, AttemptsKeepHistory, VerifyKeepsHistory,
     PublishingKeepsHistory DEF Step
<1>3. ASSUME NEW c \in Callers, Die(c)
      PROVE  HistoryInv'
  <2>1. Goto(c, "idle") /\ UNCHANGED <<disk, record, stageRecord>>
    BY <1>3 DEF Die, Leave, stageFiles, bundleFiles
  <2> QED BY <1>0, <1>3, <2>1, HistoryIsRead
<1>4. CASE ClockExpires \/ UNCHANGED vars
  <2>1. UNCHANGED <<disk, record, stageRecord, pc>>
    BY <1>4 DEF ClockExpires, vars, stageFiles, bundleFiles
  <2> QED BY <2>1 DEF HistoryInv, HistoryIsBacked, StageIsClosed, Repairable
<1> QED BY <1>1, <1>2, <1>3, <1>4 DEF Next

\* The history names the attempts the stage records are about, when calls do not
\* overlap and no stage is routed to a technical failure (such a run admits a
\* repair of the stage it has just closed, whose row then points at the record
\* of the repair).
THEOREM HistoryNamesTheEvidence ==
    ASSUME OneCaller, NoTechnicalTarget
    PROVE  Spec => []HistoryIsBacked
<1>1. Init => HistoryInv
  BY DEF Init, InitialState, HistoryInv, HistoryIsBacked
<1>2. IInv /\ SerialInv /\ HistoryInv /\ [Next]_vars => HistoryInv'
  BY HistoryStep
<1>3. HistoryInv => HistoryIsBacked
  BY DEF HistoryInv
<1> QED BY <1>1, <1>2, <1>3, Invariance, SerialInvariance, PTL DEF Spec

-----------------------------------------------------------------------------
(* What is published stays, and the contract, for one caller.              *)

\* Of a finished run nothing is being written but a request to stop.
LEMMA FinishedRunIsLeft ==
    ASSUME IInv, SerialInv, disk.phase = "report_finalized", NEW c \in Callers
    PROVE  pc[c] \in {"idle", "stop", "stopped"}
<1>1. PhaseIsRight(c) /\ CopyIsCurrent(c)
  BY DEF SerialInv
<1>2. pc[c] \notin {"inspect", "snapshot", "inspected", "design", "decide",
                   "validated"}
  BY <1>1 DEF CopyIsCurrent, IInv, SafeParts, CallerIsSound, Designing
<1>3. pc[c] \notin {"prepare", "describe", "prepared", "execute", "launch",
                   "sandbox", "finished", "charge", "verify", "store",
                   "settle", "close", "verified"}
  BY <1>1 DEF PhaseIsRight, Admits, Admitted
<1>4. pc[c] \notin {"finalize", "early", "audit", "report", "entry", "finalized",
                   "interrupt", "interrupted", "refinalize"}
  BY <1>1 DEF PhaseIsRight, Rendering
<1> QED BY <1>2, <1>3, <1>4 DEF IInv, TypeOK, Labels

OnlyStopped ==
    /\ disk' \in {disk, [disk EXCEPT !.cancel = TRUE]}
    /\ UNCHANGED <<bundleFiles, dirs>>

\* A step of a call about a finished run is one of stop.
LEMMA FinishedStep ==
    ASSUME IInv, SerialInv, disk.phase = "report_finalized", [Next]_vars
    PROVE  /\ OnlyStopped
           /\ UNCHANGED disk \/ \E c \in Callers : pc[c] = "stopped"
<1>1. ASSUME NEW c \in Callers, NEW op \in Operations[c], Begin(c, op)
      PROVE  UNCHANGED <<disk, bundleFiles, dirs>>
  BY <1>1 DEF Begin, attemptFiles
<1>2. ASSUME NEW c \in Callers, Step(c)
      PROVE  /\ OnlyStopped
             /\ UNCHANGED disk \/ pc[c] = "stopped"
  <2>1. pc[c] \in {"idle", "stop", "stopped"}
    BY FinishedRunIsLeft
  <2>2. ~InspectStep(c) /\ ~DesignStep(c) /\ ~PrepareStep(c)
    BY <2>1 DEF InspectStep, SnapshotCopy, SnapshotWrite, SnapshotBlocked,
                SnapshotCommit, DesignStep, DesignRespond, DesignTerminal,
                DesignWrite, DesignRefused, DesignCommit, PrepareStep,
                PrepareBudgetStop, PrepareRefused, PrepareMkdir,
                PrepareDescribe, PrepareCommit
  <2>3. ~ExecuteStep(c) /\ ~VerifyStep(c)
    BY <2>1 DEF ExecuteStep, ExecuteBudgetStop, ExecuteStart, Launch,
                ExecuteFails, SandboxEnds, ExecuteFinish, ExecuteCharge,
                VerifyStep, VerifyAttempt, VerifyRefused, VerifyStore,
                VerifyRepair, VerifyFreeze, VerifyTransition,
                VerifyAggregate, VerifyCommit
  <2>4. ~FinalizeStep(c) /\ ~InterruptStep(c)
    BY <2>1 DEF FinalizeStep, FinalizeRecover, FinalizeRefused,
                FinalizeVerified, FinalizeEarly, FinalizeEarlyCommit,
                WriteAudit, WriteReport, WriteEntry, FinalizeCommit,
                InterruptStep, InterruptVerified, InterruptRecord,
                InterruptCommit, Reload
  <2>5. CASE StopMark(c)
    BY <2>5 DEF StopMark, attemptFiles, OnlyStopped
  <2>6. CASE StopSave(c)
    <3>1. mem[c] = disk
      BY <2>6 DEF StopSave, SerialInv, CopyIsCurrent
    <3> QED BY <2>6, <3>1 DEF StopSave, SaveAndLeave, attemptFiles, OnlyStopped
  <2> QED BY <1>2, <2>2, <2>3, <2>4, <2>5, <2>6 DEF Step, StopStep
<1>3. ASSUME NEW c \in Callers, Die(c)
      PROVE  UNCHANGED <<disk, bundleFiles, dirs>>
  BY <1>3 DEF Die, attemptFiles
<1>4. CASE ClockExpires \/ UNCHANGED vars
  <2>1. UNCHANGED <<disk, bundleFiles, dirs>>
    BY <1>4 DEF ClockExpires, vars, attemptFiles
  <2> QED BY <2>1 DEF OnlyStopped
<1> QED BY <1>1, <1>2, <1>3, <1>4 DEF Next, OnlyStopped

\* A finished run is left alone, but for the cancel_requested a stop request
\* still writes into its state.
THEOREM FinishedIsFinal ==
    ASSUME OneCaller
    PROVE  Spec => [][disk.phase = "report_finalized" => OnlyStopped]_vars
<1>1. IInv /\ SerialInv /\ [Next]_vars =>
         [disk.phase = "report_finalized" => OnlyStopped]_vars
  BY FinishedStep
<1> QED BY <1>1, Invariance, SerialInvariance, PTL DEF Spec

\* Only stop goes where a stop request is handled.
NoStop == \A c \in Callers : "stop" \notin Operations[c]
NobodyStops == \A c \in Callers : pc[c] \notin {"stop", "stopped"}

LEMMA CallsDoNotStop ==
    ASSUME OneCaller, TypeOK, NobodyStops, NEW c \in Callers, Step(c)
    PROVE  NobodyStops'
<1>0. pc[c] # "stop" /\ pc[c] # "stopped"
  BY DEF NobodyStops
<1>1. pc'[c] \notin {"stop", "stopped"}
  <2>1. CASE InspectStep(c) \/ DesignStep(c)
    BY <2>1 DEF TypeOK, InspectStep, SnapshotCopy, SnapshotWrite,
                SnapshotBlocked, SnapshotCommit, DesignStep, DesignRespond,
                DesignTerminal, DesignWrite, DesignRefused, DesignCommit,
                SaveAndLeave, Raise, Leave, Goto
  <2>2. CASE PrepareStep(c) \/ ExecuteStep(c)
    BY <2>2 DEF TypeOK, PrepareStep, PrepareBudgetStop, PrepareRefused,
                PrepareMkdir, PrepareDescribe, PrepareCommit, ExecuteStep,
                ExecuteBudgetStop, ExecuteStart, Launch, ExecuteFails,
                SandboxEnds, ExecuteFinish, ExecuteCharge, BudgetStop,
                SaveAndGoto, SaveAndLeave, Raise, Leave, Goto
  <2>3. CASE VerifyStep(c)
    BY <2>3 DEF TypeOK, VerifyStep, VerifyAttempt, VerifyRefused, VerifyStore,
                VerifyRepair, VerifyFreeze, VerifyTransition,
                VerifyAggregate, VerifyCommit, SaveAndLeave, Raise, Leave, Goto
  <2>4. CASE FinalizeStep(c) \/ InterruptStep(c)
    BY <2>4 DEF TypeOK, FinalizeStep, FinalizeRecover, FinalizeRefused,
                FinalizeVerified, FinalizeEarly, FinalizeEarlyCommit,
                WriteAudit, WriteReport, WriteEntry, FinalizeCommit,
                InterruptStep, InterruptVerified, InterruptRecord,
                InterruptCommit, Reload, SaveAndGoto, SaveAndLeave, Raise,
                Leave, Goto
  <2>5. ~StopStep(c)
    BY <1>0 DEF StopStep, StopMark, StopSave
  <2> QED BY <2>1, <2>2, <2>3, <2>4, <2>5 DEF Step
<1> QED BY <1>1 DEF OneCaller, NobodyStops

\* Where no stop is requested, a finished run is frozen.
THEOREM FinishedIsFrozen ==
    ASSUME OneCaller, NoStop
    PROVE  Spec => FinalizedIsFrozen
<1>1. Init => NobodyStops
  BY DEF Init, NobodyStops
<1>2. TypeOK /\ NobodyStops /\ [Next]_vars => NobodyStops'
  <2> SUFFICES ASSUME TypeOK, NobodyStops, [Next]_vars PROVE NobodyStops'
    OBVIOUS
  <2>1. ASSUME NEW c \in Callers, NEW op \in Operations[c], Begin(c, op)
        PROVE  NobodyStops'
    <3>1. op \notin {"stop", "stopped"}
      BY <2>1, ChoicesAssumption DEF NoStop, AllOperations
    <3> QED BY <2>1, <3>1 DEF Begin, Goto, TypeOK, OneCaller, NobodyStops
  <2>2. ASSUME NEW c \in Callers, Step(c)
        PROVE  NobodyStops'
    BY <2>2, CallsDoNotStop
  <2>3. ASSUME NEW c \in Callers, Die(c)
        PROVE  NobodyStops'
    BY <2>3 DEF Die, Leave, Goto, TypeOK, OneCaller, NobodyStops
  <2>4. CASE ClockExpires \/ UNCHANGED vars
    BY <2>4 DEF ClockExpires, vars, NobodyStops
  <2> QED BY <2>1, <2>2, <2>3, <2>4 DEF Next
<1>3. IInv /\ SerialInv /\ NobodyStops /\ [Next]_vars =>
         [disk.phase = "report_finalized"
             => UNCHANGED <<disk, bundleFiles, dirs>>]_vars
  BY FinishedStep DEF NobodyStops, OnlyStopped
<1> QED BY <1>1, <1>2, <1>3, TypeCorrectness, Invariance, SerialInvariance, PTL
        DEF Spec, FinalizedIsFrozen

Published == IF disk.phase = "report_finalized" THEN disk.outcome ELSE NoOutcome

\* A step that charges nothing and does not touch a finished run.
LEMMA NothingIsPromised ==
    ASSUME UNCHANGED disk
           \/ /\ disk.phase # "report_finalized" /\ disk'.phase # "report_finalized"
              /\ disk'.count = disk.count
    PROVE  UNCHANGED <<disk.count, Published>>
BY DEF Published

\* A run is published with the outcome of its record.
LEMMA PublishingIsPromised ==
    ASSUME IInv, SerialInv, NEW c \in Callers,
           FinalizeRecover(c) \/ FinalizeCommit(c)
    PROVE  /\ disk.phase # "report_finalized" /\ disk'.phase = "report_finalized"
           /\ disk'.count = disk.count /\ disk'.outcome \in Outcomes
<1>0. /\ TypeOK /\ disk \in RunStates /\ entry \in Entries /\ record \in Records
      /\ CopyIsCurrent(c) /\ PhaseIsRight(c) /\ HeldIsRecord(c) /\ BooksAgree
  BY DEF IInv, TypeOK, SerialInv
<1>1. CASE FinalizeRecover(c)
  <2>1. /\ entry # NoEntry /\ EntryMatchesBundle(disk)
        /\ disk.phase = "verification_finished"
        /\ disk' = [disk EXCEPT !.phase = "report_finalized",
                                !.reported = entry.report]
    BY <1>0, <1>1 DEF FinalizeRecover, CopyIsCurrent, MayRecover, SaveAndLeave
  <2>2. record # NoRecord
    BY <1>0, <2>1 DEF BooksAgree, EntryMatchesBundle, NoRecord
  <2>3. disk.outcome \in Outcomes
    BY <1>0, <2>1, <2>2 DEF BooksAgree, EntryMatchesBundle
  <2> QED BY <1>0, <2>1, <2>3 DEF RunStates
<1>2. CASE FinalizeCommit(c)
  <2>1. /\ record # NoRecord /\ disk.phase = "verification_finished"
        /\ disk' = [[disk EXCEPT !.outcome = record.outcome, !.reported = report]
                      EXCEPT !.phase = "report_finalized"]
    BY <1>0, <1>2 DEF FinalizeCommit, CopyIsCurrent, PhaseIsRight, HeldIsRecord,
                      Rendering, SaveAndLeave
  <2> QED BY <1>0, <2>1 DEF RunStates, BooksAgree
<1> QED BY <1>1, <1>2

\* Every other save of an unfinished run keeps the count and publishes nothing.
Unpublished ==
    /\ disk'.phase # "report_finalized"
    /\ disk'.count = disk.count

LEMMA OtherSavesPromiseNothing ==
    ASSUME IInv, SerialInv, disk.phase # "report_finalized", NEW c \in Callers,
           Step(c), ~PrepareCommit(c), ~FinalizeRecover(c), ~FinalizeCommit(c)
    PROVE  UNCHANGED disk \/ Unpublished
<1>0. /\ TypeOK /\ disk \in RunStates
      /\ CopyIsCurrent(c) /\ HeldIsRecord(c)
  BY DEF IInv, TypeOK, SerialInv
<1>1. CASE InspectStep(c)
  BY <1>0, <1>1 DEF CopyIsCurrent, InspectStep, SnapshotCopy, SnapshotWrite,
     SnapshotBlocked, SnapshotCommit, SaveAndLeave, RunStates, Unpublished
<1>2. CASE DesignStep(c)
  <2>1. CASE DesignTerminal(c)
    <3>1. PICK o : SaveAndLeave(c, [mem[c] EXCEPT !.outcome = o])
      BY <2>1 DEF DesignTerminal
    <3>2. disk' = [disk EXCEPT !.outcome = o]
      BY <1>0, <2>1, <3>1 DEF DesignTerminal, CopyIsCurrent, SaveAndLeave
    <3> QED BY <1>0, <3>2 DEF RunStates, Unpublished
  <2>2. CASE DesignCommit(c)
    <3>1. disk' = [disk EXCEPT !.phase = "design_validated", !.stage = 1,
                               !.tries = [s \in Stages |-> 0]]
      BY <1>0, <2>2 DEF DesignCommit, CopyIsCurrent, SaveAndLeave
    <3> QED BY <1>0, <3>1 DEF RunStates, Unpublished
  <2>3. CASE DesignRespond(c) \/ DesignWrite(c) \/ DesignRefused(c)
    BY <2>3 DEF DesignRespond, DesignWrite, DesignRefused, Raise
  <2> QED BY <1>2, <2>1, <2>2, <2>3 DEF DesignStep
<1>3. CASE PrepareStep(c)
  BY <1>0, <1>3 DEF CopyIsCurrent, PrepareStep, PrepareBudgetStop,
     PrepareRefused, PrepareMkdir, PrepareDescribe, BudgetStop, Raise,
     SaveAndLeave, RunStates, Unpublished
<1>4. CASE ExecuteStep(c)
  BY <1>0, <1>4 DEF CopyIsCurrent, ExecuteStep, ExecuteBudgetStop,
     ExecuteStart, Launch, ExecuteFails, SandboxEnds, ExecuteFinish,
     ExecuteCharge, BudgetStop, SaveAndGoto, SaveAndLeave, RunStates, Unpublished
<1>5. CASE VerifyStep(c)
  <2>1. CASE VerifyRepair(c)
    BY <1>0, <2>1 DEF CopyIsCurrent, VerifyRepair, SaveAndLeave, RunStates,
       Unpublished
  <2>2. CASE VerifyTransition(c)
    <3>1. PICK next \in Stages :
             disk' = [ClosedState(disk) EXCEPT
                         !.phase = "stage_transitioned", !.stage = next,
                         !.attempt = 0, !.outcome = NoOutcome, !.verified = 0]
      BY <1>0, <2>2 DEF VerifyTransition, CopyIsCurrent, SaveAndLeave
    <3> QED BY <1>0, <3>1 DEF ClosedState, RunStates, Unpublished
  <2>3. CASE VerifyCommit(c)
    BY <1>0, <2>3 DEF CopyIsCurrent, VerifyCommit, ClosedState, RecordedState,
       SaveAndLeave, RunStates, Unpublished
  <2>4. CASE \/ VerifyAttempt(c) \/ VerifyRefused(c) \/ VerifyStore(c)
             \/ VerifyFreeze(c) \/ VerifyAggregate(c)
    BY <2>4 DEF VerifyAttempt, VerifyRefused, VerifyStore, VerifyFreeze,
       VerifyAggregate, Raise
  <2> QED BY <1>5, <2>1, <2>2, <2>3, <2>4 DEF VerifyStep
<1>6. CASE FinalizeEarlyCommit(c) \/ InterruptCommit(c)
  <2>1. disk' = RecordedState(disk, held[c])
    BY <1>0, <1>6 DEF FinalizeEarlyCommit, InterruptCommit, CopyIsCurrent,
                      SaveAndGoto
  <2> QED BY <1>0, <2>1 DEF RecordedState, RunStates, Unpublished
<1>7. CASE \/ FinalizeRefused(c) \/ FinalizeVerified(c) \/ FinalizeEarly(c)
           \/ WriteAudit(c) \/ WriteReport(c) \/ WriteEntry(c)
           \/ InterruptVerified(c) \/ InterruptRecord(c) \/ Reload(c)
  BY <1>7 DEF FinalizeRefused, FinalizeVerified, FinalizeEarly, WriteAudit,
     WriteReport, WriteEntry, InterruptVerified, InterruptRecord, Reload, Raise
<1>8. CASE StopStep(c)
  BY <1>0, <1>8 DEF CopyIsCurrent, StopStep, StopMark, StopSave, SaveAndLeave,
     RunStates, Unpublished
<1> QED BY <1>1, <1>2, <1>3, <1>4, <1>5, <1>6, <1>7, <1>8
        DEF Step, FinalizeStep, InterruptStep

\* The run implements its contract when calls do not overlap: it charges an
\* attempt at a time and none beyond the request, and publishes one outcome
\* and never takes it back, whatever dies and whenever it is stopped.
THEOREM ContractIsKept ==
    ASSUME OneCaller
    PROVE  Spec => KeepsContract
<1>1. ASSUME Init
      PROVE  Contract!ContractInit
  BY <1>1 DEF Init, InitialState, Contract!ContractInit
<1>2. ASSUME IInv, SerialInv, [Next]_vars
      PROVE  [Contract!ContractNext]_(Contract!contract)
  <2> SUFFICES \/ UNCHANGED <<disk.count, Published>>
               \/ Contract!ContractNext
    BY DEF Contract!contract, Published
  <2>0. disk \in RunStates
    BY <1>2 DEF IInv, TypeOK
  <2>1. CASE disk.phase = "report_finalized"
    <3>1. disk' \in {disk, [disk EXCEPT !.cancel = TRUE]}
      BY <1>2, <2>1, FinishedStep DEF OnlyStopped
    <3> QED BY <2>0, <3>1 DEF RunStates, Published
  <2>2. ASSUME disk.phase # "report_finalized", NEW c \in Callers, PrepareCommit(c)
        PROVE  Contract!Charge
    <3>1. mem[c] = disk /\ disk.remaining > 0 /\ Sound(disk)
      BY <1>2, <2>2 DEF PrepareCommit, SerialInv, CopyIsCurrent, IInv,
                        SafeParts, CallerIsSound, Preparing
    <3>2. disk.count < MaxTotalAttempts
      BY <2>0, <3>1, BoundsAssumption DEF Sound, RunStates
    <3>3. disk'.phase = "attempt_prepared" /\ disk'.count = disk.count + 1
      BY <2>0, <2>2, <3>1 DEF PrepareCommit, SaveAndLeave, ChargedState, RunStates
    <3> QED BY <2>2, <3>2, <3>3 DEF Contract!Charge
  <2>3. ASSUME NEW c \in Callers, FinalizeRecover(c) \/ FinalizeCommit(c)
        PROVE  \E outcome \in Outcomes : Contract!Publish(outcome)
    <3>1. /\ disk.phase # "report_finalized" /\ disk'.phase = "report_finalized"
          /\ disk'.count = disk.count /\ disk'.outcome \in Outcomes
      BY <1>2, <2>3, PublishingIsPromised
    <3> QED BY <3>1 DEF Contract!Publish
  <2>4. ASSUME disk.phase # "report_finalized",
               UNCHANGED disk \/ Unpublished
        PROVE  UNCHANGED <<disk.count, Published>>
    BY <2>4, NothingIsPromised DEF Unpublished
  <2>5. CASE disk.phase # "report_finalized"
    <3>1. ASSUME NEW c \in Callers, NEW op \in Operations[c], Begin(c, op)
          PROVE  UNCHANGED disk
      BY <3>1 DEF Begin
    <3>2. ASSUME NEW c \in Callers, Step(c)
          PROVE  \/ UNCHANGED <<disk.count, Published>>
                 \/ Contract!ContractNext
      <4>1. CASE PrepareCommit(c)
        BY <2>2, <2>5, <4>1 DEF Contract!ContractNext
      <4>2. CASE FinalizeRecover(c) \/ FinalizeCommit(c)
        BY <2>3, <4>2 DEF Contract!ContractNext
      <4>3. CASE ~PrepareCommit(c) /\ ~FinalizeRecover(c) /\ ~FinalizeCommit(c)
        BY <1>2, <2>4, <2>5, <3>2, <4>3, OtherSavesPromiseNothing
      <4> QED BY <4>1, <4>2, <4>3
    <3>3. ASSUME NEW c \in Callers, Die(c)
          PROVE  UNCHANGED disk
      BY <3>3 DEF Die
    <3>4. CASE ClockExpires \/ UNCHANGED vars
      <4>1. UNCHANGED disk
        BY <3>4 DEF ClockExpires, vars
      <4> QED BY <2>4, <2>5, <4>1
    <3> QED BY <1>2, <2>4, <2>5, <3>1, <3>2, <3>3, <3>4 DEF Next
  <2> QED BY <2>1, <2>5
<1> QED BY <1>1, <1>2, Invariance, SerialInvariance, PTL
        DEF Spec, KeepsContract, Contract!ContractSpec
=============================================================================
