----------------------- MODULE ExperimentRun_proofs -----------------------
(***************************************************************************)
(* The safety of ExperimentRun for every number of callers, stages,        *)
(* attempts, deaths and stops.  The inductive invariant IInv says of every *)
(* copy of state.json, on disk or in a caller's memory and however stale,  *)
(* that its budget adds up and that the attempt it names is complete; from *)
(* it follow the budgets, the attempt state.json names and the single      *)
(* writer of each attempt.                                                 *)
(***************************************************************************)
EXTENDS ExperimentRun, FiniteSetTheorems, TLAPS

-----------------------------------------------------------------------------
(* The charges of the stages.                                              *)

\* Nothing is charged to a stage that has made no attempt.
LEMMA NoCharges ==
    ASSUME NEW tries, \A s \in Stages : tries[s] = 0
    PROVE  Cardinality(Charges(tries)) = 0
<1>1. Charges(tries) = {}
  BY BoundsAssumption DEF Charges, Attempts
<1> QED BY <1>1, FS_EmptySet

\* The next attempt of a stage is one charge more.
LEMMA OneMoreCharge ==
    ASSUME NEW tries \in [Stages -> 0 .. MaxTotalAttempts], NEW s \in Stages,
           tries[s] + 1 \in Attempts
    PROVE  Cardinality(Charges([tries EXCEPT ![s] = tries[s] + 1]))
              = Cardinality(Charges(tries)) + 1
<1> DEFINE new    == [tries EXCEPT ![s] = tries[s] + 1]
           charge == <<s, tries[s] + 1>>
<1>1. IsFiniteSet(Charges(tries))
  <2>1. IsFiniteSet(Stages) /\ IsFiniteSet(Attempts)
    BY BoundsAssumption, FS_Interval DEF Stages, Attempts
  <2>2. IsFiniteSet(Stages \X Attempts)
    BY <2>1, FS_Product
  <2> QED BY <2>2, FS_Subset DEF Charges
<1>2. charge \notin Charges(tries)
  BY BoundsAssumption DEF Charges
<1>3. Charges(new) = Charges(tries) \cup {charge}
  <2>1. ASSUME NEW p \in Stages \X Attempts
        PROVE  p[2] <= new[p[1]] <=> p[2] <= tries[p[1]] \/ p = charge
    <3>1. p[1] \in Stages /\ p[2] \in Nat /\ p = <<p[1], p[2]>>
      BY BoundsAssumption DEF Attempts
    <3>2. tries[p[1]] \in Nat /\ tries[s] \in Nat
      BY <3>1, BoundsAssumption
    <3>3. CASE p[1] = s
      BY <3>1, <3>2, <3>3
    <3>4. CASE p[1] # s
      BY <3>1, <3>2, <3>4
    <3> QED BY <3>3, <3>4
  <2>2. charge \in Stages \X Attempts
    OBVIOUS
  <2> QED BY <2>1, <2>2 DEF Charges
<1>4. Cardinality(Charges(tries) \cup {charge}) = Cardinality(Charges(tries)) + 1
  BY <1>1, <1>2, FS_AddElement
<1> QED BY <1>3, <1>4

-----------------------------------------------------------------------------
(* The states a call writes.                                               *)

\* The state create_run writes is well formed, and sound in every directory.
LEMMA InitialStateIsSound ==
    InitialState \in RunStates /\ Sound(InitialState)
<1>1. InitialState \in RunStates
  BY BoundsAssumption DEF InitialState, RunStates, Phases, NoOutcome
<1>2. Sound(InitialState)
  BY BoundsAssumption, NoCharges DEF InitialState, Sound
<1> QED BY <1>1, <1>2

\* A new outcome or a cancel request changes nothing another file depends on.
LEMMA AnnotatedIsSound ==
    ASSUME NEW st \in RunStates, Sound(st)
    PROVE  /\ \A o \in Outcomes :
                 /\ [st EXCEPT !.outcome = o] \in RunStates
                 /\ Sound([st EXCEPT !.outcome = o])
           /\ [st EXCEPT !.cancel = TRUE] \in RunStates
           /\ Sound([st EXCEPT !.cancel = TRUE])
<1>1. ASSUME NEW o \in Outcomes
      PROVE  /\ [st EXCEPT !.outcome = o] \in RunStates
             /\ Sound([st EXCEPT !.outcome = o])
  BY DEF RunStates, Sound
<1>2. [st EXCEPT !.cancel = TRUE] \in RunStates
  BY DEF RunStates
<1>3. Sound([st EXCEPT !.cancel = TRUE])
  BY DEF RunStates, Sound
<1> QED BY <1>1, <1>2, <1>3

\* Charging an attempt that is complete on disk keeps the account exact.
LEMMA ChargedIsSound ==
    ASSUME NEW st \in RunStates, Sound(st), st.remaining > 0,
           st.stage \in Stages, st.tries[st.stage] < MaxStageAttempts,
           NextAttempt(st) \in dirs, 
           attemptStage[NextAttempt(st)] = st.stage
    PROVE  ChargedState(st) \in RunStates /\ Sound(ChargedState(st))
<1> DEFINE new == ChargedState(st)
<1>0. /\ st.count \in Nat /\ st.remaining \in Nat
      /\ st.count + st.remaining = MaxTotalAttempts
      /\ st.tries \in [Stages -> 0 .. MaxTotalAttempts]
  BY DEF RunStates, Sound
<1>1. /\ st.count + 1 \in 0 .. MaxTotalAttempts
      /\ st.remaining - 1 \in 0 .. MaxTotalAttempts
  BY <1>0, BoundsAssumption
<1>2. st.tries[st.stage] + 1 \in 0 .. MaxTotalAttempts
  BY <1>0, <1>1, BoundsAssumption DEF Sound
<1>3. new.tries = [st.tries EXCEPT ![st.stage] = st.tries[st.stage] + 1]
  BY DEF ChargedState, RunStates
<1>4. new.tries \in [Stages -> 0 .. MaxTotalAttempts]
  BY <1>0, <1>2, <1>3
<1>5. new \in RunStates
  BY <1>1, <1>4 DEF RunStates, ChargedState, NextAttempt, NoOutcome, Phases
<1>6. \A s \in Stages : /\ new.tries[s] <= MaxStageAttempts
                        /\ new.tries[s] <= st.count + 1
  BY <1>0, <1>3, BoundsAssumption DEF Sound
<1>c. Cardinality(Charges(new.tries)) = st.count + 1
  <2>1. st.tries[st.stage] + 1 \in Attempts
    BY <1>0, <1>2, BoundsAssumption DEF Attempts
  <2> QED BY <1>0, <1>3, <2>1, OneMoreCharge DEF Sound
<1>7. Sound(new)
  BY <1>0, <1>1, <1>6, <1>c DEF Sound, ChargedState, NextAttempt, RunStates
<1> QED BY <1>5, <1>7

\* Recording an outcome keeps the attempt the state names.
LEMMA RecordedIsSound ==
    ASSUME NEW st \in RunStates, Sound(st), NEW r \in Records
    PROVE  RecordedState(st, r) \in RunStates /\ Sound(RecordedState(st, r))
<1>1. RecordedState(st, r) \in RunStates
  BY DEF RunStates, RecordedState, Records, Phases
<1>2. Sound(RecordedState(st, r))
  BY DEF RunStates, Sound, RecordedState
<1> QED BY <1>1, <1>2

-----------------------------------------------------------------------------
(* What a caller does not disturb, and how a call ends or goes on.         *)

\* A step of c that writes neither a directory nor an attempt.json disturbs
\* no other caller.
LEMMA OneCallerMoves ==
    ASSUME SafeParts, NEW c \in Callers,
           UNCHANGED <<dirs, attemptStage>>,
           \A d \in Callers \ {c} : pc'[d] = pc[d] /\ mem'[d] = mem[d],
           Sound(disk)', CallerIsSound(c)', ~Preparing(c)'
    PROVE  SafeParts'
<1>1. \A d \in Callers : CallerIsSound(d)'
  <2> SUFFICES ASSUME NEW d \in Callers \ {c} PROVE CallerIsSound(d)'
    OBVIOUS
  <2>1. CallerIsSound(d) /\ pc'[d] = pc[d] /\ mem'[d] = mem[d]
    BY DEF SafeParts
  <2> QED BY <2>1 DEF CallerIsSound, Sound, Designing, Attempting, Preparing,
                      NextAttempt
<1>2. DescribedExists' /\ OneWriterPerAttempt'
  BY DEF SafeParts, DescribedExists, OneWriterPerAttempt, Preparing
<1> QED BY <1>1, <1>2 DEF SafeParts

\* A call that ends leaves a sound state behind.
LEMMA CallEnds ==
    ASSUME TypeOK, SafeParts, NEW c \in Callers, Leave(c),
           UNCHANGED <<dirs, attemptStage>>, Sound(disk')
    PROVE  SafeParts'
<1>1. pc'[c] = "idle" /\ mem'[c] = InitialState
  BY DEF TypeOK, Leave, Goto, Keep
<1>2. Sound(disk)' /\ Sound(InitialState)'
  BY InitialStateIsSound DEF Sound
<1>3. CallerIsSound(c)' /\ ~Preparing(c)'
  BY <1>1, <1>2 DEF CallerIsSound, Sound, Designing, Attempting, Preparing
<1>4. \A d \in Callers \ {c} : pc'[d] = pc[d] /\ mem'[d] = mem[d]
  BY DEF TypeOK, Leave, Goto, Keep
<1> QED BY <1>2, <1>3, <1>4, OneCallerMoves

\* A call that goes on with a sound copy, and not to a label of prepare.
LEMMA CallContinues ==
    ASSUME TypeOK, SafeParts, NEW c \in Callers, NEW label, NEW st,
           Goto(c, label), Keep(c, st) , UNCHANGED <<dirs, attemptStage>>, 
           Sound(disk'), Sound(st),
           label \notin {"describe", "prepared"},
           label \in {"inspect", "snapshot", "inspected", "design", "decide",
                      "validated"}
              => st.phase \in {"request_bound", "inputs_snapshotted"},
           label \in {"execute", "launch", "sandbox", "finished", "charge",
                      "verify", "store", "settle", "close", "verified"}
              => st.attempt # 0
    PROVE  SafeParts'
<1>1. pc'[c] = label /\ mem'[c] = st
  BY DEF TypeOK, Goto, Keep
<1>2. Sound(disk)' /\ Sound(st)'
  BY DEF Sound
<1>3. CallerIsSound(c)' /\ ~Preparing(c)'
  BY <1>1, <1>2 DEF CallerIsSound, Sound, Designing, Attempting, Preparing
<1>4. \A d \in Callers \ {c} : pc'[d] = pc[d] /\ mem'[d] = mem[d]
  BY DEF TypeOK, Goto, Keep
<1> QED BY <1>2, <1>3, <1>4, OneCallerMoves

\* The call of c stays at its state and goes to another label.
LEMMA CallGoesOn ==
    ASSUME TypeOK, SafeParts, NEW c \in Callers, NEW label,
           Goto(c, label), UNCHANGED <<mem, disk, dirs, attemptStage>>,
           label \notin {"describe", "prepared"},
           label \in {"inspect", "snapshot", "inspected", "design", "decide",
                      "validated"} => Designing(c),
           label \in {"execute", "launch", "sandbox", "finished", "charge",
                      "verify", "store", "settle", "close", "verified"}
              => Attempting(c)
    PROVE  SafeParts'
<1>1. Keep(c, mem[c])
  BY DEF TypeOK, Keep
<1>2. Sound(disk') /\ CallerIsSound(c)
  BY DEF SafeParts
<1>3. /\ Sound(mem[c])
      /\ Designing(c) =>
            mem[c].phase \in {"request_bound", "inputs_snapshotted"}
      /\ Attempting(c) => mem[c].attempt # 0
  BY <1>2 DEF CallerIsSound
<1> HIDE DEF SafeParts
<1> QED BY <1>1, <1>2, <1>3, CallContinues

\* What a call that ends leaves in memory is well formed.
LEMMA LeaveIsTyped ==
    ASSUME TypeOK, NEW c \in Callers, Leave(c)
    PROVE  /\ pc' \in [Callers -> Labels]
           /\ mem' \in [Callers -> RunStates]
           /\ held' \in [Callers -> Records]
<1>1. NoRecord \in Records
  BY BoundsAssumption DEF NoRecord, Records
<1> QED BY <1>1, InitialStateIsSound
        DEF TypeOK, Leave, Goto, Keep, Hold, Labels

\* save_state as the last write of a call.
LEMMA StateIsSaved ==
    ASSUME TypeOK, SafeParts, NEW c \in Callers, NEW st \in RunStates,
           Sound(st), SaveAndLeave(c, st), late' \in BOOLEAN,
           UNCHANGED <<marker, launches, deaths, stops>>
    PROVE  TypeOK' /\ SafeParts'
<1>1. TypeOK'
  BY LeaveIsTyped DEF TypeOK, SaveAndLeave, inputFiles, attemptFiles,
                      stageFiles, bundleFiles
<1>2. SafeParts'
  BY CallEnds DEF SaveAndLeave, attemptFiles
<1> QED BY <1>1, <1>2

\* save_state in the middle of a call.
LEMMA StateIsSavedMidway ==
    ASSUME TypeOK, SafeParts, NEW c \in Callers, NEW st \in RunStates,
           Sound(st), NEW label \in {"launch", "charge", "audit", "refinalize"},
           SaveAndGoto(c, st, label), UNCHANGED environment,
           label \in {"launch", "charge"} => st.attempt # 0
    PROVE  TypeOK' /\ SafeParts'
<1>1. TypeOK'
  BY DEF TypeOK, SaveAndGoto, Goto, Keep, inputFiles, environment,
         attemptFiles, stageFiles, bundleFiles, Labels
<1>2. SafeParts'
  BY CallContinues DEF SaveAndGoto, attemptFiles
<1> QED BY <1>1, <1>2

\* The call raises.
LEMMA CallRaises ==
    ASSUME TypeOK, SafeParts, NEW c \in Callers, Raise(c)
    PROVE  TypeOK' /\ SafeParts'
<1>1. TypeOK'
  BY LeaveIsTyped DEF TypeOK, Raise, inputFiles, attemptFiles, stageFiles,
                      bundleFiles, environment
<1>2. Sound(disk')
  BY DEF Raise, SafeParts
<1>3. SafeParts'
  BY <1>2, CallEnds DEF Raise, attemptFiles
<1> QED BY <1>1, <1>3

-----------------------------------------------------------------------------
(* One lemma per service call, with one case per write of the call.        *)

\* inspect_inputs writes the snapshot and the phase of a run that has no
\* attempt yet.
LEMMA InspectIsSafe ==
    ASSUME TypeOK, SafeParts, NEW c \in Callers, InspectStep(c)
    PROVE  TypeOK' /\ SafeParts'
<1>0. mem[c] \in RunStates /\ CallerIsSound(c) /\ Sound(mem[c])
  BY DEF TypeOK, SafeParts, CallerIsSound
<1>1. CASE SnapshotCopy(c)
  <2>1. TypeOK'
    BY <1>1 DEF TypeOK, SnapshotCopy, Goto, attemptFiles, stageFiles,
                bundleFiles, environment, Labels
  <2>2. SafeParts'
    BY <1>1, CallGoesOn DEF SnapshotCopy, Designing, attemptFiles
  <2> QED BY <2>1, <2>2
<1>2. CASE SnapshotWrite(c)
  <2>1. TypeOK'
    BY <1>2 DEF TypeOK, SnapshotWrite, Goto, attemptFiles, stageFiles,
                bundleFiles, environment, Labels
  <2>2. SafeParts'
    BY <1>2, CallGoesOn DEF SnapshotWrite, Designing, attemptFiles
  <2> QED BY <2>1, <2>2
<1>3. CASE SnapshotBlocked(c)
  <2> DEFINE st == [mem[c] EXCEPT !.outcome = "boundary_blocked"]
  <2>1. st \in RunStates /\ Sound(st)
    BY <1>0, AnnotatedIsSound DEF Outcomes
  <2> QED BY <1>3, <2>1, StateIsSaved DEF SnapshotBlocked, environment, TypeOK
<1>4. CASE SnapshotCommit(c)
  <2> DEFINE st == [mem[c] EXCEPT !.phase = "inputs_snapshotted"]
  <2>1. mem[c].attempt = 0 /\ mem[c].count = 0
    BY <1>0, <1>4 DEF SnapshotCommit, CallerIsSound, Designing, Sound
  <2>2. st \in RunStates /\ Sound(st)
    BY <1>0, <2>1 DEF RunStates, Sound, Phases
  <2> QED BY <1>4, <2>2, StateIsSaved DEF SnapshotCommit, environment, TypeOK
<1> QED BY <1>1, <1>2, <1>3, <1>4 DEF InspectStep


\* validate_and_store_design starts the first stage of a run that has no
\* attempt yet.
LEMMA DesignIsSafe ==
    ASSUME TypeOK, SafeParts, NEW c \in Callers, DesignStep(c)
    PROVE  TypeOK' /\ SafeParts'
<1>0. mem[c] \in RunStates /\ CallerIsSound(c) /\ Sound(mem[c])
  BY DEF TypeOK, SafeParts, CallerIsSound
<1>1. CASE DesignRespond(c)
  <2>1. TypeOK'
    BY <1>1 DEF TypeOK, DesignRespond, Goto, attemptFiles, stageFiles,
                bundleFiles, environment, Labels
  <2>2. SafeParts'
    BY <1>1, CallGoesOn DEF DesignRespond, Designing, attemptFiles
  <2> QED BY <2>1, <2>2
<1>2. CASE DesignTerminal(c)
  <2>1. PICK o \in Outcomes :
           SaveAndLeave(c, [mem[c] EXCEPT !.outcome = o])
    BY <1>2 DEF DesignTerminal, Outcomes
  <2>2. /\ [mem[c] EXCEPT !.outcome = o] \in RunStates
        /\ Sound([mem[c] EXCEPT !.outcome = o])
    BY <1>0, AnnotatedIsSound
  <2> QED BY <1>2, <2>1, <2>2, StateIsSaved
          DEF DesignTerminal, environment, TypeOK
<1>3. CASE DesignWrite(c)
  <2>1. TypeOK'
    BY <1>3 DEF TypeOK, DesignWrite, Goto, attemptFiles, stageFiles,
                bundleFiles, environment, Labels
  <2>2. SafeParts'
    BY <1>3, CallGoesOn DEF DesignWrite, Designing, attemptFiles
  <2> QED BY <2>1, <2>2
<1>4. CASE DesignRefused(c)
  BY <1>4, CallRaises DEF DesignRefused
<1>5. CASE DesignCommit(c)
  <2> DEFINE st == [mem[c] EXCEPT !.phase = "design_validated", !.stage = 1,
                                  !.tries = [s \in Stages |-> 0]]
  <2>1. mem[c].attempt = 0 /\ mem[c].count = 0
    BY <1>0, <1>5 DEF DesignCommit, CallerIsSound, Designing, Sound
  <2>2. 1 \in 0 .. NumStages /\ 0 \in 0 .. MaxTotalAttempts
    BY BoundsAssumption
  <2>3. st \in RunStates
    BY <1>0, <2>2 DEF RunStates, Phases
  <2>4. Sound(st)
    BY <1>0, <2>1, NoCharges, BoundsAssumption DEF RunStates, Sound
  <2> QED BY <1>5, <2>3, <2>4, StateIsSaved
          DEF DesignCommit, environment, TypeOK
<1> QED BY <1>1, <1>2, <1>3, <1>4, <1>5 DEF DesignStep

\* The directory of the next attempt is new, so no other caller is writing
\* that attempt and no state names it.
LEMMA MkdirIsSafe ==
    ASSUME TypeOK, SafeParts, NEW c \in Callers, PrepareMkdir(c)
    PROVE  TypeOK' /\ SafeParts'
<1> DEFINE next == NextAttempt(mem[c])
<1>0. /\ mem[c] \in RunStates /\ CallerIsSound(c) /\ Sound(mem[c])
      /\ pc[c] = "prepare" /\ pc' = [pc EXCEPT ![c] = "describe"]
      /\ UNCHANGED <<disk, mem, attemptStage>>
      /\ dirs' = dirs \cup {next}
  BY DEF TypeOK, SafeParts, CallerIsSound, PrepareMkdir, Goto
<1>1. /\ mem[c].remaining > 0 /\ mem[c].stage \in Stages
      /\ mem[c].tries[mem[c].stage] < MaxStageAttempts
      /\ next \notin dirs /\ next \in Attempts
  <2>1. ~BudgetExhausted(mem[c]) /\ MayCreateAttempt(mem[c])
    BY DEF PrepareMkdir
  <2>2. mem[c].remaining # 0 /\ mem[c].remaining \in Nat /\ mem[c].count \in Nat
    BY <1>0, <2>1 DEF BudgetExhausted, RunStates
  <2>3. next \in Attempts
    BY <1>0, <2>2, BoundsAssumption DEF Sound, NextAttempt, Attempts
  <2> QED BY <2>1, <2>2, <2>3 DEF MayCreateAttempt
<1>2. TypeOK'
  BY <1>0, <1>1 DEF TypeOK, PrepareMkdir, inputFiles, stageFiles, bundleFiles,
                    environment, Labels
<1>3. Sound(disk)' /\ DescribedExists'
  BY <1>0 DEF SafeParts, Sound, DescribedExists
<1>4. attemptStage[next] = 0
  BY <1>1 DEF SafeParts, DescribedExists
<1>5. \A d \in Callers : CallerIsSound(d)'
  <2> TAKE d \in Callers
  <2>1. CallerIsSound(d)
    BY DEF SafeParts
  <2>2. CASE d = c
    BY <1>0, <1>1, <1>4, <2>1, <2>2
       DEF TypeOK, CallerIsSound, Sound, Designing, Attempting, Preparing,
           NextAttempt
  <2>3. CASE d # c
    BY <1>0, <2>1, <2>3
       DEF CallerIsSound, Sound, Designing, Attempting, Preparing, NextAttempt
  <2> QED BY <2>2, <2>3
<1>6. OneWriterPerAttempt'
  <2>1. \A d \in Callers : Preparing(d) => NextAttempt(mem[d]) # next
    BY <1>1 DEF SafeParts, CallerIsSound
  <2>2. \A d \in Callers : Preparing(d)' => d = c \/ Preparing(d)
    BY <1>0 DEF Preparing
  <2> QED BY <1>0, <2>1, <2>2
          DEF SafeParts, OneWriterPerAttempt, Preparing, NextAttempt
<1> QED BY <1>2, <1>3, <1>5, <1>6 DEF SafeParts

\* attempt.json of the new attempt is written by its only writer.
LEMMA DescribeIsSafe ==
    ASSUME TypeOK, SafeParts, NEW c \in Callers, PrepareDescribe(c)
    PROVE  TypeOK' /\ SafeParts'
<1> DEFINE next == NextAttempt(mem[c])
<1>0. /\ mem[c] \in RunStates /\ CallerIsSound(c)
      /\ pc[c] = "describe" /\ pc' = [pc EXCEPT ![c] = "prepared"]
      /\ UNCHANGED <<disk, mem, dirs>>
      /\ attemptStage' = [attemptStage EXCEPT ![next] = mem[c].stage]
  BY DEF TypeOK, SafeParts, PrepareDescribe, Goto
<1>1. /\ next \in dirs /\ next \in Attempts
      /\ attemptStage[next] = 0 /\ mem[c].stage \in Stages
  BY <1>0 DEF TypeOK, CallerIsSound, Preparing
<1>2. TypeOK'
  BY <1>0, <1>1 DEF TypeOK, RunStates, PrepareDescribe, inputFiles, stageFiles,
                    bundleFiles, environment, Labels
<1>3. /\ attemptStage'[next] = mem[c].stage
      /\ \A a : a # next => attemptStage'[a] = attemptStage[a]
  BY <1>0, <1>1 DEF TypeOK
<1>4. ASSUME NEW st \in RunStates, Sound(st) PROVE Sound(st)'
  <2>1. st.attempt # 0 => st.attempt # next
    BY <1>1, <1>4, BoundsAssumption DEF Sound, Stages
  <2> QED BY <1>0, <1>3, <1>4, <2>1 DEF Sound
<1>5. Sound(disk)'
  BY <1>0, <1>4 DEF SafeParts, Sound, TypeOK
<1>6. DescribedExists'
  BY <1>0, <1>1, <1>3 DEF SafeParts, DescribedExists
<1>7. \A d \in Callers : CallerIsSound(d)'
  <2> TAKE d \in Callers
  <2>1. CallerIsSound(d) /\ mem[d] \in RunStates
    BY DEF SafeParts, TypeOK
  <2>2. Sound(mem[d])'
    BY <1>0, <1>4, <2>1 DEF CallerIsSound, Sound
  <2>3. CASE d = c
    BY <1>0, <1>1, <1>3, <2>1, <2>2, <2>3
       DEF TypeOK, CallerIsSound, Designing, Attempting, Preparing,
           NextAttempt
  <2>4. CASE d # c
    <3>1. Preparing(d) => NextAttempt(mem[d]) # next
      BY <1>0, <2>4 DEF SafeParts, OneWriterPerAttempt, Preparing
    <3> QED BY <1>0, <1>3, <2>1, <2>2, <2>4, <3>1
            DEF CallerIsSound, Designing, Attempting, Preparing, NextAttempt
  <2> QED BY <2>3, <2>4
<1>8. OneWriterPerAttempt'
  <2>1. \A d \in Callers : Preparing(d)' => Preparing(d)
    BY <1>0 DEF Preparing
  <2> QED BY <1>0, <2>1 DEF SafeParts, OneWriterPerAttempt, NextAttempt
<1> QED BY <1>2, <1>5, <1>6, <1>7, <1>8 DEF SafeParts

\* prepare charges the attempt it has just completed on disk.
LEMMA PrepareIsSafe ==
    ASSUME TypeOK, SafeParts, NEW c \in Callers, PrepareStep(c)
    PROVE  TypeOK' /\ SafeParts'
<1>0. mem[c] \in RunStates /\ CallerIsSound(c) /\ Sound(mem[c])
  BY DEF TypeOK, SafeParts, CallerIsSound
<1>1. CASE PrepareBudgetStop(c)
  <2> DEFINE st == [mem[c] EXCEPT !.outcome = "budget_stopped"]
  <2>1. st \in RunStates /\ Sound(st)
    BY <1>0, AnnotatedIsSound DEF Outcomes
  <2> QED BY <1>1, <2>1, StateIsSaved
          DEF PrepareBudgetStop, BudgetStop, environment, TypeOK
<1>2. CASE PrepareRefused(c)
  BY <1>2, CallRaises DEF PrepareRefused
<1>3. CASE PrepareMkdir(c)
  BY <1>3, MkdirIsSafe
<1>4. CASE PrepareDescribe(c)
  BY <1>4, DescribeIsSafe
<1>5. CASE PrepareCommit(c)
  <2>1. ChargedState(mem[c]) \in RunStates /\ Sound(ChargedState(mem[c]))
    BY <1>0, <1>5, ChargedIsSound DEF PrepareCommit, CallerIsSound, Preparing
  <2> QED BY <1>5, <2>1, StateIsSaved DEF PrepareCommit, TypeOK
<1> QED BY <1>1, <1>2, <1>3, <1>4, <1>5 DEF PrepareStep

\* execute moves the phase of the current attempt and changes no budget.
LEMMA ExecuteIsSafe ==
    ASSUME TypeOK, SafeParts, NEW c \in Callers, ExecuteStep(c)
    PROVE  TypeOK' /\ SafeParts'
<1>0. mem[c] \in RunStates /\ CallerIsSound(c) /\ Sound(mem[c])
  BY DEF TypeOK, SafeParts, CallerIsSound
<1>1. CASE ExecuteBudgetStop(c)
  <2> DEFINE st == [mem[c] EXCEPT !.outcome = "budget_stopped"]
  <2>1. st \in RunStates /\ Sound(st)
    BY <1>0, AnnotatedIsSound DEF Outcomes
  <2> QED BY <1>1, <2>1, StateIsSaved
          DEF ExecuteBudgetStop, BudgetStop, environment, TypeOK
<1>2. CASE ExecuteStart(c)
  <2> DEFINE st == [mem[c] EXCEPT !.phase = "execution_started"]
  <2>1. st.attempt # 0 /\ mem[c].attempt # 0
    BY <1>0, <1>2 DEF ExecuteStart, CallerIsSound, Attempting, RunStates
  <2>2. st \in RunStates /\ Sound(st)
    BY <1>0, <2>1 DEF RunStates, Sound, Phases
  <2> QED BY <1>2, <2>1, <2>2, StateIsSavedMidway DEF ExecuteStart
<1>3. CASE Launch(c)
  <2>0. launches' \in [Attempts -> Nat]
    <3>1. /\ launches \in [Attempts -> Nat]
          /\ launches' = [launches EXCEPT ![mem[c].attempt] = @ + 1]
      BY <1>3 DEF TypeOK, Launch
    <3>2. \A n \in Nat : n + 1 \in Nat
      OBVIOUS
    <3> QED BY <3>1, <3>2
  <2>1. TypeOK'
    BY <1>3, <2>0 DEF TypeOK, Launch, Goto, inputFiles, attemptFiles,
                      stageFiles, bundleFiles, Labels
  <2>2. SafeParts'
    BY <1>3, CallGoesOn DEF Launch, Attempting, attemptFiles
  <2> QED BY <2>1, <2>2
<1>4. CASE ExecuteFails(c)
  <2> DEFINE st == [mem[c] EXCEPT !.outcome = "technical_failure"]
  <2>1. st \in RunStates /\ Sound(st)
    BY <1>0, AnnotatedIsSound DEF Outcomes
  <2> QED BY <1>4, <2>1, StateIsSaved DEF ExecuteFails, environment, TypeOK
<1>5. CASE SandboxEnds(c)
  <2>1. TypeOK'
    BY <1>5 DEF TypeOK, SandboxEnds, Goto, StopReasons, inputFiles, stageFiles,
                bundleFiles, Labels
  <2>2. SafeParts'
    BY <1>5, CallGoesOn DEF SandboxEnds, Attempting
  <2> QED BY <2>1, <2>2
<1>6. CASE ExecuteFinish(c)
  <2> DEFINE st == [mem[c] EXCEPT !.phase = "execution_finished"]
  <2>1. st.attempt # 0 /\ mem[c].attempt # 0
    BY <1>0, <1>6 DEF ExecuteFinish, CallerIsSound, Attempting, RunStates
  <2>2. st \in RunStates /\ Sound(st)
    BY <1>0, <2>1 DEF RunStates, Sound, Phases
  <2> QED BY <1>6, <2>1, <2>2, StateIsSavedMidway DEF ExecuteFinish
<1>7. CASE ExecuteCharge(c)
  BY <1>0, <1>7, StateIsSaved DEF ExecuteCharge, environment, TypeOK
<1> QED BY <1>1, <1>2, <1>3, <1>4, <1>5, <1>6, <1>7 DEF ExecuteStep

\* A verdict is an outcome, and what it releases is a tree of the run.
LEMMA VerdictIsTyped ==
    ASSUME TypeOK, NEW c \in Callers, mem[c].attempt \in Attempts,
           NEW verdict \in Verdicts(facts[mem[c].attempt]),
           NEW release \in Releases(mem[c], verdict)
    PROVE  /\ verdict \in Outcomes
           /\ release => ReleaseTree(mem[c], verdict) \in
                 ({"stages"} \X Stages) \cup ({"attempts"} \X Attempts)
<1>1. verdict \in Outcomes
  BY DEF TypeOK, StopReasons, Verdicts, Outcomes, Scientific
<1>2. ASSUME release
      PROVE  ReleaseTree(mem[c], verdict) \in
                 ({"stages"} \X Stages) \cup ({"attempts"} \X Attempts)
  <2>1. mem[c].stage \in Stages
    BY <1>2, ChoicesAssumption DEF Releases
  <2> QED BY <2>1 DEF ReleaseTree
<1> QED BY <1>1, <1>2

\* verify keeps the current attempt, or drops it with its stage.
LEMMA VerifyIsSafe ==
    ASSUME TypeOK, SafeParts, NEW c \in Callers, VerifyStep(c)
    PROVE  TypeOK' /\ SafeParts'
<1>0. /\ mem[c] \in RunStates /\ CallerIsSound(c) /\ Sound(mem[c])
      /\ held[c] \in Records
  BY DEF TypeOK, SafeParts, CallerIsSound
<1>a. Attempting(c) => /\ mem[c].attempt \in Attempts
                       /\ mem[c].stage \in Stages
  BY <1>0 DEF CallerIsSound, Sound, TypeOK
<1>b. Attempting(c) => /\ ClosedState(mem[c]) \in RunStates
                       /\ Sound(ClosedState(mem[c]))
  <2> SUFFICES ASSUME Attempting(c)
               PROVE  /\ ClosedState(mem[c]) \in RunStates
                      /\ Sound(ClosedState(mem[c]))
    OBVIOUS
  <2>1. ClosedState(mem[c]) \in RunStates
    BY <1>0, <1>a DEF ClosedState, RunStates
  <2>2. Sound(ClosedState(mem[c]))
    BY <1>0 DEF ClosedState, RunStates, Sound
  <2> QED BY <2>1, <2>2
<1>1. CASE VerifyAttempt(c)
  <2>1. mem[c].attempt \in Attempts
    BY <1>1, <1>a DEF VerifyAttempt, Attempting
  <2>v. PICK verdict \in Verdicts(facts[mem[c].attempt]) :
           \E release \in Releases(mem[c], verdict) :
           /\ public' = IF release
                        THEN public \cup {ReleaseTree(mem[c], verdict)}
                        ELSE public
           /\ Hold(c, [id |-> 0, attempt |-> mem[c].attempt,
                       outcome |-> verdict, basis |-> verdict])
    BY <1>1 DEF VerifyAttempt
  <2>2. PICK release \in Releases(mem[c], verdict) :
           /\ public' = IF release
                        THEN public \cup {ReleaseTree(mem[c], verdict)}
                        ELSE public
           /\ Hold(c, [id |-> 0, attempt |-> mem[c].attempt,
                       outcome |-> verdict, basis |-> verdict])
    BY <2>v
  <2>3. [id |-> 0, attempt |-> mem[c].attempt, outcome |-> verdict,
         basis |-> verdict] \in Records
    BY <1>0, <2>1, VerdictIsTyped DEF Records, RunStates
  <2>4. public' \subseteq ({"stages"} \X Stages) \cup ({"attempts"} \X Attempts)
    BY <2>1, <2>2, VerdictIsTyped DEF TypeOK
  <2>5. TypeOK'
    BY <1>1, <2>2, <2>3, <2>4
       DEF TypeOK, VerifyAttempt, Goto, Hold, inputFiles, attemptFiles,
           bundleFiles, environment, Labels
  <2>6. SafeParts'
    BY <1>1, CallGoesOn DEF VerifyAttempt, Attempting, attemptFiles
  <2> QED BY <2>5, <2>6
<1>2. CASE VerifyRefused(c)
  BY <1>2, CallRaises DEF VerifyRefused
<1>3. CASE VerifyStore(c)
  <2>1. TypeOK'
    BY <1>0, <1>3 DEF TypeOK, RunStates, VerifyStore, Goto, inputFiles,
                      attemptFiles, bundleFiles, environment, Labels
  <2>2. SafeParts'
    BY <1>3, CallGoesOn DEF VerifyStore, Attempting, attemptFiles
  <2> QED BY <2>1, <2>2
<1>4. CASE VerifyRepair(c)
  <2> DEFINE st == [mem[c] EXCEPT !.phase = "verification_finished",
                                  !.outcome = "technical_failure"]
  <2>1. st \in RunStates /\ Sound(st)
    BY <1>0 DEF RunStates, Sound, Phases, Outcomes
  <2> QED BY <1>4, <2>1, StateIsSaved DEF VerifyRepair, environment, TypeOK
<1>5. CASE VerifyFreeze(c)
  <2>1. TypeOK'
    BY <1>5, <1>a DEF TypeOK, VerifyFreeze, ToFreeze, Attempting, Goto,
                inputFiles, attemptFiles, bundleFiles, environment, Labels
  <2>2. SafeParts'
    BY <1>5, CallGoesOn DEF VerifyFreeze, Attempting, attemptFiles
  <2> QED BY <2>1, <2>2
<1>6. CASE VerifyTransition(c)
  <2> DEFINE new(next) == [ClosedState(mem[c]) EXCEPT
                              !.phase = "stage_transitioned", !.stage = next,
                              !.attempt = 0, !.outcome = NoOutcome,
                              !.verified = 0]
  <2>1. PICK next \in Stages : SaveAndLeave(c, new(next))
    BY <1>6 DEF VerifyTransition
  <2>c. ClosedState(mem[c]) \in RunStates
    BY <1>6, <1>b DEF VerifyTransition, Attempting
  <2>2. new(next) \in RunStates
    <3>1. next \in 0 .. NumStages /\ 0 \in 0 .. MaxTotalAttempts
      BY BoundsAssumption DEF Stages
    <3> QED BY <2>c, <3>1 DEF RunStates, Phases
  <2>3. Sound(new(next))
    BY <1>6, <1>b DEF VerifyTransition, Attempting, RunStates, Sound
  <2> QED BY <1>6, <2>1, <2>2, <2>3, StateIsSaved
          DEF VerifyTransition, environment, TypeOK
<1>7. CASE VerifyAggregate(c)
  <2>1. PICK target \in Outcomes \cup {NoOutcome} :
           record' = [held[c] EXCEPT !.id = record.id + 1, !.outcome = target]
    BY <1>0, <1>7, ChoicesAssumption DEF VerifyAggregate, Records
  <2>2. record' \in Records
    <3>1. record.id + 1 \in Nat
      BY DEF TypeOK, Records
    <3> QED BY <1>0, <2>1, <3>1 DEF Records
  <2>3. TypeOK'
    BY <1>7, <1>b, <2>2
       DEF TypeOK, VerifyAggregate, Attempting, Goto, Keep, Hold, inputFiles,
           attemptFiles, stageFiles, environment, Labels
  <2>4. ClosedState(mem[c]).attempt # 0 /\ Sound(ClosedState(mem[c]))
    BY <1>7, <1>0, <1>b
       DEF VerifyAggregate, ClosedState, RunStates, CallerIsSound, Attempting
  <2>5. Sound(disk')
    BY <1>7 DEF VerifyAggregate, SafeParts
  <2>6. SafeParts'
    BY <1>7, <2>4, <2>5, CallContinues DEF VerifyAggregate, attemptFiles
  <2> QED BY <2>3, <2>6
<1>8. CASE VerifyCommit(c)
  <2>1. /\ RecordedState(mem[c], held[c]) \in RunStates
        /\ Sound(RecordedState(mem[c], held[c]))
    BY <1>0, RecordedIsSound
  <2> QED BY <1>8, <2>1, StateIsSaved DEF VerifyCommit, environment, TypeOK
<1> QED BY <1>1, <1>2, <1>3, <1>4, <1>5, <1>6, <1>7, <1>8 DEF VerifyStep

\* An early record names the attempt of the state it is made from.
LEMMA EarlyRecordIsTyped ==
    ASSUME TypeOK, NEW st \in RunStates, NEW o \in Outcomes \cup {NoOutcome}
    PROVE  EarlyRecord(st, o) \in Records
BY DEF TypeOK, EarlyRecord, Records, RunStates

\* finalize records outcomes and phases only.
LEMMA FinalizeIsSafe ==
    ASSUME TypeOK, SafeParts, NEW c \in Callers, FinalizeStep(c)
    PROVE  TypeOK' /\ SafeParts'
<1>0. /\ mem[c] \in RunStates /\ CallerIsSound(c) /\ Sound(mem[c])
      /\ held[c] \in Records /\ Sound(disk) /\ report \in Nat
      /\ entry \in Entries
  BY DEF TypeOK, SafeParts, CallerIsSound
<1>1. CASE FinalizeRecover(c)
  <2> DEFINE st == [mem[c] EXCEPT !.phase = "report_finalized",
                                  !.reported = entry.report]
  <2>1. st \in RunStates /\ Sound(st)
    BY <1>0 DEF RunStates, Sound, Phases, Entries
  <2> QED BY <1>1, <2>1, StateIsSaved DEF FinalizeRecover, environment, TypeOK
<1>2. CASE FinalizeRefused(c)
  BY <1>2, CallRaises DEF FinalizeRefused
<1>3. CASE FinalizeVerified(c)
  <2>1. TypeOK'
    BY <1>3 DEF TypeOK, FinalizeVerified, Goto, Hold, inputFiles, attemptFiles,
                stageFiles, bundleFiles, environment, Labels
  <2>2. SafeParts'
    BY <1>3, CallGoesOn DEF FinalizeVerified, attemptFiles
  <2> QED BY <2>1, <2>2
<1>4. CASE FinalizeEarly(c)
  <2>1. record' \in Records
    BY <1>0, <1>4, EarlyRecordIsTyped DEF FinalizeEarly, RunStates
  <2>2. TypeOK'
    BY <1>4, <2>1 DEF TypeOK, FinalizeEarly, Goto, Hold, inputFiles,
                      attemptFiles, stageFiles, environment, Labels
  <2>3. SafeParts'
    BY <1>4, CallGoesOn DEF FinalizeEarly, attemptFiles
  <2> QED BY <2>2, <2>3
<1>5. CASE FinalizeEarlyCommit(c)
  <2>1. /\ RecordedState(mem[c], held[c]) \in RunStates
        /\ Sound(RecordedState(mem[c], held[c]))
    BY <1>0, RecordedIsSound
  <2> QED BY <1>5, <2>1, StateIsSavedMidway DEF FinalizeEarlyCommit
<1>6. CASE WriteAudit(c)
  <2>1. TypeOK'
    BY <1>0, <1>6 DEF TypeOK, Records, WriteAudit, Goto, inputFiles,
                      attemptFiles, stageFiles, environment, Labels
  <2>2. SafeParts'
    BY <1>6, CallGoesOn DEF WriteAudit, attemptFiles
  <2> QED BY <2>1, <2>2
<1>7. CASE WriteReport(c)
  <2>1. TypeOK'
    BY <1>0, <1>7 DEF TypeOK, Records, WriteReport, Goto, inputFiles,
                      attemptFiles, stageFiles, environment, Labels
  <2>2. SafeParts'
    BY <1>7, CallGoesOn DEF WriteReport, attemptFiles
  <2> QED BY <2>1, <2>2
<1>8. CASE WriteEntry(c)
  <2> DEFINE st == [mem[c] EXCEPT !.outcome = held[c].outcome,
                                  !.reported = report]
  <2>1. st \in RunStates /\ Sound(st)
    BY <1>0 DEF RunStates, Sound, Records
  <2>2. entry' \in Entries
    BY <1>0, <1>8 DEF TypeOK, WriteEntry, Entries, Records
  <2>3. TypeOK'
    BY <1>8, <2>1, <2>2
       DEF TypeOK, WriteEntry, Goto, Keep, inputFiles, attemptFiles,
           stageFiles, environment, Labels
  <2>4. Sound(disk')
    BY <1>0, <1>8 DEF WriteEntry
  <2>5. SafeParts'
    BY <1>8, <2>1, <2>4, CallContinues DEF WriteEntry, attemptFiles
  <2> QED BY <2>3, <2>5
<1>9. CASE FinalizeCommit(c)
  <2> DEFINE st == [mem[c] EXCEPT !.phase = "report_finalized"]
  <2>1. st \in RunStates /\ Sound(st)
    BY <1>0 DEF RunStates, Sound, Phases
  <2> QED BY <1>9, <2>1, StateIsSaved DEF FinalizeCommit, environment, TypeOK
<1> QED BY <1>1, <1>2, <1>3, <1>4, <1>5, <1>6, <1>7, <1>8, <1>9
        DEF FinalizeStep

\* finalize_interrupted does, too, and then starts over from state.json.
LEMMA InterruptIsSafe ==
    ASSUME TypeOK, SafeParts, NEW c \in Callers, InterruptStep(c)
    PROVE  TypeOK' /\ SafeParts'
<1>0. /\ mem[c] \in RunStates /\ CallerIsSound(c) /\ Sound(mem[c])
      /\ held[c] \in Records /\ disk \in RunStates /\ Sound(disk)
  BY DEF TypeOK, SafeParts, CallerIsSound
<1>1. CASE InterruptVerified(c)
  <2>1. TypeOK'
    BY <1>1 DEF TypeOK, InterruptVerified, Goto, inputFiles, attemptFiles,
                stageFiles, bundleFiles, environment, Labels
  <2>2. SafeParts'
    BY <1>1, CallGoesOn DEF InterruptVerified, attemptFiles
  <2> QED BY <2>1, <2>2
<1>2. CASE InterruptRecord(c)
  <2>1. InterruptionOutcomes(mem[c]) \subseteq Outcomes
    BY ChoicesAssumption DEF InterruptionOutcomes, Outcomes
  <2>2. record' \in Records
    BY <1>0, <1>2, <2>1, EarlyRecordIsTyped DEF InterruptRecord
  <2>3. TypeOK'
    BY <1>2, <2>2 DEF TypeOK, InterruptRecord, Goto, Hold, inputFiles,
                      attemptFiles, stageFiles, environment, Labels
  <2>4. SafeParts'
    BY <1>2, CallGoesOn DEF InterruptRecord, attemptFiles
  <2> QED BY <2>3, <2>4
<1>3. CASE InterruptCommit(c)
  <2>1. /\ RecordedState(mem[c], held[c]) \in RunStates
        /\ Sound(RecordedState(mem[c], held[c]))
    BY <1>0, RecordedIsSound
  <2> QED BY <1>3, <2>1, StateIsSavedMidway DEF InterruptCommit
<1>4. CASE Reload(c)
  <2>1. NoRecord \in Records
    BY BoundsAssumption DEF NoRecord, Records
  <2>2. TypeOK'
    BY <1>4, <2>1 DEF TypeOK, Reload, Goto, Keep, Hold, inputFiles,
                      attemptFiles, stageFiles, bundleFiles, environment,
                      Labels
  <2>3. SafeParts'
    BY <1>0, <1>4, CallContinues DEF Reload, attemptFiles
  <2> QED BY <2>2, <2>3
<1> QED BY <1>1, <1>2, <1>3, <1>4 DEF InterruptStep

\* stop writes back an old state, which still adds up.
LEMMA StopIsSafe ==
    ASSUME TypeOK, SafeParts, NEW c \in Callers, StopStep(c)
    PROVE  TypeOK' /\ SafeParts'
<1>0. mem[c] \in RunStates /\ Sound(mem[c])
  BY DEF TypeOK, SafeParts, CallerIsSound
<1>1. CASE StopMark(c)
  <2>1. TypeOK'
    BY <1>1 DEF TypeOK, StopMark, Goto, inputFiles, attemptFiles, stageFiles,
                bundleFiles, Labels
  <2>2. SafeParts'
    BY <1>1, CallGoesOn DEF StopMark, attemptFiles
  <2> QED BY <2>1, <2>2
<1>2. CASE StopSave(c)
  <2> DEFINE st == [mem[c] EXCEPT !.cancel = TRUE]
  <2>1. st \in RunStates /\ Sound(st)
    BY <1>0, AnnotatedIsSound
  <2> QED BY <1>2, <2>1, StateIsSaved DEF StopSave, environment, TypeOK
<1> QED BY <1>1, <1>2 DEF StopStep

\* The phase guard of a call gives the caller what its label promises.
LEMMA BeginIsSafe ==
    ASSUME TypeOK, SafeParts, NEW c \in Callers, NEW op \in Operations[c],
           Begin(c, op)
    PROVE  TypeOK' /\ SafeParts'
<1>1. op \in AllOperations /\ disk \in RunStates /\ Sound(disk)
  BY ChoicesAssumption DEF TypeOK, SafeParts
<1>2. disk.phase \in Admitted[op]
  BY DEF Begin, Admits
<1>3. op \in {"inspect", "design"}
         => disk.phase \in {"request_bound", "inputs_snapshotted"}
  BY <1>2 DEF Admitted
<1>4. op \in {"execute", "verify"} => disk.attempt # 0
  <2>1. op \in {"execute", "verify"}
           => disk.phase \in {"attempt_prepared", "execution_finished"}
    BY <1>2 DEF Admitted
  <2> QED BY <1>1, <2>1 DEF Sound
<1>5. stops' \in 0 .. MaxStops
  BY BoundsAssumption DEF Begin, TypeOK
<1>6. TypeOK'
  <2>1. op \in Labels
    BY <1>1 DEF AllOperations, Labels
  <2> QED BY <1>1, <1>5, <2>1
          DEF TypeOK, Begin, Goto, Keep, inputFiles, attemptFiles, stageFiles,
              bundleFiles
<1>7. Sound(disk')
  BY <1>1 DEF Begin
<1>8. SafeParts'
  BY <1>1, <1>3, <1>4, <1>7, CallContinues
     DEF Begin, attemptFiles, AllOperations
<1> QED BY <1>6, <1>8

\* A death changes nothing on disk.
LEMMA DeathIsSafe ==
    ASSUME TypeOK, SafeParts, NEW c \in Callers, Die(c)
    PROVE  TypeOK' /\ SafeParts'
<1>1. deaths' \in 0 .. MaxDeaths
  BY BoundsAssumption DEF Die, TypeOK
<1>2. TypeOK'
  BY <1>1, LeaveIsTyped DEF TypeOK, Die, inputFiles, attemptFiles, stageFiles,
                            bundleFiles
<1>3. Sound(disk')
  BY DEF Die, SafeParts
<1>4. SafeParts'
  BY <1>3, CallEnds DEF Die, attemptFiles
<1> QED BY <1>2, <1>4

-----------------------------------------------------------------------------
(* The theorems.                                                           *)

\* Every reachable state satisfies the inductive invariant: whatever the
\* calls, their interleaving, the stops and the deaths.
THEOREM Invariance == Spec => []IInv
<1>1. Init => IInv
  <2> SUFFICES ASSUME Init PROVE IInv
    OBVIOUS
  <2>1. NoRecord \in Records /\ NoEntry \in Entries
    BY BoundsAssumption DEF NoRecord, Records, NoEntry, Entries
  <2>2. TypeOK
    <3>1. /\ 0 \in 0 .. NumStages /\ 0 \in 0 .. MaxTotalAttempts
          /\ 0 \in 0 .. MaxDeaths /\ 0 \in 0 .. MaxStops
      BY BoundsAssumption
    <3> QED BY <2>1, <3>1, InitialStateIsSound
            DEF Init, TypeOK, StopReasons, Labels
  <2>3. Sound(disk) /\ \A c \in Callers : CallerIsSound(c)
    BY InitialStateIsSound
       DEF Init, CallerIsSound, Designing, Attempting, Preparing
  <2>4. DescribedExists /\ OneWriterPerAttempt
    BY DEF Init, DescribedExists, OneWriterPerAttempt, Preparing
  <2> QED BY <2>2, <2>3, <2>4 DEF IInv, SafeParts
<1>2. IInv /\ [Next]_vars => IInv'
  <2> SUFFICES ASSUME IInv, [Next]_vars PROVE TypeOK' /\ SafeParts'
    BY DEF IInv, SafeParts
  <2>0. TypeOK /\ SafeParts
    BY DEF IInv, SafeParts
  <2>1. ASSUME NEW c \in Callers, NEW op \in Operations[c], Begin(c, op)
        PROVE  TypeOK' /\ SafeParts'
    BY <2>0, <2>1, BeginIsSafe
  <2>2. ASSUME NEW c \in Callers, Step(c)
        PROVE  TypeOK' /\ SafeParts'
    BY <2>0, <2>2, InspectIsSafe, DesignIsSafe, PrepareIsSafe, ExecuteIsSafe,
       VerifyIsSafe, FinalizeIsSafe, InterruptIsSafe, StopIsSafe DEF Step
  <2>3. ASSUME NEW c \in Callers, Die(c)
        PROVE  TypeOK' /\ SafeParts'
    BY <2>0, <2>3, DeathIsSafe
  <2>4. CASE ClockExpires
    <3>1. TypeOK'
      BY <2>0, <2>4 DEF TypeOK, ClockExpires, inputFiles, attemptFiles,
                        stageFiles, bundleFiles
    <3>2. SafeParts'
      BY <2>0, <2>4
         DEF ClockExpires, attemptFiles, SafeParts, CallerIsSound, Sound,
             Designing, Attempting, Preparing, NextAttempt, DescribedExists,
             OneWriterPerAttempt
    <3> QED BY <3>1, <3>2
  <2>5. CASE UNCHANGED vars
    <3>1. TypeOK'
      BY <2>0, <2>5 DEF TypeOK, vars, inputFiles, attemptFiles, stageFiles,
                        bundleFiles, environment
    <3>2. SafeParts'
      BY <2>0, <2>5
         DEF vars, attemptFiles, SafeParts, CallerIsSound, Sound, Designing,
             Attempting, Preparing, NextAttempt, DescribedExists,
             OneWriterPerAttempt
    <3> QED BY <3>1, <3>2
  <2> QED BY <2>1, <2>2, <2>3, <2>4, <2>5 DEF Next
<1> QED BY <1>1, <1>2, PTL DEF Spec

\* state.json, the files and what every caller holds are well formed.
THEOREM TypeCorrectness == Spec => []TypeOK
<1>1. IInv => TypeOK
  BY DEF IInv
<1> QED BY <1>1, Invariance, PTL

\* The budgets state.json carries stay an exact account.
THEOREM Budgets == Spec => []BudgetsHold
<1>1. IInv => BudgetsHold
  BY DEF IInv, SafeParts, Sound, BudgetsHold
<1> QED BY <1>1, Invariance, PTL

\* Every attempt the run was charged for is an attempt of one stage.
THEOREM StageCounts == Spec => []StageCountsAddUp
<1>1. IInv => StageCountsAddUp
  BY DEF IInv, SafeParts, Sound, StageCountsAddUp
<1> QED BY <1>1, Invariance, PTL

\* The attempt state.json names is complete and of the active stage.
THEOREM NamedAttempt == Spec => []NamedAttemptIsComplete
<1>1. IInv => NamedAttemptIsComplete
  BY DEF IInv, SafeParts, Sound, NamedAttemptIsComplete
<1> QED BY <1>1, Invariance, PTL

\* No two calls of prepare write the code of one attempt.
THEOREM OneWriter == Spec => []OneWriterPerAttempt
<1>1. IInv => OneWriterPerAttempt
  BY DEF IInv, SafeParts
<1> QED BY <1>1, Invariance, PTL
=============================================================================
