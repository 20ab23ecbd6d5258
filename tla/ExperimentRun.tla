--------------------------- MODULE ExperimentRun ---------------------------
(***************************************************************************)
(* The lifecycle of one automatic-experiment run                           *)
(* (src/automatic_experiment of the repository): the run directory with    *)
(* its state.json, and the service calls that carry the run from           *)
(* "request_bound" to "report_finalized".                                  *)
(*                                                                         *)
(* Every service call loads state.json into a dictionary, works on that    *)
(* copy, writes some files of the run directory and stores the copy back.  *)
(* No lock covers a call, so two calls (two tool calls of an agent, two    *)
(* bridge processes, a user's stop) may interleave at every write, and a   *)
(* process may die between any two writes.  One action is one write of the *)
(* run directory (or the read that starts a call); what a caller holds in  *)
(* memory is mem[c] (its copy of state.json) and held[c] (the record it    *)
(* has built or read).                                                     *)
(***************************************************************************)
EXTENDS Integers, FiniteSets

CONSTANTS
    Callers,            \* the processes or threads that can be inside a call
    NumStages,          \* experiment_stages of the validated design
    MaxTotalAttempts,   \* run_budget.max_total_attempts
    MaxStageAttempts,   \* resource_budget.max_attempts, per stage
    ArtifactStages,     \* the stages whose artifact plan is not empty
    TerminalTargets,    \* the terminal outcomes the stage transitions name
    GivenOutcomes,      \* outcomes a host passes to finalize_interrupted
    Operations,         \* the service calls each caller makes
    MaxDeaths,          \* bound: how many times a caller dies inside a call
    MaxStops            \* bound: how many stop requests are made

Stages   == 1 .. NumStages
Attempts == 1 .. MaxTotalAttempts

Phases == {"request_bound", "inputs_snapshotted", "design_validated",
           "stage_transitioned", "attempt_prepared", "execution_started",
           "execution_finished", "verification_finished", "report_finalized"}

\* The four scientific outcomes behave alike in the lifecycle and are one
\* value; "clarification_required" also stands for input_missing and
\* method_mismatch, the other outcomes of a response that blocks execution.
Scientific == "completed_interpretable"
Outcomes == {Scientific, "high_uncertainty", "technical_failure",
             "budget_stopped", "clarification_required", "boundary_blocked",
             "cancelled_by_user"}
NoOutcome == "none"

AllOperations == {"inspect", "design", "prepare", "execute", "verify",
                  "finalize", "interrupt", "stop"}

ASSUME BoundsAssumption ==
    /\ NumStages \in Nat \ {0}
    /\ MaxTotalAttempts \in Nat \ {0}
    /\ MaxStageAttempts \in Nat \ {0}
    /\ MaxDeaths \in Nat
    /\ MaxStops \in Nat

ASSUME ChoicesAssumption ==
    /\ ArtifactStages \subseteq Stages
    /\ TerminalTargets \subseteq Outcomes \ {"clarification_required"}
    /\ TerminalTargets # {}
    /\ GivenOutcomes \subseteq Outcomes
    /\ Operations \in [Callers -> SUBSET AllOperations]

VARIABLES
    disk,          \* state.json
    snapshot,      \* inputs/ and input_snapshot.json
    documents,     \* which of response.json and design.json exist
    dirs,          \* the attempts whose directory exists
    attemptStage,  \* stage named by attempts/<a>/attempt.json, 0 without it
    facts,         \* stop reason in attempts/<a>/execution.json
    public,        \* released artifact trees under public/
    frozen,        \* stages whose artifacts are in stage_artifacts/
    stageRecord,   \* the attempt stages/<s>/record.json is about, 0 without it
    record,        \* record.json
    audit,         \* the record audit.md was rendered from
    report,        \* the record report.md was rendered from
    entry,         \* entry_result.json
    late,          \* the run clock that applies has expired
    marker,        \* cancel.requested exists
    launches,      \* history: sandbox launches of each attempt
    deaths, stops, \* bounded environment events so far
    pc, mem, held  \* per caller: next write, its copy of state.json, its record

inputFiles   == <<snapshot, documents>>
attemptFiles == <<dirs, attemptStage, facts>>
stageFiles   == <<public, frozen, stageRecord>>
bundleFiles  == <<record, audit, report, entry>>
environment  == <<late, marker, launches, deaths, stops>>
vars == <<disk, inputFiles, attemptFiles, stageFiles, bundleFiles,
          environment, pc, mem, held>>

-----------------------------------------------------------------------------
(* What the files hold.                                                    *)

RunStates ==
    [phase     : Phases,
     attempt   : 0 .. MaxTotalAttempts,        \* current_attempt, 0 for None
     stage     : 0 .. NumStages,               \* current_stage_id, 0 for None
     count     : 0 .. MaxTotalAttempts,        \* attempt_count
     remaining : 0 .. MaxTotalAttempts,        \* remaining_attempts
     tries     : [Stages -> 0 .. MaxTotalAttempts],  \* stage_attempt_counts
     outcome   : Outcomes \cup {NoOutcome},
     verified  : Nat,                          \* verified_record_sha256
     reported  : Nat,                          \* report_sha256, audit_sha256
     history   : SUBSET (Stages \X Attempts),  \* stage_history
     cancel    : BOOLEAN]                      \* cancel_requested

\* The state create_run and bind_request write.
InitialState ==
    [phase |-> "request_bound", attempt |-> 0, stage |-> 0, count |-> 0,
     remaining |-> MaxTotalAttempts, tries |-> [s \in Stages |-> 0],
     outcome |-> NoOutcome, verified |-> 0, reported |-> 0, history |-> {},
     cancel |-> FALSE]

\* A record's id stands for its hash: no two records written share one.
\* "basis" is the verdict an aggregated record rests on, or "early".
Records == [id : Nat, attempt : 0 .. MaxTotalAttempts,
            outcome : Outcomes \cup {NoOutcome},
            basis : Outcomes \cup {NoOutcome, "early"}]
NoRecord == [id |-> 0, attempt |-> 0, outcome |-> NoOutcome,
             basis |-> NoOutcome]

Entries == [record : Nat, report : Nat, audit : Nat,
            outcome : Outcomes \cup {NoOutcome}]
NoEntry == [record |-> 0, report |-> 0, audit |-> 0, outcome |-> NoOutcome]

StopReasons == {"none", "exited", "failed", "budget", "cancelled"}

Labels == {"idle", "inspect", "snapshot", "inspected", "design", "decide",
           "validated", "prepare", "describe", "prepared", "execute",
           "launch", "sandbox", "finished", "charge", "verify", "store",
           "settle", "close", "verified", "finalize", "early", "audit",
           "report", "entry", "finalized", "interrupt", "interrupted",
           "refinalize", "stop", "stopped"}

Init ==
    /\ disk = InitialState
    /\ snapshot = "none" /\ documents = {}
    /\ dirs = {}
    /\ attemptStage = [a \in Attempts |-> 0]
    /\ facts = [a \in Attempts |-> "none"]
    /\ public = {} /\ frozen = {}
    /\ stageRecord = [s \in Stages |-> 0]
    /\ record = NoRecord /\ audit = 0 /\ report = 0 /\ entry = NoEntry
    /\ late = FALSE /\ marker = FALSE
    /\ launches = [a \in Attempts |-> 0]
    /\ deaths = 0 /\ stops = 0
    /\ pc = [c \in Callers |-> "idle"]
    /\ mem = [c \in Callers |-> InitialState]
    /\ held = [c \in Callers |-> NoRecord]

-----------------------------------------------------------------------------
(* How a call proceeds.                                                    *)

Goto(c, label) == pc' = [pc EXCEPT ![c] = label]
Keep(c, st)    == mem' = [mem EXCEPT ![c] = st]
Hold(c, r)     == held' = [held EXCEPT ![c] = r]

\* The call returns or raises: what it held in memory is gone.
Leave(c) == Goto(c, "idle") /\ Keep(c, InitialState) /\ Hold(c, NoRecord)

\* save_state as the last write of a call.
SaveAndLeave(c, st) ==
    /\ disk' = st
    /\ Leave(c)
    /\ UNCHANGED <<inputFiles, attemptFiles, stageFiles, bundleFiles>>

\* save_state in the middle of a call.
SaveAndGoto(c, st, label) ==
    /\ disk' = st
    /\ Keep(c, st) /\ Goto(c, label)
    /\ UNCHANGED <<inputFiles, attemptFiles, stageFiles, bundleFiles, held>>

\* The call raises and has written nothing since its last write.
Raise(c) ==
    /\ Leave(c)
    /\ UNCHANGED <<disk, inputFiles, attemptFiles, stageFiles, bundleFiles,
                   environment>>

\* Faulty variants: finalize_interrupted without its early return for a
\* finalized run, and prepare accepting a finalized run.
AdmittedInterruptAlways ==
    [inspect   |-> {"request_bound"},
     design    |-> {"request_bound", "inputs_snapshotted"},
     prepare   |-> {"design_validated", "stage_transitioned",
                    "verification_finished"},
     execute   |-> {"attempt_prepared"},
     verify    |-> {"execution_finished"},
     finalize  |-> Phases \ {"report_finalized"},
     interrupt |-> Phases,
     stop      |-> Phases]

AdmittedPrepareFinalized ==
    [inspect   |-> {"request_bound"},
     design    |-> {"request_bound", "inputs_snapshotted"},
     prepare   |-> {"design_validated", "stage_transitioned",
                    "verification_finished", "report_finalized"},
     execute   |-> {"attempt_prepared"},
     verify    |-> {"execution_finished"},
     finalize  |-> Phases \ {"report_finalized"},
     interrupt |-> Phases \ {"report_finalized"},
     stop      |-> Phases]

Admitted ==
    [inspect   |-> {"request_bound"},
     design    |-> {"request_bound", "inputs_snapshotted"},
     prepare   |-> {"design_validated", "stage_transitioned",
                    "verification_finished"},
     execute   |-> {"attempt_prepared"},
     verify    |-> {"execution_finished"},
     finalize  |-> Phases \ {"report_finalized"},
     interrupt |-> Phases \ {"report_finalized"},
     stop      |-> Phases]

\* Faulty variant: prepare repairs any verified outcome.
AdmitsAnyRepair(op, st) == st.phase \in Admitted[op]

\* The phase guard of each call, on the state it has loaded.  A call it
\* refuses, and finalize or finalize_interrupted of a finalized run, changes
\* nothing and is not an action.
Admits(op, st) ==
    /\ st.phase \in Admitted[op]
    /\ op = "prepare" /\ st.phase = "verification_finished"
          => st.outcome = "technical_failure"

\* load_state at the start of a call, then its phase guard.
Begin(c, op) ==
    /\ pc[c] = "idle"
    /\ Admits(op, disk)
    /\ op = "stop" => stops < MaxStops
    /\ stops' = IF op = "stop" THEN stops + 1 ELSE stops
    /\ Keep(c, disk) /\ Goto(c, op)
    /\ UNCHANGED <<disk, inputFiles, attemptFiles, stageFiles, bundleFiles,
                   late, marker, launches, deaths, held>>

\* The process that runs the call dies: only the files remain.
Die(c) ==
    /\ pc[c] # "idle" /\ deaths < MaxDeaths
    /\ deaths' = deaths + 1
    /\ Leave(c)
    /\ UNCHANGED <<disk, inputFiles, attemptFiles, stageFiles, bundleFiles,
                   late, marker, launches, stops>>

\* Time passes beyond total_wall_seconds.
ClockExpires ==
    /\ ~late /\ late' = TRUE
    /\ UNCHANGED <<disk, inputFiles, attemptFiles, stageFiles, bundleFiles,
                   marker, launches, deaths, stops, pc, mem, held>>

\* _remaining_run_seconds(state) <= 0: the clock does not run between the
\* validated design and the first attempt.
OutOfTime(st) == late /\ ~(st.phase = "design_validated" /\ st.count = 0)

-----------------------------------------------------------------------------
(* inspect_inputs                                                          *)

\* snapshot_inputs copies the inputs (the run has at least one input file);
\* a non-empty inputs/ is a policy error.
SnapshotCopy(c) ==
    /\ pc[c] = "inspect" /\ snapshot = "none"
    /\ snapshot' = "copied"
    /\ Goto(c, "snapshot")
    /\ UNCHANGED <<disk, documents, attemptFiles, stageFiles, bundleFiles,
                   environment, mem, held>>

SnapshotWrite(c) ==
    /\ pc[c] = "snapshot"
    /\ snapshot' = "manifest"
    /\ Goto(c, "inspected")
    /\ UNCHANGED <<disk, documents, attemptFiles, stageFiles, bundleFiles,
                   environment, mem, held>>

\* A policy error before or during the copy, or inputs that differ from the
\* bound ones.
SnapshotBlocked(c) ==
    /\ pc[c] \in {"inspect", "snapshot", "inspected"}
    /\ SaveAndLeave(c, [mem[c] EXCEPT !.outcome = "boundary_blocked"])
    /\ UNCHANGED environment

SnapshotCommit(c) ==
    /\ pc[c] = "inspected"
    /\ SaveAndLeave(c, [mem[c] EXCEPT !.phase = "inputs_snapshotted"])
    /\ UNCHANGED environment

-----------------------------------------------------------------------------
(* validate_and_store_design (a run without a design validation budget)    *)

DesignRespond(c) ==
    /\ pc[c] = "design"
    /\ documents' = documents \cup {"response"}
    /\ Goto(c, "decide")
    /\ UNCHANGED <<disk, snapshot, attemptFiles, stageFiles, bundleFiles,
                   environment, mem, held>>

\* The response ends the run: no time left, a boundary, or a response that
\* asks for clarification or blocks execution.  An earlier boundary stays.
DesignTerminal(c) ==
    /\ pc[c] = "decide"
    /\ \E o \in {"budget_stopped", "boundary_blocked",
                 "clarification_required"} :
          /\ o = "budget_stopped" <=> OutOfTime(mem[c])
          /\ mem[c].outcome = "boundary_blocked" /\ ~OutOfTime(mem[c])
                => o = "boundary_blocked"
          /\ SaveAndLeave(c, [mem[c] EXCEPT !.outcome = o])
    /\ UNCHANGED environment

DesignWrite(c) ==
    /\ pc[c] = "decide"
    /\ ~OutOfTime(mem[c]) /\ mem[c].outcome # "boundary_blocked"
    /\ documents' = documents \cup {"design"}
    /\ Goto(c, "validated")
    /\ UNCHANGED <<disk, snapshot, attemptFiles, stageFiles, bundleFiles,
                   environment, mem, held>>

\* The design object is missing, invalid or contradicts the snapshot.
DesignRefused(c) == pc[c] = "decide" /\ Raise(c)

DesignCommit(c) ==
    /\ pc[c] = "validated"
    /\ SaveAndLeave(c, [mem[c] EXCEPT !.phase = "design_validated",
                                      !.stage = 1,
                                      !.tries = [s \in Stages |-> 0]])
    /\ UNCHANGED environment

-----------------------------------------------------------------------------
(* prepare                                                                 *)

\* Faulty variant: prepare checks the time budget only.
BudgetExhaustedByTime(st) == OutOfTime(st)

BudgetExhausted(st) == OutOfTime(st) \/ st.remaining = 0

\* _require_run_budget: the refusal is itself saved.
BudgetStop(c, st) ==
    SaveAndLeave(c, [st EXCEPT !.outcome = "budget_stopped"])

PrepareBudgetStop(c) ==
    /\ pc[c] = "prepare" /\ BudgetExhausted(mem[c])
    /\ BudgetStop(c, mem[c])
    /\ UNCHANGED environment

\* The attempt this call may create: an active stage with attempts left, and
\* a directory of that number that does not exist.
NextAttempt(st) == st.count + 1
MayCreateAnyAttempt(st) ==     \* faulty variant: an old directory is reused
    st.stage \in Stages /\ st.tries[st.stage] < MaxStageAttempts
MayCreateAttempt(st) ==
    /\ st.stage \in Stages
    /\ st.tries[st.stage] < MaxStageAttempts
    /\ NextAttempt(st) \notin dirs

\* No attempt may be created, or the generated code is not acceptable.
PrepareRefused(c) ==
    /\ pc[c] = "prepare" /\ ~BudgetExhausted(mem[c])
    /\ Raise(c)

\* Faulty variant: the state is saved before attempt.json is written.
PrepareMkdirOnly(c) ==
    /\ pc[c] = "prepare"
    /\ ~BudgetExhausted(mem[c]) /\ MayCreateAttempt(mem[c])
    /\ dirs' = dirs \cup {NextAttempt(mem[c])}
    /\ Goto(c, "prepared")
    /\ UNCHANGED <<disk, inputFiles, attemptStage, facts, stageFiles,
                   bundleFiles, environment, mem, held>>

\* prepare_attempt: the directory, with code/ and output/.
PrepareMkdir(c) ==
    /\ pc[c] = "prepare"
    /\ ~BudgetExhausted(mem[c]) /\ MayCreateAttempt(mem[c])
    /\ dirs' = dirs \cup {NextAttempt(mem[c])}
    /\ Goto(c, "describe")
    /\ UNCHANGED <<disk, inputFiles, attemptStage, facts, stageFiles,
                   bundleFiles, environment, mem, held>>

\* prepare_attempt: attempt.json, its last write.
PrepareDescribe(c) ==
    /\ pc[c] = "describe"
    /\ attemptStage' = [attemptStage EXCEPT
                           ![NextAttempt(mem[c])] = mem[c].stage]
    /\ Goto(c, "prepared")
    /\ UNCHANGED <<disk, inputFiles, dirs, facts, stageFiles, bundleFiles,
                   environment, mem, held>>

\* Faulty variant: the stage's own counter is forgotten.
ChargedStateOfRun(st) ==
    [st EXCEPT !.phase = "attempt_prepared",
               !.attempt = NextAttempt(st),
               !.count = st.count + 1,
               !.remaining = st.remaining - 1,
               !.outcome = NoOutcome]

\* The attempt is charged; the first one starts the execution clock.
ChargedState(st) ==
    [st EXCEPT !.phase = "attempt_prepared",
               !.attempt = NextAttempt(st),
               !.count = st.count + 1,
               !.remaining = st.remaining - 1,
               !.tries[st.stage] = st.tries[st.stage] + 1,
               !.outcome = NoOutcome]

\* Faulty variant: the remaining budget is read again from the disk.
PrepareCommitMerged(c) ==
    /\ pc[c] = "prepared"
    /\ SaveAndLeave(c, [ChargedState(mem[c]) EXCEPT
                           !.remaining = disk.remaining - 1])
    /\ late' = IF mem[c].count = 0 THEN FALSE ELSE late
    /\ UNCHANGED <<marker, launches, deaths, stops>>

PrepareCommit(c) ==
    /\ pc[c] = "prepared"
    /\ SaveAndLeave(c, ChargedState(mem[c]))
    /\ late' = IF mem[c].count = 0 THEN FALSE ELSE late
    /\ UNCHANGED <<marker, launches, deaths, stops>>

-----------------------------------------------------------------------------
(* execute                                                                 *)

ExecuteBudgetStop(c) ==
    /\ pc[c] = "execute" /\ OutOfTime(mem[c])
    /\ BudgetStop(c, mem[c])
    /\ UNCHANGED environment

\* Faulty variant: the sandbox starts before the phase is saved.
ExecuteStartUnsaved(c) ==
    /\ pc[c] = "execute" /\ ~OutOfTime(mem[c])
    /\ Keep(c, [mem[c] EXCEPT !.phase = "execution_started"])
    /\ Goto(c, "launch")
    /\ UNCHANGED <<disk, inputFiles, attemptFiles, stageFiles, bundleFiles,
                   environment, held>>

ExecuteStart(c) ==
    /\ pc[c] = "execute" /\ ~OutOfTime(mem[c])
    /\ SaveAndGoto(c, [mem[c] EXCEPT !.phase = "execution_started"], "launch")
    /\ UNCHANGED environment

MayLaunchAgain(a) == TRUE  \* faulty variant: the facts are not looked at
\* execute_attempt refuses an attempt that already has execution facts.
MayLaunch(a) == facts[a] = "none"

Launch(c) ==
    /\ pc[c] = "launch" /\ MayLaunch(mem[c].attempt)
    /\ launches' = [launches EXCEPT ![mem[c].attempt] = @ + 1]
    /\ Goto(c, "sandbox")
    /\ UNCHANGED <<disk, inputFiles, attemptFiles, stageFiles, bundleFiles,
                   late, marker, deaths, stops, mem, held>>

\* execute_attempt raises: the facts exist, the runtime is not ready, or the
\* sandbox cannot be awaited.  The failure is saved in the running phase.
ExecuteFails(c) ==
    /\ pc[c] \in {"launch", "sandbox"}
    /\ SaveAndLeave(c, [mem[c] EXCEPT !.outcome = "technical_failure"])
    /\ UNCHANGED environment

\* The sandbox ends and its facts are recorded.  The poll loop may or may not
\* have seen cancel.requested; the marker is removed either way.
SandboxEnds(c) ==
    /\ pc[c] = "sandbox"
    /\ \E reason \in {"exited", "failed", "budget", "cancelled"} :
          /\ reason = "cancelled" => marker
          /\ facts' = [facts EXCEPT ![mem[c].attempt] = reason]
    /\ marker' = FALSE
    /\ Goto(c, "finished")
    /\ UNCHANGED <<disk, inputFiles, dirs, attemptStage, stageFiles,
                   bundleFiles, late, launches, deaths, stops, mem, held>>

ExecuteFinish(c) ==
    /\ pc[c] = "finished"
    /\ SaveAndGoto(c, [mem[c] EXCEPT !.phase = "execution_finished"], "charge")
    /\ UNCHANGED environment

\* The second save of execute, with the wall seconds used.
ExecuteCharge(c) ==
    /\ pc[c] = "charge"
    /\ SaveAndLeave(c, mem[c])
    /\ UNCHANGED environment

-----------------------------------------------------------------------------
(* verify                                                                  *)

\* The outcomes verify_attempt can give an attempt with these facts.  A
\* changed attempt or a leaked secret blocks whatever the sandbox did.
Verdicts(reason) ==
    [none      |-> {},
     exited    |-> {Scientific, "technical_failure", "boundary_blocked"},
     failed    |-> {"technical_failure", "boundary_blocked"},
     budget    |-> {"budget_stopped", "boundary_blocked"},
     cancelled |-> {"cancelled_by_user", "boundary_blocked"}][reason]

\* Where the verified artifacts of a verdict are released.
ReleaseTree(st, verdict) ==
    IF verdict = Scientific THEN <<"stages", st.stage>>
                            ELSE <<"attempts", st.attempt>>

\* Whether verify_attempt has artifacts to release: always for a scientific
\* verdict of a stage that produces some, perhaps for a technical failure
\* that was found after the worker result had been read.
Releases(st, verdict) ==
    IF st.stage \notin ArtifactStages THEN {FALSE}
    ELSE [v \in Outcomes |->
             IF v = Scientific THEN {TRUE}
             ELSE IF v = "technical_failure" /\ facts[st.attempt] = "exited"
                  THEN BOOLEAN ELSE {FALSE}][verdict]

\* verify_attempt: facts, verdict, and the release of the public artifacts.
VerifyAttempt(c) ==
    /\ pc[c] = "verify"
    /\ attemptStage[mem[c].attempt] = mem[c].stage
    /\ \E verdict \in Verdicts(facts[mem[c].attempt]) :
       \E release \in Releases(mem[c], verdict) :
          /\ release => ReleaseTree(mem[c], verdict) \notin public
          /\ public' = IF release
                       THEN public \cup {ReleaseTree(mem[c], verdict)}
                       ELSE public
          /\ Hold(c, [id |-> 0, attempt |-> mem[c].attempt,
                      outcome |-> verdict, basis |-> verdict])
    /\ Goto(c, "store")
    /\ UNCHANGED <<disk, inputFiles, attemptFiles, frozen, stageRecord,
                   bundleFiles, environment, mem>>

\* An assessment preview, a refused assessment, missing facts, another
\* stage's attempt, or a public artifact that would be overwritten.
VerifyRefused(c) == pc[c] = "verify" /\ Raise(c)

\* verify_attempt: attempts/<a>/record.json and stages/<s>/record.json.
VerifyStore(c) ==
    /\ pc[c] = "store"
    /\ stageRecord' = [stageRecord EXCEPT ![mem[c].stage] = mem[c].attempt]
    /\ Goto(c, "settle")
    /\ UNCHANGED <<disk, inputFiles, attemptFiles, public, frozen,
                   bundleFiles, environment, mem, held>>

RepairAllowed(st, verdict) ==
    /\ verdict = "technical_failure"
    /\ ~BudgetExhausted(st)
    /\ st.tries[st.stage] < MaxStageAttempts

VerifyRepair(c) ==
    /\ pc[c] = "settle" /\ RepairAllowed(mem[c], held[c].outcome)
    /\ SaveAndLeave(c, [mem[c] EXCEPT !.phase = "verification_finished",
                                      !.outcome = "technical_failure"])
    /\ UNCHANGED environment

\* _freeze_stage_artifacts copies the artifacts of a scientific verdict and
\* raises when a copy exists already.  It cannot: the release of the same
\* artifacts under public/stages, which comes first, would have been refused.
ToFreeze(c) ==
    IF held[c].outcome = Scientific THEN {mem[c].stage} \cap ArtifactStages
                                    ELSE {}

VerifyFreeze(c) ==
    /\ pc[c] = "settle" /\ ~RepairAllowed(mem[c], held[c].outcome)
    /\ ToFreeze(c) \cap frozen = {}
    /\ frozen' = frozen \cup ToFreeze(c)
    /\ Goto(c, "close")
    /\ UNCHANGED <<disk, inputFiles, attemptFiles, public, stageRecord,
                   bundleFiles, environment, mem, held>>

DirectTerminal == {"cancelled_by_user", "boundary_blocked"}

\* The stage is appended to the history.
ClosedState(st) ==
    [st EXCEPT !.history = @ \cup {<<st.stage, st.attempt>>}]

\* The design routes the stage to a later stage.
VerifyTransition(c) ==
    /\ pc[c] = "close" /\ held[c].outcome \notin DirectTerminal
    /\ \E next \in {s \in Stages : s > mem[c].stage} :
          SaveAndLeave(c, [ClosedState(mem[c]) EXCEPT
                              !.phase = "stage_transitioned", !.stage = next,
                              !.attempt = 0, !.outcome = NoOutcome,
                              !.verified = 0])
    /\ UNCHANGED environment

\* The design routes the stage to a terminal outcome, or the outcome is one
\* that ends the run directly: _aggregate_stage_record writes record.json.
VerifyAggregate(c) ==
    /\ pc[c] = "close"
    /\ \E target \in IF held[c].outcome \in DirectTerminal
                     THEN {held[c].outcome} ELSE TerminalTargets :
          /\ record' = [held[c] EXCEPT !.id = record.id + 1,
                                       !.outcome = target]
          /\ Hold(c, record')
    /\ Keep(c, ClosedState(mem[c]))
    /\ Goto(c, "verified")
    /\ UNCHANGED <<disk, inputFiles, attemptFiles, stageFiles, audit, report,
                   entry, environment>>

\* Faulty variant: the hash of the record is not stored in the state.
RecordedStateUnhashed(st, r) ==
    [st EXCEPT !.phase = "verification_finished", !.outcome = r.outcome]

\* The state after record r has been written for it.
RecordedState(st, r) ==
    [st EXCEPT !.phase = "verification_finished", !.outcome = r.outcome,
               !.verified = r.id]

VerifyCommit(c) ==
    /\ pc[c] = "verified"
    /\ SaveAndLeave(c, RecordedState(mem[c], held[c]))
    /\ UNCHANGED environment

-----------------------------------------------------------------------------
(* finalize                                                                *)

\* _validated_current_record: record.json is the verified record of the
\* state's current attempt.
CurrentRecord(st) ==
    /\ st.phase \in {"verification_finished", "report_finalized"}
    /\ record.id = st.verified
    /\ record.attempt = st.attempt

\* _validated_finalized_entry without the state's own hashes: the entry
\* describes the files that are there and the outcome of the state.
EntryMatchesBundle(st) ==
    /\ entry.outcome = st.outcome
    /\ entry.record = record.id
    /\ entry.report = report
    /\ entry.audit = audit

\* create_early_record of a run that ends before, or without, verification.
EarlyRecord(st, outcome) ==
    [id |-> record.id + 1, attempt |-> st.attempt, outcome |-> outcome,
     basis |-> "early"]

\* entry_result.json exists: finalize died before its last checkpoint.
MayRecover(st) ==
    /\ entry # NoEntry
    /\ st.phase = "verification_finished"
    /\ EntryMatchesBundle(st)

MayRenderUnverified(st) ==  \* faulty variant: any record.json is rendered
    entry = NoEntry /\ record # NoRecord

MayRender(st) ==
    /\ entry = NoEntry /\ record # NoRecord /\ CurrentRecord(st)

MayRecordEarly(st) ==
    /\ entry = NoEntry /\ record = NoRecord
    /\ st.outcome # NoOutcome /\ "response" \in documents

FinalizeRecover(c) ==
    /\ pc[c] = "finalize" /\ MayRecover(mem[c])
    /\ SaveAndLeave(c, [mem[c] EXCEPT !.phase = "report_finalized",
                                      !.reported = entry.report])
    /\ UNCHANGED environment

\* finalize raises, or validates a run that was finalized since the caller's
\* finalize_interrupted looked at it.
FinalizeRefused(c) ==
    /\ pc[c] = "finalize"
    /\ ~MayRecover(mem[c]) /\ ~MayRender(mem[c]) /\ ~MayRecordEarly(mem[c])
    /\ Raise(c)

FinalizeVerified(c) ==
    /\ pc[c] = "finalize" /\ MayRender(mem[c])
    /\ Hold(c, record)
    /\ Goto(c, "audit")
    /\ UNCHANGED <<disk, inputFiles, attemptFiles, stageFiles, bundleFiles,
                   environment, mem>>

FinalizeEarly(c) ==
    /\ pc[c] = "finalize" /\ MayRecordEarly(mem[c])
    /\ record' = EarlyRecord(mem[c], mem[c].outcome)
    /\ Hold(c, record')
    /\ Goto(c, "early")
    /\ UNCHANGED <<disk, inputFiles, attemptFiles, stageFiles, audit, report,
                   entry, environment, mem>>

FinalizeEarlyCommit(c) ==
    /\ pc[c] = "early"
    /\ SaveAndGoto(c, RecordedState(mem[c], held[c]), "audit")
    /\ UNCHANGED environment

\* finalize_report: audit.md, report.md, entry_result.json, in this order.
WriteAudit(c) ==
    /\ pc[c] = "audit"
    /\ audit' = held[c].id
    /\ Goto(c, "report")
    /\ UNCHANGED <<disk, inputFiles, attemptFiles, stageFiles, record, report,
                   entry, environment, mem, held>>

WriteReport(c) ==
    /\ pc[c] = "report"
    /\ report' = held[c].id
    /\ Goto(c, "entry")
    /\ UNCHANGED <<disk, inputFiles, attemptFiles, stageFiles, record, audit,
                   entry, environment, mem, held>>

\* The entry hashes the files as they are now; its outcome is the record's
\* that was rendered.
WriteEntry(c) ==
    /\ pc[c] = "entry"
    /\ entry' = [record |-> record.id, report |-> report, audit |-> audit,
                 outcome |-> held[c].outcome]
    /\ Keep(c, [mem[c] EXCEPT !.outcome = held[c].outcome,
                              !.reported = report])
    /\ Goto(c, "finalized")
    /\ UNCHANGED <<disk, inputFiles, attemptFiles, stageFiles, record, audit,
                   report, environment, held>>

FinalizeCommit(c) ==
    /\ pc[c] = "finalized"
    /\ SaveAndLeave(c, [mem[c] EXCEPT !.phase = "report_finalized"])
    /\ UNCHANGED environment

-----------------------------------------------------------------------------
(* finalize_interrupted                                                    *)

\* The outcome the host gives, or the one the state suggests.
InterruptionOutcomes(st) ==
    GivenOutcomes \cup {IF st.cancel THEN "cancelled_by_user"
                        ELSE IF OutOfTime(st) THEN "budget_stopped"
                        ELSE "high_uncertainty"}

\* A verified run with a record goes straight to finalize.
GoesToFinalize(st) == st.phase = "verification_finished" /\ record # NoRecord

InterruptVerified(c) ==
    /\ pc[c] = "interrupt" /\ GoesToFinalize(mem[c])
    /\ Goto(c, "refinalize")
    /\ UNCHANGED <<disk, inputFiles, attemptFiles, stageFiles, bundleFiles,
                   environment, mem, held>>

InterruptRecord(c) ==
    /\ pc[c] = "interrupt" /\ ~GoesToFinalize(mem[c])
    /\ \E outcome \in InterruptionOutcomes(mem[c]) :
          record' = EarlyRecord(mem[c], outcome)
    /\ Hold(c, record')
    /\ Goto(c, "interrupted")
    /\ UNCHANGED <<disk, inputFiles, attemptFiles, stageFiles, audit, report,
                   entry, environment, mem>>

InterruptCommit(c) ==
    /\ pc[c] = "interrupted"
    /\ SaveAndGoto(c, RecordedState(mem[c], held[c]), "refinalize")
    /\ UNCHANGED environment

\* finalize, called by finalize_interrupted, loads the state again.
Reload(c) ==
    /\ pc[c] = "refinalize"
    /\ Keep(c, disk) /\ Hold(c, NoRecord) /\ Goto(c, "finalize")
    /\ UNCHANGED <<disk, inputFiles, attemptFiles, stageFiles, bundleFiles,
                   environment>>

-----------------------------------------------------------------------------
(* stop                                                                    *)

\* request_stop: the marker, and the kill of the current attempt's sandbox,
\* which SandboxEnds allows at any time.
StopMark(c) ==
    /\ pc[c] = "stop"
    /\ marker' = TRUE
    /\ Goto(c, "stopped")
    /\ UNCHANGED <<disk, inputFiles, attemptFiles, stageFiles, bundleFiles,
                   late, launches, deaths, stops, mem, held>>

\* stop saves the state it loaded before the marker was written.
StopSave(c) ==
    /\ pc[c] = "stopped"
    /\ SaveAndLeave(c, [mem[c] EXCEPT !.cancel = TRUE])
    /\ UNCHANGED environment

-----------------------------------------------------------------------------
(* Composition.                                                            *)

InspectStep(c)  == \/ SnapshotCopy(c) \/ SnapshotWrite(c)
                   \/ SnapshotBlocked(c) \/ SnapshotCommit(c)
DesignStep(c)   == \/ DesignRespond(c) \/ DesignTerminal(c) \/ DesignWrite(c)
                   \/ DesignRefused(c) \/ DesignCommit(c)
PrepareStep(c)  == \/ PrepareBudgetStop(c) \/ PrepareRefused(c)
                   \/ PrepareMkdir(c) \/ PrepareDescribe(c)
                   \/ PrepareCommit(c)
ExecuteStep(c)  == \/ ExecuteBudgetStop(c) \/ ExecuteStart(c) \/ Launch(c)
                   \/ ExecuteFails(c) \/ SandboxEnds(c) \/ ExecuteFinish(c)
                   \/ ExecuteCharge(c)
VerifyStep(c)   == \/ VerifyAttempt(c) \/ VerifyRefused(c) \/ VerifyStore(c)
                   \/ VerifyRepair(c) \/ VerifyFreeze(c)
                   \/ VerifyTransition(c) \/ VerifyAggregate(c)
                   \/ VerifyCommit(c)
FinalizeStep(c) == \/ FinalizeRecover(c) \/ FinalizeRefused(c)
                   \/ FinalizeVerified(c) \/ FinalizeEarly(c)
                   \/ FinalizeEarlyCommit(c) \/ WriteAudit(c)
                   \/ WriteReport(c) \/ WriteEntry(c) \/ FinalizeCommit(c)
InterruptStep(c) == \/ InterruptVerified(c) \/ InterruptRecord(c)
                    \/ InterruptCommit(c) \/ Reload(c)
StopStep(c)     == StopMark(c) \/ StopSave(c)

\* The next write of the call c is in.
Step(c) == \/ InspectStep(c) \/ DesignStep(c) \/ PrepareStep(c)
           \/ ExecuteStep(c) \/ VerifyStep(c) \/ FinalizeStep(c)
           \/ InterruptStep(c) \/ StopStep(c)

Next ==
    \/ \E c \in Callers :
          \/ \E op \in Operations[c] : Begin(c, op)
          \/ Step(c)
          \/ Die(c)
    \/ ClockExpires

Spec == Init /\ [][Next]_vars

\* A call that runs goes on (the sandbox has a wall limit and the parent a
\* guard beyond it), and a host that finds an unfinished run calls
\* finalize_interrupted again.  No operation else, no death and no stop is
\* promised.
Fairness ==
    /\ \A c \in Callers : WF_vars(Step(c))
    /\ \A c \in Callers :
          "interrupt" \in Operations[c] => SF_vars(Begin(c, "interrupt"))

FairSpec == Spec /\ Fairness

-----------------------------------------------------------------------------
(* Properties.                                                             *)

\* Types of the state and of what the callers hold.
TypeOK ==
    /\ disk \in RunStates
    /\ snapshot \in {"none", "copied", "manifest"}
    /\ documents \subseteq {"response", "design"}
    /\ dirs \subseteq Attempts
    /\ attemptStage \in [Attempts -> 0 .. NumStages]
    /\ facts \in [Attempts -> StopReasons]
    /\ public \subseteq ({"stages"} \X Stages) \cup ({"attempts"} \X Attempts)
    /\ frozen \subseteq Stages
    /\ stageRecord \in [Stages -> 0 .. MaxTotalAttempts]
    /\ record \in Records /\ entry \in Entries
    /\ audit \in Nat /\ report \in Nat
    /\ late \in BOOLEAN /\ marker \in BOOLEAN
    /\ launches \in [Attempts -> Nat]
    /\ deaths \in 0 .. MaxDeaths /\ stops \in 0 .. MaxStops
    /\ pc \in [Callers -> Labels]
    /\ mem \in [Callers -> RunStates]
    /\ held \in [Callers -> Records]

\* Budgets survive every interleaving of calls, stops and deaths: what
\* _require_run_budget and prepare read is always an exact account, and no
\* stage is charged beyond its own limit.
BudgetsHold ==
    /\ disk.count + disk.remaining = MaxTotalAttempts
    /\ \A s \in Stages : disk.tries[s] <= MaxStageAttempts

\* The charges of the stages, counted one by one.
Charges(tries) == {p \in Stages \X Attempts : p[2] <= tries[p[1]]}

\* The per-stage counters are charged together with the run's counter: whatever
\* old copy a call writes back, every attempt of the run is one of a stage.
StageCountsAddUp == Cardinality(Charges(disk.tries)) = disk.count

\* The attempt state.json names is complete on disk (attempt.json is the last
\* write of prepare_attempt) and was created for the active stage, whatever
\* died or interleaved between the mkdir and the checkpoint.
NamedAttemptIsComplete ==
    disk.attempt # 0 => /\ disk.attempt \in dirs
                        /\ attemptStage[disk.attempt] = disk.stage

\* Two calls of prepare never write the code of one attempt.
Preparing(c) == pc[c] \in {"describe", "prepared"}
OneWriterPerAttempt ==
    \A c, d \in Callers :
        Preparing(c) /\ Preparing(d) /\ c # d
            => NextAttempt(mem[c]) # NextAttempt(mem[d])

\* A finalized run's state, record, audit, report and entry agree: the bundle
\* passes the validation finalize applies to it, and it is about the verified
\* record of the current attempt, unless that is a technical failure.
BundleIsConsistent ==
    disk.phase = "report_finalized" =>
        /\ EntryMatchesBundle(disk)
        /\ report = record.id /\ audit = record.id
        /\ disk.reported = report /\ disk.outcome = record.outcome
        /\ disk.outcome # "technical_failure" => CurrentRecord(disk)

\* "record.json belongs to an older attempt and cannot be finalized": a run is
\* finalized only with the record of its current attempt.
FinalizedRecordIsCurrent ==
    disk.phase = "report_finalized" => CurrentRecord(disk)

\* "each attempt executes at most once" (automatic_experiment_execute_attempt).
LaunchedAtMostOnce == \A a \in Attempts : launches[a] <= 1

\* The verdict of an aggregated record is one the recorded execution facts
\* support: no death and no repair leaves a record about other facts.
RecordRestsOnFacts ==
    record.basis \notin {NoOutcome, "early"}
        => record.basis \in Verdicts(facts[record.attempt])

\* The stage record each history row points to is about the attempt of that
\* row, so _aggregate_stage_record composes the evidence the history names.
HistoryIsBacked ==
    \A row \in disk.history : stageRecord[row[1]] = row[2]

\* A finished run is not modified: neither its state nor its bundle.
FinalizedIsFrozen ==
    [][disk.phase = "report_finalized"
          => UNCHANGED <<disk, bundleFiles, dirs>>]_vars

\* finalize_interrupted, called again while the run is unfinished, produces
\* the terminal bundle from every persisted lifecycle phase.
InterruptedRunIsReported == <>(disk.phase = "report_finalized")

\* The run implements what it promises.
Contract == INSTANCE RunContract WITH
    Unpublished <- NoOutcome,
    charged     <- disk.count,
    published   <- IF disk.phase = "report_finalized" THEN disk.outcome
                                                      ELSE NoOutcome
KeepsContract == Contract!ContractSpec
MeetsContract == Contract!ContractFairSpec
-----------------------------------------------------------------------------
(* The inductive invariant behind the proofs of ExperimentRun_proofs.      *)

\* What is true of every copy of state.json, on disk or in a caller's memory
\* and however old: its budget adds up, and its attempt is complete on disk.
Sound(st) ==
    /\ st.count + st.remaining = MaxTotalAttempts
    /\ \A s \in Stages : /\ st.tries[s] <= MaxStageAttempts
                         /\ st.tries[s] <= st.count
    /\ Cardinality(Charges(st.tries)) = st.count
    /\ st.attempt # 0 => /\ st.attempt \in dirs
                         /\ st.stage \in Stages
                         /\ attemptStage[st.attempt] = st.stage
    /\ st.phase \in {"attempt_prepared", "execution_started",
                     "execution_finished"} => st.attempt # 0
    /\ st.phase \in {"request_bound", "inputs_snapshotted"} =>
          st.attempt = 0 /\ st.count = 0

\* Where a caller is tells what it may still do with its copy.
Designing(c) == pc[c] \in {"inspect", "snapshot", "inspected", "design",
                           "decide", "validated"}
Attempting(c) == pc[c] \in {"execute", "launch", "sandbox", "finished",
                            "charge", "verify", "store", "settle", "close",
                            "verified"}
CallerIsSound(c) ==
    /\ Sound(mem[c])
    /\ Designing(c) =>
          mem[c].phase \in {"request_bound", "inputs_snapshotted"}
    /\ Attempting(c) => mem[c].attempt # 0
    /\ Preparing(c) => /\ mem[c].remaining > 0
                       /\ mem[c].stage \in Stages
                       /\ mem[c].tries[mem[c].stage] < MaxStageAttempts
                       /\ NextAttempt(mem[c]) \in dirs
                       /\ attemptStage[NextAttempt(mem[c])] =
                             IF pc[c] = "describe" THEN 0 ELSE mem[c].stage

\* An attempt without a directory is described by no attempt.json.
DescribedExists == \A a \in Attempts : attemptStage[a] # 0 => a \in dirs

SafeParts ==
    /\ Sound(disk)
    /\ \A c \in Callers : CallerIsSound(c)
    /\ DescribedExists
    /\ OneWriterPerAttempt

\* The invariant itself: every copy of state.json a caller may still write
\* back is as good as the one on disk.
IInv == TypeOK /\ SafeParts

-----------------------------------------------------------------------------
(* The inductive invariants behind the proofs of ExperimentSerial_proofs.  *)

\* Who may launch a sandbox, and when nobody else does.
MayExecute(c) == "execute" \in Operations[c]
OneExecutor == \A c, d \in Callers : MayExecute(c) /\ MayExecute(d) => c = d

\* Facts are recorded once, and a verdict rests on them from then on.
CallerHasFacts(c) ==
    /\ pc[c] \in {"execute", "launch", "sandbox", "finished", "charge"} =>
          MayExecute(c)
    /\ pc[c] = "sandbox" => facts[mem[c].attempt] = "none"
    /\ pc[c] \in {"store", "settle", "close"} =>
          /\ held[c].attempt \in Attempts
          /\ held[c].basis \in Verdicts(facts[held[c].attempt])
RecordHasFacts ==
    record.basis \notin {NoOutcome, "early"} => record.attempt \in Attempts
FactsInv == /\ \A c \in Callers : CallerHasFacts(c)
            /\ RecordHasFacts /\ RecordRestsOnFacts

\* One call at a time: nobody else writes what a call has read.
OneCaller == \A c, d \in Callers : c = d

\* The copy of state.json is the file, but for what the call will save next.
CopyIsCurrent(c) ==
    /\ pc[c] \notin {"idle", "verified", "finalized"} => mem[c] = disk
    /\ pc[c] = "verified" => mem[c] = ClosedState(disk)
    /\ pc[c] = "finalized" =>
          mem[c] = [disk EXCEPT !.outcome = held[c].outcome, !.reported = report]

Rendering(c) == pc[c] \in {"audit", "report", "entry", "finalized"}
PhaseIsRight(c) ==
    /\ pc[c] = "execute" => disk.phase = "attempt_prepared"
    /\ pc[c] \in {"launch", "sandbox", "finished"} =>
          disk.phase = "execution_started"
    /\ pc[c] \in {"charge", "verify", "store", "settle", "close", "verified"} =>
          disk.phase = "execution_finished"
    /\ pc[c] \in {"prepare", "describe", "prepared"} => Admits("prepare", disk)
    /\ Rendering(c) \/ pc[c] = "refinalize" => disk.phase = "verification_finished"
    /\ pc[c] \in {"finalize", "early", "interrupt", "interrupted"} =>
          disk.phase # "report_finalized"

\* An attempt is launched after it was charged, and once.
LaunchesAreCharged ==
    /\ disk.attempt <= disk.count
    /\ \A a \in Attempts : launches[a] # 0 => launches[a] = 1 /\ a <= disk.count
    /\ disk.phase = "attempt_prepared" \/ (\E c \in Callers : pc[c] = "launch") =>
          launches[disk.attempt] = 0

\* What a call holds is the record it will commit or render.
HeldIsRecord(c) ==
    /\ pc[c] \in {"store", "settle", "close"} =>
          held[c].attempt = disk.attempt /\ held[c].outcome \in Outcomes
    /\ pc[c] \in {"verified", "early", "interrupted"} =>
          /\ held[c] = record /\ record # NoRecord
          /\ record.attempt = disk.attempt
    /\ Rendering(c) => /\ held[c] = record /\ record # NoRecord
                       /\ CurrentRecord(disk)
    /\ pc[c] \in {"early", "audit", "report", "entry"} => entry = NoEntry
    /\ pc[c] \in {"report", "entry", "finalized"} => audit = record.id
    /\ pc[c] \in {"entry", "finalized"} => report = record.id
    /\ pc[c] = "finalized" => entry # NoEntry /\ entry.record = record.id

\* A record that state.json has verified is about its attempt and outcome, and
\* an entry that is about the record is about all of the bundle; only a
\* technical failure may have been repaired since.
Repairable == record.outcome = "technical_failure"
BooksAgree ==
    /\ record # NoRecord => record.id > 0 /\ record.outcome \in Outcomes
    /\ disk.verified <= record.id /\ entry.record <= record.id
    /\ record # NoRecord /\ disk.verified = record.id =>
          \/ Repairable
          \/ CurrentRecord(disk) /\ disk.outcome = record.outcome
    /\ entry # NoEntry => entry.record > 0
    /\ entry # NoEntry /\ entry.record = record.id =>
          /\ entry.report = report /\ report = record.id
          /\ entry.audit = audit /\ audit = record.id
          /\ entry.outcome = record.outcome
          /\ Repairable \/ disk.verified = record.id

SerialInv ==
    /\ \A c \in Callers : CopyIsCurrent(c) /\ PhaseIsRight(c) /\ HeldIsRecord(c)
    /\ LaunchesAreCharged /\ BooksAgree /\ BundleIsConsistent

\* A stage is closed once: with the transition that leaves it, or with a record
\* that allows no repair.
StageIsClosed ==
    /\ disk.phase \in {"verification_finished", "report_finalized"}
    /\ record # NoRecord /\ ~Repairable
    /\ disk.outcome # "technical_failure"
HistoryInv ==
    /\ disk.phase \in {"request_bound", "inputs_snapshotted"} => disk.history = {}
    /\ \A row \in disk.history : row[1] < disk.stage \/ StageIsClosed
    /\ \A c \in Callers : pc[c] = "verified" => ~Repairable
    /\ \A c \in Callers :
          pc[c] \in {"settle", "close", "verified"} =>
             stageRecord[disk.stage] = disk.attempt
    /\ HistoryIsBacked
=============================================================================
