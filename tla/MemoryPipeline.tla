---------------------------- MODULE MemoryPipeline ----------------------------
(***************************************************************************)
(* The memory pipeline of the agent's host process: after a turn a memory  *)
(* worker is launched as a run of the local LangGraph server               *)
(* (jw/gateway/background_runs.py), a thread watches it, the observations  *)
(* it wrote are credited by comparing the memory directory before and      *)
(* after (jw/memory/worker_activity.py), and when no worker is active the  *)
(* pending observations go to a linker, which is a run as well             *)
(* (jw/memory/scheduler.py).                                               *)
(*                                                                         *)
(* A turn w, the thread that ends it, the watcher of its worker and the    *)
(* linker that this chain of calls may launch act one after the other and  *)
(* share the index w; turns overlap.  One memory directory and one project *)
(* are modelled.  An action ends where another thread can be seen to act:  *)
(* at a lock, at a request to the server, at a read of the directory.      *)
(***************************************************************************)
EXTENDS Integers, FiniteSets

CONSTANTS
    Turns,          \* the turns of agents that end while the host runs
    Observations,   \* observation files, named by the hash of their content
    MaxLost         \* bound: how many launches and watches are lost

ASSUME FiniteAssumption == IsFiniteSet(Turns) /\ IsFiniteSet(Observations)
ASSUME BoundAssumption == MaxLost \in Nat

VARIABLES
    files,          \* observation files that exist
    writer,         \* who is writing each at the moment, or Nobody
    direct,         \* those the agent's own tool wrote
    wrote,          \* those each turn's worker wrote
    run, linker,    \* server: the worker run and the linker run of a turn
    active,         \* _active_runs
    counted,        \* _counted_observation_files
    pending,        \* MemoryScheduler._pending
    launching,      \* _linker_launches_in_progress
    activeLinkers,  \* _active_linker_runs
    before,         \* before_outputs of each launch
    handed,         \* history: <<observation, turn>>, given to its linker
    dropped,        \* history: observations left out or of a failed launch
    watch,          \* what became of each worker's watcher
    linkerWatch,    \* what became of each linker's watcher
    pc, held        \* per turn: the next step, the observations it carries

memory   == <<files, writer, direct, wrote>>
server   == <<run, linker>>
registry == <<active, counted, activeLinkers>>
watchers == <<watch, linkerWatch>>
history  == <<handed, dropped>>
vars == <<memory, server, registry, pending, launching, before, history,
          watchers, pc, held>>

Nobody  == <<>>
Writers == {"tool", "worker", "linker"} \X Turns
\* The files that are being written: nothing can be read from them.
torn == {o \in files : writer[o] # Nobody}

Runs == {"none", "running", "ended"}
Labels == {"idle", "turn", "writing", "noting", "snapped", "submitted",
           "registered", "watching", "ending", "popped", "sampled",
           "credited", "flush", "drained", "linking", "linked", "announced",
           "leaving", "done"}

Init ==
    /\ files = {} /\ direct = {}
    /\ writer = [o \in Observations |-> Nobody]
    /\ wrote = [w \in Turns |-> {}]
    /\ run = [w \in Turns |-> "none"] /\ linker = [w \in Turns |-> "none"]
    /\ active = {} /\ counted = {} /\ activeLinkers = {}
    /\ pending = {} /\ launching = 0
    /\ before = [w \in Turns |-> {}]
    /\ handed = {} /\ dropped = {}
    /\ watch = [w \in Turns |-> "ok"] /\ linkerWatch = [w \in Turns |-> "ok"]
    /\ pc = [w \in Turns |-> "idle"] /\ held = [w \in Turns |-> {}]

Move(w, from, to) == pc[w] = from /\ pc' = [pc EXCEPT ![w] = to]
Carry(w, obs)     == held' = [held EXCEPT ![w] = obs]

-----------------------------------------------------------------------------
(* A turn, and the files.                                                  *)

BeginTurn(w) ==
    /\ Move(w, "idle", "turn")
    /\ UNCHANGED <<memory, server, registry, pending, launching, before,
                   history, watchers, held>>

Idle(by) == \A o \in Observations : writer[o] # by

\* record_observation_file: an observation that exists is not written again.
\* The file exists from the moment it is opened.
Create(o, by) ==
    /\ o \notin files
    /\ files' = files \cup {o}
    /\ writer' = [writer EXCEPT ![o] = by]

\* The agent's record_observation tool opens a file, writes it ...
DirectWrite(w, o) ==
    /\ Move(w, "turn", "writing")
    /\ Create(o, <<"tool", w>>)
    /\ direct' = direct \cup {o}
    /\ Carry(w, {o})
    /\ UNCHANGED <<wrote, server, registry, pending, launching, before,
                   history, watchers>>

DirectClose(w) ==
    /\ Move(w, "writing", "noting")
    /\ writer' = [o \in Observations |->
                     IF o \in held[w] THEN Nobody ELSE writer[o]]
    /\ UNCHANGED <<files, direct, wrote, server, registry, pending, launching,
                   before, history, watchers, held>>

\* ... and then queues it (MemoryScheduler.record_observation_created).
DirectNote(w) ==
    /\ Move(w, "noting", "turn")
    /\ pending' = pending \cup held[w]
    /\ Carry(w, {})
    /\ UNCHANGED <<memory, server, registry, launching, before, history,
                   watchers>>

\* A file that a worker or a linker is writing is complete.
Written(o) ==
    /\ writer[o] \in {"worker", "linker"} \X Turns
    /\ writer' = [writer EXCEPT ![o] = Nobody]
    /\ UNCHANGED <<files, direct, wrote, server, registry, pending, launching,
                   before, history, watchers, pc, held>>

\* The worker run, in the server's process.  It ends when its tools have
\* returned.
WorkerWrites(w, o) ==
    /\ run[w] = "running"
    /\ Create(o, <<"worker", w>>)
    /\ wrote' = [wrote EXCEPT ![w] = @ \cup {o}]
    /\ UNCHANGED <<direct, server, registry, pending, launching, before,
                   history, watchers, pc, held>>

WorkerEnds(w) ==
    /\ run[w] = "running" /\ Idle(<<"worker", w>>)
    /\ run' = [run EXCEPT ![w] = "ended"]
    /\ UNCHANGED <<memory, linker, registry, pending, launching, before,
                   history, watchers, pc, held>>

\* A linker rewrites the files of the observations it relates.
LinkerAmends(w, o) ==
    /\ linker[w] = "running"
    /\ o \in files \ torn
    /\ writer' = [writer EXCEPT ![o] = <<"linker", w>>]
    /\ UNCHANGED <<files, direct, wrote, server, registry, pending, launching,
                   before, history, watchers, pc, held>>

LinkerEnds(w) ==
    /\ linker[w] = "running" /\ Idle(<<"linker", w>>)
    /\ linker' = [linker EXCEPT ![w] = "ended"]
    /\ UNCHANGED <<memory, run, registry, pending, launching, before, history,
                   watchers, pc, held>>

-----------------------------------------------------------------------------
(* after_agent: launch_background_run with the worker's hooks.             *)

\* Faulty variant: the worker is registered before its run exists.
TakeSnapshotAndRegister(w) ==
    /\ Move(w, "turn", "snapped")
    /\ before' = [before EXCEPT ![w] = files]
    /\ active' = active \cup {w}
    /\ UNCHANGED <<memory, server, counted, activeLinkers, pending, launching,
                   history, watchers, held>>

\* on_before_run, after the server has been found and a thread created.
TakeSnapshot(w) ==
    /\ Move(w, "turn", "snapped")
    /\ before' = [before EXCEPT ![w] = files]
    /\ UNCHANGED <<memory, server, registry, pending, launching, history,
                   watchers, held>>

\* No source context, no server, or an exception before the run exists.
LaunchSkipped(w) ==
    /\ pc[w] \in {"turn", "snapped"}
    /\ pc' = [pc EXCEPT ![w] = "flush"]
    /\ UNCHANGED <<memory, server, registry, pending, launching, before,
                   history, watchers, held>>

Submit(w) ==
    /\ Move(w, "snapped", "submitted")
    /\ run' = [run EXCEPT ![w] = "running"]
    /\ UNCHANGED <<memory, linker, registry, pending, launching, before,
                   history, watchers, held>>

MayLose == Cardinality({w \in Turns : watch[w] = "lost"}) < MaxLost

\* The server starts the run but its answer does not arrive.
SubmitUnanswered(w) ==
    /\ MayLose
    /\ Move(w, "snapped", "flush")
    /\ run' = [run EXCEPT ![w] = "running"]
    /\ watch' = [watch EXCEPT ![w] = "lost"]
    /\ UNCHANGED <<memory, linker, registry, pending, launching, before,
                   history, linkerWatch, held>>

\* Faulty variant: the directory is read when the worker is registered.
RegisterAndSample(w) ==
    /\ Move(w, "submitted", "registered")
    /\ active' = active \cup {w}
    /\ before' = [before EXCEPT ![w] = files]
    /\ UNCHANGED <<memory, server, counted, activeLinkers, pending, launching,
                   history, watchers, held>>

\* on_started
Register(w) ==
    /\ Move(w, "submitted", "registered")
    /\ active' = active \cup {w}
    /\ UNCHANGED <<memory, server, counted, activeLinkers, pending, launching,
                   before, history, watchers, held>>

StartWatcher(w) ==
    /\ Move(w, "registered", "watching")
    /\ UNCHANGED <<memory, server, registry, pending, launching, before,
                   history, watchers, held>>

\* on_watcher_start_failed: the launching thread itself ends the worker's
\* accounting, whatever the run does.
WatcherFails(w) ==
    /\ Move(w, "registered", "ending")
    /\ watch' = [watch EXCEPT ![w] = "failed"]
    /\ UNCHANGED <<memory, server, registry, pending, launching, before,
                   history, linkerWatch, held>>

\* aafter_agent is cancelled at an await.  The hook on_started runs in a
\* thread of its own and may still register the worker.
Cancelled(w) ==
    /\ MayLose
    /\ pc[w] \in {"turn", "snapped", "submitted"}
    /\ pc' = [pc EXCEPT ![w] = "done"]
    /\ watch' = [watch EXCEPT ![w] = "lost"]
    /\ \/ UNCHANGED active
       \/ pc[w] = "submitted" /\ active' = active \cup {w}
    /\ UNCHANGED <<memory, server, counted, activeLinkers, pending, launching,
                   before, history, linkerWatch, held>>

-----------------------------------------------------------------------------
(* The watcher, and mark_memory_worker_finished.                           *)

\* A poll that succeeds finds the run ended.  Success and failure of the run
\* have the same effect here.
PollEnds(w) ==
    /\ run[w] = "ended"
    /\ Move(w, "watching", "ending")
    /\ UNCHANGED <<memory, server, registry, pending, launching, before,
                   history, watchers, held>>

\* on_status_unknown: max_poll_failures polls in a row have failed.
WatchLost(w) ==
    /\ MayLose
    /\ Move(w, "watching", "done")
    /\ watch' = [watch EXCEPT ![w] = "lost"]
    /\ active' = active \ {w}
    /\ UNCHANGED <<memory, server, counted, activeLinkers, pending, launching,
                   before, history, linkerWatch, held>>

Unregister(w) ==
    /\ Move(w, "ending", "popped")
    /\ active' = active \ {w}
    /\ UNCHANGED <<memory, server, counted, activeLinkers, pending, launching,
                   before, history, watchers, held>>

Sample(w) ==
    /\ Move(w, "popped", "sampled")
    /\ Carry(w, files \ before[w])
    /\ UNCHANGED <<memory, server, registry, pending, launching, before,
                   history, watchers>>

\* Faulty variant: what another worker was credited with is credited again.
CreditAll(w) ==
    /\ Move(w, "sampled", "credited")
    /\ counted' = counted \cup held[w]
    /\ UNCHANGED <<memory, server, active, activeLinkers, pending, launching,
                   before, history, watchers, held>>

Credit(w) ==
    /\ Move(w, "sampled", "credited")
    /\ Carry(w, held[w] \ counted)
    /\ counted' = counted \cup held[w]
    /\ UNCHANGED <<memory, server, active, activeLinkers, pending, launching,
                   before, history, watchers>>

-----------------------------------------------------------------------------
(* The scheduler and the launch of a linker.                               *)

\* _pending with what this thread adds to it.  A file that is being written
\* has no id yet and is left out.
Queue(w) == pending \cup (held[w] \ torn)

\* Faulty variant: a batch that has to wait is popped all the same.
QueueAndPop(w) ==
    /\ pc[w] \in {"credited", "flush"}
    /\ dropped' = dropped \cup (held[w] \cap torn)
    /\ pending' = {}
    /\ Carry(w, IF active = {} THEN Queue(w) ELSE {})
    /\ pc' = [pc EXCEPT ![w] = IF held'[w] = {} THEN "done" ELSE "drained"]
    /\ UNCHANGED <<memory, server, registry, launching, before, handed,
                   watchers>>

\* Faulty variant: a worker that has recorded nothing drains nothing.
QueueAndDrainIfNew(w) ==
    /\ pc[w] \in {"credited", "flush"}
    /\ dropped' = dropped \cup (held[w] \cap torn)
    /\ IF active = {} /\ ~(pc[w] = "credited" /\ held[w] = {})
       THEN pending' = {} /\ Carry(w, Queue(w))
       ELSE pending' = Queue(w) /\ Carry(w, {})
    /\ pc' = [pc EXCEPT ![w] = IF held'[w] = {} THEN "done" ELSE "drained"]
    /\ UNCHANGED <<memory, server, registry, launching, before, handed,
                   watchers>>

\* record_worker_finished, record_worker_aborted and flush_ready: the batch
\* leaves _pending if no worker is active.
QueueAndDrain(w) ==
    /\ pc[w] \in {"credited", "flush"}
    /\ dropped' = dropped \cup (held[w] \cap torn)
    /\ IF active = {}
       THEN pending' = {} /\ Carry(w, Queue(w))
       ELSE pending' = Queue(w) /\ Carry(w, {})
    /\ pc' = [pc EXCEPT ![w] = IF held'[w] = {} THEN "done" ELSE "drained"]
    /\ UNCHANGED <<memory, server, registry, launching, before, handed,
                   watchers>>

\* mark_observation_linker_launch_started
OpenLaunch(w) ==
    /\ Move(w, "drained", "linking")
    /\ launching' = launching + 1
    /\ UNCHANGED <<memory, server, registry, pending, before, history,
                   watchers, held>>

LinkerSubmit(w) ==
    /\ Move(w, "linking", "linked")
    /\ linker' = [linker EXCEPT ![w] = "running"]
    /\ handed' = handed \cup (held[w] \X {w})
    /\ UNCHANGED <<memory, run, registry, pending, launching, before, dropped,
                   watchers, held>>

\* The server starts the linker but its answer does not arrive: to the host
\* the launch has failed.
LinkerUnanswered(w) ==
    /\ Move(w, "linking", "leaving")
    /\ linker' = [linker EXCEPT ![w] = "running"]
    /\ linkerWatch' = [linkerWatch EXCEPT ![w] = "lost"]
    /\ handed' = handed \cup (held[w] \X {w})
    /\ UNCHANGED <<memory, run, registry, pending, launching, before, dropped,
                   watch, held>>

\* Linking is switched off, the server is down, or a request fails.  The
\* batch is not put back.
LinkerRefused(w) ==
    /\ Move(w, "linking", "leaving")
    /\ dropped' = dropped \cup held[w]
    /\ UNCHANGED <<memory, server, registry, pending, launching, before,
                   handed, watchers, held>>

LinkerRegister(w) ==
    /\ Move(w, "linked", "announced")
    /\ activeLinkers' = activeLinkers \cup {w}
    /\ UNCHANGED <<memory, server, active, counted, pending, launching,
                   before, history, watchers, held>>

LinkerWatched(w) ==
    /\ Move(w, "announced", "leaving")
    /\ linkerWatch' = [linkerWatch EXCEPT ![w] = "watching"]
    /\ UNCHANGED <<memory, server, registry, pending, launching, before,
                   history, watch, held>>

LinkerUnwatched(w) ==
    /\ Move(w, "announced", "leaving")
    /\ linkerWatch' = [linkerWatch EXCEPT ![w] = "lost"]
    /\ activeLinkers' = activeLinkers \ {w}
    /\ UNCHANGED <<memory, server, active, counted, pending, launching,
                   before, history, watch, held>>

\* Faulty variant: launches in progress are a flag, not a count.
CloseLaunches(w) ==
    /\ Move(w, "leaving", "done")
    /\ launching' = 0
    /\ Carry(w, {})
    /\ UNCHANGED <<memory, server, registry, pending, before, history,
                   watchers>>

\* mark_observation_linker_launch_finished
CloseLaunch(w) ==
    /\ Move(w, "leaving", "done")
    /\ launching' = IF launching > 0 THEN launching - 1 ELSE 0
    /\ Carry(w, {})
    /\ UNCHANGED <<memory, server, registry, pending, before, history,
                   watchers>>

\* The linker's watcher: it sees the end of the run, or gives up.
LinkerWatchEnds(w) ==
    /\ linkerWatch[w] = "watching"
    /\ \/ /\ linker[w] = "ended"
          /\ linkerWatch' = [linkerWatch EXCEPT ![w] = "ok"]
       \/ linkerWatch' = [linkerWatch EXCEPT ![w] = "lost"]
    /\ activeLinkers' = activeLinkers \ {w}
    /\ UNCHANGED <<memory, server, active, counted, pending, launching,
                   before, history, watch, pc, held>>

-----------------------------------------------------------------------------
LaunchStep(w) == \/ TakeSnapshot(w) \/ LaunchSkipped(w)
                 \/ Submit(w) \/ SubmitUnanswered(w)
                 \/ Register(w) \/ StartWatcher(w) \/ WatcherFails(w)
FinishStep(w) == \/ PollEnds(w) \/ Unregister(w) \/ Sample(w) \/ Credit(w)
                 \/ QueueAndDrain(w)
LinkStep(w)   == \/ OpenLaunch(w) \/ LinkerSubmit(w)
                 \/ LinkerUnanswered(w) \/ LinkerRefused(w)
                 \/ LinkerRegister(w) \/ LinkerWatched(w)
                 \/ LinkerUnwatched(w) \/ CloseLaunch(w)

\* What the host does next for a turn that has begun.
HostStep(w) == \/ DirectClose(w) \/ DirectNote(w) \/ LaunchStep(w)
               \/ FinishStep(w) \/ LinkStep(w)

ServerStep(w) == \/ WorkerEnds(w) \/ LinkerEnds(w)
                 \/ \E o \in Observations : WorkerWrites(w, o)
                                            \/ LinkerAmends(w, o)

Next ==
    \/ \E w \in Turns :
          \/ BeginTurn(w) \/ HostStep(w) \/ ServerStep(w)
          \/ \E o \in Observations : DirectWrite(w, o)
          \/ Cancelled(w) \/ WatchLost(w) \/ LinkerWatchEnds(w)
    \/ \E o \in Observations : Written(o)

Spec == Init /\ [][Next]_vars

\* Threads that can go on do; a turn that has begun ends, a run ends, and a
\* file that is being written is written.  No turn need begin.
Fairness ==
    /\ \A w \in Turns : WF_vars(HostStep(w)) /\ WF_vars(WorkerEnds(w))
    /\ \A o \in Observations : WF_vars(Written(o))

FairSpec == Spec /\ Fairness
-----------------------------------------------------------------------------
(* Properties.                                                             *)

\* Where a thread carries a batch that no other part of the host knows of.
Batching(w) == pc[w] \in {"drained", "linking"}
\* ... or observations it has been credited with and has not queued.
Carrying(w) == Batching(w) \/ pc[w] = "credited"

\* Types; the registry of workers names submitted runs only, and everything
\* the host remembers is about files that exist.
TypeOK ==
    /\ files \subseteq Observations
    /\ writer \in [Observations -> Writers \cup {Nobody}]
    /\ \A o \in Observations : writer[o] # Nobody => o \in files
    /\ direct \subseteq files /\ wrote \in [Turns -> SUBSET files]
    /\ run \in [Turns -> Runs] /\ linker \in [Turns -> Runs]
    /\ active \subseteq {w \in Turns : run[w] # "none"}
    /\ activeLinkers \subseteq {w \in Turns : linker[w] # "none"}
    /\ counted \subseteq files /\ pending \subseteq files
    /\ launching \in Nat
    /\ before \in [Turns -> SUBSET files]
    /\ handed \subseteq files \X Turns /\ dropped \subseteq files
    /\ watch \in [Turns -> {"ok", "failed", "lost"}]
    /\ linkerWatch \in [Turns -> {"ok", "watching", "lost"}]
    /\ pc \in [Turns -> Labels] /\ held \in [Turns -> SUBSET files]

\* An observation of a worker reaches at most one linker, however many
\* workers overlapped while it was written.  (One of the agent's own tool is
\* queued by the tool and may also be credited to a worker.)
HandedAtMostOnce ==
    \A o \in Observations \ direct : \A v, w \in Turns :
        <<o, v>> \in handed /\ <<o, w>> \in handed => v = w

\* A worker whose end was seen leaves no observation uncredited: whatever it
\* wrote, from the moment its run exists, is in the difference of the two
\* snapshots or was credited to another worker.
Recorded(w) ==
    pc[w] \in {"credited", "drained", "linking", "linked", "announced",
               "leaving", "done"}
WorkerOutputIsCredited ==
    \A w \in Turns :
        run[w] # "none" /\ watch[w] = "ok" /\ Recorded(w)
            => wrote[w] \subseteq counted

\* The status the idle wait reads shows a linker that runs, from the request
\* that starts it, unless its watch was lost.
LinkerIsVisible ==
    \A w \in Turns :
        linker[w] = "running" /\ linkerWatch[w] # "lost"
            => launching > 0 \/ w \in activeLinkers

\* The pipeline keeps the ledger of each observation: what waits for a linker
\* stays in _pending or in the batch of one thread until it is handed over.
Waiting(o) == o \in pending \/ \E w \in Turns : Batching(w) /\ o \in held[w]
Stage(o) ==
    IF \E w \in Turns : <<o, w>> \in handed THEN "handed"
    ELSE IF Waiting(o) THEN "waiting"
    ELSE IF o \in dropped THEN "lost"
    ELSE IF o \in files THEN "written" ELSE "absent"
Ledger == INSTANCE ObservationLedger
              WITH stage <- [o \in Observations |-> Stage(o)]
KeepsLedger == Ledger!LedgerSpec

\* An observation that waits is handed over or given up, although a batch
\* leaves _pending only when a thread looks and no worker is active.
WaitingIsSettled == \A o \in Observations : Waiting(o) ~> ~Waiting(o)

-----------------------------------------------------------------------------
(* The inductive invariant behind the proofs of MemoryPipeline_proofs: an   *)
(* observation no agent's tool wrote is in at most one place on its way to  *)
(* a linker, and is never credited to a worker again.                       *)

\* What a thread holds of its tool's is known to be the tool's.
NotedAreDirect ==
    \A w \in Turns :
        pc[w] \in {"writing", "noting"} => held[w] \subseteq direct

\* A registered run has been submitted.
RunsExist ==
    \A w \in Turns :
        /\ pc[w] \in {"submitted", "registered"} => run[w] # "none"
        /\ pc[w] \in {"linked", "announced"} => linker[w] # "none"

\* Nothing is carried before a launch, nor to a flush.
EmptyHanded ==
    \A w \in Turns :
        pc[w] \in {"idle", "turn", "snapped", "flush"} => held[w] = {}

\* Only the tool's own and credited observations are on their way ...
Credited(o) == o \in direct \/ o \in counted
OnlyCreditedMove ==
    /\ \A o \in pending : Credited(o)
    /\ \A w \in Turns : Carrying(w) => \A o \in held[w] : Credited(o)
    /\ \A o \in Observations, w \in Turns :
          <<o, w>> \in handed => Credited(o)

\* ... and one of a worker's is in one place only.
OnePlace ==
    \A o \in Observations \ direct :
        /\ \A v, w \in Turns :
              /\ Carrying(v) /\ Carrying(w) => \/ v = w
                                             \/ o \notin held[v]
                                             \/ o \notin held[w]
              /\ Carrying(v) /\ <<o, w>> \in handed => o \notin held[v]
        /\ \A w \in Turns : Carrying(w) /\ o \in pending => o \notin held[w]
        /\ \A w \in Turns : <<o, w>> \in handed => o \notin pending

\* The invariant itself.
LedgerInv ==
    /\ TypeOK /\ NotedAreDirect /\ RunsExist /\ EmptyHanded
    /\ OnlyCreditedMove /\ OnePlace /\ HandedAtMostOnce

\* What a worker writes is new to its launch's snapshot, it stops writing
\* before a watcher that sees the end looks again, and the second snapshot
\* has it all.
CreditInv ==
    \A w \in Turns :
        /\ wrote[w] \cap before[w] = {}
        /\ run[w] = "none" => wrote[w] = {}
        /\ pc[w] \in {"idle", "turn", "writing", "noting", "snapped"}
              => run[w] = "none"
        /\ watch[w] = "ok" =>
              /\ pc[w] = "flush" => run[w] = "none"
              /\ pc[w] \in {"ending", "popped", "sampled"} => run[w] = "ended"
              /\ pc[w] = "sampled" => wrote[w] \subseteq held[w]
              /\ Recorded(w) => /\ run[w] # "running"
                                /\ wrote[w] \subseteq counted

\* The count is the number of threads inside a launch; from the request that
\* starts a linker to the end of the launch the count shows it, and what is
\* still running after that is registered until its watcher lets go of it.
InLaunch(w) == pc[w] \in {"linking", "linked", "announced", "leaving"}
LaunchesAreCounted == launching = Cardinality({w \in Turns : InLaunch(w)})
LinkersAreWatched ==
    \A w \in Turns :
        /\ linker[w] # "none"
              => pc[w] \in {"linked", "announced", "leaving", "done"}
        /\ pc[w] = "announced" => w \in activeLinkers
        /\ linkerWatch[w] = "watching"
              => w \in activeLinkers /\ pc[w] \in {"leaving", "done"}
        /\ linker[w] = "running" /\ pc[w] \in {"leaving", "done"}
              => linkerWatch[w] \in {"watching", "lost"}
VisibleInv == LaunchesAreCounted /\ LinkersAreWatched
=============================================================================
