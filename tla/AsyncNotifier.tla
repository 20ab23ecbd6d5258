----------------------------- MODULE AsyncNotifier -----------------------------
(***************************************************************************)
(* Watchers of asynchronous sub-agents: jw/cli/async_notifier.py and       *)
(* jw/middleware/async_watcher.py.  A task is a thread on the LangGraph    *)
(* server and has a run after the other.  A watcher follows the stream of  *)
(* one run, asks the server what became of it, and leaves a notification   *)
(* for the session that launched the task.                                 *)
(*                                                                         *)
(* Watchers are tasks of the event loop of the terminal application, which *)
(* is TurnLoop.  An action ends where a task waits.                        *)
(***************************************************************************)
EXTENDS Integers, Sequences

CONSTANTS
    Tasks,          \* sub-agent threads
    Sessions,       \* threads of the terminal application
    MaxReconnects,  \* _MAX_RECONNECT_ATTEMPTS
    MaxRuns,        \* bound: runs of one task
    NoSession

ASSUME ReconnectAssumption == MaxReconnects \in Nat
ASSUME RunAssumption == MaxRuns \in Nat \ {0}
ASSUME SessionAssumption == NoSession \notin Sessions

VARIABLES
    runs,           \* external: the runs of a task on the server
    home,           \* origin_cli_thread_id of a task
    watchers,       \* the watcher of a run
    registered,     \* _watcher_by_thread: the run whose watcher is current
    mail            \* _notifications_by_thread

notifier == <<runs, home, watchers, registered, mail>>

RunIds == 1..MaxRuns
Completions == Tasks \X RunIds
TERMINAL_STATUSES == {"success", "error", "timeout", "interrupted"}
Statuses == TERMINAL_STATUSES \cup {"running"}

Latest(t) == Len(runs[t])
Status(t, r) == runs[t][r]
Ended(t, r) == r <= Latest(t) /\ Status(t, r) \in TERMINAL_STATUSES

NoWatcher == [pc |-> "none", tries |-> 0, broken |-> FALSE]
Active(t, r) == watchers[<<t, r>>].pc \in {"join", "get"}
\* _has_relevant_active_watchers
ActiveIn(s) == \E t \in Tasks, r \in RunIds : home[t] = s /\ Active(t, r)

InitNotifier ==
    /\ runs = [t \in Tasks |-> <<>>]
    /\ home = [t \in Tasks |-> NoSession]
    /\ watchers = [c \in Completions |-> NoWatcher]
    /\ registered = [t \in Tasks |-> 0]
    /\ mail = [s \in Sessions |-> <<>>]

-----------------------------------------------------------------------------
(* The server.                                                             *)

RunEnds(t) ==
    /\ Latest(t) > 0 /\ Status(t, Latest(t)) = "running"
    /\ \E status \in {"success", "error"} :
          runs' = [runs EXCEPT ![t][Latest(t)] = status]
    /\ UNCHANGED <<home, watchers, registered, mail>>

\* A new run interrupts the one before it.
WithRun(t) ==
    [r \in 1..(Latest(t) + 1) |->
        IF r > Latest(t) THEN "running"
        ELSE IF Status(t, r) = "running" THEN "interrupted" ELSE Status(t, r)]

-----------------------------------------------------------------------------
(* watch_run_and_notify.                                                   *)

\* A watcher that is done takes itself off the register if it still is on it.
Finished(t, r, pc) ==
    /\ watchers' = [watchers EXCEPT ![<<t, r>>] = [NoWatcher EXCEPT !.pc = pc]]
    /\ registered' = [registered EXCEPT ![t] = IF @ = r THEN 0 ELSE @]

Report(t, r, status) ==
    /\ mail' = [mail EXCEPT ![home[t]] =
                    Append(@, [task |-> t, run |-> r, status |-> status])]
    /\ Finished(t, r, "done")

\* The run fails while its stream is watched.
SeesError(t, r) ==
    /\ watchers[<<t, r>>].pc = "join" /\ Status(t, r) = "error"
    /\ Report(t, r, "error")
    /\ UNCHANGED <<runs, home>>

\* Faulty: a stream that closes cleanly is a run that has ended.
StreamClosesTrusted(t, r) ==
    /\ watchers[<<t, r>>].pc = "join"
    /\ Report(t, r, "success")
    /\ UNCHANGED <<runs, home>>
\* The stream closes or breaks, whatever the run does.
StreamCloses(t, r) ==
    /\ watchers[<<t, r>>].pc = "join"
    /\ \E broken \in BOOLEAN :
          watchers' = [watchers EXCEPT ![<<t, r>>].pc = "get",
                                       ![<<t, r>>].broken = broken]
    /\ UNCHANGED <<runs, home, registered, mail>>

\* An error nobody saw in the stream is not believed, unless the stream broke.
Verified(t, r) ==
    IF Status(t, r) = "error" /\ ~watchers[<<t, r>>].broken THEN "success"
    ELSE Status(t, r)
RunHasEnded(t, r) ==
    /\ watchers[<<t, r>>].pc = "get" /\ Ended(t, r)
    /\ Report(t, r, Verified(t, r))
    /\ UNCHANGED <<runs, home>>

\* Faulty: one attempt too many.
MayRejoinOnceMore(t, r) == watchers[<<t, r>>].tries <= MaxReconnects
\* The run goes on, or the server does not answer.
MayRejoin(t, r) == watchers[<<t, r>>].tries < MaxReconnects
Rejoin(t, r) ==
    /\ watchers[<<t, r>>].pc = "get" /\ MayRejoin(t, r)
    /\ watchers' = [watchers EXCEPT ![<<t, r>>].pc = "join", ![<<t, r>>].tries = @ + 1,
                                    ![<<t, r>>].broken = FALSE]
    /\ UNCHANGED <<runs, home, registered, mail>>

GiveUp(t, r) ==
    /\ watchers[<<t, r>>].pc = "get" /\ ~MayRejoin(t, r)
    /\ Finished(t, r, "lost")
    /\ UNCHANGED <<runs, home, mail>>

WatcherStep(t, r) ==
    \/ SeesError(t, r) \/ StreamCloses(t, r)
    \/ RunHasEnded(t, r) \/ Rejoin(t, r) \/ GiveUp(t, r)

-----------------------------------------------------------------------------
(* AsyncWatcherMiddleware, around the two tools that launch a run.         *)

Cancelled(t, r, ws) ==
    IF r # 0 /\ ws[<<t, r>>].pc \in {"join", "get"}
    THEN [ws EXCEPT ![<<t, r>>] = [NoWatcher EXCEPT !.pc = "cancelled"]]
    ELSE ws

\* Faulty: the old watcher is left alone until the new one is there.
PreCancelNothing(t) == UNCHANGED <<watchers, registered>>
\* A new run closes the stream of the old one: its watcher goes before that.
PreCancel(t) ==
    /\ watchers' = Cancelled(t, registered[t], watchers)
    /\ registered' = [registered EXCEPT ![t] = 0]

\* spawn_watcher.
SpawnWatcher(t, r) ==
    /\ watchers' = [Cancelled(t, registered[t], watchers) EXCEPT
                       ![<<t, r>>] = [NoWatcher EXCEPT !.pc = "join"]]
    /\ registered' = [registered EXCEPT ![t] = r]
=============================================================================
