------------------------------- MODULE TurnLoop -------------------------------
(***************************************************************************)
(* The turns of the terminal application, jw/cli/tui_interactive.py: what  *)
(* the user types, messages of the channels, commands, and turns that tell *)
(* the agent of completed tasks.  The flag _busy is meant to keep them     *)
(* apart; it is looked at before a task of the event loop is created, and  *)
(* set when that task runs.  Turns launch the tasks that AsyncNotifier     *)
(* watches, and a poller takes its notifications.                          *)
(***************************************************************************)
EXTENDS AsyncNotifier, FiniteSets, Functions

CONSTANTS
    FirstSession,   \* the session the application starts with
    MaxInputs       \* bound: what the user and the channels do, all told

ASSUME InputAssumption == FirstSession \in Sessions /\ MaxInputs \in Nat

VARIABLES
    turns,          \* tasks of the event loop that run a turn, or will
    busy,           \* _busy
    runTask,        \* _run_task: what that turn is about
    queued,         \* _queued_messages
    prompt,         \* whether the user can type
    current,        \* _conversation_tid
    consumer,       \* consume_notifications; "idle": _notification_consuming is not set
    known,          \* async_tasks of the agent: the run of a task, and
                    \* whether the agent has checked that it has ended
    channel,        \* messages in the queue of the channels
    inputs,         \* how much has been typed, sent, ordered, interrupted
    told, aside,    \* history: completions told, and where; and put aside
    crossed         \* history: tasks two turns have launched runs of at once

vars == <<notifier, turns, busy, runTask, queued, prompt, current, consumer,
          known, channel, inputs, told, aside, crossed>>

\* What a turn is about: a message, by its number, or completions.
Typed(i)       == [kind |-> "typed", no |-> i, about |-> {}]
FromChannel(i) == [kind |-> "channel", no |-> i, about |-> {}]
Command(i)     == [kind |-> "command", no |-> i, about |-> {}]
Telling(batch) == [kind |-> "told", no |-> 0, about |-> batch]
NoTurn         == Telling({})

NoCall == [pc |-> "none", task |-> NoSession, run |-> 0]
NewTurn(what, session) ==
    [what |-> what, pc |-> "new", session |-> session, call |-> NoCall]
Becomes(x, y) == turns' = (turns \ {x}) \cup {y}
Goto(x, pc) == Becomes(x, [x EXCEPT !.pc = pc])
IsMessage(x) == x.what.kind \in {"typed", "told"}

IdleConsumer == [pc |-> "idle", session |-> NoSession, batch |-> <<>>, seen |-> {}]

Init ==
    /\ InitNotifier
    /\ turns = {} /\ busy = FALSE /\ runTask = NoTurn /\ queued = <<>>
    /\ prompt = TRUE /\ current = FirstSession /\ consumer = IdleConsumer
    /\ known = [t \in Tasks |-> [run |-> 0, ended |-> FALSE]]
    /\ channel = <<>>
    /\ inputs = [typed |-> 0, channel |-> 0, commands |-> 0, interrupts |-> 0]
    /\ told = {} /\ aside = {} /\ crossed = {}

history == <<told, aside, crossed>>
loopState == <<busy, runTask, queued, prompt, current>>

-----------------------------------------------------------------------------
(* The user.                                                               *)

MayInput == inputs.typed + inputs.channel + inputs.commands + inputs.interrupts
                < MaxInputs

\* on_chat_text_area_submitted.  While the application is busy, a message
\* waits for the end of the turn.
Type ==
    LET i == inputs.typed + 1 IN
    /\ prompt /\ MayInput
    /\ inputs' = [inputs EXCEPT !.typed = i]
    /\ IF busy
       THEN queued' = Append(queued, i) /\ UNCHANGED <<turns, runTask>>
       ELSE /\ turns' = turns \cup {NewTurn(Typed(i), NoSession)}
            /\ runTask' = Typed(i)
            /\ UNCHANGED queued
    /\ UNCHANGED <<notifier, busy, prompt, current, consumer, known, channel,
                   history>>

\* /new and /resume.
Order ==
    LET i == inputs.commands + 1 IN
    /\ prompt /\ ~busy /\ MayInput
    /\ inputs' = [inputs EXCEPT !.commands = i]
    /\ turns' = turns \cup {NewTurn(Command(i), NoSession)}
    /\ UNCHANGED <<notifier, loopState, consumer, known, channel, history>>

\* action_request_quit while busy.  A task that has not begun is just gone.
Interrupt ==
    /\ busy /\ MayInput
    /\ inputs' = [inputs EXCEPT !.interrupts = @ + 1]
    /\ queued' = <<>>
    /\ \/ \E x \in turns :
             /\ x.what = runTask /\ UNCHANGED busy
             /\ IF x.pc = "new" THEN turns' = turns \ {x} ELSE Goto(x, "stopping")
       \/ /\ \A x \in turns : x.what # runTask
          /\ busy' = FALSE
          /\ UNCHANGED turns
    /\ UNCHANGED <<notifier, runTask, prompt, current, consumer, known, channel,
                   history>>

ChannelSends ==
    LET i == inputs.channel + 1 IN
    /\ MayInput
    /\ inputs' = [inputs EXCEPT !.channel = i]
    /\ channel' = Append(channel, i)
    /\ UNCHANGED <<notifier, turns, loopState, consumer, known, history>>

-----------------------------------------------------------------------------
(* _poll_channel_queue, ten times a second.                                *)

\* A message that cannot be taken yet goes to the end of the queue.
PollChannel ==
    /\ channel # <<>>
    /\ IF busy
       THEN /\ channel' = Append(Tail(channel), Head(channel))
            /\ UNCHANGED turns
       ELSE /\ channel' = Tail(channel)
            /\ turns' = turns \cup {NewTurn(FromChannel(Head(channel)), NoSession)}
    /\ UNCHANGED <<notifier, loopState, consumer, known, inputs, history>>

PollNotifications ==
    /\ channel = <<>> /\ ~busy
    /\ consumer.pc = "idle" /\ mail[current] # <<>>
    /\ consumer' = [consumer EXCEPT !.pc = "scheduled"]
    /\ UNCHANGED <<notifier, turns, loopState, known, channel, inputs, history>>

-----------------------------------------------------------------------------
(* consume_notifications.                                                  *)

Completion(note) == <<note.task, note.run>>
About(notes) == {Completion(n) : n \in Range(notes)}

StartConsuming ==
    /\ consumer.pc = "scheduled"
    /\ consumer' =
          IF mail[current] = <<>> THEN IdleConsumer
          ELSE [consumer EXCEPT !.pc = "wait", !.session = current,
                                !.batch = mail[current]]
    /\ mail' = [mail EXCEPT ![current] = <<>>]
    /\ UNCHANGED <<runs, home, watchers, registered, turns, loopState, known,
                   channel, inputs, history>>

\* Faulty: what is drained later replaces what was drained before.
DrainAnew(notes) ==
    /\ consumer' = [consumer EXCEPT !.batch = notes,
                       !.pc = IF ActiveIn(consumer.session) THEN @ ELSE "read"]
    /\ mail' = [mail EXCEPT ![consumer.session] = <<>>]
\* It waits for other watchers of its session, three seconds at most.
Drain(notes) ==
    /\ \/ consumer' = [consumer EXCEPT !.batch = @ \o notes, !.pc = "read"]
       \/ /\ ActiveIn(consumer.session) /\ notes # <<>>
          /\ consumer' = [consumer EXCEPT !.batch = @ \o notes]
    /\ mail' = [mail EXCEPT ![consumer.session] = <<>>]
DrainMore ==
    /\ consumer.pc = "wait"
    /\ Drain(mail[consumer.session])
    /\ UNCHANGED <<runs, home, watchers, registered, turns, loopState, known,
                   channel, inputs, history>>

\* The state of the agent may be unreadable: then nothing is known.
ReadTasks ==
    /\ consumer.pc = "read"
    /\ \E seen \in {{}, {t \in Tasks : known[t].ended}} :
          consumer' = [consumer EXCEPT !.pc = "inject", !.seen = seen]
    /\ UNCHANGED <<notifier, turns, loopState, known, channel, inputs, history>>

\* Faulty: the session of the moment is told.
TargetNow == current
Target == consumer.session
\* Faulty: the consumer returns without clearing its flag when it has no news.
FreeAfterNews(news) ==
    IF news = {} THEN [IdleConsumer EXCEPT !.pc = "held"] ELSE IdleConsumer
FreeAfter(news) == IdleConsumer
\* dedup_notifications and _inject_notification_tui, whatever has become of
\* the session, and of busy, meanwhile.
Inject ==
    LET batch == About(consumer.batch)
        seen == {c \in batch : c[1] \in consumer.seen}
        news == batch \ seen
        what == Telling(news)
    IN /\ consumer.pc = "inject"
       /\ IF news = {}
          THEN UNCHANGED <<turns, busy, runTask, told>>
          ELSE /\ turns' = turns \cup {NewTurn(what, Target)}
               /\ busy' = TRUE
               /\ runTask' = what
               /\ told' = told \cup {<<c, Target>> : c \in news}
       /\ aside' = aside \cup seen
       /\ consumer' = FreeAfter(news)
       /\ UNCHANGED <<notifier, queued, prompt, current, known, channel, inputs,
                      crossed>>

-----------------------------------------------------------------------------
(* A turn: _run_turn, _process_channel_message, _handle_command.           *)

\* The task runs at last.
Start(x) ==
    /\ x.pc = "new"
    /\ busy' = TRUE
    /\ Goto(x, "opening")
    /\ prompt' = IF x.what.kind = "command" THEN FALSE ELSE prompt
    /\ UNCHANGED <<notifier, runTask, queued, current, consumer, known, channel,
                   inputs, history>>

\* The stream of the agent begins, in the session of the moment, unless the
\* turn has one.
Open(x) ==
    /\ x.pc = "opening" /\ x.what.kind # "command"
    /\ Becomes(x, [x EXCEPT !.pc = "run",
                   !.session = IF @ = NoSession THEN current ELSE @])
    /\ prompt' = IF x.what.kind = "channel" THEN FALSE ELSE prompt
    /\ UNCHANGED <<notifier, busy, runTask, queued, current, consumer, known,
                   channel, inputs, history>>

\* The answer is complete; or the agent could not be loaded; or the user has
\* interrupted the turn.
EndMessage(x) ==
    /\ IsMessage(x)
    /\ \/ x.pc = "run" /\ x.call = NoCall /\ Goto(x, "tidy")
       \/ x.pc = "opening" /\ Goto(x, "tidied")
       \/ x.pc = "stopping" /\ Becomes(x, [x EXCEPT !.pc = "tidied", !.call = NoCall])
    /\ busy' = FALSE /\ runTask' = NoTurn
    /\ UNCHANGED <<notifier, queued, prompt, current, consumer, known, channel,
                   inputs, history>>

\* Faulty: only a typed message goes on with the queue.
MayPopTyped(x) == x.what.kind = "typed" /\ queued # <<>>
MayPop(x) == queued # <<>>
\* After it has tidied up, a turn that was completed goes on with the next
\* message of the queue, whatever has begun meanwhile.
GoOn(x) ==
    /\ x.pc \in {"tidy", "tidied"}
    /\ IF x.pc = "tidy" /\ MayPop(x)
       THEN /\ Becomes(x, NewTurn(Typed(Head(queued)), NoSession))
            /\ runTask' = Typed(Head(queued))
            /\ queued' = Tail(queued)
       ELSE /\ turns' = turns \ {x}
            /\ UNCHANGED <<queued, runTask>>
    /\ UNCHANGED <<notifier, busy, prompt, current, consumer, known, channel,
                   inputs, history>>

EndChannel(x) ==
    /\ x.what.kind = "channel" /\ x.pc = "run" /\ x.call = NoCall
    /\ turns' = turns \ {x}
    /\ busy' = FALSE /\ prompt' = TRUE
    /\ UNCHANGED <<notifier, runTask, queued, current, consumer, known, channel,
                   inputs, history>>

EndCommand(x) ==
    /\ x.what.kind = "command" /\ x.pc = "opening"
    /\ turns' = turns \ {x}
    /\ \E s \in Sessions : s # current /\ current' = s
    /\ busy' = FALSE /\ prompt' = TRUE
    /\ UNCHANGED <<notifier, runTask, queued, consumer, known, channel, inputs,
                   history>>

-----------------------------------------------------------------------------
(* The agent's tools: start_async_task, update_async_task,                 *)
(* check_async_task.                                                       *)

Ready(x) == x.pc = "run" /\ x.call = NoCall
Call(x, pc, t, r) ==
    Becomes(x, [x EXCEPT !.call = [pc |-> pc, task |-> t, run |-> r]])
Launching(t) == {x \in turns : x.call.pc # "none" /\ x.call.task = t}

StartTask(x, t) ==
    /\ Ready(x) /\ home[t] = NoSession
    /\ home' = [home EXCEPT ![t] = x.session]
    /\ runs' = [runs EXCEPT ![t] = WithRun(t)]
    /\ Call(x, "spawn", t, 1)
    /\ UNCHANGED <<watchers, registered, mail, loopState, consumer, known,
                   channel, inputs, history>>

UpdateTask(x, t) ==
    /\ Ready(x) /\ home[t] = x.session /\ known[t].run # 0
    /\ Latest(t) + Cardinality(Launching(t)) < MaxRuns
    /\ PreCancel(t)
    /\ Call(x, "update", t, 0)
    /\ crossed' = IF Launching(t) = {} THEN crossed ELSE crossed \cup {t}
    /\ UNCHANGED <<runs, home, mail, loopState, consumer, known, channel,
                   inputs, told, aside>>

Updated(x) ==
    LET t == x.call.task IN
    /\ x.pc = "run" /\ x.call.pc = "update"
    /\ runs' = [runs EXCEPT ![t] = WithRun(t)]
    /\ Call(x, "spawn", t, Latest(t) + 1)
    /\ UNCHANGED <<home, watchers, registered, mail, loopState, consumer,
                   known, channel, inputs, history>>

\* The tool returns an error: before or after the server has a new run.
UpdateFails(x) ==
    /\ x.pc = "run" /\ x.call.pc \in {"update", "spawn"}
    /\ Becomes(x, [x EXCEPT !.call = NoCall])
    /\ UNCHANGED <<notifier, loopState, consumer, known, channel, inputs,
                   history>>

Spawn(x) ==
    LET t == x.call.task IN
    /\ x.pc = "run" /\ x.call.pc = "spawn"
    /\ SpawnWatcher(t, x.call.run)
    /\ known' = [known EXCEPT ![t] = [run |-> x.call.run, ended |-> FALSE]]
    /\ Becomes(x, [x EXCEPT !.call = NoCall])
    /\ UNCHANGED <<runs, home, mail, loopState, consumer, channel, inputs,
                   history>>

Check(x, t) ==
    /\ Ready(x) /\ home[t] = x.session /\ known[t].run # 0
    /\ Ended(t, known[t].run) /\ ~known[t].ended
    /\ known' = [known EXCEPT ![t].ended = TRUE]
    /\ UNCHANGED <<notifier, turns, loopState, consumer, channel, inputs,
                   history>>

-----------------------------------------------------------------------------
Unchanged == UNCHANGED <<turns, loopState, consumer, known, channel, inputs, history>>

PollStep == PollChannel \/ PollNotifications
ConsumerStep == StartConsuming \/ DrainMore \/ ReadTasks \/ Inject
TurnStep(x) ==
    \/ Start(x) \/ Open(x) \/ EndMessage(x) \/ GoOn(x)
    \/ EndChannel(x) \/ EndCommand(x)
    \/ Updated(x) \/ UpdateFails(x) \/ Spawn(x)
ToolStep(x) == \E t \in Tasks : StartTask(x, t) \/ UpdateTask(x, t) \/ Check(x, t)

Next ==
    \/ Type \/ Order \/ Interrupt \/ ChannelSends
    \/ PollStep \/ ConsumerStep
    \/ \E x \in turns : TurnStep(x) \/ ToolStep(x)
    \/ \E t \in Tasks : RunEnds(t) /\ Unchanged
    \/ \E t \in Tasks, r \in RunIds : WatcherStep(t, r) /\ Unchanged

Spec == Init /\ [][Next]_vars

\* The event loop runs every task that can run, the timer ticks, a turn ends
\* some time, and so does the stream of a run that has ended.  No run has to
\* end, no stream of a live run has to close, and the user has to do nothing.
Fairness ==
    /\ WF_vars(PollStep) /\ WF_vars(ConsumerStep)
    /\ WF_vars(\E x \in turns : TurnStep(x))
    /\ SF_vars(\E x \in turns : EndMessage(x) \/ EndChannel(x))
    /\ WF_vars(\E t \in Tasks, r \in RunIds :
                  /\ Ended(t, r) \/ watchers[<<t, r>>].pc = "get"
                  /\ WatcherStep(t, r) /\ Unchanged)
FairSpec == Spec /\ Fairness

-----------------------------------------------------------------------------
(* Properties.                                                             *)

Whats ==
    {Typed(i) : i \in 1..MaxInputs} \cup {FromChannel(i) : i \in 1..MaxInputs}
    \cup {Command(i) : i \in 1..MaxInputs}
    \cup {Telling(b) : b \in SUBSET Completions}
Notes == [task : Tasks, run : RunIds, status : TERMINAL_STATUSES]
AreNotes(notes) == Range(notes) \subseteq Notes
AreNumbers(queue) == Range(queue) \subseteq 1..MaxInputs /\ IsInjective(queue)

\* The state has its types; no message waits twice; only a turn that runs is
\* in a tool; the turn of a command has no session.
TypeOK ==
    /\ \A t \in Tasks : Latest(t) <= MaxRuns /\ Range(runs[t]) \subseteq Statuses
    /\ home \in [Tasks -> Sessions \cup {NoSession}]
    /\ registered \in [Tasks -> 0..MaxRuns]
    /\ \A c \in Completions :
          /\ watchers[c].pc \in {"none", "join", "get", "done", "lost", "cancelled"}
          /\ watchers[c].tries \in 0..MaxReconnects
    /\ \A s \in Sessions : AreNotes(mail[s])
    /\ busy \in BOOLEAN /\ prompt \in BOOLEAN /\ current \in Sessions
    /\ runTask \in Whats
    /\ AreNumbers(queued) /\ AreNumbers(channel)
    /\ consumer.pc \in {"idle", "scheduled", "wait", "read", "inject"}
    /\ AreNotes(consumer.batch) /\ consumer.seen \subseteq Tasks
    /\ \A x \in turns :
          /\ x.what \in Whats
          /\ x.pc \in {"new", "opening", "run", "stopping", "tidy", "tidied"}
          /\ x.call # NoCall => x.pc \in {"run", "stopping"}
          /\ x.what.kind = "command" => x.session = NoSession

Waiting == (UNION {About(mail[s]) : s \in Sessions}) \cup About(consumer.batch)
Ledger == INSTANCE CompletionLedger WITH
    over <- {c \in Completions : Ended(c[1], c[2])},
    waiting <- Waiting,
    owner <- [c \in Completions |-> home[c[1]]]
\* The notifier announces only runs that have ended, loses no announcement
\* between its queue and the agent, and tells each once, in the session that
\* launched the task, whatever the user switches to meanwhile.
KeepsPromise == Ledger!LedgerSpec

\* "without the old (now obsolete) watcher firing a stale notification": what a
\* watcher leaves is about the newest run of its task, even while an update
\* replaces that run, unless two turns update the task at the same time.
NoneIsStale ==
    [][\A t \in Tasks \ crossed, r \in RunIds :
          <<t, r>> \in Waiting' \ Waiting => r = Latest(t)]_vars

-----------------------------------------------------------------------------
(* The inductive invariant behind the proofs of TurnLoop_proofs.           *)

WatcherPlaces == {"none", "join", "get", "done", "lost", "cancelled"}
Watcher == [pc : WatcherPlaces, tries : 0..MaxReconnects, broken : BOOLEAN]
ToolCall == [pc : {"none", "update", "spawn"}, task : Tasks \cup {NoSession},
             run : 0..MaxRuns]
Turn == [what : Whats, pc : {"new", "opening", "run", "stopping", "tidy", "tidied"},
         session : Sessions \cup {NoSession}, call : ToolCall]

NotifierIsTyped ==
    /\ runs \in [Tasks -> Seq(Statuses)]
    /\ home \in [Tasks -> Sessions \cup {NoSession}]
    /\ watchers \in [Completions -> Watcher]
    /\ registered \in [Tasks -> 0..MaxRuns]
    /\ mail \in [Sessions -> Seq(Notes)]
ConsumerIsTyped ==
    /\ consumer \in [pc : {"idle", "scheduled", "wait", "read", "inject"},
                     session : Sessions \cup {NoSession},
                     batch : Seq(Notes), seen : SUBSET Tasks]
    /\ consumer.pc \in {"idle", "scheduled"} => consumer.batch = <<>>
    /\ consumer.pc \in {"wait", "read", "inject"} => consumer.session \in Sessions
LoopIsTyped ==
    /\ busy \in BOOLEAN /\ prompt \in BOOLEAN /\ current \in Sessions
    /\ runTask \in Whats
    /\ inputs \in [typed : Nat, channel : Nat, commands : Nat, interrupts : Nat]
    /\ inputs.typed + inputs.channel + inputs.commands + inputs.interrupts <= MaxInputs
    /\ queued \in Seq(1..inputs.typed) /\ IsInjective(queued)
    /\ channel \in Seq(1..inputs.channel) /\ IsInjective(channel)
    /\ known \in [Tasks -> [run : 0..MaxRuns, ended : BOOLEAN]]

\* A turn that is in a tool runs, or has just been interrupted; the session of
\* a turn is there when it runs.
TurnsAreTyped ==
    /\ turns \subseteq Turn /\ IsFiniteSet(turns)
    /\ \A x \in turns :
          /\ \/ x.call = NoCall
             \/ /\ x.call.pc # "none" /\ x.pc \in {"run", "stopping"}
                /\ x.call.task \in Tasks
          /\ x.pc = "run" => x.session \in Sessions
          /\ x.what.kind = "command" => x.session = NoSession

\* A task has a home before its first run, and each run is launched by one
\* turn and watched from then on, or never.
Updating(t) == {x \in turns : x.call.pc = "update" /\ x.call.task = t}
LaunchesAreNew ==
    /\ \A t \in Tasks :
          /\ home[t] = NoSession => Latest(t) = 0
          /\ Latest(t) + Cardinality(Updating(t)) <= MaxRuns
    /\ \A x \in turns :
          /\ x.call.pc # "none" => home[x.call.task] # NoSession
          /\ x.call.pc = "spawn" =>
                /\ x.call.run \in 1..Latest(x.call.task)
                /\ watchers[<<x.call.task, x.call.run>>].pc = "none"
                /\ \A y \in turns : y.call = x.call => y = x
    /\ \A t \in Tasks, r \in RunIds : watchers[<<t, r>>].pc # "none" => r <= Latest(t)

\* The watcher of a task is the one on the register, of the newest run; while
\* a turn launches another run, there is none.
NewestIsWatched ==
    /\ \A t \in Tasks : registered[t] <= Latest(t)
    /\ \A t \in Tasks, r \in RunIds : Active(t, r) => registered[t] = r
    /\ \A t \in Tasks \ crossed :
          /\ \A r \in RunIds : Active(t, r) => r = Latest(t)
          /\ \A x \in Launching(t) :
                /\ registered[t] = 0
                /\ x.call.pc = "spawn" => x.call.run = Latest(t)
                /\ \A y \in Launching(t) : y = x

\* A completion is announced by the watcher that saw it, then waits in one place,
\* the queue of its session or the batch of the consumer, and leaves it once.
AnnouncedOnce ==
    /\ \A c \in Completions :
          c \in Waiting \/ c \in aside \/ (\E s \in Sessions : <<c, s>> \in told)
             => watchers[c].pc = "done"
    /\ \A s \in Sessions : \A c \in About(mail[s]) : home[c[1]] = s
    /\ \A c \in About(consumer.batch) :
          /\ home[c[1]] = consumer.session
          /\ \A s \in Sessions : c \notin About(mail[s])

IInv == /\ NotifierIsTyped /\ ConsumerIsTyped /\ LoopIsTyped /\ TurnsAreTyped
        /\ LaunchesAreNew /\ NewestIsWatched /\ AnnouncedOnce

-----------------------------------------------------------------------------
(* Liveness.                                                               *)

Mine(t) == home[t] = current
\* The turn that would have cleared the flag has been cancelled before it began.
Stuck == busy /\ turns = {}
Settled(c) ==
    \/ \E s \in Sessions : <<c, s>> \in told
    \/ c \in aside
    \/ watchers[c].pc \in {"lost", "cancelled"}
\* If the user stays in the session, the agent is told of a run that has been
\* watched to its end, unless it knows: turns that overlap, drain waits and
\* unreadable states do not keep it from that, only a flag that is stuck.
EveryEndIsTold ==
    \A c \in Completions :
        <>[](Mine(c[1]) /\ ~Stuck)
            => ((Ended(c[1], c[2]) /\ registered[c[1]] = c[2]) ~> Settled(c))

\* "Queue the message to send after current turn finishes": a message that is
\* queued while a message turn runs is sent, unless that turn is interrupted
\* or cannot get the agent.
QueuedIsSent ==
    \A i \in 1..MaxInputs :
        (/\ i \in Range(queued)
         /\ \E x \in turns : IsMessage(x) /\ x.pc \in {"new", "opening", "run", "tidy"})
        ~> (i \notin Range(queued) \/ \E x \in turns : x.pc \in {"stopping", "tidied"})
=============================================================================
