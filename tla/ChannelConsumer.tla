---------------------------- MODULE ChannelConsumer ----------------------------
(***************************************************************************)
(* InboundConsumer of jw/channels/consumer.py.  A loop moves the messages  *)
(* of the bus into a bounded work queue, and a fixed pool of workers runs  *)
(* the agent on each, one message of a chat at a time.  The agent may stop *)
(* for an approval or for a question; the worker then waits for a reply,   *)
(* and that reply is a message that another worker must take from the same *)
(* queue.                                                                  *)
(*                                                                         *)
(* All of it are tasks of one event loop: an action ends where a task      *)
(* waits.  A message is its number; sent has its chat, and what it says    *)
(* from the moment on that somebody wants to know.                         *)
(***************************************************************************)
EXTENDS Integers, FiniteSets, Sequences, Functions

CONSTANTS
    Workers,        \* max_concurrent
    Chats,          \* session keys, "channel:chat_id"
    MaxPending,     \* max_pending
    MaxRounds,      \* _MAX_HITL_ROUNDS
    MaxMessages,    \* bound
    MaxEvictions,   \* bound: evictions of the lock of a chat
    NoWorker

ASSUME WorkerAssumption == IsFiniteSet(Workers) /\ NoWorker \notin Workers
ASSUME QueueAssumption == MaxPending \in Nat \ {0} /\ MaxRounds \in Nat \ {0}
ASSUME BoundAssumption == MaxMessages \in Nat /\ MaxEvictions \in Nat

VARIABLES
    sent,           \* history: the messages users have sent
    inbound,        \* MessageBus.inbound
    loop,           \* run: what it does, and the message in its hand
    queue,          \* _work_queue; 0 is the sentinel None
    workers,        \* per worker: where it is, and its locals
    holder,         \* of a lock of a chat
    waiting,        \* workers that wait for the lock
    lockOf,         \* _chat_locks: which of its locks a chat has now
    interrupts,     \* _pending_interrupts: whose prompt is registered
    questions,      \* _pending_ask_user_replies: whose question is
    automatic,      \* _auto_approve_sessions
    stopper,        \* stop: not called, draining, cancelling, stopped
    handled,        \* history: messages that _handle_message returned from
    approvals,      \* history: resumed actions, each with the reply it rests on
    started         \* history: the last message of a chat whose stream began

vars == <<sent, inbound, loop, queue, workers, holder, waiting, lockOf,
          interrupts, questions, automatic, stopper, handled, approvals, started>>

\* What _parse_approval_reply makes of a text; "task" is any other text.
Decisions == {"approve", "reject", "auto"}
Says == Decisions \cup {"task"}
Unread == "unread"
Locks == Chats \X (0..MaxEvictions)
Sentinel == 0
NoReply == 0

Idle == [pc |-> "get", msg |-> 0, lock |-> 0, round |-> 0, reply |-> NoReply]

ChatOf(i) == sent[i].chat
Chat(w)   == ChatOf(workers[w].msg)
LockOf(w) == <<Chat(w), workers[w].lock>>
Stopping  == stopper # "no"

Init ==
    /\ sent = <<>> /\ inbound = <<>> /\ queue = <<>>
    /\ loop = [pc |-> "read", msg |-> 0]
    /\ workers = [w \in Workers |-> Idle]
    /\ holder = [l \in Locks |-> NoWorker] /\ waiting = [l \in Locks |-> <<>>]
    /\ lockOf = [c \in Chats |-> 0]
    /\ interrupts = [c \in Chats |-> NoWorker]
    /\ questions = [c \in Chats |-> NoWorker]
    /\ automatic = {} /\ stopper = "no"
    /\ handled = {} /\ approvals = {}
    /\ started = [c \in Chats |-> 0]

-----------------------------------------------------------------------------
(* Users, the bus and the loop.                                            *)

Send(c) ==
    /\ Len(sent) < MaxMessages
    /\ sent' = Append(sent, [chat |-> c, says |-> Unread])
    /\ inbound' = Append(inbound, Len(sent) + 1)
    /\ UNCHANGED <<loop, queue, workers, holder, waiting, lockOf, interrupts,
                   questions, automatic, stopper, handled, approvals, started>>

CanRead == loop.pc = "read" /\ ~Stopping /\ inbound # <<>>
CanPut  == loop.pc = "put" /\ Len(queue) < MaxPending

Read ==
    /\ CanRead
    /\ loop' = [pc |-> "put", msg |-> Head(inbound)]
    /\ inbound' = Tail(inbound)
    /\ UNCHANGED <<sent, queue, workers, holder, waiting, lockOf, interrupts,
                   questions, automatic, stopper, handled, approvals, started>>

\* Back-pressure: it waits for room.
Put ==
    /\ CanPut
    /\ queue' = Append(queue, loop.msg)
    /\ loop' = [pc |-> "read", msg |-> 0]
    /\ UNCHANGED <<sent, inbound, workers, holder, waiting, lockOf, interrupts,
                   questions, automatic, stopper, handled, approvals, started>>

\* A message that comes while the consumer is stopped is read and dropped.
LoopEnds ==
    /\ loop.pc = "read" /\ Stopping
    /\ loop' = [pc |-> "ended", msg |-> 0]
    /\ \/ UNCHANGED inbound
       \/ inbound # <<>> /\ inbound' = Tail(inbound)
    /\ UNCHANGED <<sent, queue, workers, holder, waiting, lockOf, interrupts,
                   questions, automatic, stopper, handled, approvals, started>>

-----------------------------------------------------------------------------
(* _handle_message.                                                        *)

\* Faulty variant: a worker leaves a message of a locked chat in the queue.
CanTakeOfFreeChat(w) ==
    /\ workers[w].pc = "get" /\ queue # <<>>
    /\ LET i == Head(queue) IN
          i # Sentinel => holder[<<ChatOf(i), lockOf[ChatOf(i)]>>] = NoWorker
CanTake(w) == workers[w].pc = "get" /\ queue # <<>>

\* The reply of a worker that waits.  A second reply that comes before the
\* first has woken it replaces the first.
Reply(w, i) == [workers EXCEPT ![w].reply = i]

\* A message becomes the agent's, now or when the lock of the chat is free.
Streaming(i, lock) == [Idle EXCEPT !.pc = "stream", !.msg = i, !.lock = lock]
InLine(i, lock)    == [Idle EXCEPT !.pc = "lock", !.msg = i, !.lock = lock]
\* Faulty variant: whoever comes first gets the lock, past those in line.
FreeOfHolder(l) == holder[l] = NoWorker
Free(l) == holder[l] = NoWorker /\ waiting[l] = <<>>
Enter(w, i, ws) ==
    LET c == ChatOf(i)
        l == <<c, lockOf[c]>>
    IN IF Free(l)
       THEN /\ workers' = [ws EXCEPT ![w] = Streaming(i, lockOf[c])]
            /\ holder' = [holder EXCEPT ![l] = w]
            /\ started' = [started EXCEPT ![c] = i]
            /\ UNCHANGED waiting
       ELSE /\ workers' = [ws EXCEPT ![w] = InLine(i, lockOf[c])]
            /\ waiting' = [waiting EXCEPT ![l] = Append(@, w)]
            /\ UNCHANGED <<holder, started>>

\* Any text answers a question.
Answer(w, i) ==
    LET c == ChatOf(i) IN
    /\ questions[c] # NoWorker
    /\ workers' = Reply(questions[c], i)
    /\ handled' = handled \cup {i}
    /\ UNCHANGED <<sent, holder, waiting, started, interrupts>>

Decide(w, i) ==
    LET c == ChatOf(i) IN
    /\ questions[c] = NoWorker /\ interrupts[c] # NoWorker
    /\ \E d \in Decisions : sent' = [sent EXCEPT ![i].says = d]
    /\ workers' = Reply(interrupts[c], i)
    /\ handled' = handled \cup {i}
    /\ UNCHANGED <<holder, waiting, started, interrupts>>

\* Another text rejects the action, and is a message like any other.
Interrupt(w, i) ==
    LET c == ChatOf(i) IN
    /\ questions[c] = NoWorker /\ interrupts[c] # NoWorker
    /\ sent' = [sent EXCEPT ![i].says = "task"]
    /\ interrupts' = [interrupts EXCEPT ![c] = NoWorker]
    /\ Enter(w, i, Reply(interrupts[c], i))
    /\ UNCHANGED handled

Ask(w, i) ==
    LET c == ChatOf(i) IN
    /\ questions[c] = NoWorker /\ interrupts[c] = NoWorker
    /\ Enter(w, i, workers)
    /\ UNCHANGED <<sent, interrupts, handled>>

Take(w) ==
    LET i == Head(queue) IN
    /\ CanTake(w) /\ i # Sentinel
    /\ queue' = Tail(queue)
    /\ Answer(w, i) \/ Decide(w, i) \/ Interrupt(w, i) \/ Ask(w, i)
    /\ UNCHANGED <<inbound, loop, lockOf, questions, automatic, stopper,
                   approvals>>

Exit(w) ==
    /\ CanTake(w) /\ Head(queue) = Sentinel
    /\ queue' = Tail(queue)
    /\ workers' = [workers EXCEPT ![w].pc = "exit"]
    /\ UNCHANGED <<sent, inbound, loop, holder, waiting, lockOf, interrupts,
                   questions, automatic, stopper, handled, approvals, started>>

CanWake(w) == /\ workers[w].pc = "lock" /\ holder[LockOf(w)] = NoWorker
              /\ Head(waiting[LockOf(w)]) = w

\* The lock is fair: whoever waits longest gets it.
Wake(w) ==
    /\ CanWake(w)
    /\ workers' = [workers EXCEPT ![w].pc = "stream"]
    /\ holder' = [holder EXCEPT ![LockOf(w)] = w]
    /\ waiting' = [waiting EXCEPT ![LockOf(w)] = Tail(@)]
    /\ started' = [started EXCEPT ![Chat(w)] = workers[w].msg]
    /\ UNCHANGED <<sent, inbound, loop, queue, lockOf, interrupts, questions,
                   automatic, stopper, handled, approvals>>

\* _evict_chat_locks, for the message of a chat beyond the limit of locks.  A
\* lock counts as unused while it is on its way to the next worker in line.
EvictLock(c) ==
    /\ lockOf[c] < MaxEvictions
    /\ \E w \in Workers : workers[w].pc = "get"
    /\ holder[<<c, lockOf[c]>>] = NoWorker /\ waiting[<<c, lockOf[c]>>] # <<>>
    /\ lockOf' = [lockOf EXCEPT ![c] = @ + 1]
    /\ UNCHANGED <<sent, inbound, loop, queue, workers, holder, waiting,
                   interrupts, questions, automatic, stopper, handled,
                   approvals, started>>

-----------------------------------------------------------------------------
(* _stream_with_hitl.                                                      *)

\* Faulty variant: the lock is not given back.
ReturnLocked(w) ==
    /\ workers' = [workers EXCEPT ![w] = Idle]
    /\ UNCHANGED holder
    /\ handled' = handled \cup {workers[w].msg}
\* The worker is done with its message.
Return(w) ==
    /\ workers' = [workers EXCEPT ![w] = Idle]
    /\ holder' = [holder EXCEPT ![LockOf(w)] = NoWorker]
    /\ handled' = handled \cup {workers[w].msg}
\* Faulty variant: the next prompt finds the reply to this one.
ResumeReplied(w) ==
    IF workers[w].round + 1 = MaxRounds THEN Return(w)
    ELSE /\ workers' = [workers EXCEPT ![w].pc = "stream", ![w].round = @ + 1]
         /\ UNCHANGED <<holder, handled>>
\* The next round, if there is one: the agent is resumed.
Resume(w) ==
    IF workers[w].round + 1 = MaxRounds THEN Return(w)
    ELSE /\ workers' = [workers EXCEPT ![w].pc = "stream", ![w].round = @ + 1,
                                       ![w].reply = NoReply]
         /\ UNCHANGED <<holder, handled>>
Approved(w, by) ==
    approvals' = approvals \cup
        {[msg |-> workers[w].msg, round |-> workers[w].round, by |-> by]}

\* The agent completes, fails or is idle for too long.
StreamEnds(w) ==
    /\ workers[w].pc = "stream"
    /\ Return(w)
    /\ UNCHANGED <<sent, inbound, loop, queue, waiting, lockOf, interrupts,
                   questions, automatic, stopper, approvals, started>>

\* An action that needs no approval, by the configuration or since the user
\* has approved all of this chat.
AutoApprove(w) ==
    /\ workers[w].pc = "stream"
    /\ \/ Chat(w) \in automatic /\ Approved(w, NoReply)
       \/ UNCHANGED approvals
    /\ Resume(w)
    /\ UNCHANGED <<sent, inbound, loop, queue, waiting, lockOf, interrupts,
                   questions, automatic, stopper, started>>

AskApproval(w) ==
    /\ workers[w].pc = "stream" /\ Chat(w) \notin automatic
    /\ interrupts' = [interrupts EXCEPT ![Chat(w)] = w]
    /\ workers' = [workers EXCEPT ![w].pc = "approval"]
    /\ UNCHANGED <<sent, inbound, loop, queue, holder, waiting, lockOf,
                   questions, automatic, stopper, handled, approvals, started>>

AskUser(w) ==
    /\ workers[w].pc = "stream"
    /\ questions' = [questions EXCEPT ![Chat(w)] = w]
    /\ workers' = [workers EXCEPT ![w].pc = "ask"]
    /\ UNCHANGED <<sent, inbound, loop, queue, holder, waiting, lockOf,
                   interrupts, automatic, stopper, handled, approvals, started>>

Answered(w) == workers[w].pc \in {"approval", "ask"} /\ workers[w].reply # NoReply

\* Unregistering is by chat, whoever is registered.
Approval(w) ==
    LET i == workers[w].reply
        says == sent[i].says
    IN
    /\ workers[w].pc = "approval" /\ Answered(w)
    /\ interrupts' = [interrupts EXCEPT ![Chat(w)] = NoWorker]
    /\ IF says \in {"approve", "auto"}
       THEN Resume(w) /\ Approved(w, i)
       ELSE Return(w) /\ UNCHANGED approvals
    /\ automatic' = IF says = "auto" THEN automatic \cup {Chat(w)} ELSE automatic
    /\ UNCHANGED <<sent, inbound, loop, queue, waiting, lockOf, questions,
                   stopper, started>>

UserAnswer(w) ==
    /\ workers[w].pc = "ask" /\ Answered(w)
    /\ questions' = [questions EXCEPT ![Chat(w)] = NoWorker]
    /\ Resume(w)
    /\ UNCHANGED <<sent, inbound, loop, queue, waiting, lockOf, interrupts,
                   automatic, stopper, approvals, started>>

-----------------------------------------------------------------------------
(* Time.  The shortest timeout is 30 seconds; what a task can do at once   *)
(* has long happened then, but for a reply that comes at the same moment.  *)

Urgent == \/ CanRead \/ CanPut
          \/ \E w \in Workers : CanTake(w) \/ CanWake(w) \/ Answered(w)

\* Faulty variant: the prompt stays registered.
ApprovalTimesOutOnly(w) ==
    /\ workers[w].pc = "approval" /\ (~Urgent \/ Answered(w))
    /\ Return(w)
    /\ UNCHANGED <<sent, inbound, loop, queue, waiting, lockOf, interrupts,
                   questions, automatic, stopper, approvals, started>>

\* Whatever the reply says, it is too late.
ApprovalTimesOut(w) ==
    /\ workers[w].pc = "approval" /\ (~Urgent \/ Answered(w))
    /\ interrupts' = [interrupts EXCEPT ![Chat(w)] = NoWorker]
    /\ Return(w)
    /\ UNCHANGED <<sent, inbound, loop, queue, waiting, lockOf, questions,
                   automatic, stopper, approvals, started>>

\* The agent is told that the user has cancelled.
QuestionTimesOut(w) ==
    /\ workers[w].pc = "ask" /\ ~Urgent
    /\ questions' = [questions EXCEPT ![Chat(w)] = NoWorker]
    /\ Resume(w)
    /\ UNCHANGED <<sent, inbound, loop, queue, waiting, lockOf, interrupts,
                   automatic, stopper, approvals, started>>

-----------------------------------------------------------------------------
(* stop.                                                                   *)

\* Faulty variant: the limit of the queue is forgotten.
SentinelsForAll == [w \in 1..Cardinality(Workers) |-> Sentinel]

\* A sentinel for every worker, as many as there is room for.
Sentinels ==
    LET room == MaxPending - Len(queue)
        n == IF room < Cardinality(Workers) THEN room ELSE Cardinality(Workers)
    IN [k \in 1..n |-> Sentinel]
Stop ==
    /\ stopper = "no"
    /\ stopper' = "draining"
    /\ queue' = queue \o Sentinels
    /\ UNCHANGED <<sent, inbound, loop, workers, holder, waiting, lockOf,
                   interrupts, questions, automatic, handled, approvals, started>>

AllExited == \A w \in Workers : workers[w].pc = "exit"

DrainTimesOut ==
    /\ stopper = "draining" /\ ~AllExited /\ ~Urgent
    /\ stopper' = "cancelling"
    /\ UNCHANGED <<sent, inbound, loop, queue, workers, holder, waiting, lockOf,
                   interrupts, questions, automatic, handled, approvals, started>>

\* Faulty variant: only a worker with a message in its hand is cancelled.
IsLeftBusy(w) == stopper = "cancelling" /\ workers[w].pc \notin {"get", "exit"}
IsLeft(w) == stopper = "cancelling" /\ workers[w].pc # "exit"

\* A waiter that is cancelled takes itself out of the line.
Without(s, w) ==
    LET p == CHOOSE k \in DOMAIN s : s[k] = w
    IN [k \in 1..(Len(s) - 1) |-> IF k < p THEN s[k] ELSE s[k + 1]]
\* The workers that are left are cancelled one after the other; each runs its
\* finally clauses.
Cancel(w) ==
    LET pc == workers[w].pc IN
    /\ IsLeft(w)
    /\ workers' = [workers EXCEPT ![w] = [Idle EXCEPT !.pc = "exit"]]
    /\ holder' = IF pc \in {"stream", "approval", "ask"}
                 THEN [holder EXCEPT ![LockOf(w)] = NoWorker] ELSE holder
    /\ waiting' = IF pc = "lock"
                  THEN [waiting EXCEPT ![LockOf(w)] = Without(@, w)] ELSE waiting
    /\ interrupts' = IF pc = "approval"
                     THEN [interrupts EXCEPT ![Chat(w)] = NoWorker] ELSE interrupts
    /\ questions' = IF pc = "ask"
                    THEN [questions EXCEPT ![Chat(w)] = NoWorker] ELSE questions
    /\ UNCHANGED <<sent, inbound, loop, queue, lockOf, automatic, stopper,
                   handled, approvals, started>>

Stopped ==
    /\ stopper \in {"draining", "cancelling"} /\ AllExited
    /\ stopper' = "stopped"
    /\ UNCHANGED <<sent, inbound, loop, queue, workers, holder, waiting, lockOf,
                   interrupts, questions, automatic, handled, approvals, started>>

-----------------------------------------------------------------------------
LoopStep == Read \/ Put \/ LoopEnds
WorkerStep(w) ==
    \/ Take(w) \/ Exit(w) \/ Wake(w)
    \/ StreamEnds(w) \/ AutoApprove(w) \/ AskApproval(w) \/ AskUser(w)
    \/ Approval(w) \/ UserAnswer(w)
    \/ ApprovalTimesOut(w) \/ QuestionTimesOut(w)
StopStep == DrainTimesOut \/ (\E w \in Workers : Cancel(w)) \/ Stopped

Next ==
    \/ \E c \in Chats : Send(c)
    \/ \E c \in Chats : EvictLock(c)
    \/ LoopStep \/ Stop \/ StopStep
    \/ \E w \in Workers : WorkerStep(w)

Spec == Init /\ [][Next]_vars

\* The event loop runs every task that can run, timeouts come, and the agent
\* does not stream for ever; nobody has to write, or to stop the consumer.
Fairness == /\ WF_vars(LoopStep) /\ WF_vars(StopStep)
            /\ \A w \in Workers : WF_vars(WorkerStep(w))
FairSpec == Spec /\ Fairness

-----------------------------------------------------------------------------
(* Types.                                                                  *)

Ids == 1..MaxMessages
Places == {"get", "lock", "stream", "approval", "ask", "exit"}
Worker == [pc : Places, msg : 0..MaxMessages, lock : 0..MaxEvictions,
           round : 0..(MaxRounds - 1), reply : 0..MaxMessages]

\* The type invariant.
TypeOK ==
    /\ sent \in Seq([chat : Chats, says : Says \cup {Unread}]) /\ Len(sent) <= MaxMessages
    /\ inbound \in Seq(1..Len(sent))
    /\ queue \in Seq(0..Len(sent)) /\ Len(queue) <= MaxPending
    /\ loop \in [pc : {"read", "put", "ended"}, msg : 0..Len(sent)]
    /\ workers \in [Workers -> Worker]
    /\ holder \in [Locks -> Workers \cup {NoWorker}]
    /\ waiting \in [Locks -> Seq(Workers)]
    /\ lockOf \in [Chats -> 0..MaxEvictions]
    /\ interrupts \in [Chats -> Workers \cup {NoWorker}]
    /\ questions \in [Chats -> Workers \cup {NoWorker}]
    /\ automatic \subseteq Chats
    /\ stopper \in {"no", "draining", "cancelling", "stopped"}
    /\ handled \subseteq 1..Len(sent)
    /\ approvals \subseteq [msg : Ids, round : 0..(MaxRounds - 1),
                            by : 0..MaxMessages]
    /\ started \in [Chats -> 0..MaxMessages]

-----------------------------------------------------------------------------
(* Safety.                                                                 *)

InStream == {"stream", "approval", "ask"}

\* What is registered belongs to a worker that is there: a reply is never
\* taken for a prompt that nobody waits for any more, and a chat is never
\* locked by a worker that has gone on, not even when the consumer is stopped.
NothingOutlivesItsWorker ==
    /\ \A c \in Chats : interrupts[c] # NoWorker =>
          workers[interrupts[c]].pc = "approval" /\ Chat(interrupts[c]) = c
    /\ \A c \in Chats : questions[c] # NoWorker =>
          workers[questions[c]].pc = "ask" /\ Chat(questions[c]) = c
    /\ \A l \in Locks :
          /\ holder[l] # NoWorker =>
                workers[holder[l]].pc \in InStream /\ LockOf(holder[l]) = l
          /\ \A k \in DOMAIN waiting[l] :
                workers[waiting[l][k]].pc = "lock" /\ LockOf(waiting[l][k]) = l

\* The messages of a chat run one at a time, in the order they were sent, as
\* long as the lock of the chat is not evicted.
Active(c) == {w \in Workers : workers[w].pc \in InStream /\ Chat(w) = c}
ChatIsSerial ==
    \A c \in Chats : lockOf[c] = 0 =>
        /\ Cardinality(Active(c)) <= 1
        /\ \A w \in Workers :
              workers[w].pc = "lock" /\ Chat(w) = c => workers[w].msg > started[c]

\* An action that needs approval is resumed only on a reply of its own chat
\* that approves, and a reply approves one action; or the chat has said that
\* all of its actions are approved.  Evicted locks do not change that.
ApprovedByItsChat ==
    \A a \in approvals :
        \/ /\ a.by # NoReply /\ ChatOf(a.by) = ChatOf(a.msg)
           /\ sent[a.by].says \in {"approve", "auto"}
           /\ \A b \in approvals : b.by = a.by => b = a
        \/ /\ a.by = NoReply
           /\ \E i \in handled : sent[i] = [chat |-> ChatOf(a.msg), says |-> "auto"]

\* While the consumer runs, a prompt or a question is given up for lost only
\* when its chat has not answered, or when no worker is left to take the answer.
Late(w) == {i \in Range(inbound) \cup Range(queue) \cup {loop.msg} :
               i # 0 /\ ChatOf(i) = Chat(w)}
TimesOut(w) == ApprovalTimesOut(w) \/ QuestionTimesOut(w)
TimesOutForWantOfWorkers ==
    [][\A w \in Workers :
         /\ TimesOut(w) /\ ~Stopping
         /\ lockOf[Chat(w)] = 0 /\ workers[w].reply = NoReply /\ Late(w) # {}
         => \A v \in Workers : workers[v].pc # "get"]_vars

-----------------------------------------------------------------------------
(* The inductive invariant behind the proofs of ChannelConsumer_proofs: a  *)
(* message is in one place at a time, and messages are taken in the order  *)
(* they were sent, so what is taken is new to all that workers know.       *)

\* The bus has the last messages; the queue, and behind it the loop, have older
\* ones.
ReadSoFar == Len(sent) - Len(inbound)
QueueIsInOrder ==
    /\ Len(inbound) <= Len(sent)
    /\ \A k \in DOMAIN inbound : inbound[k] = ReadSoFar + k
    /\ \A k \in DOMAIN queue : queue[k] <= ReadSoFar
    /\ \A j, k \in DOMAIN queue :
          j < k /\ queue[j] # Sentinel /\ queue[k] # Sentinel => queue[j] < queue[k]
    /\ loop.pc = "put" => /\ loop.msg \in 1..ReadSoFar
                          /\ \A k \in DOMAIN queue : queue[k] < loop.msg
    /\ loop.pc # "put" => loop.msg = 0
    /\ loop.pc = "ended" => Stopping

\* Whatever is on its way to a worker was sent after i.
Taken(i) == /\ i <= ReadSoFar
            /\ loop.pc = "put" => i < loop.msg
            /\ \A k \in DOMAIN queue : queue[k] # Sentinel => i < queue[k]
WorkIsTaken ==
    /\ \A i \in handled : Taken(i)
    /\ \A w \in Workers : Taken(workers[w].msg) /\ Taken(workers[w].reply)
    /\ \A x \in approvals : Taken(x.by)
    /\ \A c \in Chats : Taken(started[c])

\* A worker that runs the agent holds a lock of its chat, and one that wants to
\* is in line for one.
WorkersAreLocked ==
    \A w \in Workers :
        /\ workers[w].pc \in InStream \cup {"lock"} =>
              workers[w].msg # 0 /\ workers[w].lock <= lockOf[Chat(w)]
        /\ workers[w].pc \in InStream => holder[LockOf(w)] = w
        /\ workers[w].pc = "lock" =>
              \E k \in DOMAIN waiting[LockOf(w)] : waiting[LockOf(w)][k] = w

\* Workers stand in line in the order of their messages.
LinesAreInOrder ==
    /\ \A l \in Locks : \A j, k \in DOMAIN waiting[l] :
          j < k => workers[waiting[l][j]].msg < workers[waiting[l][k]].msg
    /\ \A c \in Chats : lockOf[c] = 0 =>
          \A k \in DOMAIN waiting[<<c, 0>>] :
             started[c] < workers[waiting[<<c, 0>>][k]].msg

\* A reply is one worker's, who waits for it, and has approved nothing yet.
RepliesAreNew ==
    /\ \A w \in Workers : workers[w].reply # NoReply =>
          /\ workers[w].pc \in {"approval", "ask"}
          /\ \A v \in Workers : workers[v].reply = workers[w].reply => v = w
          /\ \A x \in approvals : x.by # workers[w].reply
          /\ workers[w].pc = "approval" =>
                /\ ChatOf(workers[w].reply) = Chat(w)
                /\ sent[workers[w].reply].says \in Decisions =>
                      workers[w].reply \in handled
    /\ \A x \in approvals : x.msg <= Len(sent)
    /\ \A c \in automatic :
          \E i \in handled : sent[i] = [chat |-> c, says |-> "auto"]

IInv == /\ TypeOK /\ QueueIsInOrder /\ WorkIsTaken
        /\ NothingOutlivesItsWorker /\ WorkersAreLocked /\ LinesAreInOrder
        /\ RepliesAreNew /\ ApprovedByItsChat

-----------------------------------------------------------------------------
(* Liveness.                                                               *)

\* Every message is handled some time, unless the consumer is stopped: workers
\* that wait for a lock, a reply or each other do not wait for ever.
EveryMessageIsHandled ==
    \A i \in Ids : i <= Len(sent) ~> i \in handled \/ Stopping

\* The consumer stops, whatever its workers wait for and however full its
\* queue is.
StopReturns == Stopping ~> stopper = "stopped"
=============================================================================
