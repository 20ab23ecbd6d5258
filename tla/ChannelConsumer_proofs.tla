------------------------- MODULE ChannelConsumer_proofs -------------------------
(***************************************************************************)
(* For any number of workers, chats and messages, any limits of the queue  *)
(* and of the rounds, and any evictions of locks: the consumer keeps its   *)
(* types, nothing stays registered for a worker that has gone on, chats    *)
(* are serial, actions are approved by their chat, and an answer is late   *)
(* only when no worker could take it.                                      *)
(***************************************************************************)
EXTENDS ChannelConsumer, SequenceTheorems, FiniteSetTheorems, TLAPS

-----------------------------------------------------------------------------
(* Sequences.                                                              *)

\* The line without one who stands in it once.
LEMMA LineWithout ==
    ASSUME NEW S, NEW s \in Seq(S), NEW w, \E k \in DOMAIN s : s[k] = w
    PROVE  /\ Without(s, w) \in Seq(S)
           /\ DOMAIN Without(s, w) = 1..(Len(s) - 1)
           /\ \E p \in DOMAIN s :
                 /\ s[p] = w
                 /\ \A k \in 1..(Len(s) - 1) :
                       Without(s, w)[k] = s[IF k < p THEN k ELSE k + 1]
<1> DEFINE p == CHOOSE k \in DOMAIN s : s[k] = w
           n == Len(s) - 1
           t == [k \in 1..n |-> IF k < p THEN s[k] ELSE s[k + 1]]
<1>1. p \in DOMAIN s /\ s[p] = w
  OBVIOUS
<1>2. Len(s) \in Nat /\ DOMAIN s = 1..Len(s) /\ s \in [1..Len(s) -> S] /\ p \in 1..Len(s)
  BY <1>1, LenProperties
<1>3. n \in Nat /\ \A k \in 1..n : k \in 1..Len(s) /\ k + 1 \in 1..Len(s)
  BY <1>2
<1>4. t \in [1..n -> S]
  BY <1>2, <1>3
<1>5. t \in Seq(S)
  BY <1>3, <1>4
<1>6. Without(s, w) = t
  BY DEF Without
<1>7. \A k \in 1..n : t[k] = s[IF k < p THEN k ELSE k + 1]
  OBVIOUS
<1> HIDE DEF p, t
<1> QED
  BY <1>1, <1>4, <1>5, <1>6, <1>7

\* There are as many sentinels as there is room for, and workers.
LEMMA SentinelsFit ==
    ASSUME TypeOK
    PROVE  /\ Sentinels \in Seq({Sentinel})
           /\ Len(Sentinels) + Len(queue) <= MaxPending
<1>1. Cardinality(Workers) \in Nat
  BY WorkerAssumption, FS_CardinalityType
<1>2. Len(queue) \in Nat /\ MaxPending \in Nat /\ Len(queue) <= MaxPending
  BY QueueAssumption DEF TypeOK
<1> DEFINE room == MaxPending - Len(queue)
           n == IF room < Cardinality(Workers) THEN room ELSE Cardinality(Workers)
<1>3. n \in Nat /\ n <= room
  BY <1>1, <1>2
<1>4. Sentinels = [k \in 1..n |-> Sentinel]
  BY DEF Sentinels
<1>5. Sentinels \in Seq({Sentinel}) /\ Len(Sentinels) = n
  <2> HIDE DEF n
  <2> QED
    BY <1>3, <1>4
<1> QED
  BY <1>2, <1>3, <1>5

-----------------------------------------------------------------------------
(* What the invariant says of messages, workers and locks.                 *)

Busy == InStream \cup {"lock"}

LEMMA Facts ==
    ASSUME IInv
    PROVE  /\ Len(sent) \in Nat /\ Len(inbound) \in Nat /\ Len(queue) \in Nat
           /\ ReadSoFar \in Nat /\ ReadSoFar <= Len(sent)
           /\ \A i \in 1..Len(sent) : ChatOf(i) \in Chats
           /\ \A w \in Workers :
                 /\ workers[w] \in Worker
                 /\ workers[w].msg \in 0..Len(sent)
                 /\ workers[w].reply \in 0..Len(sent)
           /\ \A w \in Workers : workers[w].pc \in Busy =>
                 /\ workers[w].msg \in 1..Len(sent)
                 /\ Chat(w) \in Chats /\ LockOf(w) \in Locks
           /\ \A c \in Chats : lockOf[c] \in 0..MaxEvictions /\ <<c, lockOf[c]>> \in Locks
<1> USE DEF IInv
<1>1. /\ Len(sent) \in Nat /\ Len(inbound) \in Nat /\ Len(queue) \in Nat
      /\ \A w \in Workers : workers[w] \in Worker
  BY DEF TypeOK
<1>2. \A i \in 1..Len(sent) : ChatOf(i) \in Chats
  <2> DEFINE Messages == [chat : Chats, says : Says \cup {Unread}]
  <2>1. sent \in Seq(Messages)
    BY DEF TypeOK
  <2>2. \A i \in 1..Len(sent) : sent[i] \in Messages
    BY <2>1, ElementOfSeq
  <2> QED
    BY <2>2 DEF ChatOf
<1>3. ReadSoFar \in Nat /\ ReadSoFar <= Len(sent)
  BY <1>1 DEF QueueIsInOrder, ReadSoFar
<1>4. \A w \in Workers : /\ workers[w].msg \in 0..Len(sent)
                         /\ workers[w].reply \in 0..Len(sent)
  <2> SUFFICES ASSUME NEW w \in Workers
               PROVE  workers[w].msg \in 0..Len(sent) /\ workers[w].reply \in 0..Len(sent)
    OBVIOUS
  <2>1. workers[w].msg \in Nat /\ workers[w].reply \in Nat
    BY <1>1, BoundAssumption DEF Worker
  <2>2. workers[w].msg <= ReadSoFar /\ workers[w].reply <= ReadSoFar
    BY DEF WorkIsTaken, Taken
  <2> QED
    BY <1>1, <1>3, <2>1, <2>2
<1>5. \A w \in Workers : workers[w].pc \in Busy =>
         workers[w].msg \in 1..Len(sent)
  BY <1>1, <1>4 DEF WorkersAreLocked, Busy
<1>6. \A w \in Workers : workers[w].pc \in Busy =>
         Chat(w) \in Chats /\ LockOf(w) \in Locks
  BY <1>1, <1>2, <1>5 DEF Chat, LockOf, Locks, Worker
<1>7. \A c \in Chats : lockOf[c] \in 0..MaxEvictions /\ <<c, lockOf[c]>> \in Locks
  BY DEF TypeOK, Locks
<1> QED
  BY <1>1, <1>2, <1>3, <1>4, <1>5, <1>6, <1>7

\* The queue, inbound and what messages say, as sequences of what they hold.
LEMMA Sequences ==
    ASSUME IInv
    PROVE  /\ sent \in Seq([chat : Chats, says : Says \cup {Unread}])
           /\ \A i \in 1..Len(sent) : sent[i] \in [chat : Chats, says : Says \cup {Unread}]
           /\ inbound \in Seq(1..Len(sent)) /\ DOMAIN inbound = 1..Len(inbound)
           /\ \A k \in DOMAIN inbound : inbound[k] \in 1..Len(sent)
           /\ queue \in Seq(0..Len(sent)) /\ DOMAIN queue = 1..Len(queue)
           /\ \A k \in DOMAIN queue : queue[k] \in 0..Len(sent)
           /\ \A l \in Locks : /\ waiting[l] \in Seq(Workers)
                               /\ Len(waiting[l]) \in Nat
                               /\ DOMAIN waiting[l] = 1..Len(waiting[l])
                               /\ \A k \in DOMAIN waiting[l] : waiting[l][k] \in Workers
<1> USE DEF IInv
<1> DEFINE Messages == [chat : Chats, says : Says \cup {Unread}]
<1>1. sent \in Seq(Messages)
  BY DEF TypeOK
<1>2. \A i \in 1..Len(sent) : sent[i] \in Messages
  BY <1>1, ElementOfSeq
<1>3. inbound \in Seq(1..Len(sent)) /\ queue \in Seq(0..Len(sent))
  BY DEF TypeOK
<1>4. /\ DOMAIN inbound = 1..Len(inbound)
      /\ \A k \in DOMAIN inbound : inbound[k] \in 1..Len(sent)
  BY <1>3, LenProperties, ElementOfSeq
<1>5. /\ DOMAIN queue = 1..Len(queue)
      /\ \A k \in DOMAIN queue : queue[k] \in 0..Len(sent)
  BY <1>3, LenProperties, ElementOfSeq
<1>6. \A l \in Locks : waiting[l] \in Seq(Workers)
  BY DEF TypeOK
<1>7. \A l \in Locks : /\ Len(waiting[l]) \in Nat
                       /\ DOMAIN waiting[l] = 1..Len(waiting[l])
                       /\ \A k \in DOMAIN waiting[l] : waiting[l][k] \in Workers
  BY <1>6, LenProperties, ElementOfSeq
<1> QED
  BY <1>1, <1>2, <1>3, <1>4, <1>5, <1>6, <1>7

\* Approvals are of messages that were sent, by messages that were sent.
LEMMA ApprovalFacts ==
    ASSUME IInv, NEW x \in approvals
    PROVE  x.msg \in 1..Len(sent) /\ x.by \in 0..Len(sent)
<1> USE DEF IInv
<1>1. x \in [msg : Ids, round : 0..(MaxRounds - 1), by : 0..MaxMessages]
  BY DEF TypeOK
<1>2. x.msg \in Nat \ {0} /\ x.by \in Nat
  BY <1>1, BoundAssumption DEF Ids
<1>3. x.msg <= Len(sent)
  BY DEF RepliesAreNew
<1>4. x.by <= ReadSoFar
  BY DEF WorkIsTaken, Taken
<1> QED
  BY <1>2, <1>3, <1>4, Facts

\* A lock has one holder, and nobody is in a line twice or in two lines.
LEMMA OneAtATime ==
    ASSUME IInv
    PROVE  /\ \A v, w \in Workers :
                 /\ workers[v].pc \in InStream /\ workers[w].pc \in InStream
                 /\ LockOf(v) = LockOf(w)
                 => v = w
           /\ \A l \in Locks : \A j, k \in DOMAIN waiting[l] :
                 waiting[l][j] = waiting[l][k] => j = k
<1> USE DEF IInv
<1>1. \A v, w \in Workers :
         /\ workers[v].pc \in InStream /\ workers[w].pc \in InStream
         /\ LockOf(v) = LockOf(w)
         => v = w
  BY DEF WorkersAreLocked
<1>2. ASSUME NEW l \in Locks, NEW j \in DOMAIN waiting[l], NEW k \in DOMAIN waiting[l],
             waiting[l][j] = waiting[l][k]
      PROVE  j = k
  <2>1. j \in Nat /\ k \in Nat /\ waiting[l][j] \in Workers
    BY Sequences
  <2>2. workers[waiting[l][j]].msg \in Nat
    BY <2>1, Facts
  <2>3. ~(workers[waiting[l][j]].msg < workers[waiting[l][j]].msg)
    BY <2>2
  <2>4. ~(j < k) /\ ~(k < j)
    BY <1>2, <2>3 DEF LinesAreInOrder
  <2> QED
    BY <2>1, <2>4
<1> QED
  BY <1>1, <1>2

-----------------------------------------------------------------------------
(* Messages on their way to a worker.                                      *)

Path == <<sent, inbound, loop, queue, stopper>>

\* Taken, after the step, of a message of before the step or of after it.
StillTaken(i) ==
    /\ i <= ReadSoFar'
    /\ loop'.pc = "put" => i < loop'.msg
    /\ \A k \in DOMAIN queue' : queue'[k] # Sentinel => i < queue'[k]

LEMMA WorkIsStillTaken ==
    ASSUME \A i \in handled' : StillTaken(i),
           \A w \in Workers : StillTaken(workers'[w].msg) /\ StillTaken(workers'[w].reply),
           \A x \in approvals' : StillTaken(x.by),
           \A c \in Chats : StillTaken(started'[c])
    PROVE  WorkIsTaken'
  BY DEF WorkIsTaken, Taken, StillTaken

\* A step off the path of messages.
LEMMA OffThePath ==
    ASSUME IInv, UNCHANGED Path
    PROVE  QueueIsInOrder' /\ \A i : Taken(i) => StillTaken(i)
<1> USE DEF IInv
<1>1. QueueIsInOrder'
  BY DEF Path, QueueIsInOrder, ReadSoFar, Stopping
<1>2. \A i : Taken(i) => StillTaken(i)
  BY DEF Path, Taken, StillTaken, ReadSoFar
<1> QED
  BY <1>1, <1>2

\* A worker takes the head of the queue: it was sent after all that was taken.
LEMMA HeadIsNew ==
    ASSUME IInv, queue # <<>>, queue' = Tail(queue), Len(sent') = Len(sent),
           UNCHANGED <<inbound, loop, stopper>>
    PROVE  /\ QueueIsInOrder'
           /\ queue' \in Seq(0..Len(sent)) /\ Len(queue') < Len(queue)
           /\ \A i : Taken(i) => StillTaken(i)
           /\ \A i : i = Head(queue) /\ i # Sentinel =>
                 /\ i \in 1..Len(sent) /\ StillTaken(i)
                 /\ \A j : Taken(j) => j < i
<1> USE DEF IInv
<1>1. queue \in Seq(0..Len(sent)) /\ Len(queue) \in Nat /\ DOMAIN queue = 1..Len(queue)
  BY Facts, Sequences
<1>2. Len(queue) # 0 /\ Head(queue) = queue[1] /\ 1 \in DOMAIN queue
  BY <1>1, EmptySeq
<1>3. /\ queue' \in Seq(0..Len(sent)) /\ Len(queue') = Len(queue) - 1
      /\ \A k \in 1..Len(queue') : queue'[k] = queue[k + 1]
  BY <1>1, HeadTailProperties
<1>4. DOMAIN queue' = 1..Len(queue')
  BY <1>3, LenProperties
<1>5. \A k \in DOMAIN queue' : k + 1 \in DOMAIN queue /\ queue'[k] = queue[k + 1]
                               /\ k \in Nat /\ 1 < k + 1
  BY <1>1, <1>3, <1>4
<1>6. UNCHANGED <<ReadSoFar, Stopping>>
  BY DEF ReadSoFar, Stopping
<1>7. QueueIsInOrder'
  BY <1>5, <1>6 DEF QueueIsInOrder
<1>8. \A i : Taken(i) => StillTaken(i)
  BY <1>5, <1>6 DEF Taken, StillTaken
<1>9. ASSUME NEW i, i = Head(queue), i # Sentinel
      PROVE  /\ i \in 1..Len(sent) /\ StillTaken(i)
             /\ \A j : Taken(j) => j < i
  <2>1. i \in 1..Len(sent)
    BY <1>2, <1>9, Sequences DEF Sentinel
  <2>2. i <= ReadSoFar /\ (loop.pc = "put" => i < loop.msg)
    BY <1>2, <1>9 DEF QueueIsInOrder
  <2>3. \A k \in DOMAIN queue' : queue'[k] # Sentinel => i < queue'[k]
    BY <1>2, <1>5, <1>9 DEF QueueIsInOrder
  <2>4. StillTaken(i)
    BY <1>6, <2>2, <2>3 DEF StillTaken
  <2>5. \A j : Taken(j) => j < i
    BY <1>2, <1>9 DEF Taken
  <2> QED
    BY <2>1, <2>4, <2>5
<1>10. Len(queue') < Len(queue)
  BY <1>1, <1>3
<1> QED
  BY <1>3, <1>7, <1>8, <1>9, <1>10

-----------------------------------------------------------------------------
(* A worker that runs the agent goes on with it, or gives its lock back.   *)

Gone == {Idle, [Idle EXCEPT !.pc = "exit"]}
GoesOn(w) ==
    /\ \E x \in Worker : /\ workers' = [workers EXCEPT ![w] = x]
                         /\ x.pc \in InStream /\ x.reply = NoReply
                         /\ x.msg = workers[w].msg /\ x.lock = workers[w].lock
    /\ UNCHANGED holder
Leaves(w) ==
    /\ \E x \in Gone : workers' = [workers EXCEPT ![w] = x]
    /\ holder' = [holder EXCEPT ![LockOf(w)] = NoWorker]

\* What all steps of _stream_with_hitl have in common.
AgentStep(w) ==
    /\ workers[w].pc \in InStream
    /\ GoesOn(w) \/ Leaves(w)
    /\ handled' = handled \/ handled' = handled \cup {workers[w].msg}
    /\ UNCHANGED Path /\ UNCHANGED <<waiting, lockOf, started>>

\* What they do to prompts and questions.
Registers(w) ==
    /\ interrupts' \in [Chats -> Workers \cup {NoWorker}]
    /\ questions' \in [Chats -> Workers \cup {NoWorker}]
    /\ \A c \in Chats : interrupts'[c] # NoWorker =>
          \/ interrupts'[c] = interrupts[c] /\ interrupts[c] # w
          \/ interrupts'[c] = w /\ c = Chat(w) /\ workers'[w].pc = "approval"
    /\ \A c \in Chats : questions'[c] # NoWorker =>
          \/ questions'[c] = questions[c] /\ questions[c] # w
          \/ questions'[c] = w /\ c = Chat(w) /\ workers'[w].pc = "ask"

\* What they do to approvals.
Says1(w) == sent[workers[w].reply].says
IsReplied(w) == workers[w].pc = "approval" /\ workers[w].reply # NoReply
Approves(w) ==
    /\ \/ automatic' = automatic
       \/ /\ IsReplied(w) /\ Says1(w) = "auto"
          /\ automatic' = automatic \cup {Chat(w)}
    /\ \/ approvals' = approvals
       \/ Chat(w) \in automatic /\ Approved(w, NoReply)
       \/ /\ IsReplied(w) /\ Says1(w) \in {"approve", "auto"}
          /\ Approved(w, workers[w].reply)

\* NothingOutlivesItsWorker of the next state, worker by worker.
LEMMA NothingOutlivesNext ==
    ASSUME \A c \in Chats : interrupts'[c] # NoWorker =>
              \E v \in Workers : /\ v = interrupts'[c]
                                 /\ workers'[v].pc = "approval" /\ Chat(v)' = c,
           \A c \in Chats : questions'[c] # NoWorker =>
              \E v \in Workers : /\ v = questions'[c]
                                 /\ workers'[v].pc = "ask" /\ Chat(v)' = c,
           \A l \in Locks : holder'[l] # NoWorker =>
              \E v \in Workers : /\ v = holder'[l]
                                 /\ workers'[v].pc \in InStream /\ LockOf(v)' = l,
           \A l \in Locks : \A k \in DOMAIN waiting'[l] :
              \E v \in Workers : /\ v = waiting'[l][k]
                                 /\ workers'[v].pc = "lock" /\ LockOf(v)' = l
    PROVE  NothingOutlivesItsWorker'
  BY DEF NothingOutlivesItsWorker, Chat, ChatOf, LockOf

LEMMA IdleIsAWorker == Idle \in Worker /\ \A x \in Gone : x \in Worker
<1>1. 0 \in 0..MaxMessages /\ 0 \in 0..MaxEvictions /\ 0 \in 0..(MaxRounds - 1)
  BY BoundAssumption, QueueAssumption
<1> QED
  BY <1>1 DEF Idle, Gone, Worker, Places, NoReply

\* Workers of which a step changes one.
LEMMA AgentStepWorkers ==
    ASSUME IInv, NEW w \in Workers, AgentStep(w)
    PROVE  /\ workers' \in [Workers -> Worker]
           /\ \A v \in Workers : v # w => workers'[v] = workers[v]
           /\ workers'[w].reply = NoReply
           /\ \/ /\ workers'[w].pc \in InStream /\ holder' = holder
                 /\ workers'[w].msg = workers[w].msg
                 /\ workers'[w].lock = workers[w].lock
              \/ /\ workers'[w].pc \in {"get", "exit"} /\ workers'[w].msg = 0
                 /\ holder' = [holder EXCEPT ![LockOf(w)] = NoWorker]
           /\ \A v \in Workers : v # w => (Chat(v)' = Chat(v) /\ LockOf(v)' = LockOf(v))
           /\ workers'[w].pc \in InStream =>
                 (Chat(w)' = Chat(w) /\ LockOf(w)' = LockOf(w))
<1>1. workers \in [Workers -> Worker]
  BY DEF IInv, TypeOK
<1>2. UNCHANGED sent
  BY DEF AgentStep, Path
<1>3. CASE GoesOn(w)
  BY <1>1, <1>2, <1>3 DEF GoesOn, Chat, ChatOf, LockOf
<1>4. CASE Leaves(w)
  <2>1. PICK x \in Gone : workers' = [workers EXCEPT ![w] = x]
    BY <1>4 DEF Leaves
  <2>2. x.reply = NoReply /\ x.pc \in {"get", "exit"} /\ x.msg = 0
    BY <2>1 DEF Gone, Idle
  <2> QED
    BY <1>1, <1>2, <1>4, <2>1, <2>2, IdleIsAWorker DEF Leaves, Chat, ChatOf, LockOf, InStream
<1> QED
  BY <1>3, <1>4 DEF AgentStep

LEMMA AgentStepLocks ==
    ASSUME IInv, NEW w \in Workers, AgentStep(w)
    PROVE  /\ holder' \in [Locks -> Workers \cup {NoWorker}]
           /\ \A l \in Locks : holder'[l] # NoWorker =>
                 \E v \in Workers : /\ v = holder'[l] /\ v = holder[l]
                                    /\ workers'[v].pc \in InStream /\ LockOf(v)' = l
           /\ \A l \in Locks : \A k \in DOMAIN waiting[l] :
                 \E v \in Workers : /\ v = waiting[l][k] /\ workers'[v] = workers[v]
                                    /\ workers'[v].pc = "lock" /\ LockOf(v)' = l
           /\ WorkersAreLocked' /\ LinesAreInOrder'
<1> USE DEF IInv
<1>1. /\ holder \in [Locks -> Workers \cup {NoWorker}]
      /\ workers[w].pc \in InStream /\ LockOf(w) \in Locks
      /\ UNCHANGED <<waiting, lockOf, started>>
  BY Facts DEF AgentStep, TypeOK, Busy
<1>2. holder' \in [Locks -> Workers \cup {NoWorker}]
  BY <1>1, AgentStepWorkers
<1>3. ASSUME NEW l \in Locks, holder'[l] # NoWorker
      PROVE  \E v \in Workers : /\ v = holder'[l] /\ v = holder[l]
                                /\ workers'[v].pc \in InStream /\ LockOf(v)' = l
  <2>1. holder'[l] = holder[l]
    BY <1>1, <1>3, AgentStepWorkers
  <2>2. PICK v \in Workers : v = holder[l]
    BY <1>1, <1>3, <2>1
  <2>3. workers[v].pc \in InStream /\ LockOf(v) = l
    BY <1>3, <2>1, <2>2 DEF NothingOutlivesItsWorker
  <2>4. CASE v = w
    BY <1>1, <1>3, <2>1, <2>2, <2>3, <2>4, AgentStepWorkers
  <2>5. CASE v # w
    BY <2>1, <2>2, <2>3, <2>5, AgentStepWorkers
  <2> QED
    BY <2>4, <2>5
<1>4. ASSUME NEW l \in Locks, NEW k \in DOMAIN waiting[l]
      PROVE  \E v \in Workers : /\ v = waiting[l][k] /\ workers'[v] = workers[v]
                                /\ workers'[v].pc = "lock" /\ LockOf(v)' = l
  <2>1. waiting[l][k] \in Workers
    BY Sequences
  <2>2. workers[waiting[l][k]].pc = "lock" /\ LockOf(waiting[l][k]) = l
    BY DEF NothingOutlivesItsWorker
  <2>3. waiting[l][k] # w
    BY <1>1, <2>2 DEF InStream
  <2> QED
    BY <2>1, <2>2, <2>3, AgentStepWorkers
<1>5. WorkersAreLocked'
  <2> SUFFICES ASSUME NEW v \in Workers
               PROVE  /\ workers'[v].pc \in InStream \cup {"lock"} =>
                            workers'[v].msg # 0 /\ workers'[v].lock <= lockOf'[Chat(v)']
                      /\ workers'[v].pc \in InStream => holder'[LockOf(v)'] = v
                      /\ workers'[v].pc = "lock" =>
                            \E k \in DOMAIN waiting'[LockOf(v)'] :
                               waiting'[LockOf(v)'][k] = v
    BY DEF WorkersAreLocked
  <2>1. CASE v = w
    BY <1>1, <2>1, AgentStepWorkers DEF WorkersAreLocked, InStream
  <2>2. CASE v # w
    <3>1. workers'[v] = workers[v] /\ Chat(v)' = Chat(v) /\ LockOf(v)' = LockOf(v)
      BY <2>2, AgentStepWorkers
    <3>2. workers[v].pc \in InStream => LockOf(v) # LockOf(w) /\ LockOf(v) \in Locks
      BY <1>1, <2>2, OneAtATime, Facts DEF Busy
    <3>3. workers[v].pc \in InStream => holder'[LockOf(v)] = holder[LockOf(v)]
      BY <1>1, <3>2, AgentStepWorkers
    <3> QED
      BY <1>1, <3>1, <3>3 DEF WorkersAreLocked
  <2> QED
    BY <2>1, <2>2
<1>6. LinesAreInOrder'
  <2>1. \A c \in Chats : lockOf[c] = 0 => <<c, 0>> \in Locks
    BY Facts
  <2> QED
    BY <1>1, <1>4, <2>1 DEF LinesAreInOrder
<1> QED
  BY <1>2, <1>3, <1>4, <1>5, <1>6

LEMMA AgentStepWork ==
    ASSUME IInv, NEW w \in Workers, AgentStep(w), Approves(w)
    PROVE  /\ QueueIsInOrder' /\ WorkIsTaken'
           /\ handled \subseteq handled' /\ handled' \subseteq 1..Len(sent)
<1> USE DEF IInv
<1>1. UNCHANGED Path /\ UNCHANGED started
  BY DEF AgentStep
<1>2. QueueIsInOrder' /\ \A i : Taken(i) => StillTaken(i)
  BY <1>1, OffThePath
<1>3. /\ handled' = handled \/ handled' = handled \cup {workers[w].msg}
      /\ workers[w].msg \in 1..Len(sent) /\ Taken(workers[w].msg)
      /\ handled \subseteq 1..Len(sent)
  BY Facts DEF AgentStep, WorkIsTaken, Busy, TypeOK
<1>4. Taken(0)
  BY Facts, Sequences DEF Taken, QueueIsInOrder, Sentinel
<1>5. \A i \in handled' : Taken(i)
  BY <1>3 DEF WorkIsTaken
<1>6. \A v \in Workers : Taken(workers'[v].msg) /\ Taken(workers'[v].reply)
  BY <1>4, AgentStepWorkers DEF WorkIsTaken, NoReply
<1>7. \A x \in approvals' : Taken(x.by)
  BY <1>4 DEF WorkIsTaken, Approves, Approved, NoReply
<1>8. \A c \in Chats : Taken(started'[c])
  BY <1>1 DEF WorkIsTaken
<1>9. WorkIsTaken'
  BY <1>2, <1>5, <1>6, <1>7, <1>8, WorkIsStillTaken
<1> QED
  BY <1>2, <1>3, <1>9

LEMMA AgentStepRegistered ==
    ASSUME IInv, NEW w \in Workers, AgentStep(w), Registers(w)
    PROVE  NothingOutlivesItsWorker'
<1> USE DEF IInv
<1>1. ASSUME NEW c \in Chats, interrupts'[c] # NoWorker
      PROVE  \E v \in Workers : v = interrupts'[c] /\ workers'[v].pc = "approval" /\ Chat(v)' = c
  <2>1. CASE interrupts'[c] = interrupts[c] /\ interrupts[c] # w
    <3>1. PICK v \in Workers : v = interrupts[c]
      BY <1>1, <2>1 DEF TypeOK
    <3>2. workers[v].pc = "approval" /\ Chat(v) = c
      BY <1>1, <2>1, <3>1 DEF NothingOutlivesItsWorker
    <3> QED
      BY <2>1, <3>1, <3>2, AgentStepWorkers
  <2>2. CASE interrupts'[c] = w /\ c = Chat(w) /\ workers'[w].pc = "approval"
    BY <2>2, AgentStepWorkers DEF InStream
  <2> QED
    BY <1>1, <2>1, <2>2 DEF Registers
<1>2. ASSUME NEW c \in Chats, questions'[c] # NoWorker
      PROVE  \E v \in Workers : v = questions'[c] /\ workers'[v].pc = "ask" /\ Chat(v)' = c
  <2>1. CASE questions'[c] = questions[c] /\ questions[c] # w
    <3>1. PICK v \in Workers : v = questions[c]
      BY <1>2, <2>1 DEF TypeOK
    <3>2. workers[v].pc = "ask" /\ Chat(v) = c
      BY <1>2, <2>1, <3>1 DEF NothingOutlivesItsWorker
    <3> QED
      BY <2>1, <3>1, <3>2, AgentStepWorkers
  <2>2. CASE questions'[c] = w /\ c = Chat(w) /\ workers'[w].pc = "ask"
    BY <2>2, AgentStepWorkers DEF InStream
  <2> QED
    BY <1>2, <2>1, <2>2 DEF Registers
<1>3. UNCHANGED waiting
  BY DEF AgentStep
<1> QED
  BY <1>1, <1>2, <1>3, AgentStepLocks, NothingOutlivesNext

LEMMA AgentStepReplies ==
    ASSUME IInv, NEW w \in Workers, AgentStep(w), Approves(w)
    PROVE  RepliesAreNew'
<1> USE DEF IInv
<1>1. UNCHANGED sent /\ handled \subseteq handled' /\ workers[w].pc \in InStream
  BY AgentStepWork DEF AgentStep, Path
<1>2. ASSUME NEW v \in Workers, workers'[v].reply # NoReply
      PROVE  v # w /\ workers'[v] = workers[v] /\ Chat(v)' = Chat(v)
  BY <1>2, AgentStepWorkers
<1>3. ASSUME NEW x \in approvals'
      PROVE  \/ x \in approvals
             \/ x.msg = workers[w].msg /\ (x.by = NoReply \/ x.by = workers[w].reply)
  BY DEF Approves, Approved
<1>4. ASSUME NEW v \in Workers, workers'[v].reply # NoReply
      PROVE  /\ workers'[v].pc \in {"approval", "ask"}
             /\ \A u \in Workers : workers'[u].reply = workers'[v].reply => u = v
             /\ \A x \in approvals' : x.by # workers'[v].reply
             /\ workers'[v].pc = "approval" =>
                   /\ ChatOf(workers[v].reply) = Chat(v)
                   /\ sent[workers'[v].reply].says \in Decisions =>
                         workers'[v].reply \in handled'
  <2>1. workers'[v] = workers[v] /\ v # w
    BY <1>2, <1>4
  <2>2. \A u \in Workers : workers'[u].reply = workers'[v].reply => u = v
    BY <1>4, <2>1, AgentStepWorkers DEF RepliesAreNew
  <2>3. \A x \in approvals' : x.by # workers'[v].reply
    BY <1>3, <1>4, <2>1 DEF RepliesAreNew
  <2> QED
    BY <1>1, <1>4, <2>1, <2>2, <2>3 DEF RepliesAreNew
<1>5. \A x \in approvals' : x.msg <= Len(sent)
  BY <1>1, <1>3, Facts DEF RepliesAreNew, Busy
<1>6. ASSUME NEW c \in automatic'
      PROVE  \E i \in handled' : sent[i] = [chat |-> c, says |-> "auto"]
  <2>1. CASE c \in automatic
    BY <1>1, <2>1 DEF RepliesAreNew
  <2>2. CASE c \notin automatic
    <3> DEFINE i == workers[w].reply
    <3>1. IsReplied(w) /\ Says1(w) = "auto" /\ c = Chat(w)
      BY <1>6, <2>2 DEF Approves
    <3>2. i \in handled /\ ChatOf(i) = c
      BY <3>1 DEF IsReplied, Says1, Decisions, RepliesAreNew
    <3>3. i \in 1..Len(sent)
      BY <3>2 DEF TypeOK
    <3>4. sent[i] \in [chat : Chats, says : Says \cup {Unread}]
      BY <3>3, Sequences
    <3>5. sent[i] = [chat |-> c, says |-> "auto"]
      BY <3>1, <3>2, <3>4 DEF Says1, ChatOf
    <3> QED
      BY <1>1, <3>2, <3>5
  <2> QED
    BY <2>1, <2>2
<1> QED
  BY <1>1, <1>2, <1>4, <1>5, <1>6 DEF RepliesAreNew, ChatOf

LEMMA AgentStepApproved ==
    ASSUME IInv, NEW w \in Workers, AgentStep(w), Approves(w)
    PROVE  ApprovedByItsChat'
<1> USE DEF IInv
<1>1. UNCHANGED sent /\ handled \subseteq handled'
  BY AgentStepWork DEF AgentStep, Path
<1> DEFINE i == workers[w].reply
           new(by) == [msg |-> workers[w].msg, round |-> workers[w].round, by |-> by]
<1>2. CASE approvals' = approvals
  BY <1>1, <1>2 DEF ApprovedByItsChat, ChatOf
<1>3. CASE Chat(w) \in automatic /\ Approved(w, NoReply)
  <2>1. approvals' = approvals \cup {new(NoReply)} /\ new(NoReply).by = NoReply
    BY <1>3 DEF Approved
  <2>2. \E j \in handled' : sent[j] = [chat |-> ChatOf(new(NoReply).msg), says |-> "auto"]
    BY <1>1, <1>3 DEF RepliesAreNew, Chat
  <2> HIDE DEF new
  <2> QED
    BY <1>1, <2>1, <2>2 DEF ApprovedByItsChat, ChatOf
<1>4. CASE IsReplied(w) /\ Says1(w) \in {"approve", "auto"} /\ Approved(w, i)
  <2>1. approvals' = approvals \cup {new(i)}
        /\ new(i).by = i /\ new(i).msg = workers[w].msg
    BY <1>4 DEF Approved
  <2>2. /\ i # NoReply /\ ChatOf(i) = Chat(w) /\ sent[i].says \in {"approve", "auto"}
        /\ \A x \in approvals : x.by # i
    BY <1>4 DEF IsReplied, Says1, RepliesAreNew
  <2>3. ChatOf(i) = ChatOf(new(i).msg)
    BY <2>1, <2>2 DEF Chat
  <2> HIDE DEF new
  <2>4. ASSUME NEW a \in approvals'
        PROVE  \/ /\ a.by # NoReply /\ ChatOf(a.by) = ChatOf(a.msg)
                  /\ sent[a.by].says \in {"approve", "auto"}
                  /\ \A b \in approvals' : b.by = a.by => b = a
               \/ /\ a.by = NoReply
                  /\ \E j \in handled' : sent[j] = [chat |-> ChatOf(a.msg), says |-> "auto"]
    BY <1>1, <2>1, <2>2, <2>3 DEF ApprovedByItsChat
  <2> QED
    BY <1>1, <2>4 DEF ApprovedByItsChat, ChatOf
<1> QED
  BY <1>2, <1>3, <1>4 DEF Approves

LEMMA AgentStepTypes ==
    ASSUME IInv, NEW w \in Workers, AgentStep(w), Registers(w), Approves(w)
    PROVE  TypeOK'
<1> USE DEF IInv
<1>1. /\ UNCHANGED <<sent, inbound, loop, queue, stopper, waiting, lockOf, started>>
      /\ workers[w].pc \in InStream
  BY DEF AgentStep, Path
<1>2. /\ workers' \in [Workers -> Worker]
      /\ holder' \in [Locks -> Workers \cup {NoWorker}]
      /\ handled' \subseteq 1..Len(sent)
  BY AgentStepWorkers, AgentStepLocks, AgentStepWork
<1>3. /\ interrupts' \in [Chats -> Workers \cup {NoWorker}]
      /\ questions' \in [Chats -> Workers \cup {NoWorker}]
  BY DEF Registers
<1>4. automatic' \subseteq Chats
  BY <1>1, Facts DEF Approves, TypeOK, Busy
<1>5. approvals' \subseteq [msg : Ids, round : 0..(MaxRounds - 1), by : 0..MaxMessages]
  <2>1. workers[w] \in Worker /\ workers[w].msg \in 1..Len(sent) /\ Len(sent) <= MaxMessages
    BY <1>1, Facts DEF TypeOK, Busy
  <2>2. workers[w].msg \in Ids
    BY <2>1, Facts, BoundAssumption DEF Ids
  <2>3. /\ workers[w].round \in 0..(MaxRounds - 1)
        /\ workers[w].reply \in 0..MaxMessages /\ NoReply \in 0..MaxMessages
    BY <2>1, BoundAssumption DEF Worker, NoReply
  <2> QED
    BY <2>2, <2>3 DEF Approves, Approved, TypeOK
<1> QED
  BY <1>1, <1>2, <1>3, <1>4, <1>5 DEF TypeOK

\* A step of the agent keeps the invariant.
LEMMA AgentStepKeeps ==
    ASSUME IInv, NEW w \in Workers, AgentStep(w), Registers(w), Approves(w)
    PROVE  IInv'
  BY AgentStepTypes, AgentStepWork, AgentStepRegistered, AgentStepLocks,
     AgentStepReplies, AgentStepApproved DEF IInv

\* The two ways out of a wait.
LEMMA ReturnLeaves ==
    ASSUME NEW w \in Workers, Return(w)
    PROVE  Leaves(w) /\ handled' = handled \cup {workers[w].msg}
  BY DEF Return, Leaves, Gone

LEMMA ResumeGoesOn ==
    ASSUME IInv, NEW w \in Workers, Resume(w)
    PROVE  /\ GoesOn(w) \/ Leaves(w)
           /\ handled' = handled \/ handled' = handled \cup {workers[w].msg}
           /\ workers'[w].pc \notin {"approval", "ask"}
<1> USE DEF IInv
<1>1. workers \in [Workers -> Worker] /\ workers[w] \in Worker
  BY DEF TypeOK
<1>2. CASE Return(w)
  BY <1>1, <1>2, ReturnLeaves DEF Return, Idle
<1>3. CASE ~Return(w)
  <2> DEFINE x == [workers[w] EXCEPT !.pc = "stream", !.round = @ + 1, !.reply = NoReply]
  <2>1. /\ workers[w].round + 1 # MaxRounds
        /\ workers' = [workers EXCEPT ![w] = x] /\ UNCHANGED <<holder, handled>>
    BY <1>1, <1>3 DEF Resume
  <2>2. workers[w].round + 1 \in 0..(MaxRounds - 1) /\ NoReply \in 0..MaxMessages
    BY <1>1, <2>1, QueueAssumption, BoundAssumption DEF Worker, NoReply
  <2>3. /\ x \in Worker /\ x.pc \in InStream /\ x.reply = NoReply
        /\ x.msg = workers[w].msg /\ x.lock = workers[w].lock /\ x.pc = "stream"
    BY <1>1, <2>2 DEF Worker, Places, InStream
  <2> HIDE DEF x
  <2>4. GoesOn(w)
    BY <2>1, <2>3 DEF GoesOn
  <2> QED
    BY <1>1, <2>1, <2>3, <2>4
<1> QED
  BY <1>2, <1>3

LEMMA StreamEndsKeeps ==
    ASSUME IInv, NEW w \in Workers, StreamEnds(w)
    PROVE  IInv'
<1>1. AgentStep(w)
  BY ReturnLeaves DEF StreamEnds, AgentStep, Path, InStream
<1>2. Registers(w)
  BY DEF StreamEnds, Registers, IInv, TypeOK, NothingOutlivesItsWorker
<1>3. Approves(w)
  BY DEF StreamEnds, Approves
<1> QED
  BY <1>1, <1>2, <1>3, AgentStepKeeps

LEMMA AutoApproveKeeps ==
    ASSUME IInv, NEW w \in Workers, AutoApprove(w)
    PROVE  IInv'
<1>1. AgentStep(w)
  BY ResumeGoesOn DEF AutoApprove, AgentStep, Path, InStream
<1>2. Registers(w)
  BY DEF AutoApprove, Registers, IInv, TypeOK, NothingOutlivesItsWorker
<1>3. Approves(w)
  BY DEF AutoApprove, Approves
<1> QED
  BY <1>1, <1>2, <1>3, AgentStepKeeps

\* A worker that streams has no reply in its hand when it asks for one.
LEMMA PcChangeGoesOn ==
    ASSUME IInv, NEW w \in Workers, workers[w].pc = "stream", NEW pc \in InStream,
           workers' = [workers EXCEPT ![w].pc = pc], UNCHANGED holder
    PROVE  GoesOn(w) /\ workers'[w].pc = pc
<1> USE DEF IInv
<1> DEFINE x == [workers[w] EXCEPT !.pc = pc]
<1>1. workers \in [Workers -> Worker] /\ workers[w] \in Worker
  BY DEF TypeOK
<1>2. workers[w].reply = NoReply
  BY DEF RepliesAreNew
<1>3. /\ x \in Worker /\ x.pc = pc /\ x.reply = NoReply
      /\ x.msg = workers[w].msg /\ x.lock = workers[w].lock
  BY <1>1, <1>2 DEF Worker, Places, InStream
<1>4. workers' = [workers EXCEPT ![w] = x]
  OBVIOUS
<1> HIDE DEF x
<1> QED
  BY <1>1, <1>3, <1>4 DEF GoesOn

LEMMA AskApprovalKeeps ==
    ASSUME IInv, NEW w \in Workers, AskApproval(w)
    PROVE  IInv'
<1>1. GoesOn(w) /\ workers'[w].pc = "approval"
  BY PcChangeGoesOn DEF AskApproval, InStream
<1>2. AgentStep(w)
  BY <1>1 DEF AskApproval, AgentStep, Path, InStream
<1>3. Registers(w)
  BY <1>1 DEF AskApproval, Registers, IInv, TypeOK, NothingOutlivesItsWorker
<1>4. Approves(w)
  BY DEF AskApproval, Approves
<1> QED
  BY <1>2, <1>3, <1>4, AgentStepKeeps

LEMMA AskUserKeeps ==
    ASSUME IInv, NEW w \in Workers, AskUser(w)
    PROVE  IInv'
<1>1. GoesOn(w) /\ workers'[w].pc = "ask"
  BY PcChangeGoesOn DEF AskUser, InStream
<1>2. AgentStep(w)
  BY <1>1 DEF AskUser, AgentStep, Path, InStream
<1>3. Registers(w)
  BY <1>1 DEF AskUser, Registers, IInv, TypeOK, NothingOutlivesItsWorker
<1>4. Approves(w)
  BY DEF AskUser, Approves
<1> QED
  BY <1>2, <1>3, <1>4, AgentStepKeeps

LEMMA ApprovalKeeps ==
    ASSUME IInv, NEW w \in Workers, Approval(w)
    PROVE  IInv'
<1> USE DEF Approval, Answered
<1>1. AgentStep(w)
  BY ResumeGoesOn, ReturnLeaves DEF AgentStep, Path, InStream
<1>2. Registers(w)
  BY DEF Registers, IInv, TypeOK, NothingOutlivesItsWorker
<1>3. Approves(w)
  BY DEF Approves, IsReplied, Says1
<1> QED
  BY <1>1, <1>2, <1>3, AgentStepKeeps

LEMMA UserAnswerKeeps ==
    ASSUME IInv, NEW w \in Workers, UserAnswer(w)
    PROVE  IInv'
<1>1. AgentStep(w)
  BY ResumeGoesOn DEF UserAnswer, AgentStep, Path, InStream
<1>2. Registers(w)
  BY DEF UserAnswer, Registers, IInv, TypeOK, NothingOutlivesItsWorker
<1>3. Approves(w)
  BY DEF UserAnswer, Approves
<1> QED
  BY <1>1, <1>2, <1>3, AgentStepKeeps

LEMMA TimesOutKeeps ==
    ASSUME IInv, NEW w \in Workers, TimesOut(w)
    PROVE  IInv'
<1>1. CASE ApprovalTimesOut(w)
  <2> USE <1>1 DEF ApprovalTimesOut
  <2>1. AgentStep(w)
    BY ReturnLeaves DEF AgentStep, Path, InStream
  <2>2. Registers(w)
    BY DEF Registers, IInv, TypeOK, NothingOutlivesItsWorker
  <2>3. Approves(w)
    BY DEF Approves
  <2> QED
    BY <2>1, <2>2, <2>3, AgentStepKeeps
<1>2. CASE QuestionTimesOut(w)
  <2> USE <1>2 DEF QuestionTimesOut
  <2>1. AgentStep(w)
    BY ResumeGoesOn DEF AgentStep, Path, InStream
  <2>2. Registers(w)
    BY DEF Registers, IInv, TypeOK, NothingOutlivesItsWorker
  <2>3. Approves(w)
    BY DEF Approves
  <2> QED
    BY <2>1, <2>2, <2>3, AgentStepKeeps
<1> QED
  BY <1>1, <1>2 DEF TimesOut

-----------------------------------------------------------------------------
(* Steps that leave the workers alone.                                     *)

\* A chat that changes locks has a later one; what was said stays.
Aside ==
    /\ UNCHANGED <<workers, holder, waiting, interrupts, questions, automatic,
                   handled, approvals, started>>
    /\ \A c \in Chats : lockOf'[c] \in 0..MaxEvictions /\ lockOf[c] <= lockOf'[c]
    /\ Len(sent') \in Nat /\ Len(sent) <= Len(sent')
    /\ \A i \in 1..Len(sent) : sent'[i] = sent[i]

LEMMA AsideKeeps ==
    ASSUME IInv, Aside, QueueIsInOrder', \A i \in Nat : Taken(i) => StillTaken(i),
           TypeOK'
    PROVE  IInv'
<1> USE DEF IInv
<1>0. \A c \in Chats : /\ lockOf[c] \in Nat /\ lockOf'[c] \in Nat
                       /\ lockOf[c] <= lockOf'[c]
  <2> SUFFICES ASSUME NEW c \in Chats
               PROVE  lockOf[c] \in Nat /\ lockOf'[c] \in Nat /\ lockOf[c] <= lockOf'[c]
    OBVIOUS
  <2>1. lockOf[c] \in 0..MaxEvictions
    BY Facts
  <2>2. lockOf'[c] \in 0..MaxEvictions /\ lockOf[c] <= lockOf'[c]
    BY DEF Aside
  <2> QED
    BY <2>1, <2>2, BoundAssumption
<1>1. /\ UNCHANGED <<workers, holder, waiting, interrupts, questions, automatic,
                     handled, approvals, started>>
      /\ \A i \in 1..Len(sent) : sent'[i] = sent[i] /\ sent'[i].chat = ChatOf(i)
  BY DEF Aside, ChatOf
<1>2. WorkIsTaken'
  <2>1. handled \subseteq Nat
    BY Facts DEF TypeOK
  <2>2. \A w \in Workers : workers[w].msg \in Nat /\ workers[w].reply \in Nat
    BY Facts
  <2>3. \A x \in approvals : x.by \in Nat
    BY ApprovalFacts, Facts
  <2>4. \A c \in Chats : started[c] \in Nat
    BY BoundAssumption DEF TypeOK
  <2> QED
    BY <1>1, <2>1, <2>2, <2>3, <2>4, WorkIsStillTaken DEF WorkIsTaken
<1>3. \A w \in Workers : workers[w].pc \in Busy =>
         Chat(w)' = Chat(w) /\ LockOf(w)' = LockOf(w)
  BY <1>1, Facts DEF Chat, ChatOf, LockOf
<1>4. NothingOutlivesItsWorker'
  <2>1. ASSUME NEW c \in Chats, interrupts'[c] # NoWorker
        PROVE  \E v \in Workers : /\ v = interrupts'[c]
                                  /\ workers'[v].pc = "approval" /\ Chat(v)' = c
    BY <1>1, <1>3, <2>1 DEF TypeOK, NothingOutlivesItsWorker, Busy, InStream
  <2>2. ASSUME NEW c \in Chats, questions'[c] # NoWorker
        PROVE  \E v \in Workers : /\ v = questions'[c]
                                  /\ workers'[v].pc = "ask" /\ Chat(v)' = c
    BY <1>1, <1>3, <2>2 DEF TypeOK, NothingOutlivesItsWorker, Busy, InStream
  <2>3. ASSUME NEW l \in Locks, holder'[l] # NoWorker
        PROVE  \E v \in Workers : /\ v = holder'[l]
                                  /\ workers'[v].pc \in InStream /\ LockOf(v)' = l
    BY <1>1, <1>3, <2>3 DEF TypeOK, NothingOutlivesItsWorker, Busy
  <2>4. ASSUME NEW l \in Locks, NEW k \in DOMAIN waiting'[l]
        PROVE  \E v \in Workers : /\ v = waiting'[l][k]
                                  /\ workers'[v].pc = "lock" /\ LockOf(v)' = l
    BY <1>1, <1>3, Sequences DEF NothingOutlivesItsWorker, Busy
  <2> QED
    BY <2>1, <2>2, <2>3, <2>4, NothingOutlivesNext
<1>5. WorkersAreLocked'
  <2> SUFFICES ASSUME NEW w \in Workers
               PROVE  /\ workers'[w].pc \in InStream \cup {"lock"} =>
                            workers'[w].msg # 0 /\ workers'[w].lock <= lockOf'[Chat(w)']
                      /\ workers'[w].pc \in InStream => holder'[LockOf(w)'] = w
                      /\ workers'[w].pc = "lock" =>
                            \E k \in DOMAIN waiting'[LockOf(w)'] :
                               waiting'[LockOf(w)'][k] = w
    BY DEF WorkersAreLocked
  <2>1. CASE workers[w].pc \in Busy
    <3>1. workers[w].lock <= lockOf[Chat(w)] /\ workers[w].lock \in Nat /\ Chat(w) \in Chats
      BY <2>1, Facts, BoundAssumption DEF WorkersAreLocked, Busy, Worker
    <3>2. workers[w].lock <= lockOf'[Chat(w)]
      BY <1>0, <3>1
    <3> QED
      BY <1>1, <1>3, <2>1, <3>2 DEF WorkersAreLocked, Busy
  <2>2. CASE workers[w].pc \notin Busy
    BY <1>1, <2>2 DEF Busy
  <2> QED
    BY <2>1, <2>2
<1>6. LinesAreInOrder'
  <2>1. \A c \in Chats : lockOf'[c] = 0 => lockOf[c] = 0
    BY <1>0
  <2> QED
    BY <1>1, <2>1 DEF LinesAreInOrder
<1>7. RepliesAreNew'
  <2>1. \A w \in Workers : workers[w].reply # NoReply =>
           workers[w].pc \in Busy /\ workers[w].reply \in 1..Len(sent)
    BY Facts DEF RepliesAreNew, Busy, InStream, NoReply
  <2>2. \A w \in Workers : workers[w].reply # NoReply =>
           sent'[workers[w].reply] = sent[workers[w].reply] /\ Chat(w)' = Chat(w)
    BY <1>1, <1>3, <2>1
  <2>3. \A i \in handled : sent'[i] = sent[i]
    BY <1>1 DEF TypeOK
  <2>4. \A x \in approvals : x.msg <= Len(sent')
    <3>1. \A x \in approvals : x.msg \in Nat /\ x.msg <= Len(sent)
      BY ApprovalFacts, Facts
    <3> QED
      BY <3>1, Facts DEF Aside
  <2> QED
    BY <1>1, <2>2, <2>3, <2>4 DEF RepliesAreNew, ChatOf
<1>8. ApprovedByItsChat'
  <2>1. \A x \in approvals : x.msg \in 1..Len(sent) /\ x.by \in 0..Len(sent)
    BY ApprovalFacts
  <2>2. \A x \in approvals : ChatOf(x.msg)' = ChatOf(x.msg)
    BY <1>1, <2>1 DEF ChatOf
  <2>3. \A x \in approvals : x.by # NoReply => sent'[x.by] = sent[x.by]
    BY <1>1, <2>1 DEF NoReply
  <2>4. \A i \in handled : sent'[i] = sent[i]
    BY <1>1 DEF TypeOK
  <2> QED
    BY <1>1, <2>2, <2>3, <2>4 DEF ApprovedByItsChat, ChatOf
<1> QED
  BY <1>2, <1>4, <1>5, <1>6, <1>7, <1>8

LEMMA SameLocks ==
    ASSUME IInv, NEW c \in Chats
    PROVE  lockOf[c] \in 0..MaxEvictions /\ lockOf[c] <= lockOf[c]
<1>1. lockOf[c] \in 0..MaxEvictions
  BY Facts
<1> QED
  BY <1>1, BoundAssumption

\* A step that changes neither what was sent nor the locks.
LEMMA SameSent ==
    ASSUME IInv, UNCHANGED sent, UNCHANGED lockOf,
           UNCHANGED <<workers, holder, waiting, interrupts, questions, automatic,
                       handled, approvals, started>>
    PROVE  Aside
<1>1. \A c \in Chats : lockOf[c] \in 0..MaxEvictions /\ lockOf[c] <= lockOf[c]
  BY SameLocks
<1>2. Len(sent) \in Nat /\ Len(sent) <= Len(sent)
  BY Facts
<1> QED
  BY <1>1, <1>2 DEF Aside

LEMMA SendKeeps ==
    ASSUME IInv, NEW c \in Chats, Send(c)
    PROVE  IInv'
<1> USE DEF IInv, Send
<1> DEFINE Messages == [chat : Chats, says : Says \cup {Unread}]
           m == [chat |-> c, says |-> Unread]
           n == Len(sent) + 1
<1>1. /\ sent \in Seq(Messages) /\ m \in Messages /\ Len(sent) \in Nat
      /\ inbound \in Seq(1..Len(sent)) /\ DOMAIN inbound = 1..Len(inbound)
      /\ Len(inbound) \in Nat
      /\ queue \in Seq(0..Len(sent)) /\ DOMAIN queue = 1..Len(queue)
  BY Facts, Sequences
<1>2. /\ sent' \in Seq(Messages) /\ Len(sent') = n
      /\ \A i \in 1..Len(sent) : sent'[i] = sent[i]
  BY <1>1, AppendProperties
<1>3. /\ inbound' \in Seq(1..n) /\ Len(inbound') = Len(inbound) + 1
      /\ \A k \in 1..Len(inbound) : inbound'[k] = inbound[k]
      /\ inbound'[Len(inbound) + 1] = n
  <2>1. 1..Len(sent) \subseteq 1..n /\ n \in 1..n
    BY <1>1
  <2>2. inbound \in Seq(1..n)
    BY <1>1, <2>1, SeqMonotonic
  <2> QED
    BY <2>1, <2>2, AppendProperties
<1>4. DOMAIN inbound' = 1..(Len(inbound) + 1)
  BY <1>3, LenProperties
<1>5. queue' \in Seq(0..n)
  <2>1. 0..Len(sent) \subseteq 0..n
    BY <1>1
  <2> QED
    BY <1>1, <2>1, SeqMonotonic
<1>6. ReadSoFar' = ReadSoFar
  BY <1>1, <1>2, <1>3 DEF ReadSoFar
<1>7. Aside
  <2>1. \A d \in Chats : lockOf[d] \in 0..MaxEvictions /\ lockOf[d] <= lockOf[d]
    BY SameLocks
  <2> QED
    BY <1>1, <1>2, <2>1 DEF Aside
<1>8. QueueIsInOrder'
  <2>1. Len(inbound') <= Len(sent')
    BY <1>1, <1>2, <1>3 DEF QueueIsInOrder
  <2>2. \A k \in DOMAIN inbound' : inbound'[k] = ReadSoFar' + k
    <3>1. \A k \in 1..Len(inbound) : inbound'[k] = ReadSoFar + k
      BY <1>1, <1>3 DEF QueueIsInOrder
    <3>2. inbound'[Len(inbound) + 1] = ReadSoFar + (Len(inbound) + 1)
      BY <1>1, <1>3 DEF ReadSoFar
    <3>3. \A k \in 1..(Len(inbound) + 1) : k \in 1..Len(inbound) \/ k = Len(inbound) + 1
      BY <1>1
    <3> QED
      BY <1>4, <1>6, <3>1, <3>2, <3>3
  <2> QED
    BY <1>6, <2>1, <2>2 DEF QueueIsInOrder, Stopping
<1>9. \A i : Taken(i) => StillTaken(i)
  BY <1>6 DEF Taken, StillTaken
<1>10. TypeOK'
  <2>1. loop' \in [pc : {"read", "put", "ended"}, msg : 0..Len(sent')]
    <3>1. loop \in [pc : {"read", "put", "ended"}, msg : 0..Len(sent)]
      BY DEF TypeOK
    <3>2. 0..Len(sent) \subseteq 0..Len(sent')
      BY <1>1, <1>2
    <3> QED
      BY <3>1, <3>2
  <2>2. handled' \subseteq 1..Len(sent')
    <3>1. 1..Len(sent) \subseteq 1..Len(sent')
      BY <1>1, <1>2
    <3> QED
      BY <3>1 DEF TypeOK
  <2>3. Len(sent') <= MaxMessages
    BY <1>1, <1>2, BoundAssumption
  <2> QED
    BY <1>2, <1>3, <1>5, <2>1, <2>2, <2>3 DEF TypeOK
<1> QED
  BY <1>7, <1>8, <1>9, <1>10, AsideKeeps

LEMMA ReadKeeps ==
    ASSUME IInv, Read
    PROVE  IInv'
<1> USE DEF IInv, Read, CanRead
<1>1. /\ inbound \in Seq(1..Len(sent)) /\ Len(inbound) \in Nat /\ Len(sent) \in Nat
      /\ DOMAIN inbound = 1..Len(inbound) /\ DOMAIN queue = 1..Len(queue)
      /\ ReadSoFar \in Nat
      /\ \A k \in DOMAIN queue : queue[k] \in 0..Len(sent)
  BY Facts, Sequences
<1>2. Len(inbound) # 0 /\ Head(inbound) = inbound[1] /\ 1 \in DOMAIN inbound
  BY <1>1, EmptySeq
<1>3. /\ inbound' \in Seq(1..Len(sent)) /\ Len(inbound') = Len(inbound) - 1
      /\ \A k \in 1..Len(inbound') : inbound'[k] = inbound[k + 1]
  BY <1>1, HeadTailProperties
<1>4. DOMAIN inbound' = 1..Len(inbound')
  BY <1>3, LenProperties
<1>5. ReadSoFar' = ReadSoFar + 1
  BY <1>1, <1>3 DEF ReadSoFar
<1>6. loop' = [pc |-> "put", msg |-> ReadSoFar + 1]
  BY <1>2, <1>1 DEF QueueIsInOrder
<1>7. Aside
  BY SameSent
<1>8. QueueIsInOrder'
  <2>1. \A k \in DOMAIN inbound' : inbound'[k] = ReadSoFar' + k
    <3>1. \A k \in DOMAIN inbound' : k \in Nat /\ k + 1 \in DOMAIN inbound
      BY <1>1, <1>3, <1>4
    <3>2. \A k \in DOMAIN inbound' : inbound'[k] = ReadSoFar + (k + 1)
      BY <1>3, <1>4, <3>1 DEF QueueIsInOrder
    <3> QED
      BY <1>1, <1>5, <3>1, <3>2
  <2>2. \A k \in DOMAIN queue : queue[k] \in Int /\ queue[k] <= ReadSoFar
    BY <1>1 DEF QueueIsInOrder
  <2>3. \A k \in DOMAIN queue : queue[k] <= ReadSoFar + 1 /\ queue[k] < ReadSoFar + 1
    BY <1>1, <2>2
  <2>4. Len(inbound') <= Len(sent')
    BY <1>1, <1>3 DEF QueueIsInOrder
  <2>5. ReadSoFar + 1 \in 1..(ReadSoFar + 1)
    BY <1>1
  <2>6. \A j, k \in DOMAIN queue' :
           j < k /\ queue'[j] # Sentinel /\ queue'[k] # Sentinel => queue'[j] < queue'[k]
    BY DEF QueueIsInOrder
  <2> QED
    BY <1>5, <1>6, <2>1, <2>3, <2>4, <2>5, <2>6 DEF QueueIsInOrder
<1>9. \A i \in Nat : Taken(i) => StillTaken(i)
  <2> SUFFICES ASSUME NEW i \in Nat, Taken(i)
               PROVE  StillTaken(i)
    OBVIOUS
  <2>1. i <= ReadSoFar
    BY DEF Taken
  <2>2. i <= ReadSoFar + 1 /\ i < ReadSoFar + 1
    BY <1>1, <2>1
  <2> QED
    BY <1>5, <1>6, <2>2 DEF Taken, StillTaken
<1>10. TypeOK'
  <2>1. ReadSoFar + 1 \in 0..Len(sent)
    BY <1>1, <1>2 DEF ReadSoFar, QueueIsInOrder
  <2>2. loop' \in [pc : {"read", "put", "ended"}, msg : 0..Len(sent)]
    BY <1>6, <2>1
  <2> QED
    BY <1>3, <2>2 DEF TypeOK
<1> QED
  BY <1>7, <1>8, <1>9, <1>10, AsideKeeps

LEMMA PutKeeps ==
    ASSUME IInv, Put
    PROVE  IInv'
<1> USE DEF IInv, Put, CanPut
<1>1. /\ queue \in Seq(0..Len(sent)) /\ Len(queue) \in Nat /\ Len(sent) \in Nat
      /\ DOMAIN queue = 1..Len(queue)
      /\ loop.msg \in 1..ReadSoFar /\ loop.msg \in 0..Len(sent) /\ loop.msg # Sentinel
      /\ ReadSoFar \in Nat
  <2>1. loop.msg \in 1..ReadSoFar /\ ReadSoFar \in Nat /\ ReadSoFar <= Len(sent)
    BY Facts DEF QueueIsInOrder
  <2> QED
    BY <2>1, Facts, Sequences DEF Sentinel
<1>2. /\ queue' \in Seq(0..Len(sent)) /\ Len(queue') = Len(queue) + 1
      /\ \A k \in 1..Len(queue) : queue'[k] = queue[k]
      /\ queue'[Len(queue) + 1] = loop.msg
  BY <1>1, AppendProperties
<1>3. DOMAIN queue' = 1..(Len(queue) + 1)
  BY <1>2, LenProperties
<1>4. \A k \in DOMAIN queue' :
         \/ k \in DOMAIN queue /\ k \in Nat /\ k < Len(queue) + 1 /\ queue'[k] = queue[k]
         \/ k = Len(queue) + 1 /\ queue'[k] = loop.msg
  BY <1>1, <1>2, <1>3
<1>5. UNCHANGED <<ReadSoFar, Stopping>> /\ loop' = [pc |-> "read", msg |-> 0]
  BY DEF ReadSoFar, Stopping
<1>6. Aside
  BY SameSent
<1>7. QueueIsInOrder'
  <2>1. \A k \in DOMAIN queue' : queue'[k] <= ReadSoFar
    BY <1>1, <1>4 DEF QueueIsInOrder
  <2>2. ASSUME NEW j \in DOMAIN queue', NEW k \in DOMAIN queue',
               j < k, queue'[j] # Sentinel, queue'[k] # Sentinel
        PROVE  queue'[j] < queue'[k]
    <3>1. j \in DOMAIN queue /\ queue'[j] = queue[j]
      BY <1>1, <1>4, <2>2
    <3> QED
      BY <1>4, <2>2, <3>1 DEF QueueIsInOrder
  <2> QED
    BY <1>5, <2>1, <2>2 DEF QueueIsInOrder
<1>8. \A i \in Nat : Taken(i) => StillTaken(i)
  BY <1>4, <1>5 DEF Taken, StillTaken
<1>9. TypeOK'
  <2>1. loop' \in [pc : {"read", "put", "ended"}, msg : 0..Len(sent)]
    BY <1>1, <1>5
  <2>2. Len(queue') <= MaxPending
    BY <1>1, <1>2, QueueAssumption
  <2> QED
    BY <1>2, <2>1, <2>2 DEF TypeOK
<1> QED
  BY <1>6, <1>7, <1>8, <1>9, AsideKeeps

LEMMA LoopEndsKeeps ==
    ASSUME IInv, LoopEnds
    PROVE  IInv'
<1> USE DEF IInv, LoopEnds
<1>1. /\ inbound \in Seq(1..Len(sent)) /\ Len(inbound) \in Nat /\ Len(sent) \in Nat
      /\ DOMAIN inbound = 1..Len(inbound) /\ ReadSoFar \in Nat
      /\ DOMAIN queue = 1..Len(queue)
      /\ \A k \in DOMAIN queue : queue[k] \in 0..Len(sent)
  BY Facts, Sequences
<1>2. Stopping' /\ loop' = [pc |-> "ended", msg |-> 0]
  BY DEF Stopping
<1>3. loop' \in [pc : {"read", "put", "ended"}, msg : 0..Len(sent)]
  BY <1>1, <1>2
<1>4. Aside
  BY SameSent
<1>5. CASE UNCHANGED inbound
  <2>1. UNCHANGED ReadSoFar
    BY <1>5 DEF ReadSoFar
  <2>2. QueueIsInOrder'
    BY <1>2, <1>5, <2>1 DEF QueueIsInOrder
  <2>3. \A i \in Nat : Taken(i) => StillTaken(i)
    BY <1>2, <2>1 DEF Taken, StillTaken
  <2>4. TypeOK'
    BY <1>3, <1>5 DEF TypeOK
  <2> QED
    BY <1>4, <2>2, <2>3, <2>4, AsideKeeps
<1>6. CASE inbound # <<>> /\ inbound' = Tail(inbound)
  <2>1. /\ inbound' \in Seq(1..Len(sent)) /\ Len(inbound') = Len(inbound) - 1
        /\ \A k \in 1..Len(inbound') : inbound'[k] = inbound[k + 1]
    BY <1>1, <1>6, HeadTailProperties
  <2>2. DOMAIN inbound' = 1..Len(inbound')
    BY <2>1, LenProperties
  <2>3. ReadSoFar' = ReadSoFar + 1
    BY <1>1, <2>1 DEF ReadSoFar
  <2>4. QueueIsInOrder'
    <3>1. \A k \in DOMAIN inbound' : k \in Nat /\ k + 1 \in DOMAIN inbound
      BY <1>1, <2>1, <2>2
    <3>2. \A k \in DOMAIN inbound' : inbound'[k] = ReadSoFar + (k + 1)
      BY <2>1, <2>2, <3>1 DEF QueueIsInOrder
    <3>3. \A k \in DOMAIN inbound' : inbound'[k] = ReadSoFar' + k
      BY <1>1, <2>3, <3>1, <3>2
    <3>4. \A k \in DOMAIN queue : queue[k] \in Int /\ queue[k] <= ReadSoFar
      BY <1>1 DEF QueueIsInOrder
    <3>5. \A k \in DOMAIN queue : queue[k] <= ReadSoFar + 1
      BY <1>1, <3>4
    <3>6. Len(inbound') <= Len(sent')
      BY <1>1, <2>1 DEF QueueIsInOrder
    <3>7. \A j, k \in DOMAIN queue' :
             j < k /\ queue'[j] # Sentinel /\ queue'[k] # Sentinel => queue'[j] < queue'[k]
      BY DEF QueueIsInOrder
    <3> QED
      BY <1>2, <2>3, <3>3, <3>5, <3>6, <3>7 DEF QueueIsInOrder
  <2>5. \A i \in Nat : Taken(i) => StillTaken(i)
    <3> SUFFICES ASSUME NEW i \in Nat, Taken(i)
                 PROVE  StillTaken(i)
      OBVIOUS
    <3>1. i <= ReadSoFar
      BY DEF Taken
    <3>2. i <= ReadSoFar + 1
      BY <1>1, <3>1
    <3> QED
      BY <1>2, <2>3, <3>2 DEF Taken, StillTaken
  <2>6. TypeOK'
    BY <1>3, <2>1 DEF TypeOK
  <2> QED
    BY <1>4, <2>4, <2>5, <2>6, AsideKeeps
<1> QED
  BY <1>5, <1>6

LEMMA StopKeeps ==
    ASSUME IInv, Stop
    PROVE  IInv'
<1> USE DEF IInv, Stop
<1>1. /\ queue \in Seq(0..Len(sent)) /\ Len(queue) \in Nat
      /\ DOMAIN queue = 1..Len(queue) /\ ReadSoFar \in Nat
  BY Facts, Sequences
<1>2. /\ Sentinels \in Seq({Sentinel}) /\ Len(Sentinels) + Len(queue) <= MaxPending
      /\ Len(Sentinels) \in Nat /\ DOMAIN Sentinels = 1..Len(Sentinels)
      /\ \A k \in 1..Len(Sentinels) : Sentinels[k] = Sentinel
  <2>1. Sentinels \in Seq({Sentinel}) /\ Len(Sentinels) + Len(queue) <= MaxPending
    BY SentinelsFit
  <2> QED
    BY <2>1, LenProperties, ElementOfSeq
<1>3. Sentinels \in Seq(0..Len(sent))
  <2>1. {Sentinel} \subseteq 0..Len(sent)
    BY Facts DEF Sentinel
  <2> QED
    BY <1>2, <2>1, SeqMonotonic
<1>4. /\ queue' \in Seq(0..Len(sent)) /\ Len(queue') = Len(queue) + Len(Sentinels)
      /\ \A k \in 1..(Len(queue) + Len(Sentinels)) :
            queue'[k] = IF k <= Len(queue) THEN queue[k] ELSE Sentinels[k - Len(queue)]
  BY <1>1, <1>3, ConcatProperties
<1>5. DOMAIN queue' = 1..(Len(queue) + Len(Sentinels))
  BY <1>4, LenProperties
<1>6. \A k \in DOMAIN queue' : \/ k \in DOMAIN queue /\ queue'[k] = queue[k]
                               \/ queue'[k] = Sentinel
  BY <1>1, <1>2, <1>4, <1>5
<1>7. UNCHANGED ReadSoFar /\ Stopping'
  BY DEF ReadSoFar, Stopping
<1>8. Aside
  BY SameSent
<1>9. QueueIsInOrder'
  <2>1. \A k \in DOMAIN queue' : queue'[k] <= ReadSoFar
    BY <1>1, <1>6 DEF QueueIsInOrder, Sentinel
  <2>2. loop.pc = "put" => \A k \in DOMAIN queue' : queue'[k] < loop.msg
    BY <1>1, <1>6 DEF QueueIsInOrder, Sentinel
  <2>3. \A j, k \in DOMAIN queue' :
           j < k /\ queue'[j] # Sentinel /\ queue'[k] # Sentinel => queue'[j] < queue'[k]
    BY <1>6 DEF QueueIsInOrder
  <2> QED
    BY <1>7, <2>1, <2>2, <2>3 DEF QueueIsInOrder
<1>10. \A i \in Nat : Taken(i) => StillTaken(i)
  BY <1>6, <1>7 DEF Taken, StillTaken
<1>11. TypeOK'
  <2>1. Len(queue') <= MaxPending
    BY <1>1, <1>2, <1>4, QueueAssumption
  <2> QED
    BY <1>4, <2>1 DEF TypeOK
<1> QED
  BY <1>8, <1>9, <1>10, <1>11, AsideKeeps

\* The steps of stop that only it sees.
LEMMA StopperKeeps ==
    ASSUME IInv, DrainTimesOut \/ Stopped
    PROVE  IInv'
<1> USE DEF IInv
<1>1. /\ UNCHANGED <<sent, inbound, loop, queue, workers, holder, waiting, lockOf,
                     interrupts, questions, automatic, handled, approvals, started>>
      /\ stopper' \in {"cancelling", "stopped"}
  BY DEF DrainTimesOut, Stopped
<1>2. UNCHANGED ReadSoFar /\ Stopping'
  BY <1>1 DEF ReadSoFar, Stopping
<1>3. Aside
  BY <1>1, SameSent
<1>4. QueueIsInOrder'
  BY <1>1, <1>2 DEF QueueIsInOrder
<1>5. \A i \in Nat : Taken(i) => StillTaken(i)
  BY <1>1, <1>2 DEF Taken, StillTaken
<1>6. TypeOK'
  BY <1>1 DEF TypeOK
<1> QED
  BY <1>3, <1>4, <1>5, <1>6, AsideKeeps

LEMMA EvictLockKeeps ==
    ASSUME IInv, NEW c \in Chats, EvictLock(c)
    PROVE  IInv'
<1> USE DEF IInv, EvictLock
<1>1. UNCHANGED Path
  BY DEF Path
<1>2. QueueIsInOrder' /\ \A i \in Nat : Taken(i) => StillTaken(i)
  BY <1>1, OffThePath
<1>3. \A d \in Chats : lockOf'[d] \in 0..MaxEvictions /\ lockOf[d] <= lockOf'[d]
  <2> SUFFICES ASSUME NEW d \in Chats
               PROVE  lockOf'[d] \in 0..MaxEvictions /\ lockOf[d] <= lockOf'[d]
    OBVIOUS
  <2>1. lockOf[d] \in 0..MaxEvictions /\ lockOf \in [Chats -> 0..MaxEvictions]
    BY Facts DEF TypeOK
  <2>2. lockOf'[d] = IF d = c THEN lockOf[d] + 1 ELSE lockOf[d]
    BY <2>1
  <2> QED
    BY <2>1, <2>2, BoundAssumption
<1>4. Aside
  BY <1>3, Facts DEF Aside
<1>5. TypeOK'
  <2>1. lockOf' \in [Chats -> 0..MaxEvictions]
    BY <1>3 DEF TypeOK
  <2> QED
    BY <2>1 DEF TypeOK
<1> QED
  BY <1>2, <1>4, <1>5, AsideKeeps

-----------------------------------------------------------------------------
(* Workers that leave, and lines that move up.                             *)

\* A worker without a message ends.
LEMMA IdleEnds ==
    ASSUME IInv, NEW w \in Workers, workers[w].pc = "get",
           NEW x \in Worker, x.pc = "exit", x.reply = NoReply, Taken(x.msg),
           workers' = [workers EXCEPT ![w] = x],
           UNCHANGED <<sent, inbound, loop, stopper, holder, waiting, lockOf,
                       interrupts, questions, automatic, handled, approvals, started>>,
           queue' \in Seq(0..Len(sent)), Len(queue') <= MaxPending,
           QueueIsInOrder', \A i : Taken(i) => StillTaken(i)
    PROVE  IInv'
<1> USE DEF IInv
<1>1. workers' \in [Workers -> Worker] /\ workers'[w] = x
      /\ \A v \in Workers : v # w => workers'[v] = workers[v]
  BY DEF TypeOK
<1>2. TypeOK'
  BY <1>1 DEF TypeOK
<1>3. WorkIsTaken'
  <2>1. Taken(NoReply)
    BY Facts, Sequences DEF Taken, QueueIsInOrder, Sentinel, NoReply
  <2> QED
    BY <1>1, <2>1, WorkIsStillTaken DEF WorkIsTaken
<1>4. \A v \in Workers : v # w => Chat(v)' = Chat(v) /\ LockOf(v)' = LockOf(v)
  BY <1>1 DEF Chat, ChatOf, LockOf
<1>5. NothingOutlivesItsWorker'
  <2>1. ASSUME NEW c \in Chats, interrupts'[c] # NoWorker
        PROVE  \E v \in Workers : /\ v = interrupts'[c]
                                  /\ workers'[v].pc = "approval" /\ Chat(v)' = c
    BY <1>1, <1>4, <2>1 DEF TypeOK, NothingOutlivesItsWorker
  <2>2. ASSUME NEW c \in Chats, questions'[c] # NoWorker
        PROVE  \E v \in Workers : /\ v = questions'[c]
                                  /\ workers'[v].pc = "ask" /\ Chat(v)' = c
    BY <1>1, <1>4, <2>2 DEF TypeOK, NothingOutlivesItsWorker
  <2>3. ASSUME NEW l \in Locks, holder'[l] # NoWorker
        PROVE  \E v \in Workers : /\ v = holder'[l]
                                  /\ workers'[v].pc \in InStream /\ LockOf(v)' = l
    BY <1>1, <1>4, <2>3 DEF TypeOK, NothingOutlivesItsWorker, InStream
  <2>4. ASSUME NEW l \in Locks, NEW k \in DOMAIN waiting'[l]
        PROVE  \E v \in Workers : /\ v = waiting'[l][k]
                                  /\ workers'[v].pc = "lock" /\ LockOf(v)' = l
    BY <1>1, <1>4, Sequences DEF NothingOutlivesItsWorker
  <2> QED
    BY <2>1, <2>2, <2>3, <2>4, NothingOutlivesNext
<1>6. WorkersAreLocked'
  <2> SUFFICES ASSUME NEW v \in Workers
               PROVE  /\ workers'[v].pc \in InStream \cup {"lock"} =>
                            workers'[v].msg # 0 /\ workers'[v].lock <= lockOf'[Chat(v)']
                      /\ workers'[v].pc \in InStream => holder'[LockOf(v)'] = v
                      /\ workers'[v].pc = "lock" =>
                            \E k \in DOMAIN waiting'[LockOf(v)'] :
                               waiting'[LockOf(v)'][k] = v
    BY DEF WorkersAreLocked
  <2>1. CASE v = w
    BY <1>1, <2>1 DEF InStream
  <2>2. CASE v # w
    BY <1>1, <1>4, <2>2 DEF WorkersAreLocked
  <2> QED
    BY <2>1, <2>2
<1>7. LinesAreInOrder'
  <2>1. \A l \in Locks : \A k \in DOMAIN waiting[l] :
           workers'[waiting[l][k]] = workers[waiting[l][k]]
    BY <1>1, Sequences DEF NothingOutlivesItsWorker
  <2>2. \A c \in Chats : lockOf[c] = 0 => <<c, 0>> \in Locks
    BY Facts
  <2> QED
    BY <2>1, <2>2 DEF LinesAreInOrder
<1>8. RepliesAreNew'
  BY <1>1, <1>4 DEF RepliesAreNew, ChatOf
<1>9. ApprovedByItsChat'
  BY DEF ApprovedByItsChat, ChatOf
<1> QED
  BY <1>2, <1>3, <1>5, <1>6, <1>7, <1>8, <1>9

LEMMA ExitKeeps ==
    ASSUME IInv, NEW w \in Workers, Exit(w)
    PROVE  IInv'
<1> USE DEF IInv, Exit, CanTake
<1> DEFINE x == [workers[w] EXCEPT !.pc = "exit"]
<1>1. workers[w] \in Worker /\ workers[w].reply = NoReply /\ Taken(workers[w].msg)
  BY DEF TypeOK, RepliesAreNew, WorkIsTaken
<1>2. x \in Worker /\ x.pc = "exit" /\ x.reply = NoReply /\ Taken(x.msg)
  BY <1>1 DEF Worker, Places
<1>3. workers' = [workers EXCEPT ![w] = x]
  OBVIOUS
<1> HIDE DEF x
<1>4. /\ QueueIsInOrder' /\ queue' \in Seq(0..Len(sent)) /\ Len(queue') < Len(queue)
      /\ \A i : Taken(i) => StillTaken(i)
  BY HeadIsNew
<1>5. Len(queue') <= MaxPending
  <2>1. Len(queue') \in Nat
    BY <1>4, LenProperties
  <2> QED
    BY <1>4, <2>1, Facts, QueueAssumption DEF TypeOK
<1> QED
  BY <1>2, <1>3, <1>4, <1>5, IdleEnds

\* Line q is line s without worker w.
Skips(q, s, w) ==
    /\ q \in Seq(Workers) /\ DOMAIN q = 1..(Len(s) - 1)
    /\ \E p \in DOMAIN s : /\ s[p] = w
                           /\ \A k \in 1..(Len(s) - 1) :
                                 q[k] = s[IF k < p THEN k ELSE k + 1]

LEMMA LineMovesUp ==
    ASSUME IInv, NEW l \in Locks, NEW w \in Workers, NEW q, Skips(q, waiting[l], w)
    PROVE  /\ \A k \in DOMAIN q : q[k] \in Workers /\ q[k] # w
                                  /\ \E j \in DOMAIN waiting[l] : q[k] = waiting[l][j]
           /\ \A j, k \in DOMAIN q : j < k => workers[q[j]].msg < workers[q[k]].msg
           /\ \A j \in DOMAIN waiting[l] :
                 waiting[l][j] # w => \E k \in DOMAIN q : q[k] = waiting[l][j]
<1> DEFINE s == waiting[l]
<1>1. /\ s \in Seq(Workers) /\ Len(s) \in Nat /\ DOMAIN s = 1..Len(s)
      /\ \A j \in DOMAIN s : s[j] \in Workers
  BY Sequences
<1>2. PICK p \in DOMAIN s : s[p] = w /\ \A k \in 1..(Len(s) - 1) :
                               q[k] = s[IF k < p THEN k ELSE k + 1]
  BY DEF Skips
<1>3. DOMAIN q = 1..(Len(s) - 1)
  BY DEF Skips
<1>4. \A j, k \in DOMAIN s : s[j] = s[k] => j = k
  BY OneAtATime
<1>5. \A j, k \in DOMAIN s : j < k => workers[s[j]].msg < workers[s[k]].msg
  BY DEF IInv, LinesAreInOrder
<1> HIDE DEF s
<1> DEFINE at(k) == IF k < p THEN k ELSE k + 1
<1>6. \A k \in DOMAIN q : at(k) \in DOMAIN s /\ at(k) # p /\ q[k] = s[at(k)]
  BY <1>1, <1>2, <1>3
<1>7. \A j, k \in DOMAIN q : j < k => at(j) < at(k)
  BY <1>1, <1>3
<1>8. ASSUME NEW j \in DOMAIN s, s[j] # w
      PROVE  \E k \in DOMAIN q : q[k] = s[j]
  <2>1. CASE j < p
    BY <1>1, <1>2, <1>3, <1>6, <2>1
  <2>2. CASE ~(j < p)
    <3>1. j > p
      BY <1>1, <1>2, <1>8, <2>2
    <3>2. j - 1 \in DOMAIN q /\ at(j - 1) = j
      BY <1>1, <1>3, <3>1
    <3> QED
      BY <1>6, <3>2
  <2> QED
    BY <2>1, <2>2
<1>9. \A k \in DOMAIN q : q[k] \in Workers /\ q[k] # w /\ \E j \in DOMAIN s : q[k] = s[j]
  BY <1>1, <1>2, <1>4, <1>6
<1>10. \A j, k \in DOMAIN q : j < k => workers[q[j]].msg < workers[q[k]].msg
  BY <1>5, <1>6, <1>7
<1> QED
  BY <1>8, <1>9, <1>10 DEF s

\* A worker leaves its line, to take the lock or to end.
LeavesLine(w, q) ==
    /\ workers[w].pc = "lock" /\ Skips(q, waiting[LockOf(w)], w)
    /\ waiting' = [waiting EXCEPT ![LockOf(w)] = q]
    /\ workers' \in [Workers -> Worker] /\ workers'[w].reply = NoReply
    /\ \A v \in Workers : v # w => workers'[v] = workers[v]
    /\ \/ /\ workers'[w].pc = "stream" /\ workers'[w].msg = workers[w].msg
          /\ workers'[w].lock = workers[w].lock /\ holder[LockOf(w)] = NoWorker
          /\ holder' = [holder EXCEPT ![LockOf(w)] = w]
          /\ started' = [started EXCEPT ![Chat(w)] = workers[w].msg]
          /\ \A k \in DOMAIN q : workers[w].msg < workers[q[k]].msg
       \/ /\ workers'[w].pc = "exit" /\ workers'[w].msg = 0
          /\ UNCHANGED <<holder, started>>
    /\ UNCHANGED Path
    /\ UNCHANGED <<lockOf, interrupts, questions, automatic, handled, approvals>>

LEMMA LeavesLineLocks ==
    ASSUME IInv, NEW w \in Workers, NEW q, LeavesLine(w, q)
    PROVE  NothingOutlivesItsWorker' /\ WorkersAreLocked' /\ LinesAreInOrder'
<1> USE DEF IInv, LeavesLine
<1> DEFINE l0 == LockOf(w)
<1>1. /\ l0 \in Locks /\ Chat(w) \in Chats /\ workers[w].msg \in 1..Len(sent)
      /\ waiting \in [Locks -> Seq(Workers)] /\ holder \in [Locks -> Workers \cup {NoWorker}]
      /\ started \in [Chats -> 0..MaxMessages]
      /\ UNCHANGED <<sent, lockOf, interrupts, questions>>
  BY Facts DEF TypeOK, Busy, Path
<1>2. /\ waiting'[l0] = q /\ \A l \in Locks : l # l0 => waiting'[l] = waiting[l]
  BY <1>1
<1>3. /\ \A v \in Workers : v # w => Chat(v)' = Chat(v) /\ LockOf(v)' = LockOf(v)
      /\ workers'[w].pc = "stream" => Chat(w)' = Chat(w) /\ LockOf(w)' = LockOf(w)
  BY <1>1 DEF Chat, ChatOf, LockOf
<1>4. /\ \A k \in DOMAIN q : q[k] \in Workers /\ q[k] # w
                             /\ \E j \in DOMAIN waiting[l0] : q[k] = waiting[l0][j]
      /\ \A j, k \in DOMAIN q : j < k => workers[q[j]].msg < workers[q[k]].msg
      /\ \A j \in DOMAIN waiting[l0] :
            waiting[l0][j] # w => \E k \in DOMAIN q : q[k] = waiting[l0][j]
  BY <1>1, LineMovesUp
<1>5. \A l \in Locks : \A k \in DOMAIN waiting'[l] :
         \E v \in Workers : /\ v = waiting'[l][k] /\ workers'[v] = workers[v]
                            /\ workers'[v].pc = "lock" /\ LockOf(v)' = l /\ v # w
  <2> SUFFICES ASSUME NEW l \in Locks, NEW k \in DOMAIN waiting'[l]
               PROVE  \E v \in Workers : /\ v = waiting'[l][k] /\ workers'[v] = workers[v]
                                         /\ workers'[v].pc = "lock" /\ LockOf(v)' = l
                                         /\ v # w
    OBVIOUS
  <2>1. CASE l = l0
    <3>1. PICK v \in Workers : v = q[k] /\ v # w
      BY <1>2, <1>4, <2>1
    <3>2. workers[v].pc = "lock" /\ LockOf(v) = l0
      BY <1>1, <1>2, <1>4, <2>1, <3>1 DEF NothingOutlivesItsWorker
    <3> QED
      BY <1>2, <1>3, <2>1, <3>1, <3>2
  <2>2. CASE l # l0
    <3>1. PICK v \in Workers : v = waiting[l][k]
      BY <1>2, <2>2, Sequences
    <3>2. workers[v].pc = "lock" /\ LockOf(v) = l
      BY <1>2, <2>2, <3>1 DEF NothingOutlivesItsWorker
    <3>3. v # w
      BY <2>2, <3>2
    <3> QED
      BY <1>2, <1>3, <2>2, <3>1, <3>2, <3>3
  <2> QED
    BY <2>1, <2>2
<1>6. \A l \in Locks : holder'[l] # NoWorker =>
         \E v \in Workers : /\ v = holder'[l]
                            /\ workers'[v].pc \in InStream /\ LockOf(v)' = l
  <2> SUFFICES ASSUME NEW l \in Locks, holder'[l] # NoWorker
               PROVE  \E v \in Workers : /\ v = holder'[l]
                                         /\ workers'[v].pc \in InStream /\ LockOf(v)' = l
    OBVIOUS
  <2>1. CASE holder'[l] = holder[l]
    <3>1. PICK v \in Workers : v = holder[l]
      BY <1>1, <2>1
    <3>2. workers[v].pc \in InStream /\ LockOf(v) = l
      BY <2>1, <3>1 DEF NothingOutlivesItsWorker
    <3>3. v # w
      BY <3>2 DEF InStream
    <3> QED
      BY <1>3, <2>1, <3>1, <3>2, <3>3
  <2>2. CASE holder'[l] # holder[l]
    <3>1. workers'[w].pc = "stream" /\ holder'[l] = w /\ l = l0
      BY <1>1, <2>2
    <3> QED
      BY <1>3, <3>1 DEF InStream
  <2> QED
    BY <2>1, <2>2
<1>7. NothingOutlivesItsWorker'
  <2>1. ASSUME NEW c \in Chats, interrupts'[c] # NoWorker
        PROVE  \E v \in Workers : /\ v = interrupts'[c]
                                  /\ workers'[v].pc = "approval" /\ Chat(v)' = c
    <3>1. PICK v \in Workers : v = interrupts[c]
      BY <1>1, <2>1 DEF TypeOK
    <3>2. workers[v].pc = "approval" /\ Chat(v) = c
      BY <1>1, <2>1, <3>1 DEF NothingOutlivesItsWorker
    <3>3. v # w
      BY <3>2
    <3> QED
      BY <1>1, <1>3, <3>1, <3>2, <3>3
  <2>2. ASSUME NEW c \in Chats, questions'[c] # NoWorker
        PROVE  \E v \in Workers : /\ v = questions'[c]
                                  /\ workers'[v].pc = "ask" /\ Chat(v)' = c
    <3>1. PICK v \in Workers : v = questions[c]
      BY <1>1, <2>2 DEF TypeOK
    <3>2. workers[v].pc = "ask" /\ Chat(v) = c
      BY <1>1, <2>2, <3>1 DEF NothingOutlivesItsWorker
    <3>3. v # w
      BY <3>2
    <3> QED
      BY <1>1, <1>3, <3>1, <3>2, <3>3
  <2> QED
    BY <1>5, <1>6, <2>1, <2>2, NothingOutlivesNext
<1>8. WorkersAreLocked'
  <2> SUFFICES ASSUME NEW v \in Workers
               PROVE  /\ workers'[v].pc \in InStream \cup {"lock"} =>
                            workers'[v].msg # 0 /\ workers'[v].lock <= lockOf'[Chat(v)']
                      /\ workers'[v].pc \in InStream => holder'[LockOf(v)'] = v
                      /\ workers'[v].pc = "lock" =>
                            \E k \in DOMAIN waiting'[LockOf(v)'] :
                               waiting'[LockOf(v)'][k] = v
    BY DEF WorkersAreLocked
  <2>1. CASE v = w
    BY <1>1, <1>3, <2>1 DEF WorkersAreLocked, InStream
  <2>2. CASE v # w /\ workers[v].pc \in InStream
    <3>1. workers'[v] = workers[v] /\ Chat(v)' = Chat(v) /\ LockOf(v)' = LockOf(v)
      BY <1>3, <2>2
    <3>2. holder[LockOf(v)] = v /\ LockOf(v) \in Locks /\ v # NoWorker
      BY <2>2, Facts, WorkerAssumption DEF WorkersAreLocked, Busy
    <3>3. holder'[LockOf(v)] = v
      BY <1>1, <3>2
    <3> QED
      BY <1>1, <2>2, <3>1, <3>3 DEF WorkersAreLocked, InStream
  <2>3. CASE v # w /\ workers[v].pc = "lock"
    <3>1. workers'[v] = workers[v] /\ Chat(v)' = Chat(v) /\ LockOf(v)' = LockOf(v)
      BY <1>3, <2>3
    <3>2. PICK k \in DOMAIN waiting[LockOf(v)] : waiting[LockOf(v)][k] = v
      BY <2>3 DEF WorkersAreLocked
    <3>3. LockOf(v) \in Locks
      BY <2>3, Facts DEF Busy
    <3>4. \E j \in DOMAIN waiting'[LockOf(v)] : waiting'[LockOf(v)][j] = v
      BY <1>2, <1>4, <2>3, <3>2, <3>3
    <3> QED
      BY <1>1, <2>3, <3>1, <3>4 DEF WorkersAreLocked, InStream
  <2>4. CASE v # w /\ workers[v].pc \notin InStream \cup {"lock"}
    BY <2>4
  <2> QED
    BY <2>1, <2>2, <2>3, <2>4
<1>9. LinesAreInOrder'
  <2>1. ASSUME NEW l \in Locks, NEW j \in DOMAIN waiting'[l], NEW k \in DOMAIN waiting'[l],
               j < k
        PROVE  workers'[waiting'[l][j]].msg < workers'[waiting'[l][k]].msg
    <3>1. workers'[waiting'[l][j]] = workers[waiting'[l][j]]
          /\ workers'[waiting'[l][k]] = workers[waiting'[l][k]]
      BY <1>5
    <3> QED
      BY <1>2, <1>4, <2>1, <3>1 DEF LinesAreInOrder
  <2>2. ASSUME NEW c \in Chats, lockOf'[c] = 0, NEW k \in DOMAIN waiting'[<<c, 0>>]
        PROVE  started'[c] < workers'[waiting'[<<c, 0>>][k]].msg
    <3>1. <<c, 0>> \in Locks /\ lockOf[c] = 0
      BY <1>1, <2>2, Facts
    <3>2. workers'[waiting'[<<c, 0>>][k]] = workers[waiting'[<<c, 0>>][k]]
      BY <1>5, <3>1
    <3>3. \E j \in DOMAIN waiting[<<c, 0>>] : waiting'[<<c, 0>>][k] = waiting[<<c, 0>>][j]
      BY <1>2, <1>4, <2>2, <3>1
    <3>4. CASE started'[c] = started[c]
      BY <3>1, <3>2, <3>3, <3>4 DEF LinesAreInOrder
    <3>5. CASE started'[c] # started[c]
      <4>1. c = Chat(w) /\ started'[c] = workers[w].msg
            /\ \A n \in DOMAIN q : workers[w].msg < workers[q[n]].msg
        BY <1>1, <3>5
      <4>2. workers[w].lock <= lockOf[Chat(w)] /\ workers[w].lock \in Nat
        <5>1. workers[w].lock \in 0..MaxEvictions
          BY Facts DEF Worker
        <5>2. workers[w].lock <= lockOf[Chat(w)]
          BY DEF WorkersAreLocked
        <5> QED
          BY <5>1, <5>2, BoundAssumption
      <4>3. l0 = <<c, 0>>
        BY <3>1, <4>1, <4>2 DEF LockOf
      <4> QED
        BY <1>2, <2>2, <3>2, <4>1, <4>3
    <3> QED
      BY <3>4, <3>5
  <2> QED
    BY <2>1, <2>2 DEF LinesAreInOrder
<1> QED
  BY <1>7, <1>8, <1>9

LEMMA LeavesLineKeeps ==
    ASSUME IInv, NEW w \in Workers, NEW q, LeavesLine(w, q)
    PROVE  IInv'
<1> USE DEF IInv, LeavesLine
<1>1. QueueIsInOrder' /\ \A i : Taken(i) => StillTaken(i)
  BY OffThePath
<1>2. UNCHANGED <<sent, inbound, loop, queue, stopper>>
  BY DEF Path
<1>3. workers[w].msg \in 0..MaxMessages /\ LockOf(w) \in Locks /\ q \in Seq(Workers)
  BY Facts DEF TypeOK, Worker, Busy, Skips
<1>4. TypeOK'
  <2>1. waiting' \in [Locks -> Seq(Workers)]
    BY <1>3 DEF TypeOK
  <2>2. holder' \in [Locks -> Workers \cup {NoWorker}]
    BY <1>3 DEF TypeOK
  <2>3. started' \in [Chats -> 0..MaxMessages]
    BY <1>3 DEF TypeOK
  <2> QED
    BY <1>2, <2>1, <2>2, <2>3 DEF TypeOK
<1>5. WorkIsTaken'
  <2>1. Taken(0) /\ Taken(NoReply)
    BY Facts, Sequences DEF Taken, QueueIsInOrder, Sentinel, NoReply
  <2>2. \A v \in Workers : Taken(workers'[v].msg) /\ Taken(workers'[v].reply)
    BY <2>1 DEF WorkIsTaken
  <2>3. \A c \in Chats : Taken(started'[c])
    BY DEF WorkIsTaken, TypeOK
  <2> QED
    BY <1>1, <2>2, <2>3, WorkIsStillTaken DEF WorkIsTaken
<1>6. RepliesAreNew'
  <2>1. \A v \in Workers : workers'[v].reply # NoReply =>
           v # w /\ workers'[v] = workers[v] /\ Chat(v)' = Chat(v)
    BY <1>2 DEF Chat, ChatOf
  <2>2. \A u, v \in Workers :
           workers'[v].reply # NoReply /\ workers'[u].reply = workers'[v].reply => u = v
    BY <2>1 DEF RepliesAreNew
  <2> QED
    BY <1>2, <2>1, <2>2 DEF RepliesAreNew, ChatOf
<1>7. ApprovedByItsChat'
  BY <1>2 DEF ApprovedByItsChat, ChatOf
<1> QED
  BY <1>1, <1>4, <1>5, <1>6, <1>7, LeavesLineLocks

LEMMA WakeKeeps ==
    ASSUME IInv, NEW w \in Workers, Wake(w)
    PROVE  IInv'
<1> USE DEF IInv, Wake, CanWake
<1> DEFINE s == waiting[LockOf(w)]
           q == Tail(s)
<1>1. /\ LockOf(w) \in Locks /\ s \in Seq(Workers) /\ Len(s) \in Nat
      /\ DOMAIN s = 1..Len(s) /\ workers[w] \in Worker
      /\ workers \in [Workers -> Worker] /\ workers[w].reply = NoReply
  BY Facts, Sequences DEF Busy, TypeOK, RepliesAreNew
<1>2. s # <<>> /\ 1 \in DOMAIN s /\ s[1] = w
  <2>1. \E k \in DOMAIN s : s[k] = w
    BY DEF WorkersAreLocked
  <2>2. Len(s) # 0 /\ 1 \in DOMAIN s
    BY <1>1, <2>1
  <2>3. s # <<>>
    BY <2>2, EmptySeq
  <2>4. Head(s) = s[1]
    BY <1>1, <2>3
  <2> QED
    BY <2>2, <2>3, <2>4
<1>3. /\ q \in Seq(Workers) /\ Len(q) = Len(s) - 1
      /\ \A k \in 1..Len(q) : q[k] = s[k + 1]
  BY <1>1, <1>2, HeadTailProperties
<1>4. DOMAIN q = 1..(Len(s) - 1)
  BY <1>3, LenProperties
<1>5. Skips(q, s, w)
  <2>1. \A k \in 1..(Len(s) - 1) : q[k] = s[IF k < 1 THEN k ELSE k + 1]
    BY <1>1, <1>3
  <2> QED
    BY <1>2, <1>3, <1>4, <2>1 DEF Skips
<1>6. \A k \in DOMAIN q : workers[w].msg < workers[q[k]].msg
  <2>1. \A k \in DOMAIN q : k + 1 \in DOMAIN s /\ 1 < k + 1 /\ q[k] = s[k + 1]
    BY <1>1, <1>3, <1>4
  <2> QED
    BY <1>1, <1>2, <2>1 DEF LinesAreInOrder
<1>7. /\ workers' \in [Workers -> Worker] /\ workers'[w].reply = NoReply
      /\ workers'[w].pc = "stream" /\ workers'[w].msg = workers[w].msg
      /\ workers'[w].lock = workers[w].lock
      /\ \A v \in Workers : v # w => workers'[v] = workers[v]
  BY <1>1 DEF Worker, Places
<1>8. waiting' = [waiting EXCEPT ![LockOf(w)] = q] /\ UNCHANGED Path
  BY DEF Path
<1> HIDE DEF q, s
<1>9. LeavesLine(w, q)
  BY <1>5, <1>6, <1>7, <1>8 DEF LeavesLine, s
<1> QED
  BY <1>9, LeavesLineKeeps

LEMMA CancelKeeps ==
    ASSUME IInv, NEW w \in Workers, Cancel(w)
    PROVE  IInv'
<1> USE DEF IInv, Cancel, IsLeft
<1> DEFINE x == [Idle EXCEPT !.pc = "exit"]
<1>1. /\ x \in Worker /\ x \in Gone /\ x.pc = "exit" /\ x.reply = NoReply /\ x.msg = 0
      /\ workers' = [workers EXCEPT ![w] = x] /\ workers \in [Workers -> Worker]
  BY IdleIsAWorker DEF Gone, Idle, TypeOK
<1>2. UNCHANGED Path
  BY DEF Path
<1>3. CASE workers[w].pc \in InStream
  <2>1. Leaves(w) /\ UNCHANGED waiting
    BY <1>1, <1>3 DEF Leaves, InStream
  <2>2. AgentStep(w)
    BY <1>2, <1>3, <2>1 DEF AgentStep
  <2>3. Registers(w)
    <3>1. /\ interrupts \in [Chats -> Workers \cup {NoWorker}]
          /\ questions \in [Chats -> Workers \cup {NoWorker}]
      BY DEF TypeOK
    <3>2. \A c \in Chats : /\ interrupts[c] = w => workers[w].pc = "approval" /\ c = Chat(w)
                           /\ questions[c] = w => workers[w].pc = "ask" /\ c = Chat(w)
      BY WorkerAssumption DEF NothingOutlivesItsWorker
    <3> QED
      BY <3>1, <3>2 DEF Registers
  <2>4. Approves(w)
    BY DEF Approves
  <2> QED
    BY <2>2, <2>3, <2>4, AgentStepKeeps
<1>4. CASE workers[w].pc = "lock"
  <2> DEFINE s == waiting[LockOf(w)]
             q == Without(s, w)
  <2>1. s \in Seq(Workers) /\ \E k \in DOMAIN s : s[k] = w
    BY <1>4, Facts, Sequences DEF WorkersAreLocked, Busy
  <2>2. Skips(q, s, w)
    BY <2>1, LineWithout DEF Skips
  <2>3. /\ workers'[w] = x /\ workers' \in [Workers -> Worker]
        /\ \A v \in Workers : v # w => workers'[v] = workers[v]
    BY <1>1
  <2>4. /\ waiting' = [waiting EXCEPT ![LockOf(w)] = q]
        /\ UNCHANGED <<holder, started, lockOf, interrupts, questions, automatic,
                       handled, approvals>>
    BY <1>4
  <2> HIDE DEF q, s, x
  <2>5. LeavesLine(w, q)
    BY <1>1, <1>2, <1>4, <2>2, <2>3, <2>4 DEF LeavesLine, s
  <2> QED
    BY <2>5, LeavesLineKeeps
<1>5. CASE workers[w].pc = "get"
  <2>1. QueueIsInOrder' /\ \A i : Taken(i) => StillTaken(i)
    BY <1>2, OffThePath
  <2>2. Taken(x.msg)
    BY <1>1, Facts, Sequences DEF Taken, QueueIsInOrder, Sentinel
  <2>3. queue' \in Seq(0..Len(sent)) /\ Len(queue') <= MaxPending
    BY DEF TypeOK
  <2>4. UNCHANGED <<sent, inbound, loop, stopper, holder, waiting, lockOf, interrupts,
                    questions, automatic, handled, approvals, started>>
    BY <1>5
  <2> HIDE DEF x
  <2> QED
    BY <1>1, <1>5, <2>1, <2>2, <2>3, <2>4, IdleEnds
<1> QED
  BY <1>1, <1>3, <1>4, <1>5 DEF Worker, Places, InStream

-----------------------------------------------------------------------------
(* A worker takes a message.                                               *)

\* The workers ws are those of before, but for one that may have got reply i.
Told(ws, i) ==
    /\ ws \in [Workers -> Worker]
    /\ \A u \in Workers :
          /\ ws[u].pc = workers[u].pc /\ ws[u].msg = workers[u].msg
          /\ ws[u].lock = workers[u].lock
          /\ \/ ws[u].reply = workers[u].reply
             \/ /\ ws[u].reply = i /\ workers[u].pc \in {"approval", "ask"}
                /\ workers[u].pc = "approval" =>
                      /\ ChatOf(i) = Chat(u)
                      /\ sent'[i].says \in Decisions => i \in handled'
    /\ \A u, v \in Workers : ws[u].reply = i /\ ws[v].reply = i => u = v

\* Nobody says another thing than before but the one who says i.
Heard(i) ==
    /\ sent' \in Seq([chat : Chats, says : Says \cup {Unread}])
    /\ Len(sent') = Len(sent)
    /\ \A j \in 1..Len(sent) : sent'[j].chat = sent[j].chat /\ (j # i => sent'[j] = sent[j])

LEMMA NobodyHasTheHead ==
    ASSUME IInv, NEW i \in 1..Len(sent), \A j : Taken(j) => j < i
    PROVE  /\ \A u \in Workers : workers[u].reply # i /\ workers[u].msg # i
           /\ \A x \in approvals : x.by # i
           /\ i \notin handled
<1>1. Len(sent) \in Nat
  BY Facts
<1>2. \A u \in Workers : workers[u].reply < i /\ workers[u].msg < i
                         /\ workers[u].reply \in Nat /\ workers[u].msg \in Nat
  BY Facts DEF IInv, WorkIsTaken
<1>3. \A x \in approvals : x.by < i /\ x.by \in Nat
  BY <1>1, ApprovalFacts DEF IInv, WorkIsTaken
<1>4. \A j \in handled : j < i
  BY DEF IInv, WorkIsTaken
<1> QED
  BY <1>1, <1>2, <1>3, <1>4

\* A reply to the one who is registered for the chat, or to nobody.
LEMMA ReplyTells ==
    ASSUME IInv, NEW i \in 1..Len(sent), \A j : Taken(j) => j < i,
           NEW v \in Workers, workers[v].pc \in {"approval", "ask"},
           workers[v].pc = "approval" =>
              /\ ChatOf(i) = Chat(v)
              /\ sent'[i].says \in Decisions => i \in handled'
    PROVE  Told(Reply(v, i), i)
<1> DEFINE ws == Reply(v, i)
<1>1. workers \in [Workers -> Worker] /\ i \in 0..MaxMessages
  <2>1. Len(sent) \in Nat /\ Len(sent) <= MaxMessages
    BY Facts DEF IInv, TypeOK
  <2> QED
    BY <2>1, BoundAssumption DEF IInv, TypeOK
<1>2. /\ ws \in [Workers -> Worker]
      /\ \A u \in Workers :
            /\ ws[u].pc = workers[u].pc /\ ws[u].msg = workers[u].msg
            /\ ws[u].lock = workers[u].lock
            /\ ws[u].reply = IF u = v THEN i ELSE workers[u].reply
  BY <1>1 DEF Reply, Worker
<1>3. \A u \in Workers : workers[u].reply # i
  BY NobodyHasTheHead
<1> HIDE DEF ws
<1>4. \A u, t \in Workers : ws[u].reply = i /\ ws[t].reply = i => u = t
  BY <1>2, <1>3
<1>5. Told(ws, i)
  BY <1>2, <1>4 DEF Told
<1> QED
  BY <1>5 DEF ws

LEMMA NobodyIsTold ==
    ASSUME IInv, NEW i \in 1..Len(sent), \A j : Taken(j) => j < i
    PROVE  Told(workers, i)
<1>1. \A u \in Workers : workers[u].reply # i
  BY NobodyHasTheHead
<1> QED
  BY <1>1 DEF Told, IInv, TypeOK

LEMMA SaysChanges ==
    ASSUME IInv, NEW i \in 1..Len(sent), NEW d \in Says,
           sent' = [sent EXCEPT ![i].says = d]
    PROVE  Heard(i) /\ sent'[i].says = d
<1> DEFINE Messages == [chat : Chats, says : Says \cup {Unread}]
           m == [sent[i] EXCEPT !.says = d]
<1>1. sent \in Seq(Messages) /\ sent[i] \in Messages
  BY Sequences
<1>2. m \in Messages /\ m.chat = sent[i].chat /\ m.says = d
  BY <1>1
<1>3. sent' = [sent EXCEPT ![i] = m]
  OBVIOUS
<1> HIDE DEF m, Messages
<1>4. /\ sent' \in Seq(Messages) /\ Len(sent') = Len(sent)
      /\ \A j \in 1..Len(sent) : sent'[j] = IF j = i THEN m ELSE sent[j]
  BY <1>1, <1>2, <1>3, ExceptSeq
<1> QED
  BY <1>2, <1>4 DEF Heard, Messages

LEMMA SaysStays ==
    ASSUME IInv, UNCHANGED sent, NEW i
    PROVE  Heard(i)
  BY Sequences DEF Heard

\* The four ways to take a message, in one: it tells somebody, or nobody; and
\* then it becomes the agent's, or not.
TakesMessage(w, i, ws) ==
    /\ Told(ws, i) /\ Heard(i)
    /\ \/ workers' = ws /\ UNCHANGED <<holder, waiting, started>>
       \/ Enter(w, i, ws)
    /\ interrupts' \in [Chats -> Workers \cup {NoWorker}]
    /\ \A c \in Chats : interrupts'[c] # NoWorker => interrupts'[c] = interrupts[c]
    /\ handled' = handled \/ handled' = handled \cup {i}

LEMMA TakeTakes ==
    ASSUME IInv, NEW w \in Workers, Take(w), NEW i, i = Head(queue)
    PROVE  /\ i \in 1..Len(sent) /\ StillTaken(i)
           /\ \A j : Taken(j) => j < i /\ StillTaken(j)
           /\ QueueIsInOrder' /\ queue' \in Seq(0..Len(sent)) /\ Len(queue') <= MaxPending
           /\ \E ws : TakesMessage(w, i, ws)
<1> USE DEF IInv, Take, CanTake
<1>1. Len(sent') = Len(sent) /\ i \in 1..Len(sent)
  <2>1. i \in 1..Len(sent)
    <3>1. queue \in Seq(0..Len(sent)) /\ queue # <<>>
      BY Sequences
    <3>2. i \in 0..Len(sent)
      BY <3>1, HeadTailProperties
    <3> QED
      BY <3>2, Facts DEF Sentinel
  <2>2. CASE Answer(w, i) \/ Ask(w, i)
    BY <2>1, <2>2 DEF Answer, Ask
  <2>3. CASE Decide(w, i)
    BY <2>1, <2>3, SaysChanges DEF Decide, Heard, Says
  <2>4. CASE Interrupt(w, i)
    BY <2>1, <2>4, SaysChanges DEF Interrupt, Heard, Says
  <2> QED
    BY <2>1, <2>2, <2>3, <2>4
<1>2. /\ StillTaken(i) /\ \A j : Taken(j) => j < i /\ StillTaken(j)
      /\ QueueIsInOrder' /\ queue' \in Seq(0..Len(sent)) /\ Len(queue') < Len(queue)
  BY <1>1, HeadIsNew
<1>3. Len(queue') <= MaxPending
  <2>1. Len(queue') \in Nat
    BY <1>2, LenProperties
  <2> QED
    BY <1>2, <2>1, Facts, QueueAssumption DEF TypeOK
<1>4. \E ws : TakesMessage(w, i, ws)
  <2> DEFINE c == ChatOf(i)
  <2>1. /\ c \in Chats /\ interrupts \in [Chats -> Workers \cup {NoWorker}]
        /\ questions \in [Chats -> Workers \cup {NoWorker}]
    BY <1>1, Facts DEF TypeOK
  <2>2. CASE Answer(w, i)
    <3>1. questions[c] \in Workers /\ workers[questions[c]].pc = "ask"
      BY <2>1, <2>2 DEF Answer, NothingOutlivesItsWorker
    <3>2. Told(Reply(questions[c], i), i)
      BY <1>1, <1>2, <3>1, ReplyTells
    <3>3. TakesMessage(w, i, Reply(questions[c], i))
      BY <2>1, <2>2, <3>2, SaysStays DEF Answer, TakesMessage
    <3> QED
      BY <3>3
  <2>3. CASE Decide(w, i)
    <3>1. /\ interrupts[c] \in Workers /\ workers[interrupts[c]].pc = "approval"
          /\ Chat(interrupts[c]) = c
      BY <2>1, <2>3 DEF Decide, NothingOutlivesItsWorker
    <3>2. i \in handled' /\ Heard(i)
      BY <1>1, <2>3, SaysChanges DEF Decide, Says
    <3>3. Told(Reply(interrupts[c], i), i)
      BY <1>1, <1>2, <3>1, <3>2, ReplyTells
    <3>4. TakesMessage(w, i, Reply(interrupts[c], i))
      BY <2>1, <2>3, <3>2, <3>3 DEF Decide, TakesMessage
    <3> QED
      BY <3>4
  <2>4. CASE Interrupt(w, i)
    <3>1. /\ interrupts[c] \in Workers /\ workers[interrupts[c]].pc = "approval"
          /\ Chat(interrupts[c]) = c
      BY <2>1, <2>4 DEF Interrupt, NothingOutlivesItsWorker
    <3>2. Heard(i) /\ sent'[i].says = "task"
      BY <1>1, <2>4, SaysChanges DEF Interrupt, Says
    <3>3. Told(Reply(interrupts[c], i), i)
      BY <1>1, <1>2, <3>1, <3>2, ReplyTells DEF Decisions
    <3>4. /\ interrupts' \in [Chats -> Workers \cup {NoWorker}]
          /\ \A d \in Chats : interrupts'[d] # NoWorker => interrupts'[d] = interrupts[d]
      BY <2>1, <2>4 DEF Interrupt
    <3>5. TakesMessage(w, i, Reply(interrupts[c], i))
      BY <2>4, <3>2, <3>3, <3>4 DEF Interrupt, TakesMessage
    <3> QED
      BY <3>5
  <2>5. CASE Ask(w, i)
    <3>1. Told(workers, i)
      BY <1>1, <1>2, NobodyIsTold
    <3>2. TakesMessage(w, i, workers)
      BY <2>1, <2>5, <3>1, SaysStays DEF Ask, TakesMessage
    <3> QED
      BY <3>2
  <2> QED
    BY <2>2, <2>3, <2>4, <2>5
<1> QED
  BY <1>1, <1>2, <1>3, <1>4

\* What becomes of the workers: the one who took the message is done with it,
\* has the lock of the chat, or is the last in its line.
LEMMA TakeWorkers ==
    ASSUME IInv, NEW w \in Workers, workers[w].pc = "get", NEW i \in 1..Len(sent),
           NEW ws, TakesMessage(w, i, ws), UNCHANGED lockOf,
           NEW c, c = ChatOf(i), NEW l, l = <<c, lockOf[c]>>
    PROVE  /\ workers' \in [Workers -> Worker] /\ c \in Chats /\ l \in Locks
           /\ \A u \in Workers : u # w => workers'[u] = ws[u]
           /\ \A u \in Workers : u # w /\ workers[u].pc \in Busy =>
                 Chat(u)' = Chat(u) /\ LockOf(u)' = LockOf(u)
           /\ workers'[w].reply = NoReply
           /\ \/ /\ workers'[w].pc = "get" /\ workers'[w].msg = workers[w].msg
                 /\ UNCHANGED <<holder, waiting, started>>
              \/ /\ workers'[w].pc = "stream" /\ workers'[w].msg = i
                 /\ workers'[w].lock = lockOf[c] /\ Chat(w)' = c /\ LockOf(w)' = l
                 /\ holder[l] = NoWorker /\ waiting[l] = <<>>
                 /\ holder' = [holder EXCEPT ![l] = w]
                 /\ started' = [started EXCEPT ![c] = i] /\ UNCHANGED waiting
              \/ /\ workers'[w].pc = "lock" /\ workers'[w].msg = i
                 /\ workers'[w].lock = lockOf[c] /\ Chat(w)' = c /\ LockOf(w)' = l
                 /\ waiting' = [waiting EXCEPT ![l] = Append(waiting[l], w)]
                 /\ UNCHANGED <<holder, started>>
<1> USE DEF IInv
<1>1. /\ ws \in [Workers -> Worker] /\ Heard(i)
      /\ \A u \in Workers : /\ ws[u].pc = workers[u].pc /\ ws[u].msg = workers[u].msg
                            /\ ws[u].lock = workers[u].lock
      /\ ws[w].reply = workers[w].reply /\ workers[w].reply = NoReply
  BY DEF TakesMessage, Told, RepliesAreNew
<1>2. /\ c \in Chats /\ l \in Locks /\ lockOf[c] \in 0..MaxEvictions
      /\ i \in 0..MaxMessages /\ i \in 1..Len(sent') /\ sent'[i].chat = c
  <2>1. Len(sent) \in Nat /\ Len(sent) <= MaxMessages
    BY Facts DEF TypeOK
  <2>2. i \in 0..MaxMessages
    BY <2>1, BoundAssumption
  <2> QED
    BY <1>1, <2>2, Facts DEF Heard, ChatOf
<1>3. ASSUME workers' \in [Workers -> Worker], \A u \in Workers : u # w => workers'[u] = ws[u]
      PROVE  \A u \in Workers : u # w /\ workers[u].pc \in Busy =>
                 Chat(u)' = Chat(u) /\ LockOf(u)' = LockOf(u)
  <2>1. \A u \in Workers : workers[u].pc \in Busy => workers[u].msg \in 1..Len(sent)
    BY Facts
  <2> QED
    BY <1>1, <1>3, <2>1 DEF Chat, ChatOf, LockOf, Heard
<1>4. CASE workers' = ws /\ UNCHANGED <<holder, waiting, started>>
  BY <1>1, <1>2, <1>3, <1>4
<1>5. CASE Enter(w, i, ws) /\ Free(l)
  <2> DEFINE x == Streaming(i, lockOf[c])
  <2>1. /\ workers' = [ws EXCEPT ![w] = x] /\ holder' = [holder EXCEPT ![l] = w]
        /\ started' = [started EXCEPT ![c] = i] /\ UNCHANGED waiting
    BY <1>5 DEF Enter
  <2>2. /\ x \in Worker /\ x.pc = "stream" /\ x.msg = i /\ x.lock = lockOf[c]
        /\ x.reply = NoReply
    BY <1>2, IdleIsAWorker DEF Streaming, Idle, Worker, Places
  <2> HIDE DEF x
  <2>3. workers' \in [Workers -> Worker] /\ workers'[w] = x
        /\ \A u \in Workers : u # w => workers'[u] = ws[u]
    BY <1>1, <2>1, <2>2
  <2>4. Chat(w)' = c /\ LockOf(w)' = l
    BY <1>2, <2>2, <2>3 DEF Chat, ChatOf, LockOf
  <2> QED
    BY <1>2, <1>3, <1>5, <2>1, <2>2, <2>3, <2>4 DEF Free
<1>6. CASE Enter(w, i, ws) /\ ~Free(l)
  <2> DEFINE x == InLine(i, lockOf[c])
  <2>1. /\ workers' = [ws EXCEPT ![w] = x]
        /\ waiting' = [waiting EXCEPT ![l] = Append(waiting[l], w)]
        /\ UNCHANGED <<holder, started>>
    BY <1>6 DEF Enter
  <2>2. /\ x \in Worker /\ x.pc = "lock" /\ x.msg = i /\ x.lock = lockOf[c]
        /\ x.reply = NoReply
    BY <1>2, IdleIsAWorker DEF InLine, Idle, Worker, Places
  <2> HIDE DEF x
  <2>3. workers' \in [Workers -> Worker] /\ workers'[w] = x
        /\ \A u \in Workers : u # w => workers'[u] = ws[u]
    BY <1>1, <2>1, <2>2
  <2>4. Chat(w)' = c /\ LockOf(w)' = l
    BY <1>2, <2>2, <2>3 DEF Chat, ChatOf, LockOf
  <2> QED
    BY <1>2, <1>3, <2>1, <2>2, <2>3, <2>4
<1> QED
  BY <1>4, <1>5, <1>6 DEF TakesMessage

LEMMA TakeLocks ==
    ASSUME IInv, NEW w \in Workers, workers[w].pc = "get", NEW i \in 1..Len(sent),
           \A j : Taken(j) => j < i,
           NEW ws, TakesMessage(w, i, ws), UNCHANGED <<lockOf, questions>>
    PROVE  /\ NothingOutlivesItsWorker' /\ WorkersAreLocked' /\ LinesAreInOrder'
           /\ holder' \in [Locks -> Workers \cup {NoWorker}]
           /\ waiting' \in [Locks -> Seq(Workers)]
           /\ started' \in [Chats -> 0..MaxMessages]
<1> USE DEF IInv
<1> DEFINE c == ChatOf(i)
           l == <<c, lockOf[c]>>
<1>1. /\ workers' \in [Workers -> Worker] /\ c \in Chats /\ l \in Locks
      /\ \A u \in Workers : u # w => workers'[u] = ws[u]
      /\ \A u \in Workers : u # w /\ workers[u].pc \in Busy =>
            Chat(u)' = Chat(u) /\ LockOf(u)' = LockOf(u)
  BY TakeWorkers
<1> DEFINE Done  == /\ workers'[w].pc = "get" /\ UNCHANGED <<holder, waiting, started>>
           First == /\ workers'[w].pc = "stream" /\ workers'[w].msg = i
                    /\ workers'[w].lock = lockOf[c] /\ Chat(w)' = c /\ LockOf(w)' = l
                    /\ holder[l] = NoWorker /\ waiting[l] = <<>>
                    /\ holder' = [holder EXCEPT ![l] = w]
                    /\ started' = [started EXCEPT ![c] = i] /\ UNCHANGED waiting
           Last  == /\ workers'[w].pc = "lock" /\ workers'[w].msg = i
                    /\ workers'[w].lock = lockOf[c] /\ Chat(w)' = c /\ LockOf(w)' = l
                    /\ waiting' = [waiting EXCEPT ![l] = Append(waiting[l], w)]
                    /\ UNCHANGED <<holder, started>>
<1>2. Done \/ First \/ Last
  BY TakeWorkers
<1>3. \A u \in Workers : u # w =>
         /\ workers'[u].pc = workers[u].pc /\ workers'[u].msg = workers[u].msg
         /\ workers'[u].lock = workers[u].lock
  BY <1>1 DEF TakesMessage, Told
<1>4. /\ holder \in [Locks -> Workers \cup {NoWorker}]
      /\ waiting \in [Locks -> Seq(Workers)] /\ started \in [Chats -> 0..MaxMessages]
      /\ interrupts \in [Chats -> Workers \cup {NoWorker}]
      /\ questions \in [Chats -> Workers \cup {NoWorker}]
      /\ i \in 0..MaxMessages /\ i # 0 /\ w # NoWorker
  <2>1. Len(sent) \in Nat /\ Len(sent) <= MaxMessages
    BY Facts DEF TypeOK
  <2>2. i \in 0..MaxMessages
    BY <2>1, BoundAssumption
  <2> QED
    BY <2>2, WorkerAssumption DEF TypeOK
<1> DEFINE n == Len(waiting[l]) + 1
<1>5. Last => /\ waiting'[l] \in Seq(Workers) /\ n \in Nat
              /\ DOMAIN waiting'[l] = DOMAIN waiting[l] \cup {n}
              /\ \A k \in DOMAIN waiting[l] : k < n /\ waiting'[l][k] = waiting[l][k]
              /\ waiting'[l][n] = w
              /\ \A m \in Locks : m # l => waiting'[m] = waiting[m]
  <2> SUFFICES ASSUME Last
               PROVE  /\ waiting'[l] \in Seq(Workers) /\ n \in Nat
                      /\ DOMAIN waiting'[l] = DOMAIN waiting[l] \cup {n}
                      /\ \A k \in DOMAIN waiting[l] :
                            k < n /\ waiting'[l][k] = waiting[l][k]
                      /\ waiting'[l][n] = w
                      /\ \A m \in Locks : m # l => waiting'[m] = waiting[m]
    OBVIOUS
  <2> DEFINE s == waiting[l]
             t == Append(s, w)
  <2>1. waiting'[l] = t /\ \A m \in Locks : m # l => waiting'[m] = waiting[m]
    BY <1>1, <1>4
  <2>2. s \in Seq(Workers) /\ Len(s) \in Nat /\ DOMAIN s = 1..Len(s)
    BY <1>1, Sequences
  <2> HIDE DEF s
  <2>3. /\ t \in Seq(Workers) /\ Len(t) = Len(s) + 1
        /\ \A k \in 1..Len(s) : t[k] = s[k]
        /\ t[Len(s) + 1] = w
    BY <2>2, AppendProperties
  <2>4. DOMAIN t = 1..(Len(s) + 1)
    BY <2>3, LenProperties
  <2> HIDE DEF t
  <2>5. DOMAIN t = DOMAIN s \cup {Len(s) + 1} /\ Len(s) + 1 \in Nat
        /\ \A k \in DOMAIN s : k < Len(s) + 1 /\ t[k] = s[k]
    BY <2>2, <2>3, <2>4
  <2> QED
    BY <2>1, <2>3, <2>5 DEF s
<1> HIDE DEF c, l, n
<1>6. \A m \in Locks : \A k \in DOMAIN waiting'[m] :
         \/ k \in DOMAIN waiting[m] /\ waiting'[m][k] = waiting[m][k]
         \/ Last /\ m = l /\ k = n /\ waiting'[m][k] = w
  BY <1>2, <1>5
<1>7. \A m \in Locks : \A k \in DOMAIN waiting[m] :
         /\ waiting[m][k] \in Workers /\ waiting[m][k] # w
         /\ workers[waiting[m][k]].pc = "lock" /\ LockOf(waiting[m][k]) = m
  BY Sequences DEF NothingOutlivesItsWorker
<1>8. \A m \in Locks : \A k \in DOMAIN waiting'[m] :
         \E v \in Workers : /\ v = waiting'[m][k]
                            /\ workers'[v].pc = "lock" /\ LockOf(v)' = m
  <2> SUFFICES ASSUME NEW m \in Locks, NEW k \in DOMAIN waiting'[m]
               PROVE  \E v \in Workers : /\ v = waiting'[m][k]
                                         /\ workers'[v].pc = "lock" /\ LockOf(v)' = m
    OBVIOUS
  <2>1. CASE k \in DOMAIN waiting[m] /\ waiting'[m][k] = waiting[m][k]
    <3>1. PICK v \in Workers : v = waiting[m][k]
      BY <1>7, <2>1
    <3>2. workers[v].pc = "lock" /\ LockOf(v) = m /\ v # w
      BY <1>7, <2>1, <3>1
    <3> QED
      BY <1>1, <1>3, <2>1, <3>1, <3>2 DEF Busy
  <2>2. CASE Last /\ m = l /\ k = n /\ waiting'[m][k] = w
    BY <2>2
  <2> QED
    BY <1>6, <2>1, <2>2
<1>9. \A m \in Locks : holder'[m] # NoWorker =>
         \E v \in Workers : /\ v = holder'[m]
                            /\ workers'[v].pc \in InStream /\ LockOf(v)' = m
  <2> SUFFICES ASSUME NEW m \in Locks, holder'[m] # NoWorker
               PROVE  \E v \in Workers : /\ v = holder'[m]
                                         /\ workers'[v].pc \in InStream /\ LockOf(v)' = m
    OBVIOUS
  <2>1. CASE holder'[m] = holder[m]
    <3>1. PICK v \in Workers : v = holder[m]
      BY <1>4, <2>1
    <3>2. workers[v].pc \in InStream /\ LockOf(v) = m
      BY <2>1, <3>1 DEF NothingOutlivesItsWorker
    <3>3. v # w
      BY <3>2 DEF InStream
    <3> QED
      BY <1>1, <1>3, <2>1, <3>1, <3>2, <3>3 DEF Busy
  <2>2. CASE holder'[m] # holder[m]
    <3>1. First /\ m = l /\ holder'[m] = w
      BY <1>1, <1>2, <1>4, <2>2
    <3> QED
      BY <3>1 DEF InStream
  <2> QED
    BY <2>1, <2>2
<1>10. NothingOutlivesItsWorker'
  <2>1. ASSUME NEW d \in Chats, interrupts'[d] # NoWorker
        PROVE  \E v \in Workers : /\ v = interrupts'[d]
                                  /\ workers'[v].pc = "approval" /\ Chat(v)' = d
    <3>1. interrupts'[d] = interrupts[d]
      BY <2>1 DEF TakesMessage
    <3>2. PICK v \in Workers : v = interrupts[d]
      BY <1>4, <2>1, <3>1
    <3>3. workers[v].pc = "approval" /\ Chat(v) = d /\ v # w
      BY <2>1, <3>1, <3>2 DEF NothingOutlivesItsWorker
    <3> QED
      BY <1>1, <1>3, <3>1, <3>2, <3>3 DEF Busy, InStream
  <2>2. ASSUME NEW d \in Chats, questions'[d] # NoWorker
        PROVE  \E v \in Workers : /\ v = questions'[d]
                                  /\ workers'[v].pc = "ask" /\ Chat(v)' = d
    <3>1. PICK v \in Workers : v = questions[d]
      BY <1>4, <2>2
    <3>2. workers[v].pc = "ask" /\ Chat(v) = d /\ v # w
      BY <2>2, <3>1 DEF NothingOutlivesItsWorker
    <3> QED
      BY <1>1, <1>3, <3>1, <3>2 DEF Busy, InStream
  <2> QED
    BY <1>8, <1>9, <2>1, <2>2, NothingOutlivesNext
<1>11. WorkersAreLocked'
  <2> SUFFICES ASSUME NEW v \in Workers
               PROVE  /\ workers'[v].pc \in InStream \cup {"lock"} =>
                            workers'[v].msg # 0 /\ workers'[v].lock <= lockOf'[Chat(v)']
                      /\ workers'[v].pc \in InStream => holder'[LockOf(v)'] = v
                      /\ workers'[v].pc = "lock" =>
                            \E k \in DOMAIN waiting'[LockOf(v)'] :
                               waiting'[LockOf(v)'][k] = v
    BY DEF WorkersAreLocked
  <2>1. CASE v = w
    <3>1. lockOf'[c] = lockOf[c] /\ lockOf[c] <= lockOf[c]
      BY <1>1, SameLocks
    <3>2. CASE Done
      BY <2>1, <3>2 DEF InStream
    <3>3. CASE First
      BY <1>1, <1>4, <2>1, <3>1, <3>3
    <3>4. CASE Last
      BY <1>4, <1>5, <2>1, <3>1, <3>4 DEF InStream
    <3> QED
      BY <1>2, <3>2, <3>3, <3>4
  <2>2. CASE v # w /\ workers[v].pc \in InStream
    <3>1. holder[LockOf(v)] = v /\ LockOf(v) \in Locks /\ v # NoWorker
      BY <2>2, Facts, WorkerAssumption DEF WorkersAreLocked, Busy
    <3>2. holder'[LockOf(v)] = v
      BY <1>2, <1>4, <3>1
    <3>3. Chat(v)' = Chat(v) /\ LockOf(v)' = LockOf(v) /\ workers'[v].pc # "lock"
      BY <1>1, <1>3, <2>2 DEF Busy, InStream
    <3>4. workers'[v].msg # 0 /\ workers'[v].lock <= lockOf'[Chat(v)']
      BY <1>3, <2>2, <3>3 DEF WorkersAreLocked
    <3> QED
      BY <3>2, <3>3, <3>4
  <2>3. CASE v # w /\ workers[v].pc = "lock"
    <3>1. Chat(v)' = Chat(v) /\ LockOf(v)' = LockOf(v) /\ LockOf(v) \in Locks
      BY <1>1, <2>3, Facts DEF Busy
    <3>2. PICK k \in DOMAIN waiting[LockOf(v)] : waiting[LockOf(v)][k] = v
      BY <2>3 DEF WorkersAreLocked
    <3>3. k \in DOMAIN waiting'[LockOf(v)] /\ waiting'[LockOf(v)][k] = v
      BY <1>2, <1>5, <3>1, <3>2
    <3>4. workers'[v].msg # 0 /\ workers'[v].lock <= lockOf'[Chat(v)']
          /\ workers'[v].pc \notin InStream
      BY <1>3, <2>3, <3>1 DEF WorkersAreLocked, InStream
    <3> QED
      BY <3>1, <3>3, <3>4
  <2>4. CASE v # w /\ workers[v].pc \notin InStream \cup {"lock"}
    BY <1>3, <2>4
  <2> QED
    BY <2>1, <2>2, <2>3, <2>4
<1>12. LinesAreInOrder'
  <2>1. \A m \in Locks : \A k \in DOMAIN waiting[m] :
           /\ workers'[waiting[m][k]].msg = workers[waiting[m][k]].msg
           /\ workers[waiting[m][k]].msg < i
    BY <1>3, <1>7 DEF WorkIsTaken
  <2>2. ASSUME NEW m \in Locks, NEW j \in DOMAIN waiting'[m], NEW k \in DOMAIN waiting'[m],
               j < k
        PROVE  workers'[waiting'[m][j]].msg < workers'[waiting'[m][k]].msg
    <3>1. CASE j \in DOMAIN waiting[m] /\ k \in DOMAIN waiting[m]
      <4>1. waiting'[m][j] = waiting[m][j] /\ waiting'[m][k] = waiting[m][k]
        BY <1>2, <1>5, <3>1
      <4> QED
        BY <2>1, <2>2, <3>1, <4>1 DEF LinesAreInOrder
    <3>2. CASE ~(j \in DOMAIN waiting[m] /\ k \in DOMAIN waiting[m])
      <4>1. Last /\ m = l /\ j \in DOMAIN waiting[m] /\ k = n
        <5>1. Last /\ m = l
          BY <1>6, <3>2
        <5>2. \A h \in DOMAIN waiting[m] : h < n /\ h \in Nat
          BY <1>5, <5>1, Sequences
        <5>3. n \in Nat
          BY <1>5, <5>1
        <5> QED
          BY <1>6, <2>2, <3>2, <5>1, <5>2, <5>3
      <4>2. waiting'[m][j] = waiting[m][j] /\ waiting'[m][k] = w /\ workers'[w].msg = i
        BY <1>5, <4>1
      <4> QED
        BY <2>1, <4>1, <4>2
    <3> QED
      BY <3>1, <3>2
  <2>3. ASSUME NEW d \in Chats, lockOf'[d] = 0, NEW k \in DOMAIN waiting'[<<d, 0>>]
        PROVE  started'[d] < workers'[waiting'[<<d, 0>>][k]].msg
    <3> DEFINE m == <<d, 0>>
    <3>1. m \in Locks /\ lockOf[d] = 0
      BY <2>3, Facts
    <3>2. CASE k \in DOMAIN waiting[m] /\ waiting'[m][k] = waiting[m][k]
      <4>1. started'[d] = started[d]
        <5>1. First /\ c = d => m = l
          BY <3>1 DEF l
        <5>2. waiting[m] # <<>>
          BY <3>1, <3>2, Sequences
        <5> QED
          BY <1>2, <1>4, <5>1, <5>2
      <4> QED
        BY <2>1, <3>1, <3>2, <4>1 DEF LinesAreInOrder
    <3>3. CASE Last /\ m = l /\ k = n /\ waiting'[m][k] = w
      BY <3>3 DEF WorkIsTaken
    <3> QED
      BY <1>6, <2>3, <3>1, <3>2, <3>3
  <2> QED
    BY <2>2, <2>3 DEF LinesAreInOrder
<1>13. holder' \in [Locks -> Workers \cup {NoWorker}]
  BY <1>2, <1>4
<1>14. waiting' \in [Locks -> Seq(Workers)]
  <2>1. Append(waiting[l], w) \in Seq(Workers)
    BY <1>1, <1>4, AppendProperties
  <2> QED
    BY <1>2, <1>4, <2>1
<1>15. started' \in [Chats -> 0..MaxMessages]
  BY <1>2, <1>4
<1> QED
  BY <1>10, <1>11, <1>12, <1>13, <1>14, <1>15

LEMMA TakeReplies ==
    ASSUME IInv, NEW w \in Workers, workers[w].pc = "get", NEW i \in 1..Len(sent),
           \A j : Taken(j) => j < i,
           NEW ws, TakesMessage(w, i, ws), UNCHANGED <<lockOf, automatic, approvals>>
    PROVE  RepliesAreNew' /\ ApprovedByItsChat'
<1> USE DEF IInv
<1>1. /\ \A u \in Workers : u # w => workers'[u] = ws[u]
      /\ \A u \in Workers : u # w /\ workers[u].pc \in Busy => Chat(u)' = Chat(u)
      /\ workers'[w].reply = NoReply
  <2>1. PICK c, l : c = ChatOf(i) /\ l = <<c, lockOf[c]>>
    OBVIOUS
  <2> QED
    BY <2>1, TakeWorkers
<1>2. /\ Told(ws, i) /\ handled \subseteq handled' /\ Len(sent') = Len(sent)
      /\ \A j \in 1..Len(sent) : sent'[j].chat = sent[j].chat
                                 /\ (j # i => sent'[j] = sent[j])
  BY DEF TakesMessage, Heard
<1>3. /\ \A u \in Workers : workers[u].reply # i
      /\ \A x \in approvals : x.by # i
      /\ i \notin handled
  BY NobodyHasTheHead
<1>4. \A j \in 1..Len(sent) : ChatOf(j)' = ChatOf(j)
  BY <1>2 DEF ChatOf
<1>5. ASSUME NEW v \in Workers, workers'[v].reply # NoReply
      PROVE  /\ workers'[v].pc \in {"approval", "ask"}
             /\ \A u \in Workers : workers'[u].reply = workers'[v].reply => u = v
             /\ \A x \in approvals : x.by # workers'[v].reply
             /\ workers'[v].pc = "approval" =>
                   /\ sent'[workers'[v].reply].chat = Chat(v)'
                   /\ sent'[workers'[v].reply].says \in Decisions =>
                         workers'[v].reply \in handled'
  <2>1. v # w /\ workers'[v] = ws[v] /\ ws[v].pc = workers[v].pc
    BY <1>1, <1>2, <1>5 DEF Told
  <2>2. CASE ws[v].reply = i
    <3>1. workers[v].pc \in {"approval", "ask"}
      BY <1>2, <1>3, <2>2 DEF Told
    <3>2. \A u \in Workers : workers'[u].reply = i => u = v
      BY <1>1, <1>2, <1>5, <2>1, <2>2 DEF Told
    <3>3. workers[v].pc = "approval" =>
             /\ ChatOf(i) = Chat(v) /\ (sent'[i].says \in Decisions => i \in handled')
      BY <1>2, <1>3, <2>2 DEF Told
    <3>4. Chat(v)' = Chat(v)
      BY <1>1, <2>1, <3>1 DEF Busy, InStream
    <3> QED
      BY <1>2, <1>3, <2>1, <2>2, <3>1, <3>2, <3>3, <3>4 DEF ChatOf
  <2>3. CASE ws[v].reply # i
    <3> DEFINE r == workers[v].reply
    <3>1. ws[v].reply = r /\ r # NoReply /\ r # i
      BY <1>2, <1>5, <2>1, <2>3 DEF Told
    <3>2. /\ workers[v].pc \in {"approval", "ask"} /\ r \in 1..Len(sent)
          /\ \A u \in Workers : workers[u].reply = r => u = v
          /\ \A x \in approvals : x.by # r
          /\ workers[v].pc = "approval" =>
                ChatOf(r) = Chat(v) /\ (sent[r].says \in Decisions => r \in handled)
      BY <3>1, Facts DEF RepliesAreNew, NoReply
    <3>3. \A u \in Workers : workers'[u].reply = r => u = v
      BY <1>1, <1>2, <3>1, <3>2 DEF Told
    <3>4. Chat(v)' = Chat(v)
      BY <1>1, <2>1, <3>2 DEF Busy, InStream
    <3> QED
      BY <1>2, <2>1, <3>1, <3>2, <3>3, <3>4 DEF ChatOf
  <2> QED
    BY <2>2, <2>3
<1>6. \A j \in handled : sent'[j] = sent[j]
  BY <1>2, <1>3 DEF TypeOK
<1>7. RepliesAreNew'
  BY <1>2, <1>5, <1>6 DEF RepliesAreNew, ChatOf
<1>8. ApprovedByItsChat'
  <2>1. \A x \in approvals : ChatOf(x.msg)' = ChatOf(x.msg)
    BY <1>4, ApprovalFacts
  <2>2. \A x \in approvals : x.by # NoReply => sent'[x.by] = sent[x.by]
    BY <1>2, <1>3, ApprovalFacts DEF NoReply
  <2> QED
    BY <1>2, <1>6, <2>1, <2>2 DEF ApprovedByItsChat, ChatOf
<1> QED
  BY <1>7, <1>8

LEMMA TakeKeeps ==
    ASSUME IInv, NEW w \in Workers, Take(w)
    PROVE  IInv'
<1> USE DEF IInv
<1> DEFINE i == Head(queue)
<1>1. /\ workers[w].pc = "get"
      /\ UNCHANGED <<inbound, loop, lockOf, questions, automatic, stopper, approvals>>
  BY DEF Take, CanTake
<1>2. PICK n : n = i
  OBVIOUS
<1>3. /\ n \in 1..Len(sent) /\ StillTaken(n)
      /\ \A j : Taken(j) => j < n /\ StillTaken(j)
      /\ QueueIsInOrder' /\ queue' \in Seq(0..Len(sent)) /\ Len(queue') <= MaxPending
      /\ \E ws : TakesMessage(w, n, ws)
  BY <1>2, TakeTakes
<1>4. PICK ws : TakesMessage(w, n, ws)
  BY <1>3
<1>5. /\ NothingOutlivesItsWorker' /\ WorkersAreLocked' /\ LinesAreInOrder'
      /\ holder' \in [Locks -> Workers \cup {NoWorker}]
      /\ waiting' \in [Locks -> Seq(Workers)]
      /\ started' \in [Chats -> 0..MaxMessages]
  BY <1>1, <1>3, <1>4, TakeLocks
<1>6. RepliesAreNew' /\ ApprovedByItsChat'
  BY <1>1, <1>3, <1>4, TakeReplies
<1>7. /\ Told(ws, n) /\ Heard(n)
      /\ handled' = handled \/ handled' = handled \cup {n}
      /\ interrupts' \in [Chats -> Workers \cup {NoWorker}]
  BY <1>4 DEF TakesMessage
<1>8. /\ workers' \in [Workers -> Worker]
      /\ \A u \in Workers : u # w => workers'[u] = ws[u]
      /\ workers'[w].reply = NoReply
      /\ workers'[w].msg = workers[w].msg \/ workers'[w].msg = n
      /\ \A c \in Chats : started'[c] = started[c] \/ started'[c] = n
  <2>1. n \in 1..Len(sent) /\ started \in [Chats -> 0..MaxMessages]
    BY <1>3 DEF TypeOK
  <2>2. PICK d, l : d = ChatOf(n) /\ l = <<d, lockOf[d]>>
    OBVIOUS
  <2>3. d \in Chats
    BY <2>1, <2>2, Facts
  <2> HIDE DEF i
  <2>4. /\ workers' \in [Workers -> Worker]
        /\ \A u \in Workers : u # w => workers'[u] = ws[u]
        /\ workers'[w].reply = NoReply
        /\ workers'[w].msg = workers[w].msg \/ workers'[w].msg = n
        /\ started' = started \/ started' = [started EXCEPT ![d] = n]
    BY <1>1, <1>4, <2>1, <2>2, TakeWorkers
  <2> QED
    BY <2>1, <2>3, <2>4
<1>9. WorkIsTaken'
  <2>1. Taken(NoReply)
    BY Facts, Sequences DEF Taken, QueueIsInOrder, Sentinel, NoReply
  <2>2. \A h \in handled' : StillTaken(h)
    BY <1>3, <1>7 DEF WorkIsTaken
  <2>3. \A u \in Workers : StillTaken(workers'[u].msg) /\ StillTaken(workers'[u].reply)
    <3>1. ASSUME NEW u \in Workers, u # w
          PROVE  /\ workers'[u].msg = workers[u].msg
                 /\ workers'[u].reply = workers[u].reply \/ workers'[u].reply = n
      BY <1>7, <1>8, <3>1 DEF Told
    <3>2. \A u \in Workers : StillTaken(workers[u].msg) /\ StillTaken(workers[u].reply)
      BY <1>3 DEF WorkIsTaken
    <3>3. StillTaken(NoReply) /\ StillTaken(n)
      BY <1>3, <2>1
    <3>4. ASSUME NEW u \in Workers, u # w
          PROVE  StillTaken(workers'[u].msg) /\ StillTaken(workers'[u].reply)
      BY <3>1, <3>2, <3>3, <3>4
    <3>5. StillTaken(workers'[w].msg) /\ StillTaken(workers'[w].reply)
      BY <1>8, <3>2, <3>3
    <3> QED
      BY <3>4, <3>5
  <2>4. \A x \in approvals' : StillTaken(x.by)
    BY <1>1, <1>3 DEF WorkIsTaken
  <2>5. \A c \in Chats : StillTaken(started'[c])
    BY <1>3, <1>8 DEF WorkIsTaken
  <2> QED
    BY <2>2, <2>3, <2>4, <2>5, WorkIsStillTaken
<1>10. TypeOK'
  <2>1. Len(sent') = Len(sent) /\ sent' \in Seq([chat : Chats, says : Says \cup {Unread}])
    BY <1>7 DEF Heard
  <2>2. handled' \subseteq 1..Len(sent)
    BY <1>3, <1>7 DEF TypeOK
  <2> QED
    BY <1>1, <1>3, <1>5, <1>7, <1>8, <2>1, <2>2 DEF TypeOK
<1> QED
  BY <1>3, <1>5, <1>6, <1>9, <1>10

-----------------------------------------------------------------------------
(* The invariant.                                                          *)

LEMMA InitIInv == Init => IInv
<1> SUFFICES ASSUME Init
             PROVE  IInv
  OBVIOUS
<1> USE DEF Init
<1>1. /\ Len(sent) = 0 /\ Len(inbound) = 0 /\ Len(queue) = 0
      /\ DOMAIN sent = {} /\ DOMAIN inbound = {} /\ DOMAIN queue = {}
      /\ \A l \in Locks : DOMAIN waiting[l] = {}
  OBVIOUS
<1>2. TypeOK
  <2>1. /\ sent \in Seq([chat : Chats, says : Says \cup {Unread}])
        /\ inbound \in Seq(1..Len(sent)) /\ queue \in Seq(0..Len(sent))
        /\ \A l \in Locks : <<>> \in Seq(Workers)
    OBVIOUS
  <2>2. /\ Len(sent) <= MaxMessages /\ Len(queue) <= MaxPending
        /\ 0 \in 0..Len(sent) /\ 0 \in 0..MaxMessages /\ 0 \in 0..MaxEvictions
    BY <1>1, BoundAssumption, QueueAssumption
  <2>3. loop \in [pc : {"read", "put", "ended"}, msg : 0..Len(sent)]
    BY <2>2
  <2> QED
    BY <2>1, <2>2, <2>3, IdleIsAWorker DEF TypeOK
<1>3. QueueIsInOrder
  BY <1>1 DEF QueueIsInOrder, ReadSoFar
<1>4. WorkIsTaken
  <2>1. Taken(0)
    BY <1>1 DEF Taken, ReadSoFar
  <2> QED
    BY <2>1 DEF WorkIsTaken, Idle, NoReply
<1>5. NothingOutlivesItsWorker /\ WorkersAreLocked /\ LinesAreInOrder
  <2>1. \A c \in Chats : lockOf[c] = 0 => <<c, 0>> \in Locks
    BY BoundAssumption DEF Locks
  <2>2. NothingOutlivesItsWorker
    BY <1>1 DEF NothingOutlivesItsWorker
  <2>3. WorkersAreLocked
    BY DEF WorkersAreLocked, Idle, InStream
  <2>4. LinesAreInOrder
    BY <1>1, <2>1 DEF LinesAreInOrder
  <2> QED
    BY <2>2, <2>3, <2>4
<1>6. RepliesAreNew /\ ApprovedByItsChat
  BY DEF RepliesAreNew, ApprovedByItsChat, Idle, NoReply
<1> QED
  BY <1>2, <1>3, <1>4, <1>5, <1>6 DEF IInv

LEMMA NextIInv == IInv /\ [Next]_vars => IInv'
<1> SUFFICES ASSUME IInv, [Next]_vars
             PROVE  IInv'
  OBVIOUS
<1>1. CASE UNCHANGED vars
  <2>1. UNCHANGED Path /\ UNCHANGED lockOf /\ UNCHANGED sent
        /\ UNCHANGED <<workers, holder, waiting, interrupts, questions, automatic,
                       handled, approvals, started>>
    BY <1>1 DEF vars, Path
  <2>2. QueueIsInOrder' /\ \A i \in Nat : Taken(i) => StillTaken(i)
    BY <2>1, OffThePath
  <2>3. TypeOK'
    BY <1>1 DEF vars, IInv, TypeOK
  <2> QED
    BY <2>1, <2>2, <2>3, SameSent, AsideKeeps
<1>2. ASSUME NEW c \in Chats, Send(c) \/ EvictLock(c)
      PROVE  IInv'
  BY <1>2, SendKeeps, EvictLockKeeps
<1>3. CASE LoopStep
  BY <1>3, ReadKeeps, PutKeeps, LoopEndsKeeps DEF LoopStep
<1>4. CASE Stop \/ StopStep
  BY <1>4, StopKeeps, StopperKeeps, CancelKeeps DEF StopStep
<1>5. ASSUME NEW w \in Workers, WorkerStep(w)
      PROVE  IInv'
  BY <1>5, TakeKeeps, ExitKeeps, WakeKeeps, StreamEndsKeeps, AutoApproveKeeps,
     AskApprovalKeeps, AskUserKeeps, ApprovalKeeps, UserAnswerKeeps, TimesOutKeeps
     DEF WorkerStep, TimesOut
<1> QED
  BY <1>1, <1>2, <1>3, <1>4, <1>5 DEF Next

\* The inductive invariant: a message is in one place, messages are taken in the
\* order they were sent, and locks, lines, prompts and replies are of workers
\* that are there (InboundConsumer).
THEOREM InductiveInvariant == Spec => []IInv
<1>1. Init => IInv
  BY InitIInv
<1>2. IInv /\ [Next]_vars => IInv'
  BY NextIInv
<1> QED
  BY <1>1, <1>2, PTL DEF Spec

\* The state of the consumer has its types, for every number of workers, chats
\* and messages (InboundConsumer.__init__).
THEOREM TypeCorrect == Spec => []TypeOK
<1>1. IInv => TypeOK
  BY DEF IInv
<1> QED
  BY <1>1, InductiveInvariant, PTL

\* No prompt, question or lock is left behind by a worker that has gone on, by
\* whatever way it went: an answer, a timeout, an eviction or a stop
\* (_stream_with_hitl, stop).
THEOREM NothingIsLeftBehind == Spec => []NothingOutlivesItsWorker
<1>1. IInv => NothingOutlivesItsWorker
  BY DEF IInv
<1> QED
  BY <1>1, InductiveInvariant, PTL

\* An action that needs approval runs on an approval of its own chat, used once
\* (_handle_message, _stream_with_hitl).
THEOREM ActionsAreApproved == Spec => []ApprovedByItsChat
<1>1. IInv => ApprovedByItsChat
  BY DEF IInv
<1> QED
  BY <1>1, InductiveInvariant, PTL

\* As long as the lock of a chat is not evicted, workers of the chat agree on it.
LEMMA OneLock ==
    ASSUME IInv, NEW w \in Workers, workers[w].pc \in Busy, lockOf[Chat(w)] = 0
    PROVE  LockOf(w) = <<Chat(w), 0>>
<1>1. workers[w].lock \in 0..MaxEvictions
  BY Facts DEF Worker
<1>2. workers[w].lock <= 0
  BY DEF IInv, WorkersAreLocked, Busy
<1> QED
  BY <1>1, <1>2, BoundAssumption DEF LockOf

LEMMA SerialFromIInv == IInv => ChatIsSerial
<1> SUFFICES ASSUME IInv, NEW c \in Chats, lockOf[c] = 0
             PROVE  /\ Cardinality(Active(c)) <= 1
                    /\ \A w \in Workers :
                          workers[w].pc = "lock" /\ Chat(w) = c => workers[w].msg > started[c]
  BY DEF ChatIsSerial
<1>1. \A v, w \in Active(c) : v = w
  <2>1. \A w \in Active(c) : w \in Workers /\ workers[w].pc \in InStream
                             /\ LockOf(w) = <<c, 0>>
    BY OneLock DEF Active, Busy
  <2> QED
    BY <2>1, OneAtATime
<1>2. Cardinality(Active(c)) <= 1
  <2>1. CASE Active(c) = {}
    <3>1. Cardinality(Active(c)) = 0
      BY <2>1, FS_EmptySet
    <3> QED
      BY <3>1
  <2>2. CASE Active(c) # {}
    <3>1. PICK w : Active(c) = {w}
      BY <1>1, <2>2
    <3>2. Cardinality(Active(c)) = 1
      BY <3>1, FS_Singleton
    <3> QED
      BY <3>2
  <2> QED
    BY <2>1, <2>2
<1>3. ASSUME NEW w \in Workers, workers[w].pc = "lock", Chat(w) = c
      PROVE  workers[w].msg > started[c]
  <2>1. LockOf(w) = <<c, 0>>
    BY <1>3, OneLock DEF Busy
  <2>2. \E k \in DOMAIN waiting[<<c, 0>>] : waiting[<<c, 0>>][k] = w
    BY <1>3, <2>1 DEF IInv, WorkersAreLocked
  <2>3. started[c] < workers[w].msg
    BY <2>2 DEF IInv, LinesAreInOrder
  <2>4. started[c] \in Int
    BY BoundAssumption DEF IInv, TypeOK
  <2>5. workers[w].msg \in Int
    BY Facts
  <2> QED
    BY <2>3, <2>4, <2>5
<1> QED
  BY <1>2, <1>3

\* The messages of a chat run one at a time, in the order they were sent, while
\* the chat keeps its lock (_handle_message, _chat_locks).
THEOREM ChatsAreSerial == Spec => []ChatIsSerial
<1>1. IInv => ChatIsSerial
  BY SerialFromIInv
<1> QED
  BY <1>1, InductiveInvariant, PTL

-----------------------------------------------------------------------------
(* Timeouts.                                                               *)

LEMMA AnswerIsTakenInTime ==
    ASSUME IInv, NEW w \in Workers, TimesOut(w), ~Stopping,
           workers[w].reply = NoReply, Late(w) # {}, NEW v \in Workers
    PROVE  workers[v].pc # "get"
<1> SUFFICES ASSUME workers[v].pc = "get"
             PROVE  FALSE
  OBVIOUS
<1> USE DEF IInv
<1>1. ~Urgent
  BY DEF TimesOut, ApprovalTimesOut, QuestionTimesOut, Answered
<1>2. queue = <<>>
  BY <1>1 DEF Urgent, CanTake
<1>3. loop.pc # "put"
  <2>1. Len(queue) < MaxPending
    BY <1>2, QueueAssumption
  <2> QED
    BY <1>1, <2>1 DEF Urgent, CanPut
<1>4. inbound = <<>>
  <2>1. loop.pc = "read"
    BY <1>3 DEF TypeOK, QueueIsInOrder
  <2> QED
    BY <1>1, <2>1 DEF Urgent, CanRead
<1>5. Range(inbound) = {} /\ Range(queue) = {}
  BY <1>2, <1>4 DEF Range
<1>6. loop.msg = 0
  BY <1>3 DEF QueueIsInOrder
<1> QED
  BY <1>5, <1>6 DEF Late

\* A prompt or a question times out with its answer on the way only when every
\* worker is busy (_wait_for_ask_user_reply, _HITL_APPROVAL_TIMEOUT).
THEOREM LateForWantOfWorkers == Spec => TimesOutForWantOfWorkers
<1>1. IInv /\ [Next]_vars =>
         [\A w \in Workers :
            /\ TimesOut(w) /\ ~Stopping
            /\ lockOf[Chat(w)] = 0 /\ workers[w].reply = NoReply /\ Late(w) # {}
            => \A v \in Workers : workers[v].pc # "get"]_vars
  BY AnswerIsTakenInTime
<1> QED
  BY <1>1, InductiveInvariant, PTL DEF Spec, TimesOutForWantOfWorkers
=============================================================================
