----------------------------- MODULE TurnLoop_proofs -----------------------------
(***************************************************************************)
(* For any tasks, sessions, runs, reconnects and inputs: the turns of the  *)
(* terminal application keep their types, no watcher leaves a stale        *)
(* completion of a task that one turn updates at a time, and the notifier  *)
(* with its consumer implements CompletionLedger.                          *)
(***************************************************************************)
EXTENDS TurnLoop, SequenceTheorems, FiniteSetTheorems, TLAPS

-----------------------------------------------------------------------------
(* What the invariant says of runs, watchers and turns.                    *)

LEMMA Runs ==
    ASSUME IInv, NEW t \in Tasks
    PROVE  /\ runs[t] \in Seq(Statuses) /\ Latest(t) \in Nat /\ Latest(t) <= MaxRuns
           /\ \A r \in 1..Latest(t) : Status(t, r) \in Statuses
           /\ IsFiniteSet(Updating(t)) /\ Cardinality(Updating(t)) \in Nat
           /\ Latest(t) + Cardinality(Updating(t)) <= MaxRuns
           /\ MaxRuns \in Nat \ {0}
<1>1. runs[t] \in Seq(Statuses)
  BY DEF IInv, NotifierIsTyped
<1>2. Latest(t) \in Nat /\ \A r \in 1..Latest(t) : Status(t, r) \in Statuses
  BY <1>1, LenProperties, ElementOfSeq DEF Latest, Status
<1>3. IsFiniteSet(turns) /\ Updating(t) \subseteq turns
  BY DEF IInv, TurnsAreTyped, Updating
<1>4. IsFiniteSet(Updating(t)) /\ Cardinality(Updating(t)) \in Nat
  BY <1>3, FS_Subset, FS_CardinalityType
<1>5. Latest(t) + Cardinality(Updating(t)) <= MaxRuns
  BY DEF IInv, LaunchesAreNew
<1> QED
  BY <1>1, <1>2, <1>4, <1>5, RunAssumption

LEMMA Calls ==
    ASSUME IInv, NEW x \in turns
    PROVE  /\ x \in Turn /\ x.call \in ToolCall /\ x.session \in Sessions \cup {NoSession}
           /\ x.call.pc \in {"none", "update", "spawn"}
           /\ x.call.pc = "none" <=> x.call = NoCall
           /\ x.call.pc # "none" => x.call.task \in Tasks /\ x.pc \in {"run", "stopping"}
<1>1. x \in Turn /\ x.call \in ToolCall
  BY DEF IInv, TurnsAreTyped, Turn
<1> QED
  BY <1>1 DEF IInv, TurnsAreTyped, Turn, ToolCall, NoCall

-----------------------------------------------------------------------------
(* Steps that launch nothing.                                              *)

\* A turn as TurnsAreTyped wants it.
Proper(x) ==
    /\ x \in Turn
    /\ \/ x.call = NoCall
       \/ /\ x.call.pc # "none" /\ x.pc \in {"run", "stopping"}
          /\ x.call.task \in Tasks
    /\ x.pc = "run" => x.session \in Sessions
    /\ x.what.kind = "command" => x.session = NoSession

\* At most turn x becomes y, which is in no other call.
CallsAreKept ==
    \/ turns' \subseteq turns
    \/ \E x, y \in Turn :
          /\ turns' \subseteq (turns \ {x}) \cup {y} /\ Proper(y)
          /\ y.call = NoCall \/ (x \in turns /\ y.call = x.call)

LEMMA ProperTurns ==
    ASSUME IInv
    PROVE  \A x \in turns : Proper(x)
  BY DEF IInv, TurnsAreTyped, Proper

\* The calls after the step are the calls before it.
LEMMA SameCalls ==
    ASSUME IInv, CallsAreKept
    PROVE  /\ TurnsAreTyped'
           /\ \A x \in turns' : x.call = NoCall \/ \E y \in turns : y.call = x.call
           /\ \A x, y \in turns' :
                 /\ x.call # NoCall /\ y.call # NoCall /\ x # y
                 => \E u, v \in turns : u.call = x.call /\ v.call = y.call /\ u # v
           /\ \A t \in Tasks : /\ Cardinality(Updating(t)') \in Nat
                               /\ Cardinality(Updating(t)') <= Cardinality(Updating(t))
<1>1. IsFiniteSet(turns) /\ \A x \in turns : Proper(x)
  BY ProperTurns DEF IInv, TurnsAreTyped
<1>2. CASE turns' \subseteq turns
  <2>1. TurnsAreTyped'
    BY <1>1, <1>2, FS_Subset DEF TurnsAreTyped, Proper
  <2>2. ASSUME NEW t \in Tasks
        PROVE  /\ Cardinality(Updating(t)') \in Nat
               /\ Cardinality(Updating(t)') <= Cardinality(Updating(t))
    <3>1. Updating(t)' \subseteq Updating(t)
      BY <1>2 DEF Updating
    <3> QED
      BY <3>1, Runs, FS_Subset, FS_CardinalityType
  <2> QED
    BY <1>2, <2>1, <2>2
<1>3. ASSUME NEW x \in Turn, NEW y \in Turn,
             turns' \subseteq (turns \ {x}) \cup {y}, Proper(y),
             y.call = NoCall \/ (x \in turns /\ y.call = x.call)
      PROVE  /\ TurnsAreTyped'
             /\ \A z \in turns' : z.call = NoCall \/ \E u \in turns : u.call = z.call
             /\ \A z, w \in turns' :
                   /\ z.call # NoCall /\ w.call # NoCall /\ z # w
                   => \E u, v \in turns : u.call = z.call /\ v.call = w.call /\ u # v
             /\ \A t \in Tasks : /\ Cardinality(Updating(t)') \in Nat
                                 /\ Cardinality(Updating(t)') <= Cardinality(Updating(t))
  <2>1. IsFiniteSet((turns \ {x}) \cup {y}) /\ IsFiniteSet(turns')
    BY <1>1, <1>3, FS_Subset, FS_AddElement, FS_RemoveElement
  <2>2. TurnsAreTyped'
    BY <1>1, <1>3, <2>1 DEF TurnsAreTyped, Proper
  <2>3. \A z \in turns' : z.call = NoCall \/ \E u \in turns : u.call = z.call
    BY <1>3
  <2>4. ASSUME NEW z \in turns', NEW w \in turns',
               z.call # NoCall, w.call # NoCall, z # w
        PROVE  \E u, v \in turns : u.call = z.call /\ v.call = w.call /\ u # v
    <3>1. CASE z # y /\ w # y
      BY <1>3, <2>4, <3>1
    <3>2. CASE z = y
      BY <1>3, <2>4, <3>2
    <3>3. CASE w = y
      BY <1>3, <2>4, <3>3
    <3> QED
      BY <3>1, <3>2, <3>3
  <2>5. ASSUME NEW t \in Tasks
        PROVE  /\ Cardinality(Updating(t)') \in Nat
               /\ Cardinality(Updating(t)') <= Cardinality(Updating(t))
    <3>1. CASE x \in Updating(t) /\ y.call = x.call
      <4> DEFINE rest == Updating(t) \ {x}
      <4>1. IsFiniteSet(rest) /\ Cardinality(rest) = Cardinality(Updating(t)) - 1
        BY <3>1, Runs, FS_RemoveElement
      <4>2. /\ IsFiniteSet(rest \cup {y}) /\ Cardinality(rest \cup {y}) \in Nat
            /\ Cardinality(rest \cup {y}) <= Cardinality(rest) + 1
        <5>1. /\ IsFiniteSet(rest \cup {y})
              /\ Cardinality(rest \cup {y}) =
                    IF y \in rest THEN Cardinality(rest) ELSE Cardinality(rest) + 1
          <6> HIDE DEF rest
          <6> QED
            BY <4>1, FS_AddElement
        <5>2. Cardinality(rest \cup {y}) \in Nat /\ Cardinality(rest) \in Nat
          <6> HIDE DEF rest
          <6> QED
            BY <4>1, <5>1, FS_CardinalityType
        <5> HIDE DEF rest
        <5> QED
          BY <5>1, <5>2
      <4>3. Updating(t)' \subseteq rest \cup {y}
        BY <1>3 DEF Updating
      <4>4. /\ Cardinality(Updating(t)') \in Nat
            /\ Cardinality(Updating(t)') <= Cardinality(rest \cup {y})
        BY <4>2, <4>3, FS_Subset, FS_CardinalityType
      <4> QED
        BY <4>1, <4>2, <4>4, Runs
    <3>2. CASE ~(x \in Updating(t) /\ y.call = x.call)
      <4>1. Updating(t)' \subseteq Updating(t)
        BY <1>3, <3>2 DEF Updating, NoCall
      <4> QED
        BY <4>1, Runs, FS_Subset, FS_CardinalityType
    <3> QED
      BY <3>1, <3>2
  <2> QED
    BY <2>2, <2>3, <2>4, <2>5
<1> QED
  BY <1>2, <1>3 DEF CallsAreKept

\* A step that keeps the calls, the runs and the watchers keeps what relates them.
LEMMA QuietTurns ==
    ASSUME IInv, CallsAreKept, UNCHANGED <<runs, home, watchers, registered, crossed>>
    PROVE  TurnsAreTyped' /\ LaunchesAreNew' /\ NewestIsWatched'
<1>1. /\ TurnsAreTyped'
      /\ \A x \in turns' : x.call = NoCall \/ \E y \in turns : y.call = x.call
      /\ \A x, y \in turns' :
            /\ x.call # NoCall /\ y.call # NoCall /\ x # y
            => \E u, v \in turns : u.call = x.call /\ v.call = y.call /\ u # v
      /\ \A t \in Tasks : /\ Cardinality(Updating(t)') \in Nat
                          /\ Cardinality(Updating(t)') <= Cardinality(Updating(t))
  BY SameCalls
<1>2. \A t \in Tasks : Latest(t)' = Latest(t) /\ Latest(t) \in Nat
  BY Runs DEF Latest
<1>3. LaunchesAreNew'
  <2>1. ASSUME NEW t \in Tasks
        PROVE  /\ home'[t] = NoSession => Latest(t)' = 0
               /\ Latest(t)' + Cardinality(Updating(t)') <= MaxRuns
    <3>1. /\ Cardinality(Updating(t)) \in Nat /\ MaxRuns \in Nat
          /\ Latest(t) + Cardinality(Updating(t)) <= MaxRuns
      BY Runs
    <3>2. home'[t] = NoSession => Latest(t)' = 0
      BY <1>2 DEF IInv, LaunchesAreNew
    <3> QED
      BY <1>1, <1>2, <3>1, <3>2
  <2>2. ASSUME NEW x \in turns', x.call.pc # "none"
        PROVE  /\ home'[x.call.task] # NoSession
               /\ x.call.pc = "spawn" =>
                     /\ x.call.run \in 1..Latest(x.call.task)'
                     /\ watchers'[<<x.call.task, x.call.run>>].pc = "none"
                     /\ \A y \in turns' : y.call = x.call => y = x
    <3>1. PICK u \in turns : u.call = x.call
      BY <1>1, <2>2 DEF NoCall
    <3>2. x.call.task \in Tasks
      BY <3>1, <2>2, Calls
    <3>3. /\ home[x.call.task] # NoSession
          /\ x.call.pc = "spawn" =>
                /\ x.call.run \in 1..Latest(x.call.task)
                /\ watchers[<<x.call.task, x.call.run>>].pc = "none"
                /\ \A y \in turns : y.call = x.call => y = u
      BY <2>2, <3>1 DEF IInv, LaunchesAreNew
    <3>4. ASSUME x.call.pc = "spawn", NEW y \in turns', y.call = x.call
          PROVE  y = x
      <4>1. SUFFICES ASSUME y # x PROVE FALSE
        OBVIOUS
      <4>2. x.call # NoCall /\ y.call # NoCall
        BY <2>2, <3>4 DEF NoCall
      <4>3. \E v, w \in turns : v.call = x.call /\ w.call = x.call /\ v # w
        BY <1>1, <3>4, <4>1, <4>2
      <4> QED
        BY <3>3, <3>4, <4>3
    <3> QED
      BY <1>2, <3>2, <3>3, <3>4
  <2>3. \A t \in Tasks, r \in RunIds : watchers'[<<t, r>>].pc # "none" => r <= Latest(t)'
    BY <1>2 DEF IInv, LaunchesAreNew
  <2> QED
    BY <2>1, <2>2, <2>3 DEF LaunchesAreNew
<1>4. NewestIsWatched'
  <2>1. \A t \in Tasks : registered'[t] <= Latest(t)'
    BY <1>2 DEF IInv, NewestIsWatched
  <2>2. \A t \in Tasks, r \in RunIds : Active(t, r)' => registered'[t] = r
    BY DEF IInv, NewestIsWatched, Active
  <2>3. ASSUME NEW t \in Tasks \ crossed'
        PROVE  /\ \A r \in RunIds : Active(t, r)' => r = Latest(t)'
               /\ \A x \in Launching(t)' :
                     /\ registered'[t] = 0
                     /\ x.call.pc = "spawn" => x.call.run = Latest(t)'
                     /\ \A y \in Launching(t)' : y = x
    <3>1. /\ \A r \in RunIds : Active(t, r) => r = Latest(t)
          /\ \A x \in Launching(t) :
                /\ registered[t] = 0
                /\ x.call.pc = "spawn" => x.call.run = Latest(t)
                /\ \A y \in Launching(t) : y = x
      BY <2>3 DEF IInv, NewestIsWatched
    <3>2. ASSUME NEW x \in Launching(t)'
          PROVE  x.call # NoCall /\ \E u \in Launching(t) : u.call = x.call
      BY <1>1, <3>2 DEF Launching, NoCall
    <3>3. ASSUME NEW x \in Launching(t)', NEW y \in Launching(t)', x # y
          PROVE  FALSE
      <4>1. x.call # NoCall /\ y.call # NoCall /\ x \in turns' /\ y \in turns'
        BY <3>2, <3>3 DEF Launching
      <4>2. PICK u \in turns, v \in turns : u.call = x.call /\ v.call = y.call /\ u # v
        BY <1>1, <3>3, <4>1
      <4>3. u \in Launching(t) /\ v \in Launching(t)
        BY <4>2, <3>3 DEF Launching
      <4> QED
        BY <3>1, <4>2, <4>3
    <3>4. \A r \in RunIds : Active(t, r)' => r = Latest(t)'
      BY <1>2, <3>1 DEF Active
    <3>5. ASSUME NEW x \in Launching(t)'
          PROVE  /\ registered'[t] = 0
                 /\ x.call.pc = "spawn" => x.call.run = Latest(t)'
      BY <1>2, <3>1, <3>2
    <3> QED
      BY <3>3, <3>4, <3>5
  <2> QED
    BY <2>1, <2>2, <2>3 DEF NewestIsWatched
<1> QED
  BY <1>1, <1>3, <1>4

\* Announcements stay where they are.
MailIsKept ==
    /\ UNCHANGED <<home, watchers, mail, aside, told>>
    /\ consumer'.batch = consumer.batch /\ consumer'.session = consumer.session

LEMMA QuietMail ==
    ASSUME IInv, MailIsKept
    PROVE  AnnouncedOnce' /\ Waiting' = Waiting
<1>1. Waiting' = Waiting
  BY DEF MailIsKept, Waiting, About, Completion
<1>2. /\ \A s \in Sessions : About(mail[s])' = About(mail[s])
      /\ About(consumer.batch)' = About(consumer.batch)
  BY DEF MailIsKept, About, Completion
<1> QED
  BY <1>1, <1>2 DEF IInv, AnnouncedOnce, MailIsKept

\* Most steps of turns and of the user.
LEMMA QuietSteps ==
    ASSUME IInv, CallsAreKept, UNCHANGED <<notifier, consumer, crossed, aside, told>>,
           LoopIsTyped'
    PROVE  IInv' /\ Waiting' = Waiting
<1>1. NotifierIsTyped' /\ ConsumerIsTyped'
  BY DEF IInv, NotifierIsTyped, ConsumerIsTyped, notifier
<1>2. TurnsAreTyped' /\ LaunchesAreNew' /\ NewestIsWatched'
  BY QuietTurns DEF notifier
<1>3. AnnouncedOnce' /\ Waiting' = Waiting
  BY QuietMail DEF MailIsKept, notifier
<1> QED
  BY <1>1, <1>2, <1>3 DEF IInv

-----------------------------------------------------------------------------
(* Turns that begin, go on and end.                                        *)

LEMMA NewTurns ==
    ASSUME NEW what \in Whats, NEW s \in Sessions \cup {NoSession},
           what.kind = "command" => s = NoSession
    PROVE  /\ Proper(NewTurn(what, s)) /\ NewTurn(what, s).call = NoCall
           /\ NewTurn(what, s) \in Turn
<1>1. NoCall \in ToolCall
  BY RunAssumption DEF NoCall, ToolCall
<1> QED
  BY <1>1 DEF NewTurn, Proper, Turn

LEMMA TurnBegins ==
    ASSUME IInv, NEW what \in Whats, NEW s \in Sessions \cup {NoSession},
           what.kind = "command" => s = NoSession,
           turns' = turns \cup {NewTurn(what, s)}
    PROVE  CallsAreKept
<1> DEFINE y == NewTurn(what, s)
<1>1. y \in Turn /\ Proper(y) /\ y.call = NoCall
  BY NewTurns
<1> HIDE DEF y
<1>2. turns' \subseteq (turns \ {y}) \cup {y}
  BY DEF y
<1> QED
  BY <1>1, <1>2 DEF CallsAreKept

LEMMA TurnGoesOn ==
    ASSUME IInv, NEW x \in turns, NEW y, Proper(y), Becomes(x, y),
           y.call = NoCall \/ y.call = x.call
    PROVE  CallsAreKept
<1>1. x \in Turn /\ y \in Turn
  BY Calls DEF Proper
<1> QED
  BY <1>1 DEF CallsAreKept, Becomes

LEMMA Numbers ==
    /\ \A i \in 1..MaxInputs : Typed(i) \in Whats /\ Typed(i).kind # "command"
    /\ \A i \in 1..MaxInputs : FromChannel(i) \in Whats /\ FromChannel(i).kind # "command"
    /\ \A i \in 1..MaxInputs : Command(i) \in Whats
    /\ \A b \in SUBSET Completions : Telling(b) \in Whats /\ Telling(b).kind # "command"
    /\ NoTurn \in Whats
  BY DEF Whats, Typed, FromChannel, Command, Telling, NoTurn

-----------------------------------------------------------------------------
(* Queues of numbers, no number twice.                                     *)

LEMMA NothingQueued ==
    ASSUME NEW n \in Nat
    PROVE  <<>> \in Seq(1..n) /\ IsInjective(<<>>)
<1>1. <<>> \in Seq(1..n) /\ Len(<<>>) = 0
  BY EmptySeq
<1>2. DOMAIN <<>> = 1..0
  BY <1>1, LenProperties
<1> QED
  BY <1>1, <1>2 DEF IsInjective

LEMMA OneQueued ==
    ASSUME NEW n \in Nat, NEW q \in Seq(1..n), IsInjective(q)
    PROVE  Append(q, n + 1) \in Seq(1..(n + 1)) /\ IsInjective(Append(q, n + 1))
<1> DEFINE p == Append(q, n + 1)
           L == Len(q)
<1>1. q \in Seq(1..(n + 1)) /\ n + 1 \in 1..(n + 1)
  BY SeqMonotonic
<1>2. /\ p \in Seq(1..(n + 1)) /\ Len(p) = L + 1
      /\ \A i \in 1..L : p[i] = q[i]
      /\ p[L + 1] = n + 1
  BY <1>1, AppendProperties
<1>3. L \in Nat /\ DOMAIN q = 1..L /\ \A i \in 1..L : q[i] \in 1..n
  BY LenProperties, ElementOfSeq
<1>4. DOMAIN p = 1..(L + 1)
  BY <1>2, LenProperties
<1>5. \A i, j \in 1..L : q[i] = q[j] => i = j
  BY <1>3 DEF IsInjective
<1> HIDE DEF p, L
<1>6. ASSUME NEW a \in 1..(L + 1), NEW b \in 1..(L + 1), p[a] = p[b]
      PROVE  a = b
  <2>1. \A i \in 1..(L + 1) : i \in 1..L \/ i = L + 1
    BY <1>3
  <2>2. \A i \in 1..L : p[i] # n + 1
    BY <1>2, <1>3
  <2>3. CASE a \in 1..L /\ b \in 1..L
    BY <1>2, <1>5, <1>6, <2>3
  <2>4. CASE a = L + 1 \/ b = L + 1
    BY <1>2, <1>6, <2>1, <2>2, <2>4
  <2> QED
    BY <2>1, <2>3, <2>4
<1>7. IsInjective(p)
  BY <1>4, <1>6 DEF IsInjective
<1> QED
  BY <1>2, <1>7 DEF p

LEMMA HeadTaken ==
    ASSUME NEW n \in Nat, NEW q \in Seq(1..n), IsInjective(q), q # <<>>
    PROVE  /\ Head(q) \in 1..n /\ Tail(q) \in Seq(1..n) /\ IsInjective(Tail(q))
           /\ Append(Tail(q), Head(q)) \in Seq(1..n)
           /\ IsInjective(Append(Tail(q), Head(q)))
<1> DEFINE p == Tail(q)
           h == Head(q)
           o == Append(p, h)
           L == Len(q)
           M == Len(p)
<1>1. /\ h \in 1..n /\ p \in Seq(1..n) /\ M = L - 1
      /\ \A i \in 1..M : p[i] = q[i + 1]
  BY HeadTailProperties
<1>2. h = q[1]
  OBVIOUS
<1>3. L \in Nat \ {0} /\ DOMAIN q = 1..L /\ DOMAIN p = 1..M /\ M \in Nat
  BY <1>1, LenProperties, EmptySeq
<1>4. \A i, j \in 1..L : q[i] = q[j] => i = j
  BY <1>3 DEF IsInjective
<1>5. /\ o \in Seq(1..n) /\ Len(o) = M + 1
      /\ \A i \in 1..M : o[i] = p[i]
      /\ o[M + 1] = h
  BY <1>1, AppendProperties
<1>6. DOMAIN o = 1..(M + 1)
  BY <1>5, LenProperties
<1> HIDE DEF p, h, o, L, M
<1>7. M + 1 = L /\ \A i \in 1..M : i + 1 \in 1..L /\ i + 1 # 1
  BY <1>1, <1>3
<1>8. ASSUME NEW i \in 1..M, NEW j \in 1..M, p[i] = p[j]
      PROVE  i = j
  <2>1. i + 1 = j + 1
    BY <1>1, <1>4, <1>7, <1>8
  <2> QED
    BY <1>3, <2>1
<1>9. ASSUME NEW i \in 1..(M + 1), NEW j \in 1..(M + 1), o[i] = o[j]
      PROVE  i = j
  <2>1. \A k \in 1..(M + 1) : k \in 1..M \/ k = M + 1
    BY <1>3
  <2>2. 1 \in 1..L
    BY <1>3
  <2>3. \A k \in 1..M : o[k] # o[M + 1]
    BY <1>1, <1>2, <1>4, <1>5, <1>7, <2>2
  <2>4. CASE i \in 1..M /\ j \in 1..M
    BY <1>5, <1>8, <1>9, <2>4
  <2>5. CASE i = M + 1 \/ j = M + 1
    BY <1>9, <2>1, <2>3, <2>5
  <2> QED
    BY <2>1, <2>4, <2>5
<1>10. IsInjective(p) /\ IsInjective(o)
  BY <1>3, <1>6, <1>8, <1>9 DEF IsInjective
<1> QED
  BY <1>1, <1>5, <1>10 DEF p, h, o

\* A queue of numbers stays one when there are more numbers.
LEMMA QueuesGrow ==
    ASSUME NEW m \in Nat, NEW n \in Nat, m <= n, NEW q \in Seq(1..m)
    PROVE  q \in Seq(1..n)
<1>1. 1..m \subseteq 1..n
  OBVIOUS
<1> QED
  BY <1>1, SeqMonotonic

LEMMA Inputs ==
    ASSUME IInv
    PROVE  /\ inputs \in [typed : Nat, channel : Nat, commands : Nat, interrupts : Nat]
           /\ inputs.typed <= MaxInputs /\ inputs.channel <= MaxInputs
           /\ MaxInputs \in Nat
           /\ MayInput => /\ inputs.typed + 1 \in 1..MaxInputs
                          /\ inputs.channel + 1 \in 1..MaxInputs
                          /\ inputs.commands + 1 \in 1..MaxInputs
<1>1. /\ inputs \in [typed : Nat, channel : Nat, commands : Nat, interrupts : Nat]
      /\ inputs.typed + inputs.channel + inputs.commands + inputs.interrupts <= MaxInputs
  BY DEF IInv, LoopIsTyped
<1>2. /\ inputs.typed \in Nat /\ inputs.channel \in Nat /\ inputs.commands \in Nat
      /\ inputs.interrupts \in Nat /\ MaxInputs \in Nat
  BY <1>1, InputAssumption
<1>3. inputs.typed <= MaxInputs /\ inputs.channel <= MaxInputs
  BY <1>1, <1>2
<1>4. MayInput => /\ inputs.typed + 1 <= MaxInputs
                  /\ inputs.channel + 1 <= MaxInputs
                  /\ inputs.commands + 1 <= MaxInputs
  BY <1>2 DEF MayInput
<1> QED
  BY <1>1, <1>2, <1>3, <1>4

-----------------------------------------------------------------------------
(* The user and the pollers.                                               *)

LEMMA TypeStep ==
    ASSUME IInv, Type
    PROVE  IInv' /\ Waiting' = Waiting
<1> DEFINE i == inputs.typed + 1
<1>1. /\ inputs \in [typed : Nat, channel : Nat, commands : Nat, interrupts : Nat]
      /\ i \in 1..MaxInputs /\ Typed(i) \in Whats /\ Typed(i).kind # "command"
  BY Inputs, Numbers DEF Type
<1>2. LoopIsTyped'
  <2>1. inputs' = [inputs EXCEPT !.typed = i]
    BY DEF Type
  <2>2. /\ inputs' \in [typed : Nat, channel : Nat, commands : Nat, interrupts : Nat]
        /\ inputs'.typed = i /\ inputs'.channel = inputs.channel
        /\ inputs'.commands = inputs.commands /\ inputs'.interrupts = inputs.interrupts
    BY <1>1, <2>1
  <2>a. inputs.typed + inputs.channel + inputs.commands + inputs.interrupts
            < MaxInputs
    BY DEF Type, MayInput
  <2>3. inputs'.typed + inputs'.channel + inputs'.commands + inputs'.interrupts
            <= MaxInputs
    <3> HIDE DEF i
    <3>1. i = inputs.typed + 1
      BY DEF i
    <3> QED BY <1>1, <2>2, <2>a, <3>1, InputAssumption
  <2>4. queued \in Seq(1..inputs.typed) /\ IsInjective(queued)
    BY DEF IInv, LoopIsTyped
  <2>5. queued' \in Seq(1..inputs'.typed) /\ IsInjective(queued')
    <3>1. queued' = queued \/ queued' = Append(queued, i)
      BY DEF Type
    <3>2. Append(queued, i) \in Seq(1..i) /\ IsInjective(Append(queued, i))
      BY <1>1, <2>4, OneQueued
    <3>3. queued \in Seq(1..i)
      BY <1>1, <2>4, QueuesGrow
    <3> QED
      BY <2>2, <2>4, <3>1, <3>2, <3>3
  <2>6. runTask' \in Whats
    BY <1>1 DEF Type, IInv, LoopIsTyped
  <2>7. UNCHANGED <<busy, prompt, current, channel, known>>
    BY DEF Type
  <2> QED
    BY <2>2, <2>3, <2>5, <2>6, <2>7 DEF IInv, LoopIsTyped
<1>3. CallsAreKept
  <2>1. turns' = turns \/ turns' = turns \cup {NewTurn(Typed(i), NoSession)}
    BY DEF Type
  <2> HIDE DEF i
  <2>2. CASE turns' = turns \cup {NewTurn(Typed(i), NoSession)}
    BY <1>1, <2>2, TurnBegins
  <2> QED
    BY <2>1, <2>2 DEF CallsAreKept
<1>4. UNCHANGED <<notifier, consumer, crossed, aside, told>>
  BY DEF Type, history
<1> QED
  BY <1>2, <1>3, <1>4, QuietSteps

LEMMA OrderStep ==
    ASSUME IInv, Order
    PROVE  IInv' /\ Waiting' = Waiting
<1> DEFINE i == inputs.commands + 1
<1>1. /\ inputs \in [typed : Nat, channel : Nat, commands : Nat, interrupts : Nat]
      /\ i \in 1..MaxInputs /\ Command(i) \in Whats
  BY Inputs, Numbers DEF Order
<1>2. LoopIsTyped'
  <2>1. inputs' = [inputs EXCEPT !.commands = i]
    BY DEF Order
  <2>2. /\ inputs' \in [typed : Nat, channel : Nat, commands : Nat, interrupts : Nat]
        /\ inputs'.commands = i /\ inputs'.channel = inputs.channel
        /\ inputs'.typed = inputs.typed /\ inputs'.interrupts = inputs.interrupts
    BY <1>1, <2>1
  <2>a. inputs.typed + inputs.channel + inputs.commands + inputs.interrupts
            < MaxInputs
    BY DEF Order, MayInput
  <2>3. inputs'.typed + inputs'.channel + inputs'.commands + inputs'.interrupts
            <= MaxInputs
    BY <1>1, <2>2, <2>a, InputAssumption
  <2> QED
    BY <2>2, <2>3 DEF IInv, LoopIsTyped, Order, loopState
<1>3. turns' = turns \cup {NewTurn(Command(i), NoSession)}
  BY DEF Order
<1>4. UNCHANGED <<notifier, consumer, crossed, aside, told>>
  BY DEF Order, history
<1>5. CallsAreKept
  BY <1>1, <1>3, TurnBegins
<1> QED
  BY <1>2, <1>4, <1>5, QuietSteps

LEMMA InterruptStep ==
    ASSUME IInv, Interrupt
    PROVE  IInv' /\ Waiting' = Waiting
<1>1. inputs \in [typed : Nat, channel : Nat, commands : Nat, interrupts : Nat]
  BY Inputs
<1>2. LoopIsTyped'
  <2>1. inputs' = [inputs EXCEPT !.interrupts = @ + 1]
    BY DEF Interrupt
  <2>2. /\ inputs' \in [typed : Nat, channel : Nat, commands : Nat, interrupts : Nat]
        /\ inputs'.interrupts = inputs.interrupts + 1 /\ inputs'.channel = inputs.channel
        /\ inputs'.typed = inputs.typed /\ inputs'.commands = inputs.commands
    BY <1>1, <2>1
  <2>a. inputs.typed + inputs.channel + inputs.commands + inputs.interrupts
            < MaxInputs
    BY DEF Interrupt, MayInput
  <2>3. inputs'.typed + inputs'.channel + inputs'.commands + inputs'.interrupts
            <= MaxInputs
    BY <1>1, <2>2, <2>a, InputAssumption
  <2>4. queued' = <<>> /\ UNCHANGED <<runTask, prompt, current, known, channel>>
    BY DEF Interrupt
  <2>5. queued' \in Seq(1..inputs'.typed) /\ IsInjective(queued')
    BY <2>2, <2>4, NothingQueued
  <2>6. busy' \in BOOLEAN
    BY DEF Interrupt, IInv, LoopIsTyped
  <2> QED
    BY <2>2, <2>3, <2>4, <2>5, <2>6 DEF IInv, LoopIsTyped
<1>3. CallsAreKept
  <2>1. CASE turns' \subseteq turns
    BY <2>1 DEF CallsAreKept
  <2>2. ASSUME NEW x \in turns, Goto(x, "stopping")
        PROVE  CallsAreKept
    <3> DEFINE y == [x EXCEPT !.pc = "stopping"]
    <3>1. Proper(x)
      BY ProperTurns
    <3>2. Proper(y) /\ y.call = x.call
      BY <3>1 DEF Proper, Turn
    <3>3. Becomes(x, y)
      BY <2>2 DEF Goto
    <3> QED
      BY <3>2, <3>3, TurnGoesOn
  <2> QED
    BY <2>1, <2>2 DEF Interrupt
<1>4. UNCHANGED <<notifier, consumer, crossed, aside, told>>
  BY DEF Interrupt, history
<1> QED
  BY <1>2, <1>3, <1>4, QuietSteps

LEMMA ChannelSendsStep ==
    ASSUME IInv, ChannelSends
    PROVE  IInv' /\ Waiting' = Waiting
<1> DEFINE i == inputs.channel + 1
<1>1. /\ inputs \in [typed : Nat, channel : Nat, commands : Nat, interrupts : Nat]
      /\ i \in 1..MaxInputs
  BY Inputs DEF ChannelSends
<1>2. LoopIsTyped'
  <2>1. inputs' = [inputs EXCEPT !.channel = i] /\ channel' = Append(channel, i)
    BY DEF ChannelSends
  <2>2. /\ inputs' \in [typed : Nat, channel : Nat, commands : Nat, interrupts : Nat]
        /\ inputs'.channel = i /\ inputs'.commands = inputs.commands
        /\ inputs'.typed = inputs.typed /\ inputs'.interrupts = inputs.interrupts
    BY <1>1, <2>1
  <2>3. inputs'.typed + inputs'.channel + inputs'.commands + inputs'.interrupts
            <= MaxInputs
    <3>1. inputs.typed + inputs.channel + inputs.commands + inputs.interrupts < MaxInputs
      BY DEF ChannelSends, MayInput
    <3>2. /\ inputs.typed \in Nat /\ inputs.channel \in Nat /\ inputs.commands \in Nat
          /\ inputs.interrupts \in Nat /\ MaxInputs \in Nat
      BY <1>1, InputAssumption
    <3> QED
      BY <2>2, <3>1, <3>2
  <2>4. channel \in Seq(1..inputs.channel) /\ IsInjective(channel)
    BY DEF IInv, LoopIsTyped
  <2>5. channel' \in Seq(1..inputs'.channel) /\ IsInjective(channel')
    BY <1>1, <2>1, <2>2, <2>4, OneQueued
  <2> QED
    BY <2>2, <2>3, <2>5 DEF IInv, LoopIsTyped, ChannelSends, loopState
<1>3. UNCHANGED <<notifier, consumer, crossed, aside, told>> /\ CallsAreKept
  BY DEF ChannelSends, history, CallsAreKept
<1> QED
  BY <1>2, <1>3, QuietSteps

LEMMA PollChannelStep ==
    ASSUME IInv, PollChannel
    PROVE  IInv' /\ Waiting' = Waiting
<1>1. /\ channel \in Seq(1..inputs.channel) /\ IsInjective(channel) /\ channel # <<>>
      /\ inputs.channel \in Nat /\ inputs.channel <= MaxInputs /\ MaxInputs \in Nat
  BY Inputs DEF IInv, LoopIsTyped, PollChannel
<1>2. /\ Head(channel) \in 1..inputs.channel
      /\ Tail(channel) \in Seq(1..inputs.channel) /\ IsInjective(Tail(channel))
      /\ Append(Tail(channel), Head(channel)) \in Seq(1..inputs.channel)
      /\ IsInjective(Append(Tail(channel), Head(channel)))
  BY <1>1, HeadTaken
<1>3. Head(channel) \in 1..MaxInputs
  BY <1>1, <1>2
<1>4. channel' = Tail(channel) \/ channel' = Append(Tail(channel), Head(channel))
  BY DEF PollChannel
<1>5. channel' \in Seq(1..inputs.channel) /\ IsInjective(channel')
  BY <1>2, <1>4
<1>6. LoopIsTyped'
  BY <1>5 DEF IInv, LoopIsTyped, PollChannel, loopState
<1>7. CallsAreKept
  <2>1. CASE turns' = turns \cup {NewTurn(FromChannel(Head(channel)), NoSession)}
    BY <1>3, <2>1, Numbers, TurnBegins
  <2> QED
    BY <2>1 DEF PollChannel, CallsAreKept
<1>8. UNCHANGED <<notifier, consumer, crossed, aside, told>>
  BY DEF PollChannel, history
<1> QED
  BY <1>6, <1>7, <1>8, QuietSteps

-----------------------------------------------------------------------------
(* A turn.                                                                 *)

\* What a turn needs of the rest, apart from the turns themselves.
LoopIsKept ==
    /\ UNCHANGED <<current, inputs, channel, known>>
    /\ busy' \in BOOLEAN /\ prompt' \in BOOLEAN
    /\ runTask' \in {runTask, NoTurn} /\ queued' = queued

LEMMA LoopStaysTyped ==
    ASSUME IInv, LoopIsKept
    PROVE  LoopIsTyped'
  BY Numbers DEF IInv, LoopIsTyped, LoopIsKept

LEMMA StartStep ==
    ASSUME IInv, NEW x \in turns, Start(x)
    PROVE  IInv' /\ Waiting' = Waiting
<1> DEFINE y == [x EXCEPT !.pc = "opening"]
<1>1. Proper(x) /\ x.pc = "new"
  BY ProperTurns DEF Start
<1>2. Proper(y) /\ y.call = x.call
  BY <1>1 DEF Proper, Turn
<1>3. CallsAreKept
  BY <1>2, TurnGoesOn DEF Start, Goto
<1>4. LoopIsTyped'
  BY LoopStaysTyped DEF IInv, LoopIsTyped, LoopIsKept, Start
<1> QED
  BY <1>3, <1>4, QuietSteps DEF Start, history

LEMMA OpenStep ==
    ASSUME IInv, NEW x \in turns, Open(x)
    PROVE  IInv' /\ Waiting' = Waiting
<1> DEFINE y == [x EXCEPT !.pc = "run",
                          !.session = IF @ = NoSession THEN current ELSE @]
<1>1. Proper(x) /\ x.pc = "opening" /\ x.what.kind # "command"
  BY ProperTurns DEF Open
<1>2. current \in Sessions
  BY DEF IInv, LoopIsTyped
<1>3. Proper(y) /\ y.call = x.call
  BY <1>1, <1>2 DEF Proper, Turn
<1>4. CallsAreKept
  BY <1>3, TurnGoesOn DEF Open
<1>5. LoopIsTyped'
  BY LoopStaysTyped DEF IInv, LoopIsTyped, LoopIsKept, Open
<1> QED
  BY <1>4, <1>5, QuietSteps DEF Open, history

LEMMA EndMessageStep ==
    ASSUME IInv, NEW x \in turns, EndMessage(x)
    PROVE  IInv' /\ Waiting' = Waiting
<1>1. Proper(x)
  BY ProperTurns
<1>2. NoCall \in ToolCall
  BY RunAssumption DEF NoCall, ToolCall
<1>3. CallsAreKept
  <2>1. CASE x.pc = "run" /\ x.call = NoCall /\ Goto(x, "tidy")
    <3> DEFINE y == [x EXCEPT !.pc = "tidy"]
    <3>1. Proper(y) /\ y.call = x.call
      BY <1>1, <2>1 DEF Proper, Turn
    <3> QED
      BY <2>1, <3>1, TurnGoesOn DEF Goto
  <2>2. CASE x.pc = "opening" /\ Goto(x, "tidied")
    <3> DEFINE y == [x EXCEPT !.pc = "tidied"]
    <3>1. Proper(y) /\ y.call = x.call
      BY <1>1, <2>2 DEF Proper, Turn
    <3> QED
      BY <2>2, <3>1, TurnGoesOn DEF Goto
  <2>3. CASE x.pc = "stopping" /\ Becomes(x, [x EXCEPT !.pc = "tidied", !.call = NoCall])
    <3> DEFINE y == [x EXCEPT !.pc = "tidied", !.call = NoCall]
    <3>1. Proper(y) /\ y.call = NoCall
      BY <1>1, <1>2, <2>3 DEF Proper, Turn
    <3> QED
      BY <2>3, <3>1, TurnGoesOn
  <2> QED
    BY <2>1, <2>2, <2>3 DEF EndMessage
<1>4. LoopIsTyped'
  BY LoopStaysTyped DEF IInv, LoopIsTyped, LoopIsKept, EndMessage
<1> QED
  BY <1>3, <1>4, QuietSteps DEF EndMessage, history

LEMMA GoOnStep ==
    ASSUME IInv, NEW x \in turns, GoOn(x)
    PROVE  IInv' /\ Waiting' = Waiting
<1>1. /\ queued \in Seq(1..inputs.typed) /\ IsInjective(queued)
      /\ inputs.typed \in Nat /\ inputs.typed <= MaxInputs /\ MaxInputs \in Nat
      /\ runTask \in Whats
  BY Inputs DEF IInv, LoopIsTyped
<1>2. UNCHANGED <<notifier, consumer, crossed, aside, told>>
  BY DEF GoOn, history
<1>3. CASE x.pc = "tidy" /\ queued # <<>>
  <2> DEFINE i == Head(queued)
             y == NewTurn(Typed(i), NoSession)
  <2>1. /\ Becomes(x, y) /\ runTask' = Typed(i) /\ queued' = Tail(queued)
    BY <1>3 DEF GoOn, MayPop
  <2>2. i \in 1..inputs.typed /\ Tail(queued) \in Seq(1..inputs.typed)
        /\ IsInjective(Tail(queued))
    BY <1>1, <1>3, HeadTaken
  <2>3. Typed(i) \in Whats /\ Typed(i).kind # "command"
    <3>1. i \in 1..MaxInputs
      BY <1>1, <2>2
    <3> QED
      BY <3>1, Numbers
  <2>4. Proper(y) /\ y.call = NoCall
    BY <2>3, NewTurns
  <2>5. CallsAreKept
    <3> HIDE DEF y
    <3> QED
      BY <2>1, <2>4, TurnGoesOn
  <2>6. LoopIsTyped'
    BY <2>1, <2>2, <2>3 DEF IInv, LoopIsTyped, GoOn
  <2> QED
    BY <1>2, <2>5, <2>6, QuietSteps
<1>4. CASE ~(x.pc = "tidy" /\ queued # <<>>)
  <2>1. CallsAreKept /\ LoopIsKept
    BY <1>4 DEF GoOn, MayPop, CallsAreKept, LoopIsKept, IInv, LoopIsTyped
  <2> QED
    BY <1>2, <2>1, LoopStaysTyped, QuietSteps
<1> QED
  BY <1>3, <1>4

LEMMA EndChannelStep ==
    ASSUME IInv, NEW x \in turns, EndChannel(x)
    PROVE  IInv' /\ Waiting' = Waiting
<1>1. CallsAreKept /\ LoopIsKept
  BY DEF EndChannel, CallsAreKept, LoopIsKept
<1> QED
  BY <1>1, LoopStaysTyped, QuietSteps DEF EndChannel, history

LEMMA EndCommandStep ==
    ASSUME IInv, NEW x \in turns, EndCommand(x)
    PROVE  IInv' /\ Waiting' = Waiting
<1>1. CallsAreKept /\ LoopIsTyped'
  BY DEF EndCommand, CallsAreKept, IInv, LoopIsTyped
<1> QED
  BY <1>1, QuietSteps DEF EndCommand, history

LEMMA UpdateFailsStep ==
    ASSUME IInv, NEW x \in turns, UpdateFails(x)
    PROVE  IInv' /\ Waiting' = Waiting
<1> DEFINE y == [x EXCEPT !.call = NoCall]
<1>1. Proper(x) /\ NoCall \in ToolCall
  BY ProperTurns, RunAssumption DEF NoCall, ToolCall
<1>2. Proper(y) /\ y.call = NoCall
  BY <1>1 DEF Proper, Turn
<1>3. CallsAreKept
  BY <1>2, TurnGoesOn DEF UpdateFails
<1>4. LoopIsTyped'
  BY DEF IInv, LoopIsTyped, UpdateFails, loopState
<1> QED
  BY <1>3, <1>4, QuietSteps DEF UpdateFails, history

LEMMA CheckStep ==
    ASSUME IInv, NEW x \in turns, NEW t \in Tasks, Check(x, t)
    PROVE  IInv' /\ Waiting' = Waiting
<1>1. CallsAreKept /\ LoopIsTyped'
  BY DEF Check, CallsAreKept, IInv, LoopIsTyped, loopState
<1> QED
  BY <1>1, QuietSteps DEF Check, history

-----------------------------------------------------------------------------
(* The consumer.                                                           *)

LEMMA Nothing ==
    About(<<>>) = {}
<1>1. DOMAIN <<>> = {}
  OBVIOUS
<1> QED
  BY <1>1 DEF About, Range

LEMMA AboutNotes ==
    ASSUME NEW q \in Seq(Notes)
    PROVE  About(q) \subseteq Completions
<1>1. Range(q) \subseteq Notes
  BY RangeOfSeq
<1> QED
  BY <1>1 DEF About, Completion, Completions, Notes

LEMMA AboutBoth ==
    ASSUME NEW q \in Seq(Notes), NEW p \in Seq(Notes)
    PROVE  q \o p \in Seq(Notes) /\ About(q \o p) = About(q) \cup About(p)
<1>1. q \o p \in Seq(Notes) /\ Range(q \o p) = Range(q) \cup Range(p)
  BY ConcatProperties, RangeConcatenation
<1> QED
  BY <1>1 DEF About

\* The consumer takes what waits in the queue of a session.
LEMMA Drained ==
    ASSUME IInv, NEW s \in Sessions,
           mail' = [mail EXCEPT ![s] = <<>>],
           consumer'.batch = consumer.batch \o mail[s],
           consumer.batch # <<>> => consumer.session = s,
           consumer'.batch # <<>> => consumer'.session = s,
           UNCHANGED <<home, watchers, aside, told>>
    PROVE  /\ mail' \in [Sessions -> Seq(Notes)] /\ consumer'.batch \in Seq(Notes)
           /\ AnnouncedOnce' /\ Waiting' = Waiting
<1>1. mail \in [Sessions -> Seq(Notes)] /\ consumer.batch \in Seq(Notes)
  BY DEF IInv, NotifierIsTyped, ConsumerIsTyped
<1>2. mail' \in [Sessions -> Seq(Notes)]
  BY <1>1
<1>3. /\ consumer'.batch \in Seq(Notes)
      /\ About(consumer'.batch) = About(consumer.batch) \cup About(mail[s])
  BY <1>1, AboutBoth
<1>4. \A z \in Sessions : About(mail'[z]) = IF z = s THEN {} ELSE About(mail[z])
  BY <1>1, Nothing
<1>5. Waiting' = Waiting
  <2>1. Waiting' = (UNION {About(mail'[z]) : z \in Sessions}) \cup About(consumer'.batch)
    BY DEF Waiting, About, Completion
  <2> QED
    BY <1>3, <1>4, <2>1 DEF Waiting
<1>6. /\ \A z \in Sessions : About(mail[z])' = About(mail'[z])
      /\ About(consumer.batch)' = About(consumer'.batch)
  BY DEF About, Completion
<1>7. \A c \in Completions :
          c \in Waiting' \/ c \in aside' \/ (\E z \in Sessions : <<c, z>> \in told')
             => watchers'[c].pc = "done"
  BY <1>5 DEF IInv, AnnouncedOnce
<1>8. \A z \in Sessions : \A c \in About(mail'[z]) : home'[c[1]] = z
  BY <1>4 DEF IInv, AnnouncedOnce
<1>9. ASSUME NEW c \in About(consumer'.batch)
      PROVE  /\ home'[c[1]] = consumer'.session
             /\ \A z \in Sessions : c \notin About(mail'[z])
  <2>1. consumer'.session = s
    BY <1>9, Nothing
  <2>2. CASE c \in About(mail[s])
    <3>1. home[c[1]] = s
      BY <2>2 DEF IInv, AnnouncedOnce
    <3>2. \A z \in Sessions : c \in About(mail[z]) => z = s
      BY <3>1 DEF IInv, AnnouncedOnce
    <3> QED
      BY <1>4, <2>1, <3>1, <3>2
  <2>3. CASE c \in About(consumer.batch)
    <3>1. consumer.session = s
      BY <2>3, Nothing
    <3> QED
      BY <1>4, <2>1, <2>3, <3>1 DEF IInv, AnnouncedOnce
  <2> QED
    BY <1>3, <1>9, <2>2, <2>3
<1>10. AnnouncedOnce'
  BY <1>6, <1>7, <1>8, <1>9 DEF AnnouncedOnce
<1> QED
  BY <1>2, <1>3, <1>5, <1>10

\* Steps of the consumer that leave the turns alone.
LEMMA ConsumerMoves ==
    ASSUME IInv, ConsumerIsTyped', AnnouncedOnce', Waiting' = Waiting,
           mail' \in [Sessions -> Seq(Notes)],
           UNCHANGED <<runs, home, watchers, registered, turns, loopState, known,
                       channel, inputs, crossed>>
    PROVE  IInv' /\ Waiting' = Waiting
<1>1. NotifierIsTyped' /\ LoopIsTyped'
  BY DEF IInv, NotifierIsTyped, LoopIsTyped, loopState
<1>2. TurnsAreTyped' /\ LaunchesAreNew' /\ NewestIsWatched'
  BY QuietTurns DEF CallsAreKept
<1> QED
  BY <1>1, <1>2 DEF IInv

LEMMA PollNotificationsStep ==
    ASSUME IInv, PollNotifications
    PROVE  IInv' /\ Waiting' = Waiting
<1>1. consumer' = [consumer EXCEPT !.pc = "scheduled"] /\ consumer.pc = "idle"
  BY DEF PollNotifications
<1>2. ConsumerIsTyped'
  BY <1>1 DEF IInv, ConsumerIsTyped
<1>3. MailIsKept
  BY <1>1 DEF PollNotifications, MailIsKept, notifier, history, IInv, ConsumerIsTyped
<1>4. AnnouncedOnce' /\ Waiting' = Waiting
  BY <1>3, QuietMail
<1>5. mail' \in [Sessions -> Seq(Notes)]
  BY <1>3 DEF MailIsKept, IInv, NotifierIsTyped
<1> QED
  BY <1>2, <1>4, <1>5, ConsumerMoves DEF PollNotifications, notifier, history

LEMMA ReadTasksStep ==
    ASSUME IInv, ReadTasks
    PROVE  IInv' /\ Waiting' = Waiting
<1>1. PICK seen \in SUBSET Tasks :
          consumer' = [consumer EXCEPT !.pc = "inject", !.seen = seen]
  BY DEF ReadTasks
<1>2. ConsumerIsTyped'
  BY <1>1 DEF IInv, ConsumerIsTyped, ReadTasks
<1>3. MailIsKept
  BY <1>1 DEF ReadTasks, MailIsKept, notifier, history, IInv, ConsumerIsTyped
<1>4. AnnouncedOnce' /\ Waiting' = Waiting
  BY <1>3, QuietMail
<1>5. mail' \in [Sessions -> Seq(Notes)]
  BY <1>3 DEF MailIsKept, IInv, NotifierIsTyped
<1> QED
  BY <1>2, <1>4, <1>5, ConsumerMoves DEF ReadTasks, notifier, history

LEMMA StartConsumingStep ==
    ASSUME IInv, StartConsuming
    PROVE  IInv' /\ Waiting' = Waiting
<1>1. /\ mail \in [Sessions -> Seq(Notes)] /\ current \in Sessions
      /\ mail[current] \in Seq(Notes)
      /\ consumer \in [pc : {"idle", "scheduled", "wait", "read", "inject"},
                       session : Sessions \cup {NoSession},
                       batch : Seq(Notes), seen : SUBSET Tasks]
      /\ consumer.batch = <<>>
  BY DEF IInv, NotifierIsTyped, LoopIsTyped, ConsumerIsTyped, StartConsuming
<1>2. /\ mail' = [mail EXCEPT ![current] = <<>>]
      /\ consumer' = IF mail[current] = <<>> THEN IdleConsumer
                     ELSE [consumer EXCEPT !.pc = "wait", !.session = current,
                                           !.batch = mail[current]]
  BY DEF StartConsuming
<1>3. /\ consumer'.batch = mail[current]
      /\ consumer'.batch # <<>> => consumer'.session = current
  BY <1>1, <1>2 DEF IdleConsumer
<1>4. consumer.batch \o mail[current] = mail[current]
  BY <1>1, ConcatEmptySeq
<1>5. UNCHANGED <<home, watchers, aside, told>>
  BY DEF StartConsuming, history
<1>6. /\ mail' \in [Sessions -> Seq(Notes)] /\ consumer'.batch \in Seq(Notes)
      /\ AnnouncedOnce' /\ Waiting' = Waiting
  BY <1>1, <1>2, <1>3, <1>4, <1>5, Drained
<1>7. ConsumerIsTyped'
  <2>1. IdleConsumer.seen = {}
    BY DEF IdleConsumer
  <2>2. CASE mail[current] = <<>>
    BY <1>1, <1>2, <2>2 DEF IdleConsumer, ConsumerIsTyped
  <2>3. CASE mail[current] # <<>>
    BY <1>1, <1>2, <2>3 DEF ConsumerIsTyped
  <2> QED
    BY <2>2, <2>3
<1> QED
  BY <1>6, <1>7, ConsumerMoves DEF StartConsuming, history

LEMMA DrainMoreStep ==
    ASSUME IInv, DrainMore
    PROVE  IInv' /\ Waiting' = Waiting
<1> DEFINE s == consumer.session
           both == consumer.batch \o mail[s]
<1>1. /\ mail \in [Sessions -> Seq(Notes)] /\ s \in Sessions
      /\ mail[s] \in Seq(Notes)
      /\ consumer \in [pc : {"idle", "scheduled", "wait", "read", "inject"},
                       session : Sessions \cup {NoSession},
                       batch : Seq(Notes), seen : SUBSET Tasks]
      /\ consumer.pc = "wait" /\ consumer.batch \in Seq(Notes)
  BY DEF IInv, NotifierIsTyped, ConsumerIsTyped, DrainMore
<1>2. /\ mail' = [mail EXCEPT ![s] = <<>>]
      /\ \/ consumer' = [consumer EXCEPT !.batch = both, !.pc = "read"]
         \/ consumer' = [consumer EXCEPT !.batch = both]
  <2>1. consumer.batch \o mail[consumer.session] = both
    OBVIOUS
  <2>2. /\ [consumer EXCEPT !.batch = @ \o mail[s], !.pc = "read"]
              = [consumer EXCEPT !.batch = both, !.pc = "read"]
        /\ [consumer EXCEPT !.batch = @ \o mail[s]] = [consumer EXCEPT !.batch = both]
    BY <1>1
  <2> QED
    BY <2>1, <2>2 DEF DrainMore, Drain
<1>3. both \in Seq(Notes)
  BY <1>1, ConcatProperties
<1>4. /\ consumer'.batch = both /\ consumer'.session = s
      /\ consumer'.pc \in {"wait", "read"} /\ consumer'.seen = consumer.seen
  BY <1>1, <1>2
<1>5. ConsumerIsTyped'
  <2> HIDE DEF both
  <2> QED
    BY <1>1, <1>2, <1>3 DEF ConsumerIsTyped
<1>6. UNCHANGED <<home, watchers, aside, told>>
  BY DEF DrainMore, history
<1>7. /\ mail' \in [Sessions -> Seq(Notes)] /\ AnnouncedOnce' /\ Waiting' = Waiting
  BY <1>1, <1>2, <1>4, <1>6, Drained
<1> QED
  BY <1>5, <1>7, ConsumerMoves DEF DrainMore, history

\* What the agent is told of, and what it knows already, leaves the batch.
LEMMA InjectStep ==
    ASSUME IInv, Inject
    PROVE  /\ IInv' /\ Waiting' = Waiting \ About(consumer.batch)
           /\ About(consumer.batch) \subseteq Waiting
           /\ \E seen \in SUBSET About(consumer.batch) :
                 /\ aside' = aside \cup seen
                 /\ told' = told \cup {<<c, home[c[1]]>> : c \in About(consumer.batch) \ seen}
<1> DEFINE batch == About(consumer.batch)
           seen == {c \in batch : c[1] \in consumer.seen}
           news == batch \ seen
           what == Telling(news)
           s == consumer.session
<1>1. /\ consumer.batch \in Seq(Notes) /\ s \in Sessions
      /\ mail \in [Sessions -> Seq(Notes)]
  BY DEF IInv, ConsumerIsTyped, NotifierIsTyped, Inject
<1>2. batch \subseteq Completions
  BY <1>1, AboutNotes
<1>3. /\ IF news = {} THEN UNCHANGED <<turns, busy, runTask, told>>
         ELSE /\ turns' = turns \cup {NewTurn(what, s)} /\ busy' = TRUE
              /\ runTask' = what /\ told' = told \cup {<<c, s>> : c \in news}
      /\ aside' = aside \cup seen /\ consumer' = IdleConsumer
      /\ UNCHANGED <<notifier, queued, prompt, current, known, channel, inputs, crossed>>
  BY DEF Inject, Target, FreeAfter
<1>4. \A c \in batch : home[c[1]] = s /\ \A z \in Sessions : c \notin About(mail[z])
  BY DEF IInv, AnnouncedOnce
<1>5. seen \subseteq batch /\ news \subseteq batch /\ news \subseteq Completions
  BY <1>2
<1>6. what \in Whats /\ what.kind # "command"
  BY <1>5, Numbers
<1> HIDE DEF batch, seen, news, what
<1>7. \A c : c \in Waiting <=> c \in batch \/ \E z \in Sessions : c \in About(mail[z])
  BY DEF Waiting, batch
<1>8. /\ \A z \in Sessions : About(mail[z])' = About(mail[z])
      /\ About(consumer.batch)' = {}
  <2>1. consumer'.batch = <<>> /\ mail' = mail
    BY <1>3 DEF IdleConsumer, notifier
  <2>2. About(consumer'.batch) = {}
    BY <2>1, Nothing
  <2>3. About(consumer.batch)' = About(consumer'.batch)
    BY DEF About, Completion
  <2> QED
    BY <2>1, <2>2, <2>3 DEF About, Completion
<1>9. \A c : c \in Waiting' <=> \E z \in Sessions : c \in About(mail[z])
  BY <1>8 DEF Waiting
<1>10. Waiting' = Waiting \ batch /\ batch \subseteq Waiting
  BY <1>4, <1>7, <1>9
<1>11. told' = told \cup {<<c, home[c[1]]>> : c \in news}
  BY <1>3, <1>4, <1>5
<1>12. \A c \in Completions :
          c \in Waiting' \/ c \in aside' \/ (\E z \in Sessions : <<c, z>> \in told')
             => watchers'[c].pc = "done"
  <2>1. \A c \in Completions :
          c \in Waiting \/ c \in aside \/ (\E z \in Sessions : <<c, z>> \in told)
             => watchers[c].pc = "done"
    BY DEF IInv, AnnouncedOnce
  <2>2. watchers' = watchers
    BY <1>3 DEF notifier
  <2>3. \A c \in Completions, z \in Sessions : <<c, z>> \in told'
            => <<c, z>> \in told \/ c \in news
    BY <1>11
  <2>4. \A c \in aside' : c \in aside \/ c \in batch
    BY <1>3, <1>5
  <2> QED
    BY <1>5, <1>10, <2>1, <2>2, <2>3, <2>4
<1>13. AnnouncedOnce'
  <2>1. home' = home
    BY <1>3 DEF notifier
  <2> QED
    BY <1>8, <1>12, <2>1 DEF IInv, AnnouncedOnce
<1>14. CallsAreKept
  <2>1. CASE turns' = turns
    BY <2>1 DEF CallsAreKept
  <2>2. CASE turns' = turns \cup {NewTurn(what, s)}
    BY <1>1, <1>6, <2>2, TurnBegins
  <2> QED
    BY <1>3, <2>1, <2>2
<1>15. TurnsAreTyped' /\ LaunchesAreNew' /\ NewestIsWatched'
  BY <1>3, <1>14, QuietTurns DEF notifier
<1>16. LoopIsTyped'
  BY <1>3, <1>6 DEF IInv, LoopIsTyped
<1>17. ConsumerIsTyped'
  <2>1. IdleConsumer \in [pc : {"idle", "scheduled", "wait", "read", "inject"},
                          session : Sessions \cup {NoSession},
                          batch : Seq(Notes), seen : SUBSET Tasks]
    BY EmptySeq DEF IdleConsumer
  <2> QED
    BY <1>3, <2>1 DEF ConsumerIsTyped, IdleConsumer
<1>18. NotifierIsTyped'
  BY <1>3 DEF IInv, NotifierIsTyped, notifier
<1>19. \E known_ \in SUBSET batch :
          /\ aside' = aside \cup known_
          /\ told' = told \cup {<<c, home[c[1]]>> : c \in batch \ known_}
  BY <1>3, <1>5, <1>11 DEF news
<1> QED
  BY <1>10, <1>13, <1>15, <1>16, <1>17, <1>18, <1>19 DEF IInv, batch

-----------------------------------------------------------------------------
(* Launching a run.                                                        *)

LEMMA NewRun ==
    ASSUME IInv, NEW t \in Tasks
    PROVE  /\ WithRun(t) \in Seq(Statuses) /\ Len(WithRun(t)) = Latest(t) + 1
           /\ \A r \in 1..Latest(t) :
                 Status(t, r) \in TERMINAL_STATUSES => WithRun(t)[r] = Status(t, r)
<1> DEFINE n == Latest(t) + 1
<1>1. Latest(t) \in Nat /\ \A r \in 1..Latest(t) : Status(t, r) \in Statuses
  BY Runs
<1>2. n \in Nat /\ Latest(t) <= n
  BY <1>1
<1>3. \A r \in 1..n : r > Latest(t) \/ r \in 1..Latest(t)
  BY <1>1
<1>4. WithRun(t) \in [1..n -> Statuses]
  BY <1>1, <1>3 DEF WithRun, Statuses, TERMINAL_STATUSES
<1>5. WithRun(t) \in Seq(Statuses)
  BY <1>2, <1>4, SeqDef
<1>6. DOMAIN WithRun(t) = 1..n /\ DOMAIN WithRun(t) = 1..Len(WithRun(t))
  BY <1>4, <1>5, LenProperties
<1>7. Len(WithRun(t)) = n
  BY <1>2, <1>4, <1>5, <1>6, LenProperties
<1>8. ASSUME NEW r \in 1..Latest(t), Status(t, r) \in TERMINAL_STATUSES
      PROVE  WithRun(t)[r] = Status(t, r)
  <2>1. r \in 1..(Latest(t) + 1) /\ ~(r > Latest(t)) /\ Status(t, r) # "running"
    BY <1>1, <1>8 DEF TERMINAL_STATUSES
  <2> QED
    BY <2>1 DEF WithRun
<1> QED
  BY <1>5, <1>7, <1>8

\* Watchers that have announced stay as they are, and so do homes.
LEMMA AnnouncementsStand ==
    ASSUME IInv, UNCHANGED <<mail, consumer, aside, told>>,
           \A c \in Completions : watchers[c].pc = "done" => watchers'[c].pc = "done",
           \A t \in Tasks : home[t] # NoSession => home'[t] = home[t]
    PROVE  AnnouncedOnce' /\ ConsumerIsTyped' /\ Waiting' = Waiting
<1>1. Waiting' = Waiting
  BY DEF Waiting, About, Completion
<1>2. /\ \A s \in Sessions : About(mail[s])' = About(mail[s])
      /\ About(consumer.batch)' = About(consumer.batch)
  BY DEF About, Completion
<1>3. /\ mail \in [Sessions -> Seq(Notes)] /\ consumer.batch \in Seq(Notes)
      /\ consumer.batch # <<>> => consumer.session \in Sessions
  BY DEF IInv, NotifierIsTyped, ConsumerIsTyped
<1>4. /\ \A s \in Sessions : About(mail[s]) \subseteq Completions
      /\ About(consumer.batch) \subseteq Completions
  BY <1>3, AboutNotes
<1>5. \A c \in Completions : c[1] \in Tasks
  BY DEF Completions
<1>6. ASSUME NEW s \in Sessions, NEW c \in About(mail[s])
      PROVE  home'[c[1]] = s
  <2>1. home[c[1]] = s
    BY DEF IInv, AnnouncedOnce
  <2> QED
    BY <1>4, <1>5, <2>1, SessionAssumption
<1>7. ASSUME NEW c \in About(consumer.batch)
      PROVE  home'[c[1]] = consumer.session
  <2>1. home[c[1]] = consumer.session
    BY DEF IInv, AnnouncedOnce
  <2>2. consumer.session \in Sessions
    BY <1>3, <1>7, Nothing
  <2> QED
    BY <1>4, <1>5, <2>1, <2>2, SessionAssumption
<1>8. AnnouncedOnce'
  BY <1>1, <1>2, <1>6, <1>7 DEF IInv, AnnouncedOnce
<1>9. ConsumerIsTyped'
  BY DEF IInv, ConsumerIsTyped
<1> QED
  BY <1>1, <1>8, <1>9

LEMMA DoneWatchers ==
    ASSUME NEW pc \in WatcherPlaces
    PROVE  /\ NoWatcher \in Watcher /\ [NoWatcher EXCEPT !.pc = pc] \in Watcher
           /\ [NoWatcher EXCEPT !.pc = pc].pc = pc
<1>1. 0 \in 0..MaxReconnects /\ FALSE \in BOOLEAN
  BY ReconnectAssumption
<1>2. NoWatcher \in Watcher
  <2>1. "none" \in WatcherPlaces
    BY DEF WatcherPlaces
  <2> QED
    BY <1>1, <2>1 DEF NoWatcher, Watcher
<1>3. [NoWatcher EXCEPT !.pc = pc] \in Watcher /\ [NoWatcher EXCEPT !.pc = pc].pc = pc
  BY <1>2 DEF Watcher
<1> QED
  BY <1>2, <1>3

\* Cancelling the watcher on the register leaves the task without one.
LEMMA CancelledWatchers ==
    ASSUME IInv, NEW t \in Tasks, NEW ws, ws = Cancelled(t, registered[t], watchers)
    PROVE  /\ ws \in [Completions -> Watcher]
           /\ \A c \in Completions :
                 \/ ws[c] = watchers[c]
                 \/ watchers[c].pc \in {"join", "get"} /\ ws[c].pc = "cancelled"
           /\ \A r \in RunIds : ws[<<t, r>>].pc \notin {"join", "get"}
<1>1. watchers \in [Completions -> Watcher] /\ registered[t] \in 0..MaxRuns
  BY DEF IInv, NotifierIsTyped
<1>2. \A r \in RunIds : watchers[<<t, r>>].pc \in {"join", "get"} => registered[t] = r
  BY DEF IInv, NewestIsWatched, Active
<1>3. [NoWatcher EXCEPT !.pc = "cancelled"] \in Watcher
      /\ [NoWatcher EXCEPT !.pc = "cancelled"].pc = "cancelled"
  BY DoneWatchers DEF WatcherPlaces
<1>4. registered[t] # 0 => registered[t] \in RunIds
  BY <1>1, RunAssumption DEF RunIds
<1>5. \A r \in RunIds : <<t, r>> \in Completions
  BY DEF Completions
<1>6. CASE registered[t] # 0 /\ watchers[<<t, registered[t]>>].pc \in {"join", "get"}
  <2>1. ws = [watchers EXCEPT ![<<t, registered[t]>>] =
                                  [NoWatcher EXCEPT !.pc = "cancelled"]]
    BY <1>6 DEF Cancelled
  <2>2. <<t, registered[t]>> \in Completions
    BY <1>4, <1>5, <1>6
  <2>3. /\ ws \in [Completions -> Watcher] /\ ws[<<t, registered[t]>>].pc = "cancelled"
        /\ \A c \in Completions : c # <<t, registered[t]>> => ws[c] = watchers[c]
    <3> HIDE DEF RunIds
    <3> QED
      BY <1>1, <1>3, <2>1, <2>2
  <2>4. ASSUME NEW r \in RunIds
        PROVE  ws[<<t, r>>].pc \notin {"join", "get"}
    BY <1>2, <1>5, <2>3
  <2>5. ASSUME NEW c \in Completions
        PROVE  \/ ws[c] = watchers[c]
               \/ watchers[c].pc \in {"join", "get"} /\ ws[c].pc = "cancelled"
    BY <1>6, <2>3
  <2> QED
    BY <2>3, <2>4, <2>5
<1>7. CASE ~(registered[t] # 0 /\ watchers[<<t, registered[t]>>].pc \in {"join", "get"})
  <2>1. ws = watchers
    BY <1>7 DEF Cancelled
  <2>2. \A r \in RunIds : watchers[<<t, r>>].pc \notin {"join", "get"}
    <3>1. \A r \in RunIds : r # 0
      BY DEF RunIds
    <3> QED
      BY <1>2, <1>7, <3>1
  <2> QED
    BY <1>1, <2>1, <2>2
<1> QED
  BY <1>6, <1>7

\* Turn x becomes y.
LEMMA TurnChanges ==
    ASSUME IInv, NEW x \in turns, NEW y, Proper(y), Becomes(x, y)
    PROVE  /\ TurnsAreTyped'
           /\ \A t \in Tasks :
                 ~(y.call.pc = "update" /\ y.call.task = t)
                 => /\ Cardinality(Updating(t)') \in Nat
                    /\ Cardinality(Updating(t)') <= Cardinality(Updating(t))
                    /\ x \in Updating(t)
                       => Cardinality(Updating(t)') <= Cardinality(Updating(t)) - 1
<1>1. IsFiniteSet(turns) /\ \A z \in turns : Proper(z)
  BY ProperTurns DEF IInv, TurnsAreTyped
<1>2. turns' = (turns \ {x}) \cup {y}
  BY DEF Becomes
<1>3. IsFiniteSet(turns')
  BY <1>1, <1>2, FS_AddElement, FS_RemoveElement
<1>4. TurnsAreTyped'
  BY <1>1, <1>2, <1>3 DEF TurnsAreTyped, Proper
<1>5. ASSUME NEW t \in Tasks, ~(y.call.pc = "update" /\ y.call.task = t)
      PROVE  /\ Cardinality(Updating(t)') \in Nat
             /\ Cardinality(Updating(t)') <= Cardinality(Updating(t))
             /\ x \in Updating(t)
                => Cardinality(Updating(t)') <= Cardinality(Updating(t)) - 1
  <2> DEFINE rest == Updating(t) \ {x}
  <2>1. Updating(t)' \subseteq rest
    BY <1>2, <1>5 DEF Updating
  <2>2. IsFiniteSet(Updating(t)) /\ Cardinality(Updating(t)) \in Nat
    BY Runs
  <2>3. /\ IsFiniteSet(rest)
        /\ Cardinality(rest) = IF x \in Updating(t) THEN Cardinality(Updating(t)) - 1
                               ELSE Cardinality(Updating(t))
    BY <2>2, FS_RemoveElement
  <2> HIDE DEF rest
  <2>4. IsFiniteSet(Updating(t)') /\ Cardinality(Updating(t)') <= Cardinality(rest)
    BY <2>1, <2>3, FS_Subset
  <2>5. Cardinality(Updating(t)') \in Nat /\ Cardinality(rest) \in Nat
    BY <2>3, <2>4, FS_CardinalityType
  <2> QED
    BY <2>2, <2>3, <2>4, <2>5
<1> QED
  BY <1>4, <1>5

LEMMA StartTaskStep ==
    ASSUME IInv, NEW x \in turns, NEW t \in Tasks, StartTask(x, t)
    PROVE  /\ IInv' /\ Waiting' = Waiting
           /\ \A z \in Tasks : /\ home[z] # NoSession => home'[z] = home[z]
                               /\ \A r \in 1..Latest(z) : Ended(z, r) => Ended(z, r)'
                               /\ Latest(z) <= Latest(z)'
<1> DEFINE call == [pc |-> "spawn", task |-> t, run |-> 1]
           y == [x EXCEPT !.call = call]
<1>1. /\ Proper(x) /\ x.pc = "run" /\ x.call = NoCall /\ x.session \in Sessions
      /\ home[t] = NoSession /\ home' = [home EXCEPT ![t] = x.session]
      /\ runs' = [runs EXCEPT ![t] = WithRun(t)] /\ Becomes(x, y)
      /\ UNCHANGED <<watchers, registered, mail, loopState, consumer, known,
                     channel, inputs, history>>
  BY ProperTurns DEF StartTask, Ready, Call, Proper
<1>2. /\ home \in [Tasks -> Sessions \cup {NoSession}]
      /\ runs \in [Tasks -> Seq(Statuses)] /\ watchers \in [Completions -> Watcher]
      /\ registered \in [Tasks -> 0..MaxRuns] /\ mail \in [Sessions -> Seq(Notes)]
  BY DEF IInv, NotifierIsTyped
<1>3. Latest(t) = 0 /\ x.session # NoSession
  BY <1>1, SessionAssumption DEF IInv, LaunchesAreNew
<1>4. WithRun(t) \in Seq(Statuses) /\ Len(WithRun(t)) = 1
  <2>1. WithRun(t) \in Seq(Statuses) /\ Len(WithRun(t)) = Latest(t) + 1
    BY NewRun
  <2>2. Latest(t) + 1 = 1
    BY <1>3
  <2> QED
    BY <2>1, <2>2
<1>5. /\ runs' \in [Tasks -> Seq(Statuses)] /\ home' \in [Tasks -> Sessions \cup {NoSession}]
      /\ runs'[t] = WithRun(t) /\ home'[t] = x.session
      /\ \A z \in Tasks : z # t => runs'[z] = runs[z] /\ home'[z] = home[z]
  BY <1>1, <1>2, <1>4
<1>6. NotifierIsTyped'
  BY <1>1, <1>2, <1>5 DEF NotifierIsTyped
<1>7. /\ Latest(t)' = 1
      /\ \A z \in Tasks : Latest(z) \in Nat /\ Latest(z) <= Latest(z)'
      /\ \A z \in Tasks : z # t => Latest(z)' = Latest(z)
  <2>1. \A z \in Tasks : Latest(z) \in Nat
    BY Runs
  <2>2. Latest(t)' = Len(runs'[t])
    BY DEF Latest
  <2>3. Latest(t)' = 1
    BY <1>4, <1>5, <2>2
  <2>4. \A z \in Tasks : z # t => Latest(z)' = Latest(z)
    BY <1>5 DEF Latest
  <2>5. ASSUME NEW z \in Tasks PROVE Latest(z) <= Latest(z)'
    <3>1. CASE z = t
      BY <1>3, <2>3, <3>1
    <3>2. CASE z # t
      BY <2>1, <2>4, <3>2
    <3> QED BY <3>1, <3>2
  <2> QED
    BY <2>1, <2>3, <2>4, <2>5
<1>8. /\ call \in ToolCall /\ Proper(y) /\ y.call = call /\ y.pc = "run"
      /\ call.pc = "spawn" /\ call.task = t /\ call.run = 1 /\ call # NoCall
  <2>1. call \in ToolCall
    BY RunAssumption DEF ToolCall
  <2>2. call.pc = "spawn" /\ call.task = t /\ call.run = 1 /\ call # NoCall
    BY DEF NoCall
  <2> HIDE DEF call
  <2> QED
    BY <1>1, <2>1, <2>2 DEF Proper, Turn
<1>9. \A z \in turns : z.call.pc # "none" => z.call.task \in Tasks /\ z.call.task # t
  BY <1>1, Calls DEF IInv, LaunchesAreNew
<1>10. turns' = (turns \ {x}) \cup {y}
  BY <1>1 DEF Becomes
<1> HIDE DEF call, y
<1>11. TurnsAreTyped' /\ \A z \in Tasks : /\ Cardinality(Updating(z)') \in Nat
                                          /\ Cardinality(Updating(z)') <= Cardinality(Updating(z))
  BY <1>1, <1>8, TurnChanges
<1>12. Cardinality(Updating(t)) = 0
  <2>1. Updating(t) = {}
    BY <1>9 DEF Updating
  <2> QED
    BY <2>1, FS_EmptySet
<1>13. \A r \in RunIds : watchers[<<t, r>>].pc = "none"
  <2>1. \A r \in RunIds : ~(r <= Latest(t))
    BY <1>3 DEF RunIds
  <2> QED
    BY <2>1 DEF IInv, LaunchesAreNew
<1>14. LaunchesAreNew'
  <2>1. ASSUME NEW z \in Tasks
        PROVE  /\ home'[z] = NoSession => Latest(z)' = 0
               /\ Latest(z)' + Cardinality(Updating(z)') <= MaxRuns
    <3>1. CASE z = t
      BY <1>1, <1>3, <1>5, <1>7, <1>11, <1>12, <3>1, RunAssumption
    <3>2. CASE z # t
      <4>1. home'[z] = NoSession => Latest(z)' = 0
        BY <1>5, <1>7, <3>2 DEF IInv, LaunchesAreNew
      <4>2. Latest(z) + Cardinality(Updating(z)) <= MaxRuns /\ Cardinality(Updating(z)) \in Nat
            /\ MaxRuns \in Nat
        BY Runs
      <4> QED
        BY <1>7, <1>11, <3>2, <4>1, <4>2
    <3> QED
      BY <3>1, <3>2
  <2>2. ASSUME NEW z \in turns', z.call.pc # "none"
        PROVE  /\ home'[z.call.task] # NoSession
               /\ z.call.pc = "spawn" =>
                     /\ z.call.run \in 1..Latest(z.call.task)'
                     /\ watchers'[<<z.call.task, z.call.run>>].pc = "none"
                     /\ \A w \in turns' : w.call = z.call => w = z
    <3>1. CASE z = y
      <4>1. \A w \in turns' : w.call = z.call => w = z
        BY <1>8, <1>9, <1>10, <3>1
      <4>2. 1 \in RunIds
        BY RunAssumption DEF RunIds
      <4> QED
        BY <1>1, <1>3, <1>5, <1>7, <1>8, <1>13, <3>1, <4>1, <4>2
    <3>2. CASE z # y
      <4>1. z \in turns
        BY <1>10, <3>2
      <4>2. z.call.task \in Tasks /\ z.call.task # t
        BY <1>9, <2>2, <4>1
      <4>3. /\ home[z.call.task] # NoSession
            /\ z.call.pc = "spawn" =>
                  /\ z.call.run \in 1..Latest(z.call.task)
                  /\ watchers[<<z.call.task, z.call.run>>].pc = "none"
                  /\ \A w \in turns : w.call = z.call => w = z
        BY <2>2, <4>1 DEF IInv, LaunchesAreNew
      <4>4. \A w \in turns' : w.call = z.call => w \in turns
        BY <1>8, <1>10, <4>2
      <4> QED
        BY <1>1, <1>5, <1>7, <4>2, <4>3, <4>4
    <3> QED
      BY <3>1, <3>2
  <2>3. ASSUME NEW z \in Tasks, NEW r \in RunIds, watchers'[<<z, r>>].pc # "none"
        PROVE  r <= Latest(z)'
    <3>1. z # t
      BY <1>1, <1>13, <2>3
    <3> QED
      BY <1>1, <1>7, <2>3, <3>1 DEF IInv, LaunchesAreNew
  <2> QED
    BY <2>1, <2>2, <2>3 DEF LaunchesAreNew
<1>15. NewestIsWatched'
  <2>1. \A z \in Tasks : registered'[z] <= Latest(z)'
    <3>1. \A z \in Tasks : registered[z] <= Latest(z) /\ registered[z] \in Nat
      BY <1>2 DEF IInv, NewestIsWatched
    <3>2. registered' = registered
      BY <1>1
    <3>3. \A z \in Tasks : Latest(z)' \in Nat
      BY <1>7
    <3> QED
      BY <1>3, <1>7, <3>1, <3>2, <3>3
  <2>2. \A z \in Tasks, r \in RunIds : Active(z, r)' => Active(z, r) /\ z # t
    BY <1>1, <1>13 DEF Active
  <2>3. \A z \in Tasks, r \in RunIds : Active(z, r)' => registered'[z] = r
    BY <1>1, <2>2 DEF IInv, NewestIsWatched
  <2>4. ASSUME NEW z \in Tasks \ crossed'
        PROVE  /\ \A r \in RunIds : Active(z, r)' => r = Latest(z)'
               /\ \A v \in Launching(z)' :
                     /\ registered'[z] = 0
                     /\ v.call.pc = "spawn" => v.call.run = Latest(z)'
                     /\ \A w \in Launching(z)' : w = v
    <3>1. z \in Tasks \ crossed
      BY <1>1, <2>4 DEF history
    <3>2. CASE z = t
      <4>1. \A v \in Launching(t)' : v = y
        BY <1>9, <1>10 DEF Launching
      <4>2. registered[t] = 0
        <5>1. registered[t] <= 0 /\ registered[t] \in Nat
          BY <1>2, <1>3 DEF IInv, NewestIsWatched
        <5> QED
          BY <5>1
      <4> QED
        BY <1>1, <1>7, <1>8, <2>2, <3>2, <4>1, <4>2
    <3>3. CASE z # t
      <4>1. Launching(z)' \subseteq Launching(z)
        BY <1>8, <1>10, <3>3 DEF Launching
      <4> QED
        BY <1>1, <1>7, <2>2, <3>1, <3>3, <4>1 DEF IInv, NewestIsWatched
    <3> QED
      BY <3>2, <3>3
  <2> QED
    BY <2>1, <2>3, <2>4 DEF NewestIsWatched
<1>16. AnnouncedOnce' /\ ConsumerIsTyped' /\ Waiting' = Waiting
  <2>1. \A z \in Tasks : home[z] # NoSession => home'[z] = home[z]
    BY <1>1, <1>5
  <2> QED
    BY <1>1, <2>1, AnnouncementsStand DEF history
<1>17. LoopIsTyped'
  BY <1>1 DEF IInv, LoopIsTyped, loopState
<1>18. ASSUME NEW z \in Tasks, NEW r \in 1..Latest(z), Ended(z, r)
       PROVE  Ended(z, r)'
  <2>1. z # t
    BY <1>3, <1>18
  <2> QED
    BY <1>5, <1>7, <1>18, <2>1 DEF Ended, Status
<1> QED
  BY <1>1, <1>5, <1>6, <1>7, <1>11, <1>14, <1>15, <1>16, <1>17, <1>18 DEF IInv

LEMMA UpdateTaskStep ==
    ASSUME IInv, NEW x \in turns, NEW t \in Tasks, UpdateTask(x, t)
    PROVE  IInv' /\ Waiting' = Waiting
<1> DEFINE call == [pc |-> "update", task |-> t, run |-> 0]
           y == [x EXCEPT !.call = call]
<1>1. /\ Proper(x) /\ x.pc = "run" /\ x.call = NoCall /\ x.session \in Sessions
      /\ home[t] = x.session /\ Latest(t) + Cardinality(Launching(t)) < MaxRuns
      /\ watchers' = Cancelled(t, registered[t], watchers)
      /\ registered' = [registered EXCEPT ![t] = 0] /\ Becomes(x, y)
      /\ crossed' = IF Launching(t) = {} THEN crossed ELSE crossed \cup {t}
      /\ UNCHANGED <<runs, home, mail, loopState, consumer, known, channel,
                     inputs, told, aside>>
  BY ProperTurns DEF UpdateTask, Ready, Call, Proper, PreCancel
<1>2. /\ home \in [Tasks -> Sessions \cup {NoSession}]
      /\ runs \in [Tasks -> Seq(Statuses)] /\ watchers \in [Completions -> Watcher]
      /\ registered \in [Tasks -> 0..MaxRuns] /\ mail \in [Sessions -> Seq(Notes)]
  BY DEF IInv, NotifierIsTyped
<1>3. /\ watchers' \in [Completions -> Watcher]
      /\ \A c \in Completions :
            \/ watchers'[c] = watchers[c]
            \/ watchers[c].pc \in {"join", "get"} /\ watchers'[c].pc = "cancelled"
      /\ \A r \in RunIds : watchers'[<<t, r>>].pc \notin {"join", "get"}
  BY <1>1, CancelledWatchers
<1>4. /\ registered' \in [Tasks -> 0..MaxRuns] /\ registered'[t] = 0
      /\ \A z \in Tasks : z # t => registered'[z] = registered[z]
  BY <1>1, <1>2, RunAssumption
<1>5. NotifierIsTyped'
  BY <1>1, <1>2, <1>3, <1>4 DEF NotifierIsTyped
<1>6. \A z \in Tasks : Latest(z)' = Latest(z) /\ Latest(z) \in Nat
  BY <1>1, Runs DEF Latest
<1>7. /\ Proper(y) /\ y.call = call /\ y.pc = "run"
      /\ call.pc = "update" /\ call.task = t /\ call # NoCall
  <2>1. call \in ToolCall
    BY RunAssumption DEF ToolCall
  <2>2. call.pc = "update" /\ call.task = t /\ call # NoCall
    BY DEF NoCall
  <2> HIDE DEF call
  <2> QED
    BY <1>1, <2>1, <2>2 DEF Proper, Turn
<1>8. turns' = (turns \ {x}) \cup {y}
  BY <1>1 DEF Becomes
<1>9. \A z \in turns : z.call.pc # "none" => z.call.task \in Tasks
  BY Calls
<1> HIDE DEF call, y
<1>10. /\ TurnsAreTyped'
       /\ \A z \in Tasks : z # t =>
             /\ Cardinality(Updating(z)') \in Nat
             /\ Cardinality(Updating(z)') <= Cardinality(Updating(z))
  BY <1>1, <1>7, TurnChanges
<1>11. /\ Cardinality(Updating(t)') \in Nat
       /\ Cardinality(Updating(t)') <= Cardinality(Launching(t)) + 1
       /\ Cardinality(Launching(t)) \in Nat
  <2>1. IsFiniteSet(Launching(t)) /\ Cardinality(Launching(t)) \in Nat
    <3>1. Launching(t) \subseteq turns /\ IsFiniteSet(turns)
      BY DEF Launching, IInv, TurnsAreTyped
    <3> QED
      BY <3>1, FS_Subset, FS_CardinalityType
  <2>2. /\ IsFiniteSet(Launching(t) \cup {y})
        /\ Cardinality(Launching(t) \cup {y}) =
              IF y \in Launching(t) THEN Cardinality(Launching(t))
              ELSE Cardinality(Launching(t)) + 1
    BY <2>1, FS_AddElement
  <2>3. Updating(t)' \subseteq Launching(t) \cup {y}
    BY <1>8 DEF Updating, Launching
  <2>4. /\ IsFiniteSet(Updating(t)')
        /\ Cardinality(Updating(t)') <= Cardinality(Launching(t) \cup {y})
    BY <2>2, <2>3, FS_Subset
  <2>5. Cardinality(Updating(t)') \in Nat
    BY <2>4, FS_CardinalityType
  <2> QED
    BY <2>1, <2>2, <2>4, <2>5
<1>12. LaunchesAreNew'
  <2>1. ASSUME NEW z \in Tasks
        PROVE  /\ home'[z] = NoSession => Latest(z)' = 0
               /\ Latest(z)' + Cardinality(Updating(z)') <= MaxRuns
    <3>1. home'[z] = NoSession => Latest(z)' = 0
      BY <1>1, <1>6 DEF IInv, LaunchesAreNew
    <3>2. CASE z = t
      BY <1>1, <1>6, <1>11, <3>1, <3>2, RunAssumption
    <3>3. CASE z # t
      <4>1. Latest(z) + Cardinality(Updating(z)) <= MaxRuns /\ Cardinality(Updating(z)) \in Nat
            /\ MaxRuns \in Nat
        BY Runs
      <4> QED
        BY <1>6, <1>10, <3>1, <3>3, <4>1
    <3> QED
      BY <3>2, <3>3
  <2>2. ASSUME NEW z \in turns', z.call.pc # "none"
        PROVE  /\ home'[z.call.task] # NoSession
               /\ z.call.pc = "spawn" =>
                     /\ z.call.run \in 1..Latest(z.call.task)'
                     /\ watchers'[<<z.call.task, z.call.run>>].pc = "none"
                     /\ \A w \in turns' : w.call = z.call => w = z
    <3>1. CASE z = y
      BY <1>1, <1>7, <3>1, SessionAssumption
    <3>2. CASE z # y
      <4>1. z \in turns /\ z.call.task \in Tasks
        BY <1>8, <1>9, <2>2, <3>2
      <4>2. /\ home[z.call.task] # NoSession
            /\ z.call.pc = "spawn" =>
                  /\ z.call.run \in 1..Latest(z.call.task)
                  /\ watchers[<<z.call.task, z.call.run>>].pc = "none"
                  /\ \A w \in turns : w.call = z.call => w = z
        BY <2>2, <4>1 DEF IInv, LaunchesAreNew
      <4>3. ASSUME z.call.pc = "spawn"
            PROVE  \A w \in turns' : w.call = z.call => w = z
        BY <1>7, <1>8, <4>2, <4>3
      <4>4. ASSUME z.call.pc = "spawn"
            PROVE  watchers'[<<z.call.task, z.call.run>>].pc = "none"
        <5>1. z.call.run \in RunIds
          <6>1. Latest(z.call.task) <= MaxRuns /\ Latest(z.call.task) \in Nat
            BY <4>1, Runs
          <6> QED
            BY <4>2, <4>4, <6>1, RunAssumption DEF RunIds
        <5>2. <<z.call.task, z.call.run>> \in Completions
          BY <4>1, <5>1 DEF Completions
        <5> QED
          BY <1>3, <4>2, <4>4, <5>2
      <4> QED
        BY <1>1, <1>6, <4>1, <4>2, <4>3, <4>4
    <3> QED
      BY <3>1, <3>2
  <2>3. ASSUME NEW z \in Tasks, NEW r \in RunIds, watchers'[<<z, r>>].pc # "none"
        PROVE  r <= Latest(z)'
    <3>1. <<z, r>> \in Completions
      BY DEF Completions
    <3>2. watchers[<<z, r>>].pc # "none"
      BY <1>3, <2>3, <3>1
    <3> QED
      BY <1>6, <3>2 DEF IInv, LaunchesAreNew
  <2> QED
    BY <2>1, <2>2, <2>3 DEF LaunchesAreNew
<1>13. NewestIsWatched'
  <2>1. \A z \in Tasks : registered'[z] <= Latest(z)'
    BY <1>4, <1>6 DEF IInv, NewestIsWatched
  <2>2. ASSUME NEW z \in Tasks, NEW r \in RunIds, Active(z, r)'
        PROVE  Active(z, r) /\ z # t
    <3>1. <<z, r>> \in Completions /\ watchers'[<<z, r>>].pc \in {"join", "get"}
      BY <2>2 DEF Completions, Active
    <3>2. watchers[<<z, r>>].pc \in {"join", "get"}
      BY <1>3, <3>1
    <3> QED
      BY <1>3, <3>1, <3>2 DEF Active
  <2>3. \A z \in Tasks, r \in RunIds : Active(z, r)' => registered'[z] = r
    BY <1>4, <2>2 DEF IInv, NewestIsWatched
  <2>4. ASSUME NEW z \in Tasks \ crossed'
        PROVE  /\ \A r \in RunIds : Active(z, r)' => r = Latest(z)'
               /\ \A v \in Launching(z)' :
                     /\ registered'[z] = 0
                     /\ v.call.pc = "spawn" => v.call.run = Latest(z)'
                     /\ \A w \in Launching(z)' : w = v
    <3>1. z \in Tasks \ crossed
      BY <1>1, <2>4
    <3>2. CASE z = t
      <4>1. Launching(t) = {}
        BY <1>1, <2>4, <3>2
      <4>2. \A v \in Launching(t)' : v = y
        BY <1>8, <4>1 DEF Launching
      <4> QED
        BY <1>4, <1>7, <2>2, <3>2, <4>2
    <3>3. CASE z # t
      <4>1. Launching(z)' \subseteq Launching(z)
        BY <1>7, <1>8, <3>3 DEF Launching
      <4> QED
        BY <1>4, <1>6, <2>2, <3>1, <3>3, <4>1 DEF IInv, NewestIsWatched
    <3> QED
      BY <3>2, <3>3
  <2> QED
    BY <2>1, <2>3, <2>4 DEF NewestIsWatched
<1>14. AnnouncedOnce' /\ ConsumerIsTyped' /\ Waiting' = Waiting
  <2>1. \A c \in Completions : watchers[c].pc = "done" => watchers'[c].pc = "done"
    BY <1>3
  <2> QED
    BY <1>1, <2>1, AnnouncementsStand
<1>15. LoopIsTyped'
  BY <1>1 DEF IInv, LoopIsTyped, loopState
<1> QED
  BY <1>5, <1>10, <1>12, <1>13, <1>14, <1>15 DEF IInv

LEMMA UpdatedStep ==
    ASSUME IInv, NEW x \in turns, Updated(x)
    PROVE  /\ IInv' /\ Waiting' = Waiting
           /\ \A z \in Tasks : /\ home[z] # NoSession => home'[z] = home[z]
                               /\ \A r \in 1..Latest(z) : Ended(z, r) => Ended(z, r)'
                               /\ Latest(z) <= Latest(z)'
<1> PICK t : t = x.call.task
  OBVIOUS
<1> DEFINE n == Latest(t) + 1
           call == [pc |-> "spawn", task |-> t, run |-> n]
           y == [x EXCEPT !.call = call]
<1>1. /\ Proper(x) /\ x.pc = "run" /\ x.call.pc = "update" /\ x.session \in Sessions
      /\ runs' = [runs EXCEPT ![t] = WithRun(t)] /\ Becomes(x, y)
      /\ UNCHANGED <<home, watchers, registered, mail, loopState, consumer,
                     known, channel, inputs, history>>
  BY ProperTurns DEF Updated, Call, Proper
<1>2. t \in Tasks
  BY <1>1, Calls
<1>3. /\ home \in [Tasks -> Sessions \cup {NoSession}]
      /\ runs \in [Tasks -> Seq(Statuses)] /\ watchers \in [Completions -> Watcher]
      /\ registered \in [Tasks -> 0..MaxRuns] /\ mail \in [Sessions -> Seq(Notes)]
  BY DEF IInv, NotifierIsTyped
<1>4. /\ WithRun(t) \in Seq(Statuses) /\ Len(WithRun(t)) = n
      /\ \A r \in 1..Latest(t) :
            Status(t, r) \in TERMINAL_STATUSES => WithRun(t)[r] = Status(t, r)
  BY <1>2, NewRun
<1>5. /\ runs' \in [Tasks -> Seq(Statuses)] /\ runs'[t] = WithRun(t)
      /\ \A z \in Tasks : z # t => runs'[z] = runs[z]
  BY <1>1, <1>2, <1>3, <1>4
<1>6. NotifierIsTyped'
  BY <1>1, <1>3, <1>5 DEF NotifierIsTyped
<1>7. /\ Latest(t)' = n /\ n = Latest(t) + 1
      /\ \A z \in Tasks : Latest(z) \in Nat /\ Latest(z) <= Latest(z)'
      /\ \A z \in Tasks : z # t => Latest(z)' = Latest(z)
  <2>1. \A z \in Tasks : Latest(z) \in Nat
    BY Runs
  <2>2. \A z \in Tasks : z # t => Latest(z)' = Latest(z)
    BY <1>5 DEF Latest
  <2>3. Latest(t)' = n
    BY <1>4, <1>5 DEF Latest
  <2> QED
    BY <1>2, <2>1, <2>2, <2>3
<1>8. \A z \in Tasks : /\ Cardinality(Updating(z)) \in Nat
                       /\ Latest(z) + Cardinality(Updating(z)) <= MaxRuns
                       /\ MaxRuns \in Nat
  BY Runs
<1>9. Cardinality(Updating(t)) >= 1 /\ x \in Updating(t)
  <2>1. x \in Updating(t) /\ IsFiniteSet(Updating(t))
    BY <1>1, <1>2, Runs DEF Updating
  <2>2. Cardinality(Updating(t)) # 0
    BY <2>1, FS_EmptySet
  <2> QED
    BY <1>2, <1>8, <2>1, <2>2
<1>10. n \in 1..MaxRuns /\ n \in Nat
  BY <1>2, <1>7, <1>8, <1>9
<1>11. /\ Proper(y) /\ y.call = call /\ y.pc = "run"
       /\ call.pc = "spawn" /\ call.task = t /\ call.run = n /\ call # NoCall
  <2> HIDE DEF n
  <2>1. call \in ToolCall
    BY <1>2, <1>10 DEF ToolCall
  <2>2. call.pc = "spawn" /\ call.task = t /\ call.run = n /\ call # NoCall
    BY DEF NoCall
  <2> HIDE DEF call
  <2> QED
    BY <1>1, <1>2, <2>1, <2>2 DEF Proper, Turn
<1>12. turns' = (turns \ {x}) \cup {y}
  BY <1>1 DEF Becomes
<1>13. \A z \in turns : z.call.pc # "none" => z.call.task \in Tasks
  BY Calls
<1> HIDE DEF call, y, n
<1>14. /\ TurnsAreTyped'
       /\ \A z \in Tasks : /\ Cardinality(Updating(z)') \in Nat
                           /\ Cardinality(Updating(z)') <= Cardinality(Updating(z))
       /\ Cardinality(Updating(t)') <= Cardinality(Updating(t)) - 1
  BY <1>1, <1>2, <1>9, <1>11, TurnChanges
<1>15. LaunchesAreNew'
  <2>1. ASSUME NEW z \in Tasks
        PROVE  /\ home'[z] = NoSession => Latest(z)' = 0
               /\ Latest(z)' + Cardinality(Updating(z)') <= MaxRuns
    <3>1. home[t] # NoSession
      BY <1>1, <1>2 DEF IInv, LaunchesAreNew
    <3>2. home'[z] = NoSession => Latest(z)' = 0
      BY <1>1, <1>7, <3>1 DEF IInv, LaunchesAreNew
    <3>3. CASE z = t
      BY <1>7, <1>8, <1>14, <3>2, <3>3
    <3>4. CASE z # t
      BY <1>7, <1>8, <1>14, <3>2, <3>4
    <3> QED
      BY <3>3, <3>4
  <2>2. ASSUME NEW z \in turns', z.call.pc # "none"
        PROVE  /\ home'[z.call.task] # NoSession
               /\ z.call.pc = "spawn" =>
                     /\ z.call.run \in 1..Latest(z.call.task)'
                     /\ watchers'[<<z.call.task, z.call.run>>].pc = "none"
                     /\ \A w \in turns' : w.call = z.call => w = z
    <3>1. ASSUME NEW v \in turns, v.call.pc = "spawn"
          PROVE  v.call # call
      <4>1. v.call.run \in 1..Latest(v.call.task)
        BY <3>1 DEF IInv, LaunchesAreNew
      <4> QED
        BY <1>2, <1>7, <1>11, <4>1
    <3>2. CASE z = y
      <4>1. home[t] # NoSession
        BY <1>1, <1>2 DEF IInv, LaunchesAreNew
      <4>2. watchers[<<t, n>>].pc = "none"
        <5>1. n \in RunIds /\ ~(n <= Latest(t))
          BY <1>2, <1>7, <1>10 DEF RunIds
        <5> QED
          BY <1>2, <5>1 DEF IInv, LaunchesAreNew
      <4>3. \A w \in turns' : w.call = z.call => w = z
        BY <1>11, <1>12, <3>1, <3>2
      <4> QED
        BY <1>1, <1>7, <1>10, <1>11, <3>2, <4>1, <4>2, <4>3
    <3>3. CASE z # y
      <4>1. z \in turns /\ z.call.task \in Tasks
        BY <1>12, <1>13, <2>2, <3>3
      <4>2. /\ home[z.call.task] # NoSession
            /\ z.call.pc = "spawn" =>
                  /\ z.call.run \in 1..Latest(z.call.task)
                  /\ watchers[<<z.call.task, z.call.run>>].pc = "none"
                  /\ \A w \in turns : w.call = z.call => w = z
        BY <2>2, <4>1 DEF IInv, LaunchesAreNew
      <4>3. ASSUME z.call.pc = "spawn"
            PROVE  \A w \in turns' : w.call = z.call => w = z
        BY <1>11, <1>12, <3>1, <4>1, <4>2, <4>3
      <4>4. Latest(z.call.task) <= Latest(z.call.task)' /\ Latest(z.call.task) \in Nat
            /\ Latest(z.call.task)' \in Nat
        BY <1>7, <1>10, <4>1
      <4> QED
        BY <1>1, <4>2, <4>3, <4>4
    <3> QED
      BY <3>2, <3>3
  <2>3. ASSUME NEW z \in Tasks, NEW r \in RunIds, watchers'[<<z, r>>].pc # "none"
        PROVE  r <= Latest(z)'
    <3>1. r <= Latest(z) /\ r \in Nat
      BY <1>1, <2>3 DEF IInv, LaunchesAreNew, RunIds
    <3> QED
      BY <1>7, <1>10, <3>1
  <2> QED
    BY <2>1, <2>2, <2>3 DEF LaunchesAreNew
<1>16. NewestIsWatched'
  <2>1. \A z \in Tasks : registered'[z] <= Latest(z)'
    <3>1. \A z \in Tasks : registered[z] <= Latest(z) /\ registered[z] \in Nat
      BY <1>3 DEF IInv, NewestIsWatched
    <3>2. registered' = registered
      BY <1>1
    <3>3. \A z \in Tasks : Latest(z)' \in Nat
      BY <1>7, <1>10
    <3> QED
      BY <1>7, <3>1, <3>2, <3>3
  <2>2. \A z \in Tasks, r \in RunIds : Active(z, r)' = Active(z, r)
    BY <1>1 DEF Active
  <2>3. \A z \in Tasks, r \in RunIds : Active(z, r)' => registered'[z] = r
    BY <1>1, <2>2 DEF IInv, NewestIsWatched
  <2>4. ASSUME NEW z \in Tasks \ crossed'
        PROVE  /\ \A r \in RunIds : Active(z, r)' => r = Latest(z)'
               /\ \A v \in Launching(z)' :
                     /\ registered'[z] = 0
                     /\ v.call.pc = "spawn" => v.call.run = Latest(z)'
                     /\ \A w \in Launching(z)' : w = v
    <3>1. z \in Tasks \ crossed /\ registered' = registered
      BY <1>1, <2>4 DEF history
    <3>2. CASE z = t
      <4>1. x \in Launching(t)
        BY <1>1 DEF Launching
      <4>2. registered[t] = 0 /\ \A v \in Launching(t) : v = x
        BY <3>1, <3>2, <4>1 DEF IInv, NewestIsWatched
      <4>3. \A v \in Launching(t)' : v = y
        BY <1>12, <4>2 DEF Launching
      <4>4. \A r \in RunIds : ~Active(t, r)
        BY <1>2, <4>2, RunAssumption DEF IInv, NewestIsWatched, RunIds
      <4> QED
        BY <1>7, <1>11, <2>2, <3>1, <3>2, <4>2, <4>3, <4>4
    <3>3. CASE z # t
      <4>1. Launching(z)' \subseteq Launching(z)
        BY <1>11, <1>12, <3>3 DEF Launching
      <4> QED
        BY <1>7, <2>2, <3>1, <3>3, <4>1 DEF IInv, NewestIsWatched
    <3> QED
      BY <3>2, <3>3
  <2> QED
    BY <2>1, <2>3, <2>4 DEF NewestIsWatched
<1>17. AnnouncedOnce' /\ ConsumerIsTyped' /\ Waiting' = Waiting
  BY <1>1, AnnouncementsStand DEF history
<1>18. LoopIsTyped'
  BY <1>1 DEF IInv, LoopIsTyped, loopState
<1>19. ASSUME NEW z \in Tasks, NEW r \in 1..Latest(z), Ended(z, r)
       PROVE  Ended(z, r)'
  <2>1. r <= Latest(z)'
    BY <1>7, <1>10, <1>19
  <2>2. Status(z, r)' = Status(z, r)
    BY <1>4, <1>5, <1>19 DEF Ended, Status
  <2> QED
    BY <1>19, <2>1, <2>2 DEF Ended
<1> QED
  BY <1>1, <1>6, <1>7, <1>14, <1>15, <1>16, <1>17, <1>18, <1>19 DEF IInv

LEMMA SpawnStep ==
    ASSUME IInv, NEW x \in turns, Spawn(x)
    PROVE  IInv' /\ Waiting' = Waiting
<1> PICK t, n : t = x.call.task /\ n = x.call.run
  OBVIOUS
<1> PICK ws : ws = Cancelled(t, registered[t], watchers)
  OBVIOUS
<1> DEFINE y == [x EXCEPT !.call = NoCall]
           new == [NoWatcher EXCEPT !.pc = "join"]
<1>1. /\ Proper(x) /\ x.pc = "run" /\ x.call.pc = "spawn"
      /\ watchers' = [ws EXCEPT ![<<t, n>>] = new]
      /\ registered' = [registered EXCEPT ![t] = n]
      /\ known' = [known EXCEPT ![t] = [run |-> n, ended |-> FALSE]]
      /\ Becomes(x, y)
      /\ UNCHANGED <<runs, home, mail, loopState, consumer, channel, inputs, history>>
  BY ProperTurns DEF Spawn, SpawnWatcher
<1>2. t \in Tasks
  BY <1>1, Calls
<1>3. /\ home \in [Tasks -> Sessions \cup {NoSession}]
      /\ runs \in [Tasks -> Seq(Statuses)] /\ watchers \in [Completions -> Watcher]
      /\ registered \in [Tasks -> 0..MaxRuns] /\ mail \in [Sessions -> Seq(Notes)]
      /\ known \in [Tasks -> [run : 0..MaxRuns, ended : BOOLEAN]]
  BY DEF IInv, NotifierIsTyped, LoopIsTyped
<1>4. /\ home[t] # NoSession /\ n \in 1..Latest(t)
      /\ watchers[<<t, n>>].pc = "none"
      /\ \A w \in turns : w.call = x.call => w = x
  BY <1>1 DEF IInv, LaunchesAreNew
<1>5. \A z \in Tasks : Latest(z)' = Latest(z) /\ Latest(z) \in Nat /\ Latest(z) <= MaxRuns
  BY <1>1, Runs DEF Latest
<1>6. n \in RunIds /\ n \in 0..MaxRuns /\ <<t, n>> \in Completions
  BY <1>2, <1>4, <1>5, RunAssumption DEF RunIds, Completions
<1>7. /\ ws \in [Completions -> Watcher]
      /\ \A c \in Completions :
            \/ ws[c] = watchers[c]
            \/ watchers[c].pc \in {"join", "get"} /\ ws[c].pc = "cancelled"
      /\ \A r \in RunIds : ws[<<t, r>>].pc \notin {"join", "get"}
  BY <1>2, CancelledWatchers
<1>8. new \in Watcher /\ new.pc = "join"
  BY DoneWatchers DEF WatcherPlaces
<1> HIDE DEF new
<1>9. /\ watchers' \in [Completions -> Watcher] /\ watchers'[<<t, n>>].pc = "join"
      /\ \A c \in Completions : c # <<t, n>> => watchers'[c] = ws[c]
  BY <1>1, <1>6, <1>7, <1>8
<1>10. /\ registered' \in [Tasks -> 0..MaxRuns] /\ registered'[t] = n
       /\ \A z \in Tasks : z # t => registered'[z] = registered[z]
  BY <1>1, <1>2, <1>3, <1>6
<1>11. NotifierIsTyped'
  BY <1>1, <1>3, <1>9, <1>10 DEF NotifierIsTyped
<1>12. Proper(y) /\ y.call = NoCall /\ NoCall.pc = "none"
  <2>1. NoCall \in ToolCall /\ NoCall.pc = "none"
    BY RunAssumption DEF NoCall, ToolCall
  <2> QED
    BY <1>1, <2>1 DEF Proper, Turn
<1>13. turns' = (turns \ {x}) \cup {y}
  BY <1>1 DEF Becomes
<1>14. \A z \in turns : z.call.pc # "none" => z.call.task \in Tasks
  BY Calls
<1> HIDE DEF y
<1>15. /\ TurnsAreTyped'
       /\ \A z \in Tasks : /\ Cardinality(Updating(z)') \in Nat
                           /\ Cardinality(Updating(z)') <= Cardinality(Updating(z))
  BY <1>1, <1>12, TurnChanges
<1>16. LaunchesAreNew'
  <2>1. ASSUME NEW z \in Tasks
        PROVE  /\ home'[z] = NoSession => Latest(z)' = 0
               /\ Latest(z)' + Cardinality(Updating(z)') <= MaxRuns
    <3>1. home'[z] = NoSession => Latest(z)' = 0
      BY <1>1, <1>5 DEF IInv, LaunchesAreNew
    <3>2. Latest(z) + Cardinality(Updating(z)) <= MaxRuns /\ Cardinality(Updating(z)) \in Nat
          /\ MaxRuns \in Nat
      BY Runs
    <3> QED
      BY <1>5, <1>15, <3>1, <3>2
  <2>2. ASSUME NEW z \in turns', z.call.pc # "none"
        PROVE  /\ home'[z.call.task] # NoSession
               /\ z.call.pc = "spawn" =>
                     /\ z.call.run \in 1..Latest(z.call.task)'
                     /\ watchers'[<<z.call.task, z.call.run>>].pc = "none"
                     /\ \A w \in turns' : w.call = z.call => w = z
    <3>1. z \in turns /\ z # x /\ z.call.task \in Tasks
      BY <1>12, <1>13, <1>14, <2>2
    <3>2. /\ home[z.call.task] # NoSession
          /\ z.call.pc = "spawn" =>
                /\ z.call.run \in 1..Latest(z.call.task)
                /\ watchers[<<z.call.task, z.call.run>>].pc = "none"
                /\ \A w \in turns : w.call = z.call => w = z
      BY <2>2, <3>1 DEF IInv, LaunchesAreNew
    <3>3. ASSUME z.call.pc = "spawn"
          PROVE  \A w \in turns' : w.call = z.call => w = z
      BY <1>12, <1>13, <3>2, <3>3
    <3>4. ASSUME z.call.pc = "spawn"
          PROVE  watchers'[<<z.call.task, z.call.run>>].pc = "none"
      <4>1. z.call.run \in RunIds /\ <<z.call.task, z.call.run>> \in Completions
        <5>1. Latest(z.call.task) <= MaxRuns /\ Latest(z.call.task) \in Nat
          BY <3>1, <1>5
        <5>2. z.call.run \in RunIds
          BY <3>2, <3>4, <5>1, RunAssumption DEF RunIds
        <5> QED
          BY <3>1, <5>2 DEF Completions
      <4>2. z.call \in ToolCall /\ x.call \in ToolCall
        BY <3>1, Calls
      <4>3. z.call.task # t \/ z.call.run # n
        <5>1. SUFFICES ASSUME z.call.task = t, z.call.run = n PROVE FALSE
          OBVIOUS
        <5>2. z.call = x.call
          BY <1>1, <3>4, <4>2, <5>1 DEF ToolCall
        <5> QED
          BY <1>4, <3>1, <5>2
      <4>4. watchers'[<<z.call.task, z.call.run>>] = ws[<<z.call.task, z.call.run>>]
        BY <1>9, <4>1, <4>3
      <4> QED
        BY <1>7, <3>2, <3>4, <4>1, <4>4
    <3> QED
      BY <1>1, <1>5, <3>1, <3>2, <3>3, <3>4
  <2>3. ASSUME NEW z \in Tasks, NEW r \in RunIds, watchers'[<<z, r>>].pc # "none"
        PROVE  r <= Latest(z)'
    <3>1. <<z, r>> \in Completions
      BY DEF Completions
    <3>2. CASE z = t /\ r = n
      BY <1>4, <1>5, <3>2
    <3>3. CASE ~(z = t /\ r = n)
      <4>1. watchers'[<<z, r>>] = ws[<<z, r>>]
        BY <1>9, <3>1, <3>3
      <4>2. watchers[<<z, r>>].pc # "none"
        BY <1>7, <2>3, <3>1, <4>1
      <4> QED
        BY <1>5, <4>2 DEF IInv, LaunchesAreNew
    <3> QED
      BY <3>2, <3>3
  <2> QED
    BY <2>1, <2>2, <2>3 DEF LaunchesAreNew
<1>17. NewestIsWatched'
  <2>1. \A z \in Tasks : registered'[z] <= Latest(z)'
    BY <1>4, <1>5, <1>10 DEF IInv, NewestIsWatched
  <2>2. ASSUME NEW z \in Tasks, NEW r \in RunIds, Active(z, r)'
        PROVE  (z = t /\ r = n) \/ (z # t /\ Active(z, r))
    <3>1. <<z, r>> \in Completions /\ watchers'[<<z, r>>].pc \in {"join", "get"}
      BY <2>2 DEF Completions, Active
    <3>2. CASE ~(z = t /\ r = n)
      <4>1. watchers'[<<z, r>>] = ws[<<z, r>>]
        BY <1>9, <3>1, <3>2
      <4>2. z # t
        BY <1>7, <3>1, <4>1
      <4>3. watchers[<<z, r>>].pc \in {"join", "get"}
        BY <1>7, <3>1, <4>1
      <4> QED
        BY <4>2, <4>3 DEF Active
    <3> QED
      BY <3>2
  <2>3. \A z \in Tasks, r \in RunIds : Active(z, r)' => registered'[z] = r
    BY <1>10, <2>2 DEF IInv, NewestIsWatched
  <2>4. ASSUME NEW z \in Tasks \ crossed'
        PROVE  /\ \A r \in RunIds : Active(z, r)' => r = Latest(z)'
               /\ \A v \in Launching(z)' :
                     /\ registered'[z] = 0
                     /\ v.call.pc = "spawn" => v.call.run = Latest(z)'
                     /\ \A w \in Launching(z)' : w = v
    <3>1. z \in Tasks \ crossed
      BY <1>1, <2>4 DEF history
    <3>2. CASE z = t
      <4>1. x \in Launching(t)
        BY <1>1 DEF Launching
      <4>2. n = Latest(t) /\ \A v \in Launching(t) : v = x
        BY <1>1, <3>1, <3>2, <4>1 DEF IInv, NewestIsWatched
      <4>3. Launching(t)' = {}
        BY <1>12, <1>13, <4>2 DEF Launching
      <4> QED
        BY <1>2, <1>5, <2>2, <3>2, <4>2, <4>3
    <3>3. CASE z # t
      <4>1. Launching(z)' \subseteq Launching(z)
        BY <1>12, <1>13, <3>3 DEF Launching
      <4> QED
        BY <1>5, <1>10, <2>2, <3>1, <3>3, <4>1 DEF IInv, NewestIsWatched
    <3> QED
      BY <3>2, <3>3
  <2> QED
    BY <2>1, <2>3, <2>4 DEF NewestIsWatched
<1>18. AnnouncedOnce' /\ ConsumerIsTyped' /\ Waiting' = Waiting
  <2>1. ASSUME NEW c \in Completions, watchers[c].pc = "done"
        PROVE  watchers'[c].pc = "done"
    <3>1. c # <<t, n>>
      BY <1>4, <2>1
    <3> QED
      BY <1>7, <1>9, <2>1, <3>1
  <2> QED
    BY <1>1, <2>1, AnnouncementsStand DEF history
<1>19. LoopIsTyped'
  <2>1. known' \in [Tasks -> [run : 0..MaxRuns, ended : BOOLEAN]]
    <3>1. [run |-> n, ended |-> FALSE] \in [run : 0..MaxRuns, ended : BOOLEAN]
      BY <1>6
    <3> QED
      BY <1>1, <1>3, <3>1
  <2> QED
    BY <1>1, <2>1 DEF IInv, LoopIsTyped, loopState
<1> QED
  BY <1>11, <1>15, <1>16, <1>17, <1>18, <1>19 DEF IInv

-----------------------------------------------------------------------------
(* Runs that end, and their watchers.                                      *)

LEMMA RunEndsStep ==
    ASSUME IInv, NEW t \in Tasks, RunEnds(t), Unchanged
    PROVE  /\ IInv' /\ Waiting' = Waiting
           /\ \A z \in Tasks : /\ home'[z] = home[z]
                               /\ \A r \in 1..Latest(z) : Ended(z, r) => Ended(z, r)'
                               /\ Latest(z) <= Latest(z)'
<1>1. PICK status \in {"success", "error"} :
          runs' = [runs EXCEPT ![t][Latest(t)] = status]
  BY DEF RunEnds
<1>2. /\ Latest(t) > 0 /\ Status(t, Latest(t)) = "running"
      /\ UNCHANGED <<home, watchers, registered, mail, turns, loopState, consumer,
                     known, channel, inputs, history>>
  BY DEF RunEnds, Unchanged
<1>3. /\ home \in [Tasks -> Sessions \cup {NoSession}]
      /\ runs \in [Tasks -> Seq(Statuses)] /\ watchers \in [Completions -> Watcher]
      /\ registered \in [Tasks -> 0..MaxRuns] /\ mail \in [Sessions -> Seq(Notes)]
  BY DEF IInv, NotifierIsTyped
<1>4. \A z \in Tasks : /\ runs[z] \in Seq(Statuses) /\ Latest(z) \in Nat
                       /\ Latest(z) + Cardinality(Updating(z)) <= MaxRuns
  BY Runs
<1> DEFINE q == [runs[t] EXCEPT ![Latest(t)] = status]
<1>5. /\ q \in Seq(Statuses) /\ Len(q) = Latest(t)
      /\ \A j \in 1..Latest(t) : q[j] = IF j = Latest(t) THEN status ELSE Status(t, j)
  <2>1. Latest(t) \in 1..Len(runs[t]) /\ status \in Statuses
    BY <1>2, <1>4 DEF Latest, Statuses, TERMINAL_STATUSES
  <2> QED
    BY <1>4, <2>1, ExceptSeq DEF Latest, Status
<1>6. runs' = [runs EXCEPT ![t] = q]
  BY <1>1
<1> HIDE DEF q
<1>7. /\ runs' \in [Tasks -> Seq(Statuses)] /\ runs'[t] = q
      /\ \A z \in Tasks : z # t => runs'[z] = runs[z]
  BY <1>3, <1>5, <1>6
<1>8. \A z \in Tasks : Latest(z)' = Latest(z)
  BY <1>5, <1>7 DEF Latest
<1>9. NotifierIsTyped' /\ LoopIsTyped' /\ TurnsAreTyped'
  BY <1>2, <1>3, <1>7 DEF IInv, NotifierIsTyped, LoopIsTyped, loopState, TurnsAreTyped
<1>10. LaunchesAreNew'
  <2>1. \A z \in Tasks : Updating(z)' = Updating(z)
    BY <1>2 DEF Updating
  <2>2. \A x \in turns : x.call.pc # "none" => x.call.task \in Tasks
    BY Calls
  <2>3. \A z \in Tasks : Latest(z)' + Cardinality(Updating(z)') <= MaxRuns
    BY <1>4, <1>8, <2>1
  <2>4. \A x \in turns :
            /\ x.call.pc # "none" => home[x.call.task] # NoSession
            /\ x.call.pc = "spawn" =>
                  /\ x.call.run \in 1..Latest(x.call.task)'
                  /\ watchers[<<x.call.task, x.call.run>>].pc = "none"
                  /\ \A y \in turns : y.call = x.call => y = x
    BY <1>8, <2>2 DEF IInv, LaunchesAreNew
  <2> QED
    BY <1>2, <1>8, <2>3, <2>4 DEF IInv, LaunchesAreNew
<1>11. NewestIsWatched'
  <2>1. \A z \in Tasks : /\ Launching(z)' = Launching(z)
                         /\ \A r \in RunIds : Active(z, r)' = Active(z, r)
    BY <1>2 DEF Launching, Active
  <2> QED
    BY <1>2, <1>8, <2>1 DEF IInv, NewestIsWatched, history
<1>12. AnnouncedOnce' /\ ConsumerIsTyped' /\ Waiting' = Waiting
  BY <1>2, AnnouncementsStand DEF history
<1>13. ASSUME NEW z \in Tasks, NEW r \in 1..Latest(z), Ended(z, r)
       PROVE  Ended(z, r)'
  <2>1. z # t \/ r # Latest(t)
    BY <1>2, <1>13 DEF Ended, TERMINAL_STATUSES
  <2>2. Status(z, r)' = Status(z, r)
    BY <1>5, <1>7, <1>13, <2>1 DEF Status
  <2> QED
    BY <1>8, <1>13, <2>2 DEF Ended
<1>14. \A z \in Tasks : Latest(z) <= Latest(z)'
  BY <1>4, <1>8
<1> QED
  BY <1>2, <1>9, <1>10, <1>11, <1>12, <1>13, <1>14 DEF IInv

LEMMA ActiveWatchers ==
    ASSUME IInv, NEW t \in Tasks, NEW r \in RunIds, Active(t, r)
    PROVE  /\ <<t, r>> \in Completions /\ watchers[<<t, r>>] \in Watcher
           /\ registered[t] = r /\ r <= Latest(t) /\ r \in 1..Latest(t)
           /\ home[t] \in Sessions /\ Status(t, r) \in Statuses
           /\ t \notin crossed => r = Latest(t)
<1>1. <<t, r>> \in Completions /\ watchers \in [Completions -> Watcher]
  BY DEF Completions, IInv, NotifierIsTyped
<1>2. registered[t] = r /\ (t \notin crossed => r = Latest(t))
  BY DEF IInv, NewestIsWatched
<1>3. Latest(t) \in Nat /\ \A q \in 1..Latest(t) : Status(t, q) \in Statuses
  BY Runs
<1>4. watchers[<<t, r>>].pc # "none"
  BY DEF Active
<1>5. r <= Latest(t)
  BY <1>4 DEF IInv, LaunchesAreNew
<1>6. r \in 1..Latest(t) /\ Latest(t) # 0
  BY <1>3, <1>5, RunAssumption DEF RunIds
<1>7. home[t] # NoSession
  BY <1>6 DEF IInv, LaunchesAreNew
<1>8. home[t] \in Sessions
  BY <1>7 DEF IInv, NotifierIsTyped
<1> QED
  BY <1>1, <1>2, <1>3, <1>5, <1>6, <1>8

\* The watcher of a run goes on, or leaves the register when it ends.
LEMMA WatcherMoves ==
    ASSUME IInv, NEW t \in Tasks, NEW r \in RunIds, Active(t, r),
           NEW w \in Watcher, w.pc # "none",
           watchers' = [watchers EXCEPT ![<<t, r>>] = w],
           \/ registered' = registered
           \/ /\ w.pc \notin {"join", "get"}
              /\ registered' = [registered EXCEPT ![t] = IF @ = r THEN 0 ELSE @],
           UNCHANGED <<runs, home, turns, crossed>>
    PROVE  /\ TurnsAreTyped' /\ LaunchesAreNew' /\ NewestIsWatched'
           /\ watchers' \in [Completions -> Watcher]
           /\ registered' \in [Tasks -> 0..MaxRuns]
           /\ watchers'[<<t, r>>] = w
           /\ \A c \in Completions : c # <<t, r>> => watchers'[c] = watchers[c]
<1>1. /\ <<t, r>> \in Completions /\ registered[t] = r
      /\ watchers \in [Completions -> Watcher] /\ registered \in [Tasks -> 0..MaxRuns]
  BY ActiveWatchers DEF IInv, NotifierIsTyped
<1>2. /\ watchers' \in [Completions -> Watcher] /\ watchers'[<<t, r>>] = w
      /\ \A c \in Completions : c # <<t, r>> => watchers'[c] = watchers[c]
  BY <1>1
<1>3. /\ registered' \in [Tasks -> 0..MaxRuns]
      /\ \A z \in Tasks : z # t => registered'[z] = registered[z]
      /\ registered'[t] = r \/ (registered'[t] = 0 /\ w.pc \notin {"join", "get"})
  BY <1>1, RunAssumption
<1>4. \A z \in Tasks : Latest(z)' = Latest(z) /\ Latest(z) \in Nat
  BY Runs DEF Latest
<1>5. TurnsAreTyped'
  BY DEF IInv, TurnsAreTyped
<1>6. \A z \in Tasks, q \in RunIds : <<z, q>> \in Completions
  BY DEF Completions
<1>7. LaunchesAreNew'
  <2>1. \A z \in Tasks : Updating(z)' = Updating(z)
    BY DEF Updating
  <2>2. \A x \in turns : x.call.pc # "none" => x.call.task \in Tasks
    BY Calls
  <2>3. ASSUME NEW x \in turns, x.call.pc = "spawn"
        PROVE  /\ x.call.run \in 1..Latest(x.call.task)'
               /\ watchers'[<<x.call.task, x.call.run>>].pc = "none"
               /\ \A y \in turns : y.call = x.call => y = x
    <3>1. /\ x.call.run \in 1..Latest(x.call.task)
          /\ watchers[<<x.call.task, x.call.run>>].pc = "none"
          /\ \A y \in turns : y.call = x.call => y = x
      BY <2>3 DEF IInv, LaunchesAreNew
    <3>2. <<x.call.task, x.call.run>> # <<t, r>>
      BY <3>1 DEF Active
    <3>3. <<x.call.task, x.call.run>> \in Completions
      <4>1. x.call.task \in Tasks
        BY <2>2, <2>3
      <4>2. Latest(x.call.task) <= MaxRuns /\ Latest(x.call.task) \in Nat
        BY <4>1, Runs
      <4>3. x.call.run \in RunIds
        BY <3>1, <4>2, RunAssumption DEF RunIds
      <4> QED
        BY <1>6, <4>1, <4>3
    <3> QED
      BY <1>2, <1>4, <2>2, <2>3, <3>1, <3>2, <3>3
  <2>4. ASSUME NEW z \in Tasks, NEW q \in RunIds, watchers'[<<z, q>>].pc # "none"
        PROVE  q <= Latest(z)'
    <3>1. CASE z = t /\ q = r
      BY <1>4, <3>1, ActiveWatchers
    <3>2. CASE ~(z = t /\ q = r)
      <4>1. watchers'[<<z, q>>] = watchers[<<z, q>>]
        BY <1>2, <1>6, <3>2
      <4> QED
        BY <1>4, <2>4, <4>1 DEF IInv, LaunchesAreNew
    <3> QED
      BY <3>1, <3>2
  <2>5. \A z \in Tasks : /\ home'[z] = NoSession => Latest(z)' = 0
                         /\ Latest(z)' + Cardinality(Updating(z)') <= MaxRuns
    BY <1>4, <2>1 DEF IInv, LaunchesAreNew
  <2>6. \A x \in turns : x.call.pc # "none" => home'[x.call.task] # NoSession
    BY DEF IInv, LaunchesAreNew
  <2> QED
    BY <2>3, <2>4, <2>5, <2>6 DEF LaunchesAreNew
<1>8. NewestIsWatched'
  <2>1. ASSUME NEW z \in Tasks, NEW q \in RunIds, Active(z, q)'
        PROVE  Active(z, q) /\ registered'[z] = q
    <3>1. watchers'[<<z, q>>].pc \in {"join", "get"}
      BY <2>1 DEF Active
    <3>2. CASE z = t /\ q = r
      BY <1>2, <1>3, <3>1, <3>2
    <3>3. CASE ~(z = t /\ q = r)
      <4>1. Active(z, q)
        BY <1>2, <1>6, <3>1, <3>3 DEF Active
      <4>2. registered[z] = q
        BY <4>1 DEF IInv, NewestIsWatched
      <4>3. z # t
        BY <1>1, <3>3, <4>2
      <4> QED
        BY <1>3, <4>1, <4>2, <4>3
    <3> QED
      BY <3>2, <3>3
  <2>2. \A z \in Tasks : registered'[z] <= Latest(z)'
    <3>1. \A z \in Tasks : registered'[z] = registered[z] \/ registered'[z] = 0
      BY <1>1, <1>3
    <3>2. \A z \in Tasks : registered[z] <= Latest(z)
      BY DEF IInv, NewestIsWatched
    <3> QED
      BY <1>4, <3>1, <3>2
  <2>3. ASSUME NEW z \in Tasks \ crossed'
        PROVE  /\ \A q \in RunIds : Active(z, q)' => q = Latest(z)'
               /\ \A v \in Launching(z)' :
                     /\ registered'[z] = 0
                     /\ v.call.pc = "spawn" => v.call.run = Latest(z)'
                     /\ \A y \in Launching(z)' : y = v
    <3>1. Launching(z)' = Launching(z) /\ z \in Tasks \ crossed
      BY <2>3 DEF Launching
    <3>2. registered[z] = 0 => registered'[z] = 0
      BY <1>1, <1>3
    <3> QED
      BY <1>4, <2>1, <3>1, <3>2 DEF IInv, NewestIsWatched
  <2> QED
    BY <2>1, <2>2, <2>3 DEF NewestIsWatched
<1> QED
  BY <1>2, <1>3, <1>5, <1>7, <1>8

\* Steps of a watcher that announce nothing.
LEMMA SilentWatcher ==
    ASSUME IInv, NEW t \in Tasks, NEW r \in RunIds, Unchanged,
           StreamCloses(t, r) \/ Rejoin(t, r) \/ GiveUp(t, r)
    PROVE  IInv' /\ Waiting' = Waiting
<1>1. /\ Active(t, r)
      /\ UNCHANGED <<runs, home, mail, turns, loopState, consumer, known, channel,
                     inputs, history>>
  BY DEF Active, StreamCloses, Rejoin, GiveUp, Unchanged
<1>2. /\ <<t, r>> \in Completions /\ watchers[<<t, r>>] \in Watcher
      /\ watchers \in [Completions -> Watcher]
  BY <1>1, ActiveWatchers DEF IInv, NotifierIsTyped
<1>3. PICK w \in Watcher :
        /\ w.pc \notin {"none", "done"}
        /\ watchers' = [watchers EXCEPT ![<<t, r>>] = w]
        /\ \/ registered' = registered
           \/ /\ w.pc \notin {"join", "get"}
              /\ registered' = [registered EXCEPT ![t] = IF @ = r THEN 0 ELSE @]
  <2>1. CASE StreamCloses(t, r)
    <3>1. PICK broken \in BOOLEAN :
              watchers' = [watchers EXCEPT ![<<t, r>>].pc = "get",
                                           ![<<t, r>>].broken = broken]
      BY <2>1 DEF StreamCloses
    <3> DEFINE w == [watchers[<<t, r>>] EXCEPT !.pc = "get", !.broken = broken]
    <3>2. w \in Watcher /\ w.pc = "get"
      BY <1>2 DEF Watcher, WatcherPlaces
    <3>3. watchers' = [watchers EXCEPT ![<<t, r>>] = w]
      BY <1>2, <3>1
    <3> QED
      BY <2>1, <3>2, <3>3 DEF StreamCloses
  <2>2. CASE Rejoin(t, r)
    <3> DEFINE w == [watchers[<<t, r>>] EXCEPT !.pc = "join", !.tries = @ + 1,
                                               !.broken = FALSE]
    <3>1. watchers[<<t, r>>].tries \in 0..MaxReconnects
          /\ watchers[<<t, r>>].tries < MaxReconnects
      BY <1>2, <2>2 DEF Watcher, Rejoin, MayRejoin
    <3>2. watchers[<<t, r>>].tries + 1 \in 0..MaxReconnects
      BY <3>1, ReconnectAssumption
    <3>3. w \in Watcher /\ w.pc = "join"
      BY <1>2, <3>2 DEF Watcher, WatcherPlaces
    <3>4. watchers' = [watchers EXCEPT ![<<t, r>>] = w]
      BY <1>2, <2>2 DEF Rejoin
    <3> QED
      BY <2>2, <3>3, <3>4 DEF Rejoin
  <2>3. CASE GiveUp(t, r)
    BY <2>3, DoneWatchers DEF GiveUp, Finished, WatcherPlaces
  <2> QED
    BY <2>1, <2>2, <2>3
<1>4. UNCHANGED <<runs, home, turns, crossed>>
  BY <1>1 DEF history
<1>5. /\ TurnsAreTyped' /\ LaunchesAreNew' /\ NewestIsWatched'
      /\ watchers' \in [Completions -> Watcher]
      /\ registered' \in [Tasks -> 0..MaxRuns]
      /\ watchers'[<<t, r>>] = w
      /\ \A c \in Completions : c # <<t, r>> => watchers'[c] = watchers[c]
  BY <1>1, <1>3, <1>4, WatcherMoves
<1>6. NotifierIsTyped' /\ LoopIsTyped'
  BY <1>1, <1>5 DEF IInv, NotifierIsTyped, LoopIsTyped, loopState
<1>7. AnnouncedOnce' /\ ConsumerIsTyped' /\ Waiting' = Waiting
  <2>1. ASSUME NEW c \in Completions, watchers[c].pc = "done"
        PROVE  watchers'[c].pc = "done"
    BY <1>1, <1>5, <2>1 DEF Active
  <2> QED
    BY <1>1, <2>1, AnnouncementsStand DEF history
<1> QED
  BY <1>5, <1>6, <1>7 DEF IInv

\* A watcher announces the end of its run, which nobody has announced before.
LEMMA WatcherReports ==
    ASSUME IInv, NEW t \in Tasks, NEW r \in RunIds, Unchanged,
           SeesError(t, r) \/ RunHasEnded(t, r)
    PROVE  /\ IInv' /\ Waiting' = Waiting \cup {<<t, r>>}
           /\ <<t, r>> \in Completions /\ <<t, r>> \notin Waiting \cup aside
           /\ \A s \in Sessions : <<<<t, r>>, s>> \notin told
           /\ Ended(t, r) /\ (t \notin crossed => r = Latest(t))
           /\ UNCHANGED <<runs, home, aside, told>>
<1>1. /\ Active(t, r)
      /\ UNCHANGED <<runs, home, turns, loopState, consumer, known, channel,
                     inputs, history>>
  BY DEF Active, SeesError, RunHasEnded, Unchanged
<1> PICK s : s = home[t]
  OBVIOUS
<1>2. /\ <<t, r>> \in Completions /\ r <= Latest(t)
      /\ s \in Sessions /\ Status(t, r) \in Statuses
      /\ watchers \in [Completions -> Watcher] /\ mail \in [Sessions -> Seq(Notes)]
      /\ t \notin crossed => r = Latest(t)
  BY <1>1, ActiveWatchers DEF IInv, NotifierIsTyped
<1>3. PICK status \in TERMINAL_STATUSES : Report(t, r, status)
  <2>1. CASE SeesError(t, r)
    BY <2>1 DEF SeesError, TERMINAL_STATUSES
  <2>2. CASE RunHasEnded(t, r)
    <3>1. Verified(t, r) \in TERMINAL_STATUSES
      BY <2>2 DEF RunHasEnded, Ended, Verified, TERMINAL_STATUSES
    <3> QED
      BY <2>2, <3>1 DEF RunHasEnded
  <2> QED
    BY <2>1, <2>2
<1>4. Ended(t, r)
  BY <1>2 DEF SeesError, RunHasEnded, Ended, TERMINAL_STATUSES
<1> DEFINE note == [task |-> t, run |-> r, status |-> status]
           w == [NoWatcher EXCEPT !.pc = "done"]
<1>5. note \in Notes /\ Completion(note) = <<t, r>>
  BY DEF Notes, Completion
<1>6. w \in Watcher /\ w.pc = "done"
  BY DoneWatchers DEF WatcherPlaces
<1>7. /\ mail' = [mail EXCEPT ![s] = Append(mail[s], note)]
      /\ watchers' = [watchers EXCEPT ![<<t, r>>] = w]
      /\ registered' = [registered EXCEPT ![t] = IF @ = r THEN 0 ELSE @]
  BY <1>2, <1>3 DEF Report, Finished
<1> HIDE DEF note, w
<1>8. UNCHANGED <<runs, home, turns, crossed>>
  BY <1>1 DEF history
<1>9. /\ TurnsAreTyped' /\ LaunchesAreNew' /\ NewestIsWatched'
      /\ watchers' \in [Completions -> Watcher]
      /\ registered' \in [Tasks -> 0..MaxRuns]
      /\ watchers'[<<t, r>>] = w
      /\ \A c \in Completions : c # <<t, r>> => watchers'[c] = watchers[c]
  BY <1>1, <1>6, <1>7, <1>8, WatcherMoves
<1>10. /\ Append(mail[s], note) \in Seq(Notes)
       /\ About(Append(mail[s], note)) = About(mail[s]) \cup {<<t, r>>}
  <2>1. mail[s] \in Seq(Notes) /\ <<note>> \in Seq(Notes)
    BY <1>2, <1>5
  <2>2. Append(mail[s], note) = mail[s] \o <<note>>
    BY <1>5, <2>1, AppendIsConcat
  <2>3. About(<<note>>) = {<<t, r>>}
    <3>1. Range(<<note>>) = {note}
      BY DEF Range
    <3> QED
      BY <1>5, <3>1 DEF About
  <2> QED
    BY <2>1, <2>2, <2>3, AboutBoth
<1>11. /\ mail' \in [Sessions -> Seq(Notes)]
       /\ \A z \in Sessions :
             About(mail'[z]) = IF z = s THEN About(mail[z]) \cup {<<t, r>>}
                               ELSE About(mail[z])
  BY <1>2, <1>7, <1>10
<1>12. /\ \A z \in Sessions : About(mail[z])' = About(mail'[z])
       /\ About(consumer.batch)' = About(consumer.batch)
  BY <1>1 DEF About, Completion
<1>13. Waiting' = Waiting \cup {<<t, r>>}
  <2>1. \A c : c \in Waiting <=> \/ c \in About(consumer.batch)
                                 \/ \E z \in Sessions : c \in About(mail[z])
    BY DEF Waiting
  <2>2. \A c : c \in Waiting' <=> \/ c \in About(consumer.batch)
                                  \/ \E z \in Sessions : c \in About(mail'[z])
    BY <1>12 DEF Waiting
  <2> QED
    BY <1>2, <1>11, <2>1, <2>2
<1>14. /\ <<t, r>> \notin Waiting \cup aside
       /\ \A z \in Sessions : <<<<t, r>>, z>> \notin told
  <2>1. watchers[<<t, r>>].pc # "done"
    BY <1>1 DEF Active
  <2>2. \/ <<t, r>> \in Waiting \/ <<t, r>> \in aside
        \/ \E z \in Sessions : <<<<t, r>>, z>> \in told
        => watchers[<<t, r>>].pc = "done"
    <3>1. \A c \in Completions :
             c \in Waiting \/ c \in aside \/ (\E z \in Sessions : <<c, z>> \in told)
                => watchers[c].pc = "done"
      BY DEF IInv, AnnouncedOnce
    <3> QED
      BY <1>2, <3>1
  <2> QED
    BY <2>1, <2>2
<1>15. NotifierIsTyped' /\ LoopIsTyped' /\ ConsumerIsTyped'
  BY <1>1, <1>9, <1>11
     DEF IInv, NotifierIsTyped, LoopIsTyped, loopState, ConsumerIsTyped
<1>16. AnnouncedOnce'
  <2>1. ASSUME NEW c \in Completions,
               \/ c \in Waiting' \/ c \in aside'
               \/ \E z \in Sessions : <<c, z>> \in told'
        PROVE  watchers'[c].pc = "done"
    <3>1. CASE c = <<t, r>>
      BY <1>6, <1>9, <3>1
    <3>2. CASE c # <<t, r>>
      <4>1. \/ c \in Waiting \/ c \in aside
            \/ \E z \in Sessions : <<c, z>> \in told
        BY <1>1, <1>13, <2>1, <3>2 DEF history
      <4>2. watchers[c].pc = "done"
        BY <4>1 DEF IInv, AnnouncedOnce
      <4> QED
        BY <1>9, <3>2, <4>2
    <3> QED
      BY <3>1, <3>2
  <2>2. ASSUME NEW z \in Sessions, NEW c \in About(mail'[z])
        PROVE  home[c[1]] = z
    <3>1. CASE c \in About(mail[z])
      BY <3>1 DEF IInv, AnnouncedOnce
    <3>2. CASE c = <<t, r>> /\ z = s
      BY <3>2
    <3> QED
      BY <1>11, <2>2, <3>1, <3>2
  <2>3. ASSUME NEW c \in About(consumer.batch)
        PROVE  /\ home[c[1]] = consumer.session
               /\ \A z \in Sessions : c \notin About(mail'[z])
    <3>1. c # <<t, r>>
      BY <1>14 DEF Waiting
    <3> QED
      BY <1>11, <3>1 DEF IInv, AnnouncedOnce
  <2>4. home' = home /\ consumer' = consumer
    BY <1>1
  <2> QED
    BY <1>12, <2>1, <2>2, <2>3, <2>4 DEF AnnouncedOnce
<1> QED
  BY <1>1, <1>2, <1>4, <1>9, <1>13, <1>14, <1>15, <1>16 DEF IInv, history

-----------------------------------------------------------------------------
(* What a step does to completions.                                        *)

\* Nothing is announced; what has ended has ended, and a home is for good.
Elsewhere ==
    /\ Waiting' = Waiting /\ UNCHANGED <<aside, told>>
    /\ \A t \in Tasks : /\ home[t] # NoSession => home'[t] = home[t]
                        /\ \A r \in 1..Latest(t) : Ended(t, r) => Ended(t, r)'
\* A watcher announces the run that it watches.
Announces(t, r) ==
    /\ Waiting' = Waiting \cup {<<t, r>>} /\ <<t, r>> \in Completions
    /\ <<t, r>> \notin Waiting \cup aside
    /\ \A s \in Sessions : <<<<t, r>>, s>> \notin told
    /\ Ended(t, r) /\ (t \notin crossed => r = Latest(t))
    /\ UNCHANGED <<runs, home, aside, told>>
\* The agent is told of a batch, or knows.
Settles ==
    /\ Waiting' = Waiting \ About(consumer.batch) /\ About(consumer.batch) \subseteq Waiting
    /\ \E seen \in SUBSET About(consumer.batch) :
          /\ aside' = aside \cup seen
          /\ told' = told \cup {<<c, home[c[1]]>> : c \in About(consumer.batch) \ seen}
    /\ UNCHANGED <<runs, home>>

LEMMA NothingHappens ==
    ASSUME IInv, Waiting' = Waiting, UNCHANGED <<runs, home, aside, told>>
    PROVE  Elsewhere
<1>1. \A t \in Tasks : \A r \in 1..Latest(t) : Ended(t, r) => Ended(t, r)'
  BY DEF Ended, Status, Latest
<1> QED
  BY <1>1 DEF Elsewhere

LEMMA EveryStep ==
    ASSUME IInv, [Next]_vars
    PROVE  IInv' /\ (Elsewhere \/ Settles \/ \E t \in Tasks, r \in RunIds : Announces(t, r))
<1>1. CASE Type
  <2>1. UNCHANGED <<runs, home, aside, told>>
    BY <1>1 DEF Type, notifier, history
  <2> QED
    BY <1>1, <2>1, TypeStep, NothingHappens
<1>2. CASE Order
  <2>1. UNCHANGED <<runs, home, aside, told>>
    BY <1>2 DEF Order, notifier, history
  <2> QED
    BY <1>2, <2>1, OrderStep, NothingHappens
<1>3. CASE Interrupt
  <2>1. UNCHANGED <<runs, home, aside, told>>
    BY <1>3 DEF Interrupt, notifier, history
  <2> QED
    BY <1>3, <2>1, InterruptStep, NothingHappens
<1>4. CASE ChannelSends
  <2>1. UNCHANGED <<runs, home, aside, told>>
    BY <1>4 DEF ChannelSends, notifier, history
  <2> QED
    BY <1>4, <2>1, ChannelSendsStep, NothingHappens
<1>5. CASE PollStep
  <2>1. UNCHANGED <<runs, home, aside, told>>
    BY <1>5 DEF PollStep, PollChannel, PollNotifications, notifier, history
  <2>2. IInv' /\ Waiting' = Waiting
    BY <1>5, PollChannelStep, PollNotificationsStep DEF PollStep
  <2> QED
    BY <2>1, <2>2, NothingHappens
<1>6. CASE ConsumerStep
  <2>1. CASE StartConsuming \/ DrainMore \/ ReadTasks
    <3>1. UNCHANGED <<runs, home, aside, told>>
      BY <2>1 DEF StartConsuming, DrainMore, ReadTasks, notifier, history
    <3>2. IInv' /\ Waiting' = Waiting
      BY <2>1, StartConsumingStep, DrainMoreStep, ReadTasksStep
    <3> QED
      BY <3>1, <3>2, NothingHappens
  <2>2. CASE Inject
    <3>1. UNCHANGED <<runs, home>>
      BY <2>2 DEF Inject, notifier
    <3> QED
      BY <2>2, <3>1, InjectStep DEF Settles
  <2> QED
    BY <1>6, <2>1, <2>2 DEF ConsumerStep
<1>7. ASSUME NEW x \in turns, TurnStep(x)
      PROVE  IInv' /\ Elsewhere
  <2>1. CASE Updated(x)
    BY <2>1, UpdatedStep DEF Elsewhere, Updated, history
  <2>2. CASE ~Updated(x)
    <3>1. UNCHANGED <<runs, home, aside, told>>
      BY <1>7, <2>2
         DEF TurnStep, Start, Open, EndMessage, GoOn, EndChannel, EndCommand,
             UpdateFails, Spawn, notifier, history
    <3>2. IInv' /\ Waiting' = Waiting
      BY <1>7, <2>2, StartStep, OpenStep, EndMessageStep, GoOnStep, EndChannelStep,
         EndCommandStep, UpdateFailsStep, SpawnStep DEF TurnStep
    <3> QED
      BY <3>1, <3>2, NothingHappens
  <2> QED
    BY <2>1, <2>2
<1>8. ASSUME NEW x \in turns, NEW t \in Tasks,
             StartTask(x, t) \/ UpdateTask(x, t) \/ Check(x, t)
      PROVE  IInv' /\ Elsewhere
  <2>1. CASE StartTask(x, t)
    BY <2>1, StartTaskStep DEF Elsewhere, StartTask, history
  <2>2. CASE UpdateTask(x, t) \/ Check(x, t)
    <3>1. UNCHANGED <<runs, home, aside, told>>
      BY <2>2 DEF UpdateTask, Check, notifier, history
    <3>2. IInv' /\ Waiting' = Waiting
      BY <2>2, UpdateTaskStep, CheckStep
    <3> QED
      BY <3>1, <3>2, NothingHappens
  <2> QED
    BY <1>8, <2>1, <2>2
<1>9. ASSUME NEW t \in Tasks, RunEnds(t), Unchanged
      PROVE  IInv' /\ Elsewhere
  BY <1>9, RunEndsStep DEF Elsewhere, Unchanged, history
<1>10. ASSUME NEW t \in Tasks, NEW r \in RunIds, WatcherStep(t, r), Unchanged
       PROVE  IInv' /\ (Elsewhere \/ Announces(t, r))
  <2>1. CASE SeesError(t, r) \/ RunHasEnded(t, r)
    BY <1>10, <2>1, WatcherReports DEF Announces
  <2>2. CASE StreamCloses(t, r) \/ Rejoin(t, r) \/ GiveUp(t, r)
    <3>1. UNCHANGED <<runs, home, aside, told>>
      BY <1>10, <2>2 DEF StreamCloses, Rejoin, GiveUp, Unchanged, history
    <3> QED
      BY <1>10, <2>2, <3>1, SilentWatcher, NothingHappens
  <2> QED
    BY <1>10, <2>1, <2>2 DEF WatcherStep
<1>11. CASE UNCHANGED vars
  <2>1. UNCHANGED <<notifier, consumer, crossed, aside, told>> /\ CallsAreKept
    BY <1>11 DEF vars, CallsAreKept
  <2>2. LoopIsTyped'
    BY <1>11 DEF vars, IInv, LoopIsTyped
  <2>3. UNCHANGED <<runs, home, aside, told>>
    BY <2>1 DEF notifier
  <2> QED
    BY <2>1, <2>2, <2>3, QuietSteps, NothingHappens
<1> QED
  BY <1>1, <1>2, <1>3, <1>4, <1>5, <1>6, <1>7, <1>8, <1>9, <1>10, <1>11
     DEF Next, ToolStep

-----------------------------------------------------------------------------
(* The theorems.                                                           *)

LEMMA InitiallyNothing ==
    ASSUME Init
    PROVE  IInv /\ Waiting = {} /\ aside = {} /\ told = {}
           /\ \A t \in Tasks : home[t] = NoSession /\ Latest(t) = 0
<1>1. /\ runs = [t \in Tasks |-> <<>>] /\ home = [t \in Tasks |-> NoSession]
      /\ watchers = [c \in Completions |-> NoWatcher]
      /\ registered = [t \in Tasks |-> 0] /\ mail = [s \in Sessions |-> <<>>]
      /\ turns = {} /\ queued = <<>> /\ channel = <<>> /\ consumer = IdleConsumer
      /\ busy = FALSE /\ prompt = TRUE /\ current = FirstSession /\ runTask = NoTurn
      /\ known = [t \in Tasks |-> [run |-> 0, ended |-> FALSE]]
      /\ inputs = [typed |-> 0, channel |-> 0, commands |-> 0, interrupts |-> 0]
      /\ told = {} /\ aside = {}
  BY DEF Init, InitNotifier
<1>2. \A t \in Tasks : home[t] = NoSession /\ Latest(t) = 0
  BY <1>1, EmptySeq DEF Latest
<1>3. NoWatcher \in Watcher /\ NoWatcher.pc = "none"
  BY DoneWatchers DEF NoWatcher, WatcherPlaces
<1>4. NotifierIsTyped
  BY <1>1, <1>3, EmptySeq, RunAssumption DEF NotifierIsTyped
<1>5. ConsumerIsTyped
  <2>1. IdleConsumer \in [pc : {"idle", "scheduled", "wait", "read", "inject"},
                          session : Sessions \cup {NoSession},
                          batch : Seq(Notes), seen : SUBSET Tasks]
    BY EmptySeq DEF IdleConsumer
  <2> QED
    BY <1>1, <2>1 DEF ConsumerIsTyped, IdleConsumer
<1>6. LoopIsTyped
  <2>1. /\ inputs \in [typed : Nat, channel : Nat, commands : Nat, interrupts : Nat]
        /\ inputs.typed = 0 /\ inputs.channel = 0 /\ inputs.commands = 0
        /\ inputs.interrupts = 0
    BY <1>1
  <2>2. queued \in Seq(1..0) /\ IsInjective(queued) /\ channel \in Seq(1..0)
        /\ IsInjective(channel)
    BY <1>1, NothingQueued
  <2>3. known \in [Tasks -> [run : 0..MaxRuns, ended : BOOLEAN]]
    <3>1. [run |-> 0, ended |-> FALSE] \in [run : 0..MaxRuns, ended : BOOLEAN]
      BY RunAssumption
    <3> QED
      BY <1>1, <3>1
  <2>4. /\ busy \in BOOLEAN /\ prompt \in BOOLEAN /\ current \in Sessions
        /\ runTask \in Whats
    BY <1>1, Numbers, InputAssumption
  <2>5. inputs.typed + inputs.channel + inputs.commands + inputs.interrupts <= MaxInputs
    BY <2>1, InputAssumption
  <2> QED
    BY <2>1, <2>2, <2>3, <2>4, <2>5 DEF LoopIsTyped
<1>7. TurnsAreTyped
  BY <1>1, FS_EmptySet DEF TurnsAreTyped
<1>8. \A t \in Tasks, r \in RunIds : watchers[<<t, r>>].pc = "none"
  BY <1>1, <1>3 DEF Completions
<1>9. LaunchesAreNew
  <2>1. \A t \in Tasks : Updating(t) = {}
    BY <1>1 DEF Updating
  <2>2. \A t \in Tasks : Cardinality(Updating(t)) = 0
    BY <2>1, FS_EmptySet
  <2> QED
    BY <1>1, <1>2, <1>8, <2>2, RunAssumption DEF LaunchesAreNew
<1>10. NewestIsWatched
  <2>1. \A t \in Tasks : registered[t] = 0 /\ Launching(t) = {}
    BY <1>1 DEF Launching
  <2>2. \A t \in Tasks, r \in RunIds : ~Active(t, r)
    BY <1>8 DEF Active
  <2> QED
    BY <1>2, <2>1, <2>2 DEF NewestIsWatched
<1>11. /\ \A s \in Sessions : About(mail[s]) = {}
       /\ About(consumer.batch) = {}
  BY <1>1, Nothing DEF IdleConsumer
<1>12. Waiting = {}
  BY <1>11 DEF Waiting
<1>13. AnnouncedOnce
  BY <1>1, <1>11, <1>12 DEF AnnouncedOnce
<1> QED
  BY <1>1, <1>2, <1>4, <1>5, <1>6, <1>7, <1>9, <1>10, <1>12, <1>13 DEF IInv

\* The parts of the turn loop keep their types, every run is launched by one
\* turn and watched from then on or never, the newest run is the watched one,
\* and a completion is announced once and waits in one place.
THEOREM InductiveInvariant ==
    Spec => []IInv
<1>1. Init => IInv
  BY InitiallyNothing
<1>2. IInv /\ [Next]_vars => IInv'
  BY EveryStep
<1> QED
  BY <1>1, <1>2, PTL DEF Spec

\* Runs, watchers, turns and queues keep their types, whatever the user, the
\* channels, the server and the event loop do; no message waits twice.
THEOREM TypeCorrect ==
    Spec => []TypeOK
<1>1. ASSUME IInv
      PROVE  TypeOK
  <2>1. \A t \in Tasks : Latest(t) <= MaxRuns /\ Range(runs[t]) \subseteq Statuses
    <3>1. \A t \in Tasks : /\ runs[t] \in Seq(Statuses) /\ Latest(t) \in Nat
                           /\ Latest(t) <= MaxRuns
      BY <1>1, Runs
    <3> QED
      BY <3>1, RangeOfSeq
  <2>2. \A c \in Completions :
            /\ watchers[c].pc \in {"none", "join", "get", "done", "lost", "cancelled"}
            /\ watchers[c].tries \in 0..MaxReconnects
    BY <1>1 DEF IInv, NotifierIsTyped, Watcher, WatcherPlaces
  <2>3. \A s \in Sessions : AreNotes(mail[s])
    BY <1>1, RangeOfSeq DEF IInv, NotifierIsTyped, AreNotes
  <2>4. AreNotes(consumer.batch) /\ consumer.seen \subseteq Tasks
        /\ consumer.pc \in {"idle", "scheduled", "wait", "read", "inject"}
    BY <1>1, RangeOfSeq DEF IInv, ConsumerIsTyped, AreNotes
  <2>5. AreNumbers(queued) /\ AreNumbers(channel)
    <3>1. /\ inputs.typed \in Nat /\ inputs.typed <= MaxInputs
          /\ inputs.channel \in Nat /\ inputs.channel <= MaxInputs /\ MaxInputs \in Nat
      BY <1>1, Inputs
    <3>2. queued \in Seq(1..MaxInputs) /\ channel \in Seq(1..MaxInputs)
      BY <1>1, <3>1, QueuesGrow DEF IInv, LoopIsTyped
    <3> QED
      BY <1>1, <3>2, RangeOfSeq DEF AreNumbers, IInv, LoopIsTyped
  <2>6. ASSUME NEW x \in turns
        PROVE  /\ x.what \in Whats
               /\ x.pc \in {"new", "opening", "run", "stopping", "tidy", "tidied"}
               /\ x.call # NoCall => x.pc \in {"run", "stopping"}
               /\ x.what.kind = "command" => x.session = NoSession
    BY <1>1 DEF IInv, TurnsAreTyped, Turn
  <2>7. /\ home \in [Tasks -> Sessions \cup {NoSession}]
        /\ registered \in [Tasks -> 0..MaxRuns]
        /\ busy \in BOOLEAN /\ prompt \in BOOLEAN /\ current \in Sessions
        /\ runTask \in Whats
    BY <1>1 DEF IInv, NotifierIsTyped, LoopIsTyped
  <2> QED
    BY <2>1, <2>2, <2>3, <2>4, <2>5, <2>6, <2>7 DEF TypeOK
<1> QED
  BY <1>1, InductiveInvariant, PTL

\* What a watcher leaves is about the newest run of its task, even while an
\* update replaces that run, unless two turns update the task at a time: the
\* watcher is cancelled before the new run is launched.
THEOREM NothingStaleIsAnnounced ==
    Spec => NoneIsStale
<1>1. ASSUME IInv, [Next]_vars
      PROVE  [\A t \in Tasks \ crossed, r \in RunIds :
                 <<t, r>> \in Waiting' \ Waiting => r = Latest(t)]_vars
  <2>1. CASE Elsewhere
    BY <2>1 DEF Elsewhere
  <2>2. CASE Settles
    BY <2>2 DEF Settles
  <2>3. ASSUME NEW z \in Tasks, NEW q \in RunIds, Announces(z, q)
        PROVE  \A t \in Tasks \ crossed, r \in RunIds :
                   <<t, r>> \in Waiting' \ Waiting => r = Latest(t)
    <3>1. \A t, r : <<t, r>> \in Waiting' \ Waiting => t = z /\ r = q
      BY <2>3 DEF Announces
    <3> QED
      BY <2>3, <3>1 DEF Announces
  <2> QED
    BY <1>1, <2>1, <2>2, <2>3, EveryStep
<1> QED
  BY <1>1, InductiveInvariant, PTL DEF Spec, NoneIsStale

\* The watchers, the queues of the sessions and the consumer implement the
\* ledger of completions: only what has ended is announced, nothing announced
\* is lost before the agent sees it, and nothing is told twice or elsewhere.
THEOREM PromiseIsKept ==
    Spec => KeepsPromise
<1>1. ASSUME Init
      PROVE  Ledger!LedgerInit
  <2>1. \A c \in Completions : ~Ended(c[1], c[2]) /\ home[c[1]] = NoSession
    BY <1>1, InitiallyNothing DEF Completions, Ended, RunIds
  <2>2. Waiting = {} /\ aside = {} /\ told = {}
    BY <1>1, InitiallyNothing
  <2> QED
    BY <2>1, <2>2 DEF Ledger!LedgerInit
<1>2. ASSUME IInv, [Next]_vars
      PROVE  [Ledger!LedgerNext]_(Ledger!ledger)
  <2>1. \A c \in Completions : c = <<c[1], c[2]>> /\ c[1] \in Tasks /\ c[2] \in RunIds
    BY DEF Completions
  <2>2. CASE Elsewhere
    <3>1. ASSUME NEW c \in Completions, Ended(c[1], c[2])
          PROVE  Ended(c[1], c[2])'
      <4>1. PICK t \in Tasks, r \in RunIds : t = c[1] /\ r = c[2]
        BY <2>1
      <4>2. r \in 1..Latest(t) /\ Ended(t, r)
        BY <1>2, <3>1, <4>1, Runs, RunAssumption DEF Ended, RunIds
      <4>3. Ended(t, r)'
        BY <2>2, <4>2 DEF Elsewhere
      <4> QED
        BY <4>1, <4>3
    <3>2. \A c \in Completions : home[c[1]] # NoSession => home'[c[1]] = home[c[1]]
      BY <2>1, <2>2 DEF Elsewhere
    <3>3. Ledger!Elsewhere
      BY <2>2, <3>1, <3>2 DEF Elsewhere, Ledger!Elsewhere
    <3> QED
      BY <3>3 DEF Ledger!LedgerNext
  <2>3. CASE Settles
    <3> DEFINE batch == About(consumer.batch)
    <3>1. batch \in SUBSET Completions
      BY <1>2, AboutNotes DEF IInv, ConsumerIsTyped
    <3>2. /\ batch \subseteq Waiting /\ Waiting' = Waiting \ batch
          /\ \E seen \in SUBSET batch :
                /\ aside' = aside \cup seen
                /\ told' = told \cup {<<c, home[c[1]]>> : c \in batch \ seen}
          /\ UNCHANGED <<runs, home>>
      BY <2>3 DEF Settles
    <3> PICK b : b = batch
      OBVIOUS
    <3> HIDE DEF batch
    <3>3. Ledger!Settle(b)
      <4>1. PICK seen \in SUBSET b :
                /\ aside' = aside \cup seen
                /\ told' = told \cup {<<c, home[c[1]]>> : c \in b \ seen}
        BY <3>2
      <4>2. {<<c, home[c[1]]>> : c \in b \ seen}
                = {<<c, [d \in Completions |-> home[d[1]]][c]>> : c \in b \ seen}
        <5>1. \A c \in b \ seen : [d \in Completions |-> home[d[1]]][c] = home[c[1]]
          BY <3>1
        <5> QED
          BY <5>1
      <4>3. \A c \in Completions : Ended(c[1], c[2])' = Ended(c[1], c[2])
        BY <3>2 DEF Ended, Status, Latest
      <4> QED
        BY <3>1, <3>2, <4>1, <4>2, <4>3 DEF Ledger!Settle
    <3> QED
      BY <3>1, <3>3 DEF Ledger!LedgerNext
  <2>4. ASSUME NEW t \in Tasks, NEW r \in RunIds, Announces(t, r)
        PROVE  Ledger!LedgerNext
    <3>1. PICK c \in Completions : c = <<t, r>>
      BY DEF Completions
    <3>2. \A d \in Completions : Ended(d[1], d[2])' = Ended(d[1], d[2])
      BY <2>4 DEF Announces, Ended, Status, Latest
    <3>3. Ledger!Announce(c)
      BY <2>4, <3>1, <3>2 DEF Announces, Ledger!Announce, Ledger!ToldOf
    <3> QED
      BY <3>3 DEF Ledger!LedgerNext
  <2> QED
    BY <1>2, <2>2, <2>3, <2>4, EveryStep
<1> QED
  BY <1>1, <1>2, InductiveInvariant, PTL DEF Spec, KeepsPromise, Ledger!LedgerSpec
=============================================================================
