------------------------ MODULE MemoryPipeline_proofs ------------------------
(***************************************************************************)
(* For any turns and any observations: the memory pipeline keeps the       *)
(* ledger of each observation, an observation of a worker reaches at most  *)
(* one linker, and none of a watched worker's goes uncredited.             *)
(*                                                                         *)
(* Only four steps move observations between the host's books: the tool's  *)
(* note, the credit of a worker, the drain of the pending ids and the      *)
(* submission of a linker.  All others are quiet.                          *)
(***************************************************************************)
EXTENDS MemoryPipeline, FiniteSetTheorems, TLAPS

USE DEF vars, memory, server, registry, watchers, history

\* The empty pipeline satisfies the invariant.
LEMMA InitialStateIsSafe == Init => LedgerInv
BY DEF Init, LedgerInv, TypeOK, NotedAreDirect, RunsExist, EmptyHanded,
       OnlyCreditedMove, OnePlace, HandedAtMostOnce, Carrying, Batching,
       Labels, Runs

-----------------------------------------------------------------------------
\* Every step keeps the types, and the registries name submitted runs.
LEMMA TypesAreKept == LedgerInv /\ [Next]_vars => TypeOK'
<1> SUFFICES ASSUME LedgerInv, [Next]_vars PROVE TypeOK'
  OBVIOUS
<1>w. \A w \in Turns : /\ <<"tool", w>> \in Writers
                       /\ <<"worker", w>> \in Writers
                       /\ <<"linker", w>> \in Writers
  BY DEF Writers
<1> USE DEF LedgerInv, TypeOK, RunsExist, Labels, Runs
<1>1. ASSUME NEW w \in Turns, BeginTurn(w)
      PROVE  TypeOK'
  BY <1>1 DEF BeginTurn, Move
<1>2. ASSUME NEW w \in Turns, DirectClose(w)
      PROVE  TypeOK'
  BY <1>2 DEF DirectClose, Move
<1>3. ASSUME NEW w \in Turns, DirectNote(w)
      PROVE  TypeOK'
  BY <1>3 DEF DirectNote, Move, Carry
<1>4. ASSUME NEW w \in Turns, WorkerEnds(w)
      PROVE  TypeOK'
  BY <1>4 DEF WorkerEnds
<1>5. ASSUME NEW w \in Turns, LinkerEnds(w)
      PROVE  TypeOK'
  BY <1>5 DEF LinkerEnds
<1>6. ASSUME NEW w \in Turns, TakeSnapshot(w)
      PROVE  TypeOK'
  BY <1>6 DEF TakeSnapshot, Move
<1>7. ASSUME NEW w \in Turns, LaunchSkipped(w)
      PROVE  TypeOK'
  BY <1>7 DEF LaunchSkipped
<1>8. ASSUME NEW w \in Turns, Submit(w)
      PROVE  TypeOK'
  BY <1>8 DEF Submit, Move
<1>9. ASSUME NEW w \in Turns, SubmitUnanswered(w)
      PROVE  TypeOK'
  BY <1>9 DEF SubmitUnanswered, Move
<1>10. ASSUME NEW w \in Turns, Register(w)
      PROVE  TypeOK'
  BY <1>10 DEF Register, Move
<1>11. ASSUME NEW w \in Turns, StartWatcher(w)
      PROVE  TypeOK'
  BY <1>11 DEF StartWatcher, Move
<1>12. ASSUME NEW w \in Turns, WatcherFails(w)
      PROVE  TypeOK'
  BY <1>12 DEF WatcherFails, Move
<1>13. ASSUME NEW w \in Turns, Cancelled(w)
      PROVE  TypeOK'
  BY <1>13 DEF Cancelled
<1>14. ASSUME NEW w \in Turns, PollEnds(w)
      PROVE  TypeOK'
  BY <1>14 DEF PollEnds, Move
<1>15. ASSUME NEW w \in Turns, WatchLost(w)
      PROVE  TypeOK'
  BY <1>15 DEF WatchLost, Move
<1>16. ASSUME NEW w \in Turns, Unregister(w)
      PROVE  TypeOK'
  BY <1>16 DEF Unregister, Move
<1>17. ASSUME NEW w \in Turns, Sample(w)
      PROVE  TypeOK'
  BY <1>17 DEF Sample, Move, Carry
<1>18. ASSUME NEW w \in Turns, Credit(w)
      PROVE  TypeOK'
  BY <1>18 DEF Credit, Move, Carry
<1>19. ASSUME NEW w \in Turns, QueueAndDrain(w)
      PROVE  TypeOK'
  BY <1>19 DEF QueueAndDrain, Carry, Queue
<1>20. ASSUME NEW w \in Turns, OpenLaunch(w)
      PROVE  TypeOK'
  BY <1>20 DEF OpenLaunch, Move
<1>21. ASSUME NEW w \in Turns, LinkerSubmit(w)
      PROVE  TypeOK'
  BY <1>21 DEF LinkerSubmit, Move
<1>22. ASSUME NEW w \in Turns, LinkerUnanswered(w)
      PROVE  TypeOK'
  BY <1>22 DEF LinkerUnanswered, Move
<1>23. ASSUME NEW w \in Turns, LinkerRefused(w)
      PROVE  TypeOK'
  BY <1>23 DEF LinkerRefused, Move
<1>24. ASSUME NEW w \in Turns, LinkerRegister(w)
      PROVE  TypeOK'
  BY <1>24 DEF LinkerRegister, Move
<1>25. ASSUME NEW w \in Turns, LinkerWatched(w)
      PROVE  TypeOK'
  BY <1>25 DEF LinkerWatched, Move
<1>26. ASSUME NEW w \in Turns, LinkerUnwatched(w)
      PROVE  TypeOK'
  BY <1>26 DEF LinkerUnwatched, Move
<1>27. ASSUME NEW w \in Turns, CloseLaunch(w)
      PROVE  TypeOK'
  BY <1>27 DEF CloseLaunch, Move, Carry
<1>28. ASSUME NEW w \in Turns, LinkerWatchEnds(w)
      PROVE  TypeOK'
  BY <1>28 DEF LinkerWatchEnds
<1>29. ASSUME NEW w \in Turns, NEW o \in Observations, DirectWrite(w, o)
      PROVE  TypeOK'
  BY <1>29, <1>w DEF DirectWrite, Move, Carry, Create
<1>30. ASSUME NEW w \in Turns, NEW o \in Observations, WorkerWrites(w, o)
      PROVE  TypeOK'
  BY <1>30, <1>w DEF WorkerWrites, Create
<1>31. ASSUME NEW w \in Turns, NEW o \in Observations, LinkerAmends(w, o)
      PROVE  TypeOK'
  BY <1>31, <1>w DEF LinkerAmends
<1>32. ASSUME NEW o \in Observations, Written(o)
      PROVE  TypeOK'
  BY <1>32 DEF Written
<1>33. CASE UNCHANGED vars
  BY <1>33
<1> QED
  BY <1>1, <1>2, <1>3, <1>4, <1>5, <1>6, <1>7, <1>8, <1>9, <1>10, <1>11,
     <1>12, <1>13, <1>14, <1>15, <1>16, <1>17, <1>18, <1>19, <1>20,
     <1>21, <1>22, <1>23, <1>24, <1>25, <1>26, <1>27, <1>28, <1>29,
     <1>30, <1>31, <1>32, <1>33
     DEF Next, HostStep, ServerStep, LaunchStep, FinishStep, LinkStep

\* What the place of a thread says about what it carries and has submitted.
LEMMA PlacesAreKept ==
    LedgerInv /\ [Next]_vars => NotedAreDirect' /\ RunsExist' /\ EmptyHanded'
<1> DEFINE Places == NotedAreDirect /\ RunsExist /\ EmptyHanded
<1> SUFFICES ASSUME LedgerInv, [Next]_vars PROVE Places'
  OBVIOUS
<1> USE DEF LedgerInv, TypeOK, NotedAreDirect, RunsExist, EmptyHanded,
            Labels, Runs
<1>1. ASSUME NEW w \in Turns, BeginTurn(w)
      PROVE  Places'
  BY <1>1 DEF BeginTurn, Move
<1>2. ASSUME NEW w \in Turns, DirectClose(w)
      PROVE  Places'
  BY <1>2 DEF DirectClose, Move
<1>3. ASSUME NEW w \in Turns, DirectNote(w)
      PROVE  Places'
  BY <1>3 DEF DirectNote, Move, Carry
<1>4. ASSUME NEW w \in Turns, WorkerEnds(w)
      PROVE  Places'
  BY <1>4 DEF WorkerEnds
<1>5. ASSUME NEW w \in Turns, LinkerEnds(w)
      PROVE  Places'
  BY <1>5 DEF LinkerEnds
<1>6. ASSUME NEW w \in Turns, TakeSnapshot(w)
      PROVE  Places'
  BY <1>6 DEF TakeSnapshot, Move
<1>7. ASSUME NEW w \in Turns, LaunchSkipped(w)
      PROVE  Places'
  BY <1>7 DEF LaunchSkipped
<1>8. ASSUME NEW w \in Turns, Submit(w)
      PROVE  Places'
  BY <1>8 DEF Submit, Move
<1>9. ASSUME NEW w \in Turns, SubmitUnanswered(w)
      PROVE  Places'
  BY <1>9 DEF SubmitUnanswered, Move
<1>10. ASSUME NEW w \in Turns, Register(w)
      PROVE  Places'
  BY <1>10 DEF Register, Move
<1>11. ASSUME NEW w \in Turns, StartWatcher(w)
      PROVE  Places'
  BY <1>11 DEF StartWatcher, Move
<1>12. ASSUME NEW w \in Turns, WatcherFails(w)
      PROVE  Places'
  BY <1>12 DEF WatcherFails, Move
<1>13. ASSUME NEW w \in Turns, Cancelled(w)
      PROVE  Places'
  BY <1>13 DEF Cancelled
<1>14. ASSUME NEW w \in Turns, PollEnds(w)
      PROVE  Places'
  BY <1>14 DEF PollEnds, Move
<1>15. ASSUME NEW w \in Turns, WatchLost(w)
      PROVE  Places'
  BY <1>15 DEF WatchLost, Move
<1>16. ASSUME NEW w \in Turns, Unregister(w)
      PROVE  Places'
  BY <1>16 DEF Unregister, Move
<1>17. ASSUME NEW w \in Turns, Sample(w)
      PROVE  Places'
  BY <1>17 DEF Sample, Move, Carry
<1>18. ASSUME NEW w \in Turns, Credit(w)
      PROVE  Places'
  BY <1>18 DEF Credit, Move, Carry
<1>19. ASSUME NEW w \in Turns, QueueAndDrain(w)
      PROVE  Places'
  BY <1>19 DEF QueueAndDrain, Carry, Queue
<1>20. ASSUME NEW w \in Turns, OpenLaunch(w)
      PROVE  Places'
  BY <1>20 DEF OpenLaunch, Move
<1>21. ASSUME NEW w \in Turns, LinkerSubmit(w)
      PROVE  Places'
  BY <1>21 DEF LinkerSubmit, Move
<1>22. ASSUME NEW w \in Turns, LinkerUnanswered(w)
      PROVE  Places'
  BY <1>22 DEF LinkerUnanswered, Move
<1>23. ASSUME NEW w \in Turns, LinkerRefused(w)
      PROVE  Places'
  BY <1>23 DEF LinkerRefused, Move
<1>24. ASSUME NEW w \in Turns, LinkerRegister(w)
      PROVE  Places'
  BY <1>24 DEF LinkerRegister, Move
<1>25. ASSUME NEW w \in Turns, LinkerWatched(w)
      PROVE  Places'
  BY <1>25 DEF LinkerWatched, Move
<1>26. ASSUME NEW w \in Turns, LinkerUnwatched(w)
      PROVE  Places'
  BY <1>26 DEF LinkerUnwatched, Move
<1>27. ASSUME NEW w \in Turns, CloseLaunch(w)
      PROVE  Places'
  BY <1>27 DEF CloseLaunch, Move, Carry
<1>28. ASSUME NEW w \in Turns, LinkerWatchEnds(w)
      PROVE  Places'
  BY <1>28 DEF LinkerWatchEnds
<1>29. ASSUME NEW w \in Turns, NEW o \in Observations, DirectWrite(w, o)
      PROVE  Places'
  BY <1>29 DEF DirectWrite, Move, Carry, Create
<1>30. ASSUME NEW w \in Turns, NEW o \in Observations, WorkerWrites(w, o)
      PROVE  Places'
  BY <1>30 DEF WorkerWrites, Create
<1>31. ASSUME NEW w \in Turns, NEW o \in Observations, LinkerAmends(w, o)
      PROVE  Places'
  BY <1>31 DEF LinkerAmends
<1>32. ASSUME NEW o \in Observations, Written(o)
      PROVE  Places'
  BY <1>32 DEF Written
<1>33. CASE UNCHANGED vars
  BY <1>33
<1> QED
  BY <1>1, <1>2, <1>3, <1>4, <1>5, <1>6, <1>7, <1>8, <1>9, <1>10, <1>11,
     <1>12, <1>13, <1>14, <1>15, <1>16, <1>17, <1>18, <1>19, <1>20,
     <1>21, <1>22, <1>23, <1>24, <1>25, <1>26, <1>27, <1>28, <1>29,
     <1>30, <1>31, <1>32, <1>33
     DEF Next, HostStep, ServerStep, LaunchStep, FinishStep, LinkStep

-----------------------------------------------------------------------------
\* The way of an observation, without the types.
Way == OnlyCreditedMove /\ OnePlace /\ HandedAtMostOnce

\* A step that moves nothing between the books keeps the way.
LEMMA QuietStep ==
    ASSUME LedgerInv, TypeOK', direct \subseteq direct',
           UNCHANGED <<pending, handed, counted>>,
           \A w \in Turns : Carrying(w)' => Carrying(w) /\ held'[w] = held[w]
    PROVE  Way'
<1>1. OnlyCreditedMove'
  BY DEF LedgerInv, OnlyCreditedMove, Credited
<1>2. OnePlace'
  BY DEF LedgerInv, OnePlace
<1>3. HandedAtMostOnce'
  BY DEF LedgerInv, HandedAtMostOnce
<1> QED BY <1>1, <1>2, <1>3 DEF Way

\* The tool queues an observation of its own.
LEMMA NoteIsSafe ==
    ASSUME LedgerInv, TypeOK', NEW w \in Turns, DirectNote(w)
    PROVE  Way'
<1>1. /\ pending' = pending \cup held[w] /\ held[w] \subseteq direct
      /\ UNCHANGED <<direct, counted, handed>>
  BY DEF LedgerInv, NotedAreDirect, DirectNote, Move
<1>2. \A x \in Turns : Carrying(x)' => Carrying(x) /\ held'[x] = held[x]
  BY DEF LedgerInv, TypeOK, Carrying, Batching, DirectNote, Move, Carry
<1>3. OnlyCreditedMove'
  BY <1>1, <1>2 DEF LedgerInv, OnlyCreditedMove, Credited
<1>4. OnePlace'
  BY <1>1, <1>2 DEF LedgerInv, OnePlace
<1>5. HandedAtMostOnce'
  BY <1>1 DEF LedgerInv, HandedAtMostOnce
<1> QED BY <1>3, <1>4, <1>5 DEF Way

\* A worker is credited with what nobody was credited with before: its share
\* is in no book yet.
LEMMA CreditIsSafe ==
    ASSUME LedgerInv, TypeOK', NEW w \in Turns, Credit(w)
    PROVE  Way'
<1>1. /\ held'[w] = held[w] \ counted /\ counted' = counted \cup held[w]
      /\ UNCHANGED <<direct, pending, handed>>
  BY DEF LedgerInv, TypeOK, Credit, Carry
<1>2. \A x \in Turns \ {w} : Carrying(x)' => Carrying(x) /\ held'[x] = held[x]
  BY DEF LedgerInv, TypeOK, Carrying, Batching, Credit, Move, Carry
<1>3. \A o \in held'[w] \ direct :
         /\ o \notin pending
         /\ \A x \in Turns : <<o, x>> \notin handed
         /\ \A x \in Turns : Carrying(x) => o \notin held[x]
  BY <1>1 DEF LedgerInv, TypeOK, OnlyCreditedMove, Credited
<1>4. OnlyCreditedMove'
  BY <1>1, <1>2 DEF LedgerInv, OnlyCreditedMove, Credited
<1>5. OnePlace'
  BY <1>1, <1>2, <1>3 DEF LedgerInv, OnePlace
<1>6. HandedAtMostOnce'
  BY <1>1 DEF LedgerInv, HandedAtMostOnce
<1> QED BY <1>4, <1>5, <1>6 DEF Way

\* The drain moves the thread's share to the pending ids, or both to the
\* thread's batch.
LEMMA DrainIsSafe ==
    ASSUME LedgerInv, TypeOK', NEW w \in Turns, QueueAndDrain(w)
    PROVE  Way'
<1>1. \A x \in Turns \ {w} : /\ Carrying(x)' <=> Carrying(x)
                             /\ held'[x] = held[x]
  BY DEF LedgerInv, TypeOK, Carrying, Batching, QueueAndDrain, Carry
<1>2. UNCHANGED <<direct, counted, handed>>
  BY DEF QueueAndDrain
<1>3. /\ pending' \subseteq pending \cup held[w]
      /\ held'[w] \subseteq pending \cup held[w]
      /\ pending' = {} \/ held'[w] = {}
  BY DEF LedgerInv, TypeOK, QueueAndDrain, Queue, Carry
<1>4. Carrying(w) \/ held[w] = {}
  BY DEF LedgerInv, EmptyHanded, QueueAndDrain, Carrying
<1>5. OnlyCreditedMove'
  BY <1>1, <1>2, <1>3, <1>4 DEF LedgerInv, OnlyCreditedMove, Credited
<1>6. OnePlace'
  BY <1>1, <1>2, <1>3, <1>4 DEF LedgerInv, OnePlace
<1>7. HandedAtMostOnce'
  BY <1>2 DEF LedgerInv, HandedAtMostOnce
<1> QED BY <1>5, <1>6, <1>7 DEF Way

\* A batch that is handed over leaves the books.
LEMMA HandingIsSafe ==
    ASSUME LedgerInv, TypeOK', NEW w \in Turns,
           LinkerSubmit(w) \/ LinkerUnanswered(w)
    PROVE  Way'
<1>1. Carrying(w) /\ ~Carrying(w)'
  BY DEF LedgerInv, TypeOK, LinkerSubmit, LinkerUnanswered, Move, Carrying,
         Batching
<1>2. \A x \in Turns : Carrying(x)' => Carrying(x)
  BY DEF LedgerInv, TypeOK, LinkerSubmit, LinkerUnanswered, Move, Carrying,
         Batching
<1>3. /\ handed' = handed \cup (held[w] \X {w})
      /\ UNCHANGED <<direct, counted, pending, held>>
  BY DEF LinkerSubmit, LinkerUnanswered
<1>4. \A o \in Observations, x \in Turns :
         <<o, x>> \in handed' <=> \/ <<o, x>> \in handed
                                  \/ x = w /\ o \in held[w]
  BY <1>3
<1>5. OnlyCreditedMove'
  BY <1>1, <1>2, <1>3, <1>4 DEF LedgerInv, OnlyCreditedMove, Credited
<1>6. OnePlace'
  BY <1>1, <1>2, <1>3, <1>4 DEF LedgerInv, OnePlace
<1>7. HandedAtMostOnce'
  BY <1>1, <1>3, <1>4 DEF LedgerInv, OnePlace, HandedAtMostOnce
<1> QED BY <1>5, <1>6, <1>7 DEF Way

\* Every step keeps the way.
LEMMA WayIsKept == LedgerInv /\ [Next]_vars => Way'
<1> SUFFICES ASSUME LedgerInv, [Next]_vars PROVE Way'
  OBVIOUS
<1>0. TypeOK'
  BY TypesAreKept
<1> DEFINE Quiet ==
       /\ direct \subseteq direct' /\ UNCHANGED <<pending, handed, counted>>
       /\ \A x \in Turns : Carrying(x)' => Carrying(x) /\ held'[x] = held[x]
<1>q. ASSUME Quiet PROVE Way'
  BY <1>0, <1>q, QuietStep
<1> HIDE DEF Quiet
<1> USE DEF LedgerInv, TypeOK, Carrying, Batching
<1>1. ASSUME NEW w \in Turns, BeginTurn(w)
      PROVE  Way'
  <2>1. Quiet
    BY <1>1 DEF Quiet, BeginTurn, Move
  <2> QED BY <2>1, <1>q
<1>2. ASSUME NEW w \in Turns, DirectClose(w)
      PROVE  Way'
  <2>1. Quiet
    BY <1>2 DEF Quiet, DirectClose, Move
  <2> QED BY <2>1, <1>q
<1>3. ASSUME NEW w \in Turns, DirectNote(w)
      PROVE  Way'
  BY <1>0, <1>3, NoteIsSafe
<1>4. ASSUME NEW w \in Turns, WorkerEnds(w)
      PROVE  Way'
  <2>1. Quiet
    BY <1>4 DEF Quiet, WorkerEnds
  <2> QED BY <2>1, <1>q
<1>5. ASSUME NEW w \in Turns, LinkerEnds(w)
      PROVE  Way'
  <2>1. Quiet
    BY <1>5 DEF Quiet, LinkerEnds
  <2> QED BY <2>1, <1>q
<1>6. ASSUME NEW w \in Turns, TakeSnapshot(w)
      PROVE  Way'
  <2>1. Quiet
    BY <1>6 DEF Quiet, TakeSnapshot, Move
  <2> QED BY <2>1, <1>q
<1>7. ASSUME NEW w \in Turns, LaunchSkipped(w)
      PROVE  Way'
  <2>1. Quiet
    BY <1>7 DEF Quiet, LaunchSkipped
  <2> QED BY <2>1, <1>q
<1>8. ASSUME NEW w \in Turns, Submit(w)
      PROVE  Way'
  <2>1. Quiet
    BY <1>8 DEF Quiet, Submit, Move
  <2> QED BY <2>1, <1>q
<1>9. ASSUME NEW w \in Turns, SubmitUnanswered(w)
      PROVE  Way'
  <2>1. Quiet
    BY <1>9 DEF Quiet, SubmitUnanswered, Move
  <2> QED BY <2>1, <1>q
<1>10. ASSUME NEW w \in Turns, Register(w)
      PROVE  Way'
  <2>1. Quiet
    BY <1>10 DEF Quiet, Register, Move
  <2> QED BY <2>1, <1>q
<1>11. ASSUME NEW w \in Turns, StartWatcher(w)
      PROVE  Way'
  <2>1. Quiet
    BY <1>11 DEF Quiet, StartWatcher, Move
  <2> QED BY <2>1, <1>q
<1>12. ASSUME NEW w \in Turns, WatcherFails(w)
      PROVE  Way'
  <2>1. Quiet
    BY <1>12 DEF Quiet, WatcherFails, Move
  <2> QED BY <2>1, <1>q
<1>13. ASSUME NEW w \in Turns, Cancelled(w)
      PROVE  Way'
  <2>1. Quiet
    BY <1>13 DEF Quiet, Cancelled
  <2> QED BY <2>1, <1>q
<1>14. ASSUME NEW w \in Turns, PollEnds(w)
      PROVE  Way'
  <2>1. Quiet
    BY <1>14 DEF Quiet, PollEnds, Move
  <2> QED BY <2>1, <1>q
<1>15. ASSUME NEW w \in Turns, WatchLost(w)
      PROVE  Way'
  <2>1. Quiet
    BY <1>15 DEF Quiet, WatchLost, Move
  <2> QED BY <2>1, <1>q
<1>16. ASSUME NEW w \in Turns, Unregister(w)
      PROVE  Way'
  <2>1. Quiet
    BY <1>16 DEF Quiet, Unregister, Move
  <2> QED BY <2>1, <1>q
<1>17. ASSUME NEW w \in Turns, Sample(w)
      PROVE  Way'
  <2>1. Quiet
    BY <1>17 DEF Quiet, Sample, Move, Carry
  <2> QED BY <2>1, <1>q
<1>18. ASSUME NEW w \in Turns, Credit(w)
      PROVE  Way'
  BY <1>0, <1>18, CreditIsSafe
<1>19. ASSUME NEW w \in Turns, QueueAndDrain(w)
      PROVE  Way'
  BY <1>0, <1>19, DrainIsSafe
<1>20. ASSUME NEW w \in Turns, OpenLaunch(w)
      PROVE  Way'
  <2>1. Quiet
    BY <1>20 DEF Quiet, OpenLaunch, Move
  <2> QED BY <2>1, <1>q
<1>21. ASSUME NEW w \in Turns, LinkerSubmit(w)
      PROVE  Way'
  BY <1>0, <1>21, HandingIsSafe
<1>22. ASSUME NEW w \in Turns, LinkerUnanswered(w)
      PROVE  Way'
  BY <1>0, <1>22, HandingIsSafe
<1>23. ASSUME NEW w \in Turns, LinkerRefused(w)
      PROVE  Way'
  <2>1. Quiet
    BY <1>23 DEF Quiet, LinkerRefused, Move
  <2> QED BY <2>1, <1>q
<1>24. ASSUME NEW w \in Turns, LinkerRegister(w)
      PROVE  Way'
  <2>1. Quiet
    BY <1>24 DEF Quiet, LinkerRegister, Move
  <2> QED BY <2>1, <1>q
<1>25. ASSUME NEW w \in Turns, LinkerWatched(w)
      PROVE  Way'
  <2>1. Quiet
    BY <1>25 DEF Quiet, LinkerWatched, Move
  <2> QED BY <2>1, <1>q
<1>26. ASSUME NEW w \in Turns, LinkerUnwatched(w)
      PROVE  Way'
  <2>1. Quiet
    BY <1>26 DEF Quiet, LinkerUnwatched, Move
  <2> QED BY <2>1, <1>q
<1>27. ASSUME NEW w \in Turns, CloseLaunch(w)
      PROVE  Way'
  <2>1. Quiet
    BY <1>27 DEF Quiet, CloseLaunch, Move, Carry
  <2> QED BY <2>1, <1>q
<1>28. ASSUME NEW w \in Turns, LinkerWatchEnds(w)
      PROVE  Way'
  <2>1. Quiet
    BY <1>28 DEF Quiet, LinkerWatchEnds
  <2> QED BY <2>1, <1>q
<1>29. ASSUME NEW w \in Turns, NEW o \in Observations, DirectWrite(w, o)
      PROVE  Way'
  <2>1. Quiet
    BY <1>29 DEF Quiet, DirectWrite, Move, Carry, Create
  <2> QED BY <2>1, <1>q
<1>30. ASSUME NEW w \in Turns, NEW o \in Observations, WorkerWrites(w, o)
      PROVE  Way'
  <2>1. Quiet
    BY <1>30 DEF Quiet, WorkerWrites, Create
  <2> QED BY <2>1, <1>q
<1>31. ASSUME NEW w \in Turns, NEW o \in Observations, LinkerAmends(w, o)
      PROVE  Way'
  <2>1. Quiet
    BY <1>31 DEF Quiet, LinkerAmends
  <2> QED BY <2>1, <1>q
<1>32. ASSUME NEW o \in Observations, Written(o)
      PROVE  Way'
  <2>1. Quiet
    BY <1>32 DEF Quiet, Written
  <2> QED BY <2>1, <1>q
<1>33. CASE UNCHANGED vars
  <2>1. Quiet
    BY <1>33 DEF Quiet
  <2> QED BY <2>1, <1>q
<1> QED
  BY <1>1, <1>2, <1>3, <1>4, <1>5, <1>6, <1>7, <1>8, <1>9, <1>10, <1>11,
     <1>12, <1>13, <1>14, <1>15, <1>16, <1>17, <1>18, <1>19, <1>20,
     <1>21, <1>22, <1>23, <1>24, <1>25, <1>26, <1>27, <1>28, <1>29,
     <1>30, <1>31, <1>32, <1>33
     DEF Next, HostStep, ServerStep, LaunchStep, FinishStep, LinkStep

\* The invariant is inductive.
LEMMA LedgerInvIsKept == LedgerInv /\ [Next]_vars => LedgerInv'
BY TypesAreKept, PlacesAreKept, WayIsKept DEF LedgerInv, Way

\* The inductive invariant: an observation of a worker is in at most one book
\* of the host, and never credited again once it is in one.
THEOREM Invariance == Spec => []LedgerInv
<1>1. Init => LedgerInv
  BY InitialStateIsSafe
<1>2. LedgerInv /\ [Next]_vars => LedgerInv'
  BY LedgerInvIsKept
<1> QED BY <1>1, <1>2, PTL DEF Spec

\* The host's books keep their types and name only files and runs that exist.
THEOREM TypeCorrectness == Spec => []TypeOK
<1>1. LedgerInv => TypeOK
  BY DEF LedgerInv
<1> QED BY <1>1, Invariance, PTL

\* Overlapping workers never hand one worker's observation to two linkers.
THEOREM HandedOnce == Spec => []HandedAtMostOnce
<1>1. LedgerInv => HandedAtMostOnce
  BY DEF LedgerInv
<1> QED BY <1>1, Invariance, PTL
-----------------------------------------------------------------------------
\* The two snapshots of a worker enclose everything it writes.
LEMMA CreditInvIsKept == LedgerInv /\ CreditInv /\ [Next]_vars => CreditInv'
<1> SUFFICES ASSUME LedgerInv, CreditInv, [Next]_vars PROVE CreditInv'
  OBVIOUS
<1>0. TypeOK
  BY DEF LedgerInv
<1> USE <1>0 DEF TypeOK, CreditInv, Recorded, Labels, Runs
<1>1. ASSUME NEW w \in Turns, BeginTurn(w)
      PROVE  CreditInv'
  BY <1>1 DEF BeginTurn, Move
<1>2. ASSUME NEW w \in Turns, DirectClose(w)
      PROVE  CreditInv'
  BY <1>2 DEF DirectClose, Move
<1>3. ASSUME NEW w \in Turns, DirectNote(w)
      PROVE  CreditInv'
  BY <1>3 DEF DirectNote, Move, Carry
<1>4. ASSUME NEW w \in Turns, WorkerEnds(w)
      PROVE  CreditInv'
  BY <1>4 DEF WorkerEnds
<1>5. ASSUME NEW w \in Turns, LinkerEnds(w)
      PROVE  CreditInv'
  BY <1>5 DEF LinkerEnds
<1>6. ASSUME NEW w \in Turns, TakeSnapshot(w)
      PROVE  CreditInv'
  BY <1>6 DEF TakeSnapshot, Move
<1>7. ASSUME NEW w \in Turns, LaunchSkipped(w)
      PROVE  CreditInv'
  BY <1>7 DEF LaunchSkipped
<1>8. ASSUME NEW w \in Turns, Submit(w)
      PROVE  CreditInv'
  BY <1>8 DEF Submit, Move
<1>9. ASSUME NEW w \in Turns, SubmitUnanswered(w)
      PROVE  CreditInv'
  BY <1>9 DEF SubmitUnanswered, Move
<1>10. ASSUME NEW w \in Turns, Register(w)
      PROVE  CreditInv'
  BY <1>10 DEF Register, Move
<1>11. ASSUME NEW w \in Turns, StartWatcher(w)
      PROVE  CreditInv'
  BY <1>11 DEF StartWatcher, Move
<1>12. ASSUME NEW w \in Turns, WatcherFails(w)
      PROVE  CreditInv'
  BY <1>12 DEF WatcherFails, Move
<1>13. ASSUME NEW w \in Turns, Cancelled(w)
      PROVE  CreditInv'
  BY <1>13 DEF Cancelled
<1>14. ASSUME NEW w \in Turns, PollEnds(w)
      PROVE  CreditInv'
  BY <1>14 DEF PollEnds, Move
<1>15. ASSUME NEW w \in Turns, WatchLost(w)
      PROVE  CreditInv'
  BY <1>15 DEF WatchLost, Move
<1>16. ASSUME NEW w \in Turns, Unregister(w)
      PROVE  CreditInv'
  BY <1>16 DEF Unregister, Move
<1>17. ASSUME NEW w \in Turns, Sample(w)
      PROVE  CreditInv'
  BY <1>17 DEF Sample, Move, Carry
<1>18. ASSUME NEW w \in Turns, Credit(w)
      PROVE  CreditInv'
  BY <1>18 DEF Credit, Move, Carry
<1>19. ASSUME NEW w \in Turns, QueueAndDrain(w)
      PROVE  CreditInv'
  BY <1>19 DEF QueueAndDrain, Carry, Queue
<1>20. ASSUME NEW w \in Turns, OpenLaunch(w)
      PROVE  CreditInv'
  BY <1>20 DEF OpenLaunch, Move
<1>21. ASSUME NEW w \in Turns, LinkerSubmit(w)
      PROVE  CreditInv'
  BY <1>21 DEF LinkerSubmit, Move
<1>22. ASSUME NEW w \in Turns, LinkerUnanswered(w)
      PROVE  CreditInv'
  BY <1>22 DEF LinkerUnanswered, Move
<1>23. ASSUME NEW w \in Turns, LinkerRefused(w)
      PROVE  CreditInv'
  BY <1>23 DEF LinkerRefused, Move
<1>24. ASSUME NEW w \in Turns, LinkerRegister(w)
      PROVE  CreditInv'
  BY <1>24 DEF LinkerRegister, Move
<1>25. ASSUME NEW w \in Turns, LinkerWatched(w)
      PROVE  CreditInv'
  BY <1>25 DEF LinkerWatched, Move
<1>26. ASSUME NEW w \in Turns, LinkerUnwatched(w)
      PROVE  CreditInv'
  BY <1>26 DEF LinkerUnwatched, Move
<1>27. ASSUME NEW w \in Turns, CloseLaunch(w)
      PROVE  CreditInv'
  BY <1>27 DEF CloseLaunch, Move, Carry
<1>28. ASSUME NEW w \in Turns, LinkerWatchEnds(w)
      PROVE  CreditInv'
  BY <1>28 DEF LinkerWatchEnds
<1>29. ASSUME NEW w \in Turns, NEW o \in Observations, DirectWrite(w, o)
      PROVE  CreditInv'
  BY <1>29 DEF DirectWrite, Move, Carry, Create
<1>30. ASSUME NEW w \in Turns, NEW o \in Observations, WorkerWrites(w, o)
      PROVE  CreditInv'
  BY <1>30 DEF WorkerWrites, Create
<1>31. ASSUME NEW w \in Turns, NEW o \in Observations, LinkerAmends(w, o)
      PROVE  CreditInv'
  BY <1>31 DEF LinkerAmends
<1>32. ASSUME NEW o \in Observations, Written(o)
      PROVE  CreditInv'
  BY <1>32 DEF Written
<1>33. CASE UNCHANGED vars
  BY <1>33
<1> QED
  BY <1>1, <1>2, <1>3, <1>4, <1>5, <1>6, <1>7, <1>8, <1>9, <1>10, <1>11,
     <1>12, <1>13, <1>14, <1>15, <1>16, <1>17, <1>18, <1>19, <1>20,
     <1>21, <1>22, <1>23, <1>24, <1>25, <1>26, <1>27, <1>28, <1>29,
     <1>30, <1>31, <1>32, <1>33
     DEF Next, HostStep, ServerStep, LaunchStep, FinishStep, LinkStep

\* A worker that was watched to its end leaves nothing uncredited.
THEOREM NothingUncredited == Spec => []WorkerOutputIsCredited
<1>1. Init => CreditInv
  BY DEF Init, CreditInv, Recorded
<1>2. LedgerInv /\ CreditInv /\ [Next]_vars => CreditInv'
  BY CreditInvIsKept
<1>3. CreditInv => WorkerOutputIsCredited
  BY DEF CreditInv, WorkerOutputIsCredited
<1> QED BY <1>1, <1>2, <1>3, Invariance, PTL DEF Spec
-----------------------------------------------------------------------------
\* A step keeps the linkers watched, and only the two ends of a launch change
\* which threads are inside one.
LEMMA LinkersStayWatched ==
    ASSUME TypeOK, LinkersAreWatched, [Next]_vars
    PROVE  /\ LinkersAreWatched'
           /\ \/ launching' = launching /\ \A v \in Turns : InLaunch(v)' <=> InLaunch(v)
              \/ \E w \in Turns : OpenLaunch(w) \/ CloseLaunch(w)
<1> DEFINE Kept ==
        /\ LinkersAreWatched'
        /\ \/ launching' = launching /\ \A v \in Turns : InLaunch(v)' <=> InLaunch(v)
           \/ \E w \in Turns : OpenLaunch(w) \/ CloseLaunch(w)
<1> SUFFICES Kept
  OBVIOUS
<1> USE DEF TypeOK, LinkersAreWatched, InLaunch, Labels, Runs
<1>1. ASSUME NEW w \in Turns, BeginTurn(w)
      PROVE  Kept
  BY <1>1 DEF BeginTurn, Move
<1>2. ASSUME NEW w \in Turns, DirectClose(w)
      PROVE  Kept
  BY <1>2 DEF DirectClose, Move
<1>3. ASSUME NEW w \in Turns, DirectNote(w)
      PROVE  Kept
  BY <1>3 DEF DirectNote, Move, Carry
<1>4. ASSUME NEW w \in Turns, WorkerEnds(w)
      PROVE  Kept
  BY <1>4 DEF WorkerEnds
<1>5. ASSUME NEW w \in Turns, LinkerEnds(w)
      PROVE  Kept
  BY <1>5 DEF LinkerEnds
<1>6. ASSUME NEW w \in Turns, TakeSnapshot(w)
      PROVE  Kept
  BY <1>6 DEF TakeSnapshot, Move
<1>7. ASSUME NEW w \in Turns, LaunchSkipped(w)
      PROVE  Kept
  BY <1>7 DEF LaunchSkipped
<1>8. ASSUME NEW w \in Turns, Submit(w)
      PROVE  Kept
  BY <1>8 DEF Submit, Move
<1>9. ASSUME NEW w \in Turns, SubmitUnanswered(w)
      PROVE  Kept
  BY <1>9 DEF SubmitUnanswered, Move
<1>10. ASSUME NEW w \in Turns, Register(w)
      PROVE  Kept
  BY <1>10 DEF Register, Move
<1>11. ASSUME NEW w \in Turns, StartWatcher(w)
      PROVE  Kept
  BY <1>11 DEF StartWatcher, Move
<1>12. ASSUME NEW w \in Turns, WatcherFails(w)
      PROVE  Kept
  BY <1>12 DEF WatcherFails, Move
<1>13. ASSUME NEW w \in Turns, Cancelled(w)
      PROVE  Kept
  BY <1>13 DEF Cancelled
<1>14. ASSUME NEW w \in Turns, PollEnds(w)
      PROVE  Kept
  BY <1>14 DEF PollEnds, Move
<1>15. ASSUME NEW w \in Turns, WatchLost(w)
      PROVE  Kept
  BY <1>15 DEF WatchLost, Move
<1>16. ASSUME NEW w \in Turns, Unregister(w)
      PROVE  Kept
  BY <1>16 DEF Unregister, Move
<1>17. ASSUME NEW w \in Turns, Sample(w)
      PROVE  Kept
  BY <1>17 DEF Sample, Move, Carry
<1>18. ASSUME NEW w \in Turns, Credit(w)
      PROVE  Kept
  BY <1>18 DEF Credit, Move, Carry
<1>19. ASSUME NEW w \in Turns, QueueAndDrain(w)
      PROVE  Kept
  BY <1>19 DEF QueueAndDrain, Carry, Queue
<1>20. ASSUME NEW w \in Turns, OpenLaunch(w)
      PROVE  Kept
  BY <1>20 DEF OpenLaunch, Move
<1>21. ASSUME NEW w \in Turns, LinkerSubmit(w)
      PROVE  Kept
  BY <1>21 DEF LinkerSubmit, Move
<1>22. ASSUME NEW w \in Turns, LinkerUnanswered(w)
      PROVE  Kept
  BY <1>22 DEF LinkerUnanswered, Move
<1>23. ASSUME NEW w \in Turns, LinkerRefused(w)
      PROVE  Kept
  BY <1>23 DEF LinkerRefused, Move
<1>24. ASSUME NEW w \in Turns, LinkerRegister(w)
      PROVE  Kept
  BY <1>24 DEF LinkerRegister, Move
<1>25. ASSUME NEW w \in Turns, LinkerWatched(w)
      PROVE  Kept
  BY <1>25 DEF LinkerWatched, Move
<1>26. ASSUME NEW w \in Turns, LinkerUnwatched(w)
      PROVE  Kept
  BY <1>26 DEF LinkerUnwatched, Move
<1>27. ASSUME NEW w \in Turns, CloseLaunch(w)
      PROVE  Kept
  BY <1>27 DEF CloseLaunch, Move, Carry
<1>28. ASSUME NEW w \in Turns, LinkerWatchEnds(w)
      PROVE  Kept
  BY <1>28 DEF LinkerWatchEnds
<1>29. ASSUME NEW w \in Turns, NEW o \in Observations, DirectWrite(w, o)
      PROVE  Kept
  BY <1>29 DEF DirectWrite, Move, Carry, Create
<1>30. ASSUME NEW w \in Turns, NEW o \in Observations, WorkerWrites(w, o)
      PROVE  Kept
  BY <1>30 DEF WorkerWrites, Create
<1>31. ASSUME NEW w \in Turns, NEW o \in Observations, LinkerAmends(w, o)
      PROVE  Kept
  BY <1>31 DEF LinkerAmends
<1>32. ASSUME NEW o \in Observations, Written(o)
      PROVE  Kept
  BY <1>32 DEF Written
<1>33. CASE UNCHANGED vars
  BY <1>33
<1> QED
  BY <1>1, <1>2, <1>3, <1>4, <1>5, <1>6, <1>7, <1>8, <1>9, <1>10, <1>11,
     <1>12, <1>13, <1>14, <1>15, <1>16, <1>17, <1>18, <1>19, <1>20,
     <1>21, <1>22, <1>23, <1>24, <1>25, <1>26, <1>27, <1>28, <1>29,
     <1>30, <1>31, <1>32, <1>33
     DEF Next, HostStep, ServerStep, LaunchStep, FinishStep, LinkStep

\* The threads inside a launch are finitely many.
LEMMA LaunchesAreFinite ==
    LET L == {w \in Turns : InLaunch(w)}
    IN  IsFiniteSet(L) /\ Cardinality(L) \in Nat
<1>1. {w \in Turns : InLaunch(w)} \subseteq Turns
  OBVIOUS
<1> QED
  BY <1>1, FiniteAssumption, FS_Subset, FS_CardinalityType

\* So the count is right after every step.
LEMMA VisibleInvIsKept == TypeOK /\ VisibleInv /\ [Next]_vars => VisibleInv'
<1> SUFFICES ASSUME TypeOK, VisibleInv, [Next]_vars PROVE VisibleInv'
  OBVIOUS
<1> DEFINE L == {w \in Turns : InLaunch(w)}
<1>1. /\ LinkersAreWatched'
      /\ \/ launching' = launching /\ \A v \in Turns : InLaunch(v)' <=> InLaunch(v)
         \/ \E w \in Turns : OpenLaunch(w) \/ CloseLaunch(w)
  BY LinkersStayWatched DEF VisibleInv
<1>2. IsFiniteSet(L) /\ Cardinality(L) \in Nat /\ launching = Cardinality(L)
  BY LaunchesAreFinite DEF VisibleInv, LaunchesAreCounted
<1>3. CASE launching' = launching /\ \A v \in Turns : InLaunch(v)' <=> InLaunch(v)
  <2>1. L' = L
    BY <1>3
  <2> QED BY <1>1, <1>2, <1>3, <2>1 DEF VisibleInv, LaunchesAreCounted
<1>4. ASSUME NEW w \in Turns, OpenLaunch(w) PROVE VisibleInv'
  <2>1. L' = L \cup {w} /\ w \notin L
    BY <1>4 DEF OpenLaunch, Move, InLaunch, TypeOK
  <2>2. Cardinality(L') = Cardinality(L) + 1
    BY <1>2, <2>1, FS_AddElement
  <2> QED BY <1>1, <1>2, <1>4, <2>2 DEF OpenLaunch, VisibleInv, LaunchesAreCounted
<1>5. ASSUME NEW w \in Turns, CloseLaunch(w) PROVE VisibleInv'
  <2>1. L' = L \ {w} /\ w \in L
    BY <1>5 DEF CloseLaunch, Move, InLaunch, TypeOK
  <2>2. Cardinality(L') = Cardinality(L) - 1
    BY <1>2, <2>1, FS_RemoveElement
  <2>3. Cardinality(L) # 0
    BY <1>2, <2>1, FS_EmptySet
  <2>4. launching' = launching - 1
    BY <1>2, <1>5, <2>3 DEF CloseLaunch
  <2> QED BY <1>1, <1>2, <2>2, <2>4 DEF VisibleInv, LaunchesAreCounted
<1> QED BY <1>1, <1>3, <1>4, <1>5

\* A linker that runs shows in the host's status for as long as its watcher
\* has not lost it, however many launches overlap.
THEOREM LinkersAreVisible == Spec => []LinkerIsVisible
<1>1. Init => VisibleInv
  <2> SUFFICES ASSUME Init PROVE VisibleInv
    OBVIOUS
  <2>1. {w \in Turns : InLaunch(w)} = {}
    BY DEF Init, InLaunch
  <2>2. LaunchesAreCounted
    BY <2>1, FS_EmptySet DEF Init, LaunchesAreCounted
  <2>3. LinkersAreWatched
    BY DEF Init, LinkersAreWatched
  <2> QED BY <2>2, <2>3 DEF VisibleInv
<1>2. TypeOK /\ VisibleInv => LinkerIsVisible
  <2> SUFFICES ASSUME TypeOK, VisibleInv, NEW w \in Turns,
                      linker[w] = "running", linkerWatch[w] # "lost"
               PROVE  launching > 0 \/ w \in activeLinkers
    BY DEF LinkerIsVisible
  <2>1. CASE InLaunch(w)
    <3> DEFINE L == {v \in Turns : InLaunch(v)}
    <3>1. IsFiniteSet(L) /\ Cardinality(L) \in Nat /\ w \in L
      BY <2>1, LaunchesAreFinite
    <3>2. Cardinality(L) # 0
      BY <3>1, FS_EmptySet
    <3> QED BY <3>1, <3>2 DEF VisibleInv, LaunchesAreCounted
  <2>2. CASE ~InLaunch(w)
    BY <2>2 DEF VisibleInv, LinkersAreWatched, InLaunch
  <2> QED BY <2>1, <2>2
<1> QED
  BY <1>1, <1>2, VisibleInvIsKept, TypeCorrectness, PTL DEF Spec

-----------------------------------------------------------------------------
\* What a step can do to one observation.
Handed(o) == \E w \in Turns : <<o, w>> \in handed
Moves(o) ==
    /\ Handed(o) => Handed(o)'
    /\ Handed(o)' => Handed(o) \/ Waiting(o)
    /\ Waiting(o) => Waiting(o)' \/ Handed(o)' \/ o \in dropped'
    /\ o \in dropped => o \in dropped'
    /\ o \in files => o \in files'
    /\ o \notin files => ~Waiting(o)' /\ ~Handed(o)' /\ o \notin dropped'

\* Every step treats every observation so.
LEMMA EveryStepMoves ==
    LedgerInv /\ [Next]_vars => \A x \in Observations : Moves(x)
<1> SUFFICES ASSUME LedgerInv, [Next]_vars, NEW x \in Observations
             PROVE  Moves(x)
  OBVIOUS
<1>0. /\ pending \subseteq files /\ dropped \subseteq files
      /\ handed \subseteq files \X Turns
      /\ pc \in [Turns -> Labels] /\ held \in [Turns -> SUBSET files]
  BY DEF LedgerInv, TypeOK
<1> USE <1>0 DEF Moves, Handed, Waiting, Batching, Labels
<1>1. ASSUME NEW w \in Turns, BeginTurn(w)
      PROVE  Moves(x)
  BY <1>1 DEF BeginTurn, Move
<1>2. ASSUME NEW w \in Turns, DirectClose(w)
      PROVE  Moves(x)
  BY <1>2 DEF DirectClose, Move
<1>3. ASSUME NEW w \in Turns, DirectNote(w)
      PROVE  Moves(x)
  BY <1>3 DEF DirectNote, Move, Carry
<1>4. ASSUME NEW w \in Turns, WorkerEnds(w)
      PROVE  Moves(x)
  BY <1>4 DEF WorkerEnds
<1>5. ASSUME NEW w \in Turns, LinkerEnds(w)
      PROVE  Moves(x)
  BY <1>5 DEF LinkerEnds
<1>6. ASSUME NEW w \in Turns, TakeSnapshot(w)
      PROVE  Moves(x)
  BY <1>6 DEF TakeSnapshot, Move
<1>7. ASSUME NEW w \in Turns, LaunchSkipped(w)
      PROVE  Moves(x)
  BY <1>7 DEF LaunchSkipped
<1>8. ASSUME NEW w \in Turns, Submit(w)
      PROVE  Moves(x)
  BY <1>8 DEF Submit, Move
<1>9. ASSUME NEW w \in Turns, SubmitUnanswered(w)
      PROVE  Moves(x)
  BY <1>9 DEF SubmitUnanswered, Move
<1>10. ASSUME NEW w \in Turns, Register(w)
      PROVE  Moves(x)
  BY <1>10 DEF Register, Move
<1>11. ASSUME NEW w \in Turns, StartWatcher(w)
      PROVE  Moves(x)
  BY <1>11 DEF StartWatcher, Move
<1>12. ASSUME NEW w \in Turns, WatcherFails(w)
      PROVE  Moves(x)
  BY <1>12 DEF WatcherFails, Move
<1>13. ASSUME NEW w \in Turns, Cancelled(w)
      PROVE  Moves(x)
  BY <1>13 DEF Cancelled
<1>14. ASSUME NEW w \in Turns, PollEnds(w)
      PROVE  Moves(x)
  BY <1>14 DEF PollEnds, Move
<1>15. ASSUME NEW w \in Turns, WatchLost(w)
      PROVE  Moves(x)
  BY <1>15 DEF WatchLost, Move
<1>16. ASSUME NEW w \in Turns, Unregister(w)
      PROVE  Moves(x)
  BY <1>16 DEF Unregister, Move
<1>17. ASSUME NEW w \in Turns, Sample(w)
      PROVE  Moves(x)
  BY <1>17 DEF Sample, Move, Carry
<1>18. ASSUME NEW w \in Turns, Credit(w)
      PROVE  Moves(x)
  BY <1>18 DEF Credit, Move, Carry
<1>19. ASSUME NEW w \in Turns, QueueAndDrain(w)
      PROVE  Moves(x)
  <2>1. /\ UNCHANGED <<handed, files>> /\ dropped \subseteq dropped'
        /\ dropped' \subseteq dropped \cup held[w]
    BY <1>19 DEF QueueAndDrain
  <2>2. /\ pending \subseteq pending' \cup held'[w]
        /\ pending' \cup held'[w] \subseteq pending \cup held[w]
    BY <1>19 DEF QueueAndDrain, Carry, Queue
  <2>3. /\ pc[w] \in {"credited", "flush"}
        /\ held'[w] # {} => pc'[w] = "drained"
    BY <1>19 DEF QueueAndDrain
  <2>4. \A v \in Turns \ {w} : pc'[v] = pc[v] /\ held'[v] = held[v]
    BY <1>19 DEF QueueAndDrain, Carry
  <2>5. Waiting(x) => Waiting(x)'
    BY <2>2, <2>3, <2>4
  <2>6. x \notin files => ~Waiting(x)' /\ x \notin dropped'
    BY <2>1, <2>2, <2>4
  <2> QED BY <2>1, <2>5, <2>6
<1>20. ASSUME NEW w \in Turns, OpenLaunch(w)
      PROVE  Moves(x)
  BY <1>20 DEF OpenLaunch, Move
<1>21. ASSUME NEW w \in Turns, LinkerSubmit(w)
      PROVE  Moves(x)
  BY <1>21 DEF LinkerSubmit, Move
<1>22. ASSUME NEW w \in Turns, LinkerUnanswered(w)
      PROVE  Moves(x)
  BY <1>22 DEF LinkerUnanswered, Move
<1>23. ASSUME NEW w \in Turns, LinkerRefused(w)
      PROVE  Moves(x)
  BY <1>23 DEF LinkerRefused, Move
<1>24. ASSUME NEW w \in Turns, LinkerRegister(w)
      PROVE  Moves(x)
  BY <1>24 DEF LinkerRegister, Move
<1>25. ASSUME NEW w \in Turns, LinkerWatched(w)
      PROVE  Moves(x)
  BY <1>25 DEF LinkerWatched, Move
<1>26. ASSUME NEW w \in Turns, LinkerUnwatched(w)
      PROVE  Moves(x)
  BY <1>26 DEF LinkerUnwatched, Move
<1>27. ASSUME NEW w \in Turns, CloseLaunch(w)
      PROVE  Moves(x)
  BY <1>27 DEF CloseLaunch, Move, Carry
<1>28. ASSUME NEW w \in Turns, LinkerWatchEnds(w)
      PROVE  Moves(x)
  BY <1>28 DEF LinkerWatchEnds
<1>29. ASSUME NEW w \in Turns, NEW o \in Observations, DirectWrite(w, o)
      PROVE  Moves(x)
  BY <1>29 DEF DirectWrite, Move, Carry, Create
<1>30. ASSUME NEW w \in Turns, NEW o \in Observations, WorkerWrites(w, o)
      PROVE  Moves(x)
  BY <1>30 DEF WorkerWrites, Create
<1>31. ASSUME NEW w \in Turns, NEW o \in Observations, LinkerAmends(w, o)
      PROVE  Moves(x)
  BY <1>31 DEF LinkerAmends
<1>32. ASSUME NEW o \in Observations, Written(o)
      PROVE  Moves(x)
  BY <1>32 DEF Written
<1>33. CASE UNCHANGED vars
  BY <1>33
<1> QED
  BY <1>1, <1>2, <1>3, <1>4, <1>5, <1>6, <1>7, <1>8, <1>9, <1>10, <1>11,
     <1>12, <1>13, <1>14, <1>15, <1>16, <1>17, <1>18, <1>19, <1>20,
     <1>21, <1>22, <1>23, <1>24, <1>25, <1>26, <1>27, <1>28, <1>29,
     <1>30, <1>31, <1>32, <1>33
     DEF Next, HostStep, ServerStep, LaunchStep, FinishStep, LinkStep

\* The host starts with an empty ledger.
LEMMA LedgerStarts == Init => Ledger!LedgerInit
BY DEF Init, Ledger!LedgerInit, Stage, Waiting, Batching

\* A step of the host is a step of the ledger.
LEMMA LedgerMoves ==
    LedgerInv /\ [Next]_vars
        => [Ledger!LedgerNext]_([o \in Observations |-> Stage(o)])
<1> SUFFICES ASSUME LedgerInv, [Next]_vars PROVE Ledger!LedgerNext
  OBVIOUS
<1> DEFINE S == DOMAIN Ledger!Successors
<1>1. S = {"absent", "written", "waiting", "lost", "handed"}
  BY DEF Ledger!Successors
<1>2. \A o \in Observations : Stage(o) \in S /\ Stage(o)' \in S
  BY <1>1 DEF Stage
<1>3. \A o \in Observations : Stage(o)' = Stage(o)
                              \/ Stage(o)' \in Ledger!Successors[Stage(o)]
  BY EveryStepMoves
     DEF Moves, Handed, Stage, Ledger!Successors, LedgerInv, TypeOK
<1> QED BY <1>2, <1>3 DEF Ledger!LedgerNext

\* Refinement: what waits for a linker never vanishes from the host's books,
\* and what was handed over stays so.
THEOREM LedgerIsKept == Spec => KeepsLedger
<1>1. Init => Ledger!LedgerInit
  BY LedgerStarts
<1>2. LedgerInv /\ [Next]_vars
         => [Ledger!LedgerNext]_([o \in Observations |-> Stage(o)])
  BY LedgerMoves
<1> QED BY <1>1, <1>2, Invariance, PTL DEF Spec, KeepsLedger, Ledger!LedgerSpec
=============================================================================
