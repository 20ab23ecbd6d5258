--------------------------- MODULE CompletionLedger ---------------------------
(***************************************************************************)
(* What the notifier promises about completions of runs, with no watchers, *)
(* no queues and no turns: only a run that has ended is announced, an      *)
(* announcement waits until its session is told of it, or it is put aside  *)
(* because the session knows, and no completion is told twice, or          *)
(* elsewhere.                                                              *)
(***************************************************************************)
CONSTANTS Completions, Sessions, NoSession

VARIABLES over,         \* runs that have ended
          waiting,      \* announced, and nobody has looked at it
          aside,        \* nobody needs to be told
          told,         \* completions and the sessions that were told
          owner         \* of a completion: the session that launched the task

ledger == <<over, waiting, aside, told, owner>>

ToldOf(c) == \E s \in Sessions : <<c, s>> \in told

LedgerInit ==
    /\ over = {} /\ waiting = {} /\ aside = {} /\ told = {}
    /\ owner = [c \in Completions |-> NoSession]

\* Tasks are launched and end.
Elsewhere ==
    /\ over \subseteq over'
    /\ \A c \in Completions : owner[c] # NoSession => owner'[c] = owner[c]
    /\ UNCHANGED <<waiting, aside, told>>
Announce(c) ==
    /\ c \in over \ (waiting \cup aside) /\ ~ToldOf(c)
    /\ waiting' = waiting \cup {c}
    /\ UNCHANGED <<over, aside, told, owner>>
Settle(batch) ==
    /\ batch \subseteq waiting
    /\ waiting' = waiting \ batch
    /\ \E known \in SUBSET batch :
          /\ aside' = aside \cup known
          /\ told' = told \cup {<<c, owner[c]>> : c \in batch \ known}
    /\ UNCHANGED <<over, owner>>

LedgerNext ==
    \/ Elsewhere
    \/ \E c \in Completions : Announce(c)
    \/ \E batch \in SUBSET Completions : Settle(batch)

LedgerSpec == LedgerInit /\ [][LedgerNext]_ledger
=============================================================================
