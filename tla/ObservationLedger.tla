--------------------------- MODULE ObservationLedger --------------------------
(***************************************************************************)
(* What the memory pipeline promises about one observation, with no        *)
(* threads and no runs: it is written, it waits for a linker, and it is    *)
(* handed to one or given up.  What waits never vanishes, and what was     *)
(* handed to a linker stays so.                                            *)
(***************************************************************************)
CONSTANT Observations
VARIABLE stage       \* where each observation is

Successors ==
    [absent  |-> {"written"},
     written |-> {"waiting", "lost"},
     waiting |-> {"handed", "lost"},
     lost    |-> {"waiting"},       \* found again, and queued again
     handed  |-> {}]

LedgerInit == stage = [o \in Observations |-> "absent"]

\* A batch of observations moves on together.
LedgerNext ==
    stage' \in {s \in [Observations -> DOMAIN Successors] :
                   \A o \in Observations :
                      s[o] = stage[o] \/ s[o] \in Successors[stage[o]]}

LedgerSpec == LedgerInit /\ [][LedgerNext]_stage
=============================================================================
