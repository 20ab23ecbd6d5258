----------------------------- MODULE RunContract -----------------------------
(***************************************************************************)
(* What an experiment run promises to whoever submitted it, with no files  *)
(* and no phases: attempts are charged one at a time, never more than the  *)
(* request allows; the run ends by publishing one outcome; and once it is  *)
(* published nothing about the run changes.                                *)
(***************************************************************************)
EXTENDS Integers

CONSTANTS MaxTotalAttempts,  \* the attempts the request allows
          Outcomes,          \* what a run may end with
          Unpublished        \* "published" before the end, not an outcome

VARIABLES charged,    \* attempts charged so far
          published   \* the outcome of the published report
contract == <<charged, published>>

ContractInit == charged = 0 /\ published = Unpublished

Charge ==
    /\ published = Unpublished /\ charged < MaxTotalAttempts
    /\ charged' = charged + 1
    /\ UNCHANGED published

Publish(outcome) ==
    /\ published = Unpublished
    /\ published' = outcome
    /\ UNCHANGED charged

ContractNext == Charge \/ \E outcome \in Outcomes : Publish(outcome)

ContractSpec == ContractInit /\ [][ContractNext]_contract

\* The run that may be interrupted at any time is still published.
ContractFairSpec ==
    ContractSpec /\ WF_contract(\E outcome \in Outcomes : Publish(outcome))
=============================================================================
