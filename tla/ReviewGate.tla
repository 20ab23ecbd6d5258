------------------------------- MODULE ReviewGate -------------------------------
(***************************************************************************)
(* What the research review promises, with no calls, no budgets and no     *)
(* order of stages: an artifact is built on accepted artifacts only and    *)
(* never changed, an acceptance is never taken back, and what is published *)
(* was accepted.                                                           *)
(***************************************************************************)
VARIABLES built,        \* artifacts, each with what it was built on
          accepted,     \* those that a review accepted
          published     \* those that were returned to the user

gate == <<built, accepted, published>>

GateInit == built = {} /\ accepted = {} /\ published = {}

\* What exists keeps what it was built on.
Kept(b) == \A other \in built' : other.ref = b.ref => other = b

Build ==
    /\ built \subseteq built' /\ \A b \in built : Kept(b)
    /\ \A b \in built' \ built : b.on \subseteq accepted

\* A version may be built and accepted in one step.
Accept ==
    /\ accepted \subseteq accepted'
    /\ \A ref \in accepted' \ accepted : \E b \in built' : b.ref = ref

Publish == published \subseteq published' /\ published' \ published \subseteq accepted

GateNext == Build /\ Accept /\ Publish

GateSpec == GateInit /\ [][GateNext]_gate
=============================================================================
