-------------------------- MODULE ReviewBudget_proofs --------------------------
(***************************************************************************)
(* For any batch of calls, any budgets, any number of threads that look    *)
(* and any number of crashes: the budgets hold, and what lets the loop go  *)
(* beyond one lets it go beyond it by less than the calls of one response. *)
(*                                                                         *)
(* Every step is of one of five kinds, and each kind keeps both counts.    *)
(***************************************************************************)
EXTENDS ResearchReview_proofs

-----------------------------------------------------------------------------
(* Calls are counted.                                                      *)

LEMMA CallsAreFinite ==
    /\ Cardinality(Calls) \in Nat \ {0}
    /\ \A S \in SUBSET Calls :
          /\ IsFiniteSet(S) /\ Cardinality(S) \in Nat
          /\ Cardinality(S) <= Cardinality(Calls)
<1>1. IsFiniteSet(Calls) /\ Calls # {}
  BY CallsAssumption
<1>2. \A S \in SUBSET Calls : IsFiniteSet(S) /\ Cardinality(S) <= Cardinality(Calls)
  BY <1>1, FS_Subset
<1>3. \A S \in SUBSET Calls : Cardinality(S) \in Nat
  BY <1>2, FS_CardinalityType
<1>4. Cardinality(Calls) # 0
  BY <1>1, FS_EmptySet
<1> QED
  BY <1>2, <1>3, <1>4

LEMMA FewerCalls ==
    ASSUME NEW S \in SUBSET Calls, NEW T \in SUBSET S
    PROVE  Cardinality(T) <= Cardinality(S)
BY CallsAreFinite, FS_Subset

LEMMA OneCallLess ==
    ASSUME NEW S \in SUBSET Calls, NEW c \in S, NEW T \in SUBSET (S \ {c})
    PROVE  Cardinality(T) + 1 <= Cardinality(S)
<1>1. IsFiniteSet(S) /\ Cardinality(S) \in Nat
  BY CallsAreFinite
<1>2. Cardinality(S \ {c}) = Cardinality(S) - 1
  BY <1>1, FS_RemoveElement
<1>3. Cardinality(T) <= Cardinality(S \ {c}) /\ Cardinality(T) \in Nat
  BY FewerCalls, CallsAreFinite
<1> QED
  BY <1>1, <1>2, <1>3

LEMMA NumbersAre ==
    ASSUME IInv
    PROVE  /\ charged.actions \in Nat /\ charged.reviews \in Nat
           /\ Cardinality(OpenReviews) \in 0..Cardinality(Calls)
           /\ Cardinality(Reserving) \in 0..Cardinality(Calls)
           /\ Cardinality(Calls) \in Nat \ {0}
           /\ MaxActions \in Nat /\ MaxReviews \in Nat
           /\ state \in Known /\ Pending \subseteq Known
           /\ state.actions \in Nat /\ state.reviews \in Nat
           /\ \A st \in Known : st.actions \in Nat /\ st.reviews \in Nat
<1>1. OpenReviews \in SUBSET Calls /\ Reserving \in SUBSET Calls
  BY DEF OpenReviews, Reserving
<1>2. charged.actions \in Nat /\ charged.reviews \in Nat
  BY DEF IInv, BookTypes
<1>3. /\ Known \subseteq RunState /\ Pending \subseteq Known /\ state \in Known
      /\ \A st \in RunState : st.actions \in Nat /\ st.reviews \in Nat
  BY KnownAreStates DEF IInv, StoreInv
<1> QED
  BY <1>1, <1>2, <1>3, CallsAreFinite, BudgetAssumption

-----------------------------------------------------------------------------
(* The kinds of steps.                                                     *)

\* What a run state counted less than the one in the file is on record.
Recorded(st) == st \in Known /\ SetBackIn(st) \subseteq setBack'

\* What is saved was made from a known run state.
SavedFrom(base) ==
    /\ Recorded(base)
    /\ state'.actions >= base.actions /\ state'.reviews >= base.reviews
    /\ state'.status = "release_ready" => base.status = "release_ready"

Fewer == Pending' \subseteq Pending /\ setBack \subseteq setBack' /\ UNCHANGED route
Leaves == OpenReviews' \subseteq OpenReviews /\ Reserving' \subseteq Reserving

\* No work is charged and none is begun.
QuietStep ==
    Fewer /\ Leaves /\ UNCHANGED charged /\ \E base \in Known : SavedFrom(base)

\* A call is given an action.
GivenStep(c) ==
    /\ Fewer /\ UNCHANGED charged /\ SavedFrom(state)
    /\ OpenReviews' \subseteq OpenReviews /\ Reserving' \subseteq Reserving \cup {c}
    /\ route = <<>> => ~OutOfBudget

\* A thread finds a budget used up.
LoadStep ==
    /\ UNCHANGED <<state, charged, setBack, route>> /\ Leaves
    /\ Pending' \subseteq Pending \cup {[state EXCEPT !.status = "blocked"]}
    /\ Spent /\ (route = <<>> => OutOfBudget)

\* An action is reserved.
ReservedStep(c) ==
    /\ Fewer /\ state.actions < MaxActions
    /\ state'.actions = state.actions + 1 /\ state'.reviews = state.reviews
    /\ state'.status = state.status
    /\ charged' = [charged EXCEPT !.actions = @ + 1]
    /\ c \in Reserving /\ Reserving' \subseteq Reserving \ {c}

\* A verdict that is not a forced block is saved.
JudgedStep(c) ==
    /\ Fewer /\ charged' = [charged EXCEPT !.reviews = @ + 1]
    /\ \E ruled \in Known : Recorded(ruled) /\ ruled.reviews < MaxReviews
    /\ \E base \in Known : /\ Recorded(base)
                           /\ state'.actions >= base.actions
                           /\ state'.reviews >= base.reviews + 1
    /\ c \in OpenReviews /\ OpenReviews' \subseteq OpenReviews \ {c}
    /\ Reserving' \subseteq Reserving

\* What is left for no known run state is left for none later.
LEMMA NothingLeftStays ==
    ASSUME IInv, IInv', Pending' \subseteq Pending, NEW base \in Known,
           state'.actions >= base.actions, state'.reviews >= base.reviews
    PROVE  /\ NoActionsLeft => NoActionsLeft'
           /\ NoReviewsLeft => NoReviewsLeft'
           /\ /\ NoWorkLeft
              /\ state'.status = "release_ready" => base.status = "release_ready"
              => NoWorkLeft'
<1>1. \A st \in Known' : st = state' \/ st \in Known
  BY NumbersAre DEF Known
<1>2. /\ state'.actions \in Nat /\ state'.reviews \in Nat
      /\ base.actions \in Nat /\ base.reviews \in Nat
      /\ MaxActions \in Nat /\ MaxReviews \in Nat
  <2>1. state' \in RunState
    BY DEF IInv, StoreInv, StoreTypes
  <2> QED
    BY <2>1, NumbersAre DEF RunState
<1>3. NoActionsLeft => NoActionsLeft'
  BY <1>1, <1>2 DEF NoActionsLeft
<1>4. NoReviewsLeft => NoReviewsLeft'
  BY <1>1, <1>2 DEF NoReviewsLeft
<1>5. /\ NoWorkLeft
      /\ state'.status = "release_ready" => base.status = "release_ready"
      => NoWorkLeft'
  BY <1>1, <1>2 DEF NoWorkLeft
<1> QED
  BY <1>3, <1>4, <1>5

\* A run state that counts less than the one in the file was not saved yet.
LEMMA SetBackIsPending ==
    ASSUME IInv, NEW base, Recorded(base)
    PROVE  /\ base.reviews >= state.reviews \/ ("reviews" \in setBack' /\ Pending # {})
           /\ base.actions >= state.actions \/ ("actions" \in setBack' /\ Pending # {})
<1>1. base = state \/ Pending # {}
  BY DEF Recorded, Known
<1>2. base.actions \in Nat /\ base.reviews \in Nat
      /\ state.actions \in Nat /\ state.reviews \in Nat
  BY NumbersAre DEF Recorded
<1>3. base.reviews < state.reviews => "reviews" \in setBack'
  BY DEF Recorded, SetBackIn
<1>4. base.actions < state.actions => "actions" \in setBack'
  BY DEF Recorded, SetBackIn
<1> QED
  BY <1>1, <1>2, <1>3, <1>4

LEMMA LeavingIsFewer ==
    ASSUME Leaves
    PROVE  /\ Cardinality(OpenReviews)' <= Cardinality(OpenReviews)
           /\ Cardinality(Reserving)' <= Cardinality(Reserving)
<1>1. OpenReviews \in SUBSET Calls /\ Reserving \in SUBSET Calls
  BY DEF OpenReviews, Reserving
<1> QED
  BY <1>1, FewerCalls DEF Leaves

-----------------------------------------------------------------------------
(* Each kind of step keeps the counts.                                     *)

\* What the counts of two moments have in common: the numbers, and what a
\* step can do to them.
LEMMA NumbersAfter ==
    ASSUME IInv, IInv'
    PROVE  /\ charged'.actions \in Nat /\ charged'.reviews \in Nat
           /\ Cardinality(OpenReviews)' \in Nat /\ Cardinality(Reserving)' \in Nat
           /\ Cardinality(OpenReviews)' <= Cardinality(Calls)
           /\ Cardinality(Reserving)' <= Cardinality(Calls)
           /\ state'.actions \in Nat /\ state'.reviews \in Nat
<1>1. charged'.actions \in Nat /\ charged'.reviews \in Nat
  BY DEF IInv, BookTypes
<1>2. state'.actions \in Nat /\ state'.reviews \in Nat
  <2>1. state' \in RunState
    BY DEF IInv, StoreInv, StoreTypes
  <2> QED
    BY <2>1 DEF RunState
<1>3. OpenReviews' \in SUBSET Calls /\ Reserving' \in SUBSET Calls
  BY DEF OpenReviews, Reserving
<1> QED
  BY <1>1, <1>2, <1>3, CallsAreFinite

LEMMA QuietKeeps ==
    ASSUME IInv, IInv', BudgetInv, QuietStep
    PROVE  ReviewsAreCounted' /\ (route = <<>> => ActionsAreCounted')
<1>b. PICK base \in Known : SavedFrom(base)
  BY DEF QuietStep
<1>f. Fewer /\ Leaves /\ charged' = charged
  BY DEF QuietStep
<1>s. /\ NoActionsLeft => NoActionsLeft'
      /\ NoReviewsLeft => NoReviewsLeft'
      /\ NoWorkLeft => NoWorkLeft'
  BY <1>b, <1>f, NothingLeftStays DEF SavedFrom, Fewer
<1>p. Pending' # {} => Pending # {}
  BY <1>f DEF Fewer
<1>c. /\ ReviewsAreFew => ReviewsAreFew'
      /\ ActionsAreFew => ActionsAreFew'
  BY <1>f, LeavingIsFewer, NumbersAre, NumbersAfter
     DEF ReviewsAreFew, ActionsAreFew
<1>k. /\ base.reviews >= state.reviews \/ ("reviews" \in setBack' /\ Pending # {})
      /\ base.actions >= state.actions \/ ("actions" \in setBack' /\ Pending # {})
      /\ state'.actions >= base.actions /\ state'.reviews >= base.reviews
      /\ base.actions \in Nat /\ base.reviews \in Nat
  BY <1>b, SetBackIsPending, NumbersAre DEF SavedFrom
<1>1. ReviewsAreCounted'
  <2> USE DEF ReviewsAreCounted
  <2>0. ReviewsAreCounted
    BY DEF BudgetInv
  <2>1. CASE /\ charged.reviews <= state.reviews /\ charged.reviews <= MaxReviews
             /\ base.reviews >= state.reviews
    <3>1. charged'.reviews <= state'.reviews /\ charged'.reviews <= MaxReviews
      BY <1>f, <1>k, <2>1, NumbersAre, NumbersAfter
    <3> QED
      BY <1>c, <1>p, <1>s, <2>0, <3>1
  <2>2. CASE /\ charged.reviews <= MaxReviews
             /\ "reviews" \in setBack' /\ Pending # {}
    <3>1. charged'.reviews < MaxReviews + Cardinality(Calls)
      BY <1>f, <2>2, NumbersAre
    <3> QED
      BY <1>c, <1>p, <1>s, <2>0, <2>2, <3>1
  <2>3. CASE /\ "reviews" \in setBack
             /\ \/ NoActionsLeft /\ ReviewsAreFew
                \/ /\ NoReviewsLeft
                   /\ charged.reviews < MaxReviews + Cardinality(Calls)
    BY <1>c, <1>f, <1>p, <1>s, <2>0, <2>3 DEF Fewer
  <2> QED
    BY <1>k, <2>0, <2>1, <2>2, <2>3
<1>2. ASSUME route = <<>>
      PROVE  ActionsAreCounted'
  <2> USE DEF ActionsAreCounted
  <2>0. ActionsAreCounted
    BY <1>2 DEF BudgetInv
  <2>1. CASE /\ charged.actions <= state.actions /\ charged.actions <= MaxActions
             /\ base.actions >= state.actions
    <3>1. charged'.actions <= state'.actions /\ charged'.actions <= MaxActions
      BY <1>f, <1>k, <2>1, NumbersAre, NumbersAfter
    <3> QED
      BY <1>c, <1>p, <1>s, <2>0, <3>1
  <2>2. CASE /\ charged.actions <= MaxActions
             /\ "actions" \in setBack' /\ Pending # {}
    <3>1. charged'.actions < MaxActions + Cardinality(Calls)
      BY <1>f, <2>2, NumbersAre
    <3> QED
      BY <1>c, <1>p, <1>s, <2>0, <2>2, <3>1
  <2>3. CASE /\ "actions" \in setBack
             /\ \/ /\ NoActionsLeft
                   /\ charged.actions < MaxActions + Cardinality(Calls)
                \/ NoWorkLeft /\ ActionsAreFew
    BY <1>c, <1>f, <1>p, <1>s, <2>0, <2>3 DEF Fewer
  <2> QED
    BY <1>k, <2>0, <2>1, <2>2, <2>3
<1> QED
  BY <1>1, <1>2

\* An action is given only while there is work left.
LEMMA GivenKeeps ==
    ASSUME IInv, IInv', BudgetInv, NEW c \in Calls, GivenStep(c)
    PROVE  ReviewsAreCounted' /\ (route = <<>> => ActionsAreCounted')
<1>f. /\ Fewer /\ charged' = charged /\ SavedFrom(state)
      /\ OpenReviews' \subseteq OpenReviews
  BY DEF GivenStep
<1>k. state \in Known /\ state'.actions >= state.actions
      /\ state'.reviews >= state.reviews
  BY <1>f, NumbersAre DEF SavedFrom
<1>s. /\ NoActionsLeft => NoActionsLeft'
      /\ NoReviewsLeft => NoReviewsLeft'
  BY <1>f, <1>k, NothingLeftStays DEF Fewer
<1>p. Pending' # {} => Pending # {}
  BY <1>f DEF Fewer
<1>1. ReviewsAreCounted'
  <2>0. ReviewsAreCounted
    BY DEF BudgetInv
  <2>1. Cardinality(OpenReviews)' <= Cardinality(OpenReviews)
    <3>1. OpenReviews \in SUBSET Calls
      BY DEF OpenReviews
    <3> QED
      BY <1>f, <3>1, FewerCalls
  <2>2. ReviewsAreFew => ReviewsAreFew'
    BY <1>f, <2>1, NumbersAre, NumbersAfter DEF ReviewsAreFew
  <2>3. charged.reviews <= state.reviews => charged'.reviews <= state'.reviews
    BY <1>f, <1>k, NumbersAre, NumbersAfter
  <2> QED
    BY <1>f, <1>p, <1>s, <2>0, <2>2, <2>3 DEF ReviewsAreCounted, Fewer
<1>2. ASSUME route = <<>>
      PROVE  ActionsAreCounted'
  <2>0. ActionsAreCounted
    BY <1>2 DEF BudgetInv
  <2>1. ~NoWorkLeft
    BY <1>2, NumbersAre DEF GivenStep, OutOfBudget, NoWorkLeft
  <2>2. charged.actions <= state.actions => charged'.actions <= state'.actions
    BY <1>f, <1>k, NumbersAre, NumbersAfter
  <2> QED
    BY <1>f, <1>p, <1>s, <2>0, <2>1, <2>2 DEF ActionsAreCounted, Fewer
<1> QED
  BY <1>1, <1>2

\* The first block that is found: one budget is used up, and of the other no
\* more is charged than there are calls under way.
LEMMA LoadKeeps ==
    ASSUME IInv, IInv', BudgetInv, LoadStep
    PROVE  ReviewsAreCounted' /\ (route = <<>> => ActionsAreCounted')
<1> DEFINE copy == [state EXCEPT !.status = "blocked"]
<1>f. /\ state' = state /\ charged' = charged /\ setBack' = setBack
      /\ Pending' \subseteq Pending \cup {copy} /\ Leaves
  BY DEF LoadStep
<1>y. /\ copy.status = "blocked"
      /\ copy.actions = state.actions /\ copy.reviews = state.reviews
  BY DEF IInv, StoreInv, StoreTypes, RunState
<1> HIDE DEF copy
<1>n. \A st \in Known' : st \in Known \/ st = copy
  BY <1>f, NumbersAre DEF Known
<1>s. /\ NoActionsLeft => NoActionsLeft'
      /\ NoReviewsLeft => NoReviewsLeft'
      /\ NoWorkLeft => NoWorkLeft'
  BY <1>n, <1>y, NumbersAre DEF NoActionsLeft, NoReviewsLeft, NoWorkLeft
<1>c. /\ ReviewsAreFew => ReviewsAreFew'
      /\ ActionsAreFew => ActionsAreFew'
  BY <1>f, LeavingIsFewer, NumbersAre, NumbersAfter
     DEF ReviewsAreFew, ActionsAreFew
<1>o. ASSUME Pending = {}
      PROVE  /\ state.actions >= MaxActions => NoActionsLeft'
             /\ state.reviews >= MaxReviews => NoReviewsLeft'
             /\ state.reviews >= MaxReviews /\ state.status # "release_ready"
                   => NoWorkLeft'
  <2>1. \A st \in Known' : st = state \/ st = copy
    BY <1>n, <1>o DEF Known
  <2> QED
    BY <1>y, <2>1 DEF NoActionsLeft, NoReviewsLeft, NoWorkLeft
<1>1. ReviewsAreCounted'
  <2>0. ReviewsAreCounted
    BY DEF BudgetInv
  <2>1. (NoActionsLeft' /\ ReviewsAreFew') \/ NoReviewsLeft'
    <3>1. CASE Pending # {}
      BY <1>c, <1>s, <2>0, <3>1 DEF ReviewsAreCounted
    <3>2. CASE Pending = {} /\ state.reviews >= MaxReviews
      BY <1>o, <3>2
    <3>3. CASE Pending = {} /\ ~(state.reviews >= MaxReviews)
      <4>1. NoActionsLeft'
        BY <1>o, <3>3 DEF LoadStep, Spent
      <4>2. ~NoReviewsLeft
        BY <3>3, NumbersAre DEF NoReviewsLeft
      <4>3. ReviewsAreFew
        <5>1. CASE charged.reviews <= state.reviews
          BY <3>3, <5>1, NumbersAre DEF ReviewsAreFew
        <5> QED
          BY <2>0, <4>2, <5>1 DEF ReviewsAreCounted
      <4> QED
        BY <1>c, <4>1, <4>3
    <3> QED
      BY <3>1, <3>2, <3>3
  <2> QED
    BY <1>c, <1>f, <1>s, <2>0, <2>1 DEF ReviewsAreCounted
<1>2. ASSUME route = <<>>
      PROVE  ActionsAreCounted'
  <2>0. ActionsAreCounted
    BY <1>2 DEF BudgetInv
  <2>1. NoActionsLeft' \/ (NoWorkLeft' /\ ActionsAreFew')
    <3>1. CASE Pending # {}
      BY <1>c, <1>s, <2>0, <3>1 DEF ActionsAreCounted
    <3>2. CASE Pending = {} /\ state.actions >= MaxActions
      BY <1>o, <3>2
    <3>3. CASE Pending = {} /\ ~(state.actions >= MaxActions)
      <4>1. NoWorkLeft'
        BY <1>o, <1>2, <3>3 DEF LoadStep, OutOfBudget
      <4>2. ~NoActionsLeft
        BY <3>3, NumbersAre DEF NoActionsLeft
      <4>3. ActionsAreFew
        <5>1. CASE charged.actions <= state.actions
          BY <3>3, <5>1, NumbersAre DEF ActionsAreFew
        <5> QED
          BY <2>0, <4>2, <5>1 DEF ActionsAreCounted
      <4> QED
        BY <1>c, <4>1, <4>3
    <3> QED
      BY <3>1, <3>2, <3>3
  <2> QED
    BY <1>c, <1>f, <1>s, <2>0, <2>1 DEF ActionsAreCounted
<1> QED
  BY <1>1, <1>2

\* A reservation finds actions left, so it is one of the few if work is over.
LEMMA ReservedKeeps ==
    ASSUME IInv, IInv', BudgetInv, NEW c \in Calls, ReservedStep(c)
    PROVE  ReviewsAreCounted' /\ (route = <<>> => ActionsAreCounted')
<1>f. /\ Fewer /\ charged'.actions = charged.actions + 1
      /\ charged'.reviews = charged.reviews
      /\ state.actions < MaxActions
      /\ state'.actions = state.actions + 1 /\ state'.reviews = state.reviews
      /\ state'.status = state.status
  BY DEF ReservedStep, IInv, BookTypes
<1>s. /\ NoReviewsLeft => NoReviewsLeft'
      /\ NoWorkLeft => NoWorkLeft'
  BY <1>f, NothingLeftStays, NumbersAre DEF Fewer
<1>p. Pending' # {} => Pending # {}
  BY <1>f DEF Fewer
<1>n. ~NoActionsLeft
  BY <1>f, NumbersAre DEF NoActionsLeft
<1>1. ReviewsAreCounted'
  BY <1>f, <1>n, <1>p, <1>s DEF BudgetInv, ReviewsAreCounted, Fewer
<1>2. ASSUME route = <<>>
      PROVE  ActionsAreCounted'
  <2>0. ActionsAreCounted
    BY <1>2 DEF BudgetInv
  <2>1. Cardinality(Reserving)' + 1 <= Cardinality(Reserving)
    <3>1. Reserving \in SUBSET Calls
      BY DEF Reserving
    <3> QED
      BY <3>1, OneCallLess DEF ReservedStep
  <2>2. ActionsAreFew => ActionsAreFew'
    BY <1>f, <2>1, NumbersAre, NumbersAfter DEF ActionsAreFew
  <2>3. charged.actions <= state.actions =>
           charged'.actions <= state'.actions /\ charged'.actions <= MaxActions
    BY <1>f, NumbersAre
  <2> QED
    BY <1>f, <1>n, <1>p, <1>s, <2>0, <2>2, <2>3 DEF ActionsAreCounted, Fewer
<1> QED
  BY <1>1, <1>2

\* A review that is no block finds reviews left, in one known run state.
LEMMA JudgedKeeps ==
    ASSUME IInv, IInv', BudgetInv, NEW c \in Calls, JudgedStep(c)
    PROVE  ReviewsAreCounted' /\ (route = <<>> => ActionsAreCounted')
<1>f. /\ Fewer /\ charged'.reviews = charged.reviews + 1
      /\ charged'.actions = charged.actions
  BY DEF JudgedStep, IInv, BookTypes
<1>r. PICK ruled \in Known : Recorded(ruled) /\ ruled.reviews < MaxReviews
  BY DEF JudgedStep
<1>b. PICK base \in Known : /\ Recorded(base)
                            /\ state'.actions >= base.actions
                            /\ state'.reviews >= base.reviews + 1
  BY DEF JudgedStep
<1>k. /\ ruled.reviews >= state.reviews \/ ("reviews" \in setBack' /\ Pending # {})
      /\ base.reviews >= state.reviews \/ ("reviews" \in setBack' /\ Pending # {})
      /\ base.actions >= state.actions \/ ("actions" \in setBack' /\ Pending # {})
      /\ base.actions \in Nat /\ base.reviews \in Nat /\ ruled.reviews \in Nat
  BY <1>r, <1>b, SetBackIsPending, NumbersAre
<1>s. NoActionsLeft => NoActionsLeft'
  <2>1. state'.reviews >= base.reviews
    BY <1>b, <1>k, NumbersAfter
  <2> QED
    BY <1>b, <1>f, <2>1, NothingLeftStays DEF Fewer
<1>p. Pending' # {} => Pending # {}
  BY <1>f DEF Fewer
<1>n. ~NoReviewsLeft /\ ~NoWorkLeft
  BY <1>r, NumbersAre DEF NoReviewsLeft, NoWorkLeft
<1>1. ReviewsAreCounted'
  <2>0. ReviewsAreCounted
    BY DEF BudgetInv
  <2>1. Cardinality(OpenReviews)' + 1 <= Cardinality(OpenReviews)
    <3>1. OpenReviews \in SUBSET Calls
      BY DEF OpenReviews
    <3> QED
      BY <3>1, OneCallLess DEF JudgedStep
  <2>2. ReviewsAreFew => ReviewsAreFew'
    BY <1>f, <2>1, NumbersAre, NumbersAfter DEF ReviewsAreFew
  <2>3. CASE /\ charged.reviews <= state.reviews
             /\ ruled.reviews >= state.reviews /\ base.reviews >= state.reviews
    <3>1. charged'.reviews <= state'.reviews /\ charged'.reviews <= MaxReviews
      BY <1>f, <1>r, <1>b, <1>k, <2>3, NumbersAre, NumbersAfter
    <3> QED
      BY <1>n, <1>p, <1>s, <2>0, <2>2, <3>1 DEF ReviewsAreCounted
  <2>4. CASE "reviews" \in setBack' /\ Pending # {}
    BY <1>n, <1>s, <2>0, <2>2, <2>4 DEF ReviewsAreCounted
  <2>5. CASE "reviews" \in setBack /\ NoActionsLeft /\ ReviewsAreFew
    BY <1>f, <1>s, <2>2, <2>5 DEF ReviewsAreCounted, Fewer
  <2> QED
    BY <1>k, <1>n, <2>0, <2>3, <2>4, <2>5 DEF ReviewsAreCounted
<1>2. ASSUME route = <<>>
      PROVE  ActionsAreCounted'
  <2>0. ActionsAreCounted
    BY <1>2 DEF BudgetInv
  <2>1. CASE /\ charged.actions <= state.actions /\ charged.actions <= MaxActions
             /\ base.actions >= state.actions
    <3>1. charged'.actions <= state'.actions /\ charged'.actions <= MaxActions
      BY <1>f, <1>b, <1>k, <2>1, NumbersAre, NumbersAfter
    <3> QED
      BY <1>n, <1>p, <1>s, <2>0, <3>1 DEF ActionsAreCounted
  <2>2. CASE /\ charged.actions <= MaxActions
             /\ "actions" \in setBack' /\ Pending # {}
    <3>1. charged'.actions < MaxActions + Cardinality(Calls)
      BY <1>f, <2>2, NumbersAre
    <3> QED
      BY <1>n, <1>s, <2>0, <2>2, <3>1 DEF ActionsAreCounted
  <2>3. CASE /\ "actions" \in setBack /\ NoActionsLeft
             /\ charged.actions < MaxActions + Cardinality(Calls)
    BY <1>f, <1>s, <2>3 DEF ActionsAreCounted, Fewer
  <2> QED
    BY <1>k, <1>n, <2>0, <2>1, <2>2, <2>3 DEF ActionsAreCounted
<1> QED
  BY <1>1, <1>2

-----------------------------------------------------------------------------
(* Every step is of such a kind.                                           *)

LEMMA GotoLeaves ==
    ASSUME IInv, NEW c \in Calls, NEW pc, pc \notin {"reserve", "open", "review"},
           Goto(c, pc)
    PROVE  Leaves
<1>1. calls' = [calls EXCEPT ![c].pc = pc] /\ calls \in [Calls -> Call]
  BY DEF Goto, IInv, CallTypes
<1>2. calls'[c].pc = pc /\ \A d \in Calls \ {c} : calls'[d] = calls[d]
  BY <1>1 DEF Call
<1> QED
  BY <1>2 DEF Leaves, OpenReviews, Reserving

LEMMA ReturnLeaves ==
    ASSUME IInv, NEW c \in Calls, Return(c) \/ calls' = [d \in Calls |-> Idle]
    PROVE  Leaves
<1>1. \A d \in Calls : calls'[d] \in {Idle, Done, calls[d]}
  BY DEF Return, IInv, CallTypes
<1>2. Idle.pc = "idle" /\ Done.pc = "done"
  BY DEF Idle, Done
<1> QED
  BY <1>1, <1>2 DEF Leaves, OpenReviews, Reserving

LEMMA StayLeaves ==
    ASSUME UNCHANGED calls
    PROVE  Leaves
BY DEF Leaves, OpenReviews, Reserving

\* What is made from the run state in the file sets no counter back.
LEMMA FromState ==
    ASSUME IInv, state'.actions >= state.actions, state'.reviews >= state.reviews,
           state'.status = "release_ready" => state.status = "release_ready"
    PROVE  SavedFrom(state)
<1>1. state \in Known /\ state.actions \in Nat /\ state.reviews \in Nat
  BY NumbersAre
<1>2. SetBackIn(state) = {}
  BY <1>1 DEF SetBackIn
<1> QED
  BY <1>1, <1>2 DEF SavedFrom, Recorded

LEMMA SameState ==
    ASSUME IInv, UNCHANGED state
    PROVE  SavedFrom(state)
BY FromState, NumbersAre

LEMMA FewerIs ==
    ASSUME IInv, FewerUnsaved, setBack \subseteq setBack', UNCHANGED route
    PROVE  Fewer
BY FewerPending DEF IInv, Fewer

LEMMA QuietIs ==
    ASSUME IInv, FewerUnsaved, setBack \subseteq setBack', UNCHANGED route, Leaves,
           UNCHANGED charged, NEW base, SavedFrom(base)
    PROVE  QuietStep
<1>1. base \in Known
  BY DEF SavedFrom, Recorded
<1> QED
  BY <1>1, FewerIs DEF QuietStep

LEMMA NothingIsQuiet ==
    ASSUME IInv, FewerUnsaved, UNCHANGED <<state, route, charged, setBack>>, Leaves
    PROVE  QuietStep
BY QuietIs, SameState

LEMMA Ensured ==
    ASSUME IInv, NEW m \in Modes, EnsureIntegration(m)
    PROVE  FewerUnsaved /\ SavedFrom(state)
<1>1. state' = TargetState(m) /\ FewerUnsaved
  BY DEF EnsureIntegration, TargetState, Save, FewerUnsaved
<1>2. /\ TargetState(m).reviews = state.reviews
      /\ TargetState(m).actions = state.actions
      /\ TargetState(m).status = state.status
  BY TargetStateIs DEF IInv, StoreInv
<1>3. SavedFrom(state)
  BY <1>1, <1>2, NumbersAre, FromState
<1> QED
  BY <1>1, <1>3

LEMMA LookedIs ==
    ASSUME IInv, Looked
    PROVE  FewerUnsaved /\ SavedFrom(state) /\ UNCHANGED route
<1>1. CASE EnsureIntegration("integration")
  BY <1>1, Ensured, ModesAndStages DEF Looked
<1>2. CASE UNCHANGED <<state, unsaved>>
  BY <1>2, SameState DEF Looked, FewerUnsaved
<1> QED
  BY <1>1, <1>2 DEF Looked

LEMMA LoadIs ==
    ASSUME IInv, NEW l \in Lookers, LoadsExhausted(l), UNCHANGED books, Leaves
    PROVE  LoadStep
<1>1. NextAction.kind = "exhausted"
  BY DEF LoadsExhausted, Exhausted, Act
<1>2. Spent /\ (route = <<>> => OutOfBudget)
  BY <1>1, ExhaustedIsSpent DEF IInv
<1>3. Pending' \subseteq Pending \cup {[state EXCEPT !.status = "blocked"]}
  <2> DEFINE copy == [state EXCEPT !.status = "blocked"]
  <2>1. /\ unsaved' = [unsaved EXCEPT ![l] = {copy}]
        /\ unsaved \in [Lookers -> SUBSET RunState]
    BY DEF LoadsExhausted, IInv, StoreInv, StoreTypes
  <2> HIDE DEF copy
  <2>2. Pending' \subseteq Pending \cup {copy}
    BY <2>1 DEF Pending
  <2> QED
    BY <2>2 DEF copy
<1> QED
  BY <1>2, <1>3 DEF LoadsExhausted, files, books, LoadStep

LEMMA CheckpointIs ==
    ASSUME IInv, NEW base \in Known, NEW s \in Modes, NEW phase, NEW rid,
           CheckpointOver(base, s, phase, rid)
    PROVE  /\ FewerUnsaved /\ UNCHANGED route
           /\ \/ UNCHANGED state
              \/ /\ state'.actions = base.actions /\ state'.reviews = base.reviews
                 /\ state'.status = "active"
<1>1. CASE UNCHANGED store
  BY <1>1 DEF store, files, FewerUnsaved
<1>2. CASE /\ WriteCheckpoint(s, phase, rid)
           /\ Save(StateAfterCheckpoint(base, s, phase))
  <2>1. base \in RunState
    BY KnownAreStates DEF IInv, StoreInv
  <2>2. /\ StateAfterCheckpoint(base, s, phase).actions = base.actions
        /\ StateAfterCheckpoint(base, s, phase).reviews = base.reviews
        /\ StateAfterCheckpoint(base, s, phase).status = "active"
    BY <2>1 DEF StateAfterCheckpoint, RunState
  <2> QED
    BY <1>2, <2>2 DEF WriteCheckpoint, Save, FewerUnsaved
<1> QED
  BY <1>1, <1>2 DEF CheckpointOver

LEMMA FirstSteps ==
    ASSUME IInv, NEW c \in Calls,
           \/ Begin(c) \/ Decide(c) \/ DecideExhausted(c)
           \/ ReturnExhausted(c) \/ StopAfterFailures(c)
           \/ RaiseUnknownStage(c) \/ Reserve(c)
    PROVE  QuietStep \/ LoadStep \/ GivenStep(c) \/ ReservedStep(c)
<1>t. calls \in [Calls -> Call] /\ state \in RunState
      /\ state.actions \in Nat /\ state.reviews \in Nat
  BY NumbersAre DEF IInv, CallTypes, StoreInv, StoreTypes
<1>1. CASE Begin(c)
  <2>1. Leaves /\ setBack' = setBack \cup SetBackIn(state') /\ UNCHANGED charged
    BY <1>1, GotoLeaves DEF Begin, Sets
  <2>2. CASE ~Recoverable
    <3>1. FewerUnsaved /\ UNCHANGED <<state, route>>
      BY <1>1, <2>2 DEF Begin, Recover, store, files, FewerUnsaved
    <3> QED
      BY <2>1, <3>1, QuietIs, SameState
  <2>3. CASE Recoverable
    <3>1. PICK st \in MayFind(state) :
             CheckpointOver(st, failure.stage, "first", NoReview)
      BY <1>1, <2>3 DEF Begin, Recover
    <3>2. st \in Known /\ failure.stage \in Modes
      BY DEF MayFind, Known, IInv, StoreInv, StoreTypes
    <3>3. /\ FewerUnsaved /\ UNCHANGED route
          /\ \/ UNCHANGED state
             \/ /\ state'.actions = st.actions /\ state'.reviews = st.reviews
                /\ state'.status = "active"
      BY <3>1, <3>2, CheckpointIs
    <3>4. CASE UNCHANGED state
      BY <2>1, <3>3, <3>4, QuietIs, SameState
    <3>5. CASE /\ state'.actions = st.actions /\ state'.reviews = st.reviews
               /\ state'.status = "active"
      <4>1. SetBackIn(st) \subseteq setBack'
        BY <2>1, <3>5 DEF SetBackIn
      <4>2. SavedFrom(st)
        BY <3>2, <3>5, <4>1, NumbersAre DEF SavedFrom, Recorded
      <4> QED
        BY <2>1, <3>3, <4>2, QuietIs
    <3> QED
      BY <3>3, <3>4, <3>5
  <2> QED
    BY <2>2, <2>3
<1>2. CASE Decide(c)
  <2>1. FewerUnsaved /\ SavedFrom(state) /\ UNCHANGED <<route, charged, setBack>>
    BY <1>2, LookedIs DEF Decide, books
  <2>2. CASE Return(c)
    BY <2>1, <2>2, ReturnLeaves, QuietIs
  <2>3. CASE /\ NextAction.kind \notin {"terminal", "released"}
             /\ calls' = [calls EXCEPT ![c].pc = "reserve",
                                       ![c].act = NextAction]
    <3>1. calls'[c].pc = "reserve" /\ \A d \in Calls \ {c} : calls'[d] = calls[d]
      BY <1>t, <2>3 DEF Call
    <3>2. OpenReviews' \subseteq OpenReviews /\ Reserving' \subseteq Reserving \cup {c}
      BY <3>1 DEF OpenReviews, Reserving
    <3>3. route = <<>> => ~OutOfBudget
      BY <1>2, <2>3 DEF Decide, Looked, NextAction, FullAction, Terminal, Act
    <3> QED
      BY <2>1, <3>2, <3>3, FewerIs DEF GivenStep
  <2> QED
    BY <1>2, <2>2, <2>3 DEF Decide
<1>3. CASE DecideExhausted(c)
  BY <1>3, LoadIs, GotoLeaves, LookersAssumption DEF DecideExhausted
<1>4. CASE ReturnExhausted(c) \/ RaiseUnknownStage(c)
  <2>1. FewerUnsaved /\ UNCHANGED <<state, route, charged, setBack>> /\ Return(c)
    BY <1>4 DEF ReturnExhausted, RaiseUnknownStage, store, files, books, FewerUnsaved
  <2> QED
    BY <2>1, ReturnLeaves, NothingIsQuiet
<1>5. CASE StopAfterFailures(c)
  <2>1. /\ FewerUnsaved /\ UNCHANGED <<route, charged, setBack>> /\ Return(c)
        /\ state' = [state EXCEPT !.status = "blocked",
                                  !.current = calls[c].act.stage,
                                  !.stage[calls[c].act.stage] = "blocked"]
    BY <1>5 DEF StopAfterFailures, BlockForFailures, Save, books, FewerUnsaved
  <2>2. SavedFrom(state)
    BY <1>t, <2>1, FromState DEF RunState
  <2> QED
    BY <2>1, <2>2, ReturnLeaves, QuietIs
<1>6. CASE Reserve(c)
  <2>1. UNCHANGED <<route, setBack>> /\ FewerUnsaved /\ calls[c].pc = "reserve"
    BY <1>6 DEF Reserve, files, Save, FewerUnsaved
  <2>2. CASE state.actions >= MaxActions
    <3>1. /\ state' = [state EXCEPT !.status = "blocked"] /\ Return(c)
          /\ UNCHANGED charged
      BY <1>6, <2>2 DEF Reserve, Save
    <3>2. SavedFrom(state)
      BY <1>t, <3>1, FromState DEF RunState
    <3> QED
      BY <2>1, <3>1, <3>2, ReturnLeaves, QuietIs
  <2>3. CASE ~(state.actions >= MaxActions)
    <3>1. /\ state' = [state EXCEPT !.actions = @ + 1]
          /\ Goto(c, FirstStep[calls[c].act.kind])
          /\ charged' = [charged EXCEPT !.actions = @ + 1]
      BY <1>6, <2>3 DEF Reserve, Save
    <3>2. /\ state'.actions = state.actions + 1 /\ state'.reviews = state.reviews
          /\ state'.status = state.status /\ state.actions < MaxActions
      BY <1>t, <2>3, <3>1, BudgetAssumption DEF RunState
    <3>3. FirstStep[calls[c].act.kind] # "reserve"
      <4>1. calls[c].act.kind \in {"producer", "review", "prepare_release"}
        BY <2>1 DEF IInv, CallsMakeSense, Sensible
      <4> QED
        BY <4>1 DEF FirstStep
    <3>4. c \in Reserving /\ Reserving' \subseteq Reserving \ {c}
      <4>1. /\ calls'[c].pc = FirstStep[calls[c].act.kind]
            /\ \A d \in Calls \ {c} : calls'[d] = calls[d]
        BY <1>t, <3>1 DEF Goto, Call
      <4> QED
        BY <2>1, <3>3, <4>1 DEF Reserving
    <3> QED
      BY <2>1, <3>1, <3>2, <3>4, FewerIs DEF ReservedStep
  <2> QED
    BY <2>2, <2>3
<1> QED
  BY <1>1, <1>2, <1>3, <1>4, <1>5, <1>6

LEMMA WorkSteps ==
    ASSUME IInv, NEW c \in Calls,
           \/ ProducerReturns(c) \/ ProducerFails(c) \/ FinishProducer(c)
           \/ OpenContext(c) \/ ReviewerGivesUp(c) \/ FinishReview(c)
           \/ ReadIntegration(c) \/ PrepareRelease(c)
    PROVE  QuietStep
<1>t. calls \in [Calls -> Call] /\ state \in RunState
      /\ state.actions \in Nat /\ state.reviews \in Nat
      /\ calls[c].act.stage \in Modes
  BY NumbersAre, ActsAreActions DEF IInv, CallTypes, StoreInv, StoreTypes
<1>1. CASE ProducerReturns(c) \/ ProducerFails(c)
  <2>1. FewerUnsaved /\ UNCHANGED <<state, route, charged, setBack>>
    BY <1>1 DEF ProducerReturns, ProducerFails, books, FewerUnsaved
  <2>2. Leaves
    BY <1>1, GotoLeaves, ReturnLeaves DEF ProducerReturns, ProducerFails
  <2> QED
    BY <2>1, <2>2, NothingIsQuiet
<1>2. CASE FinishProducer(c)
  <2>1. UNCHANGED <<charged, setBack>> /\ Leaves
    BY <1>2, ReturnLeaves DEF FinishProducer, books
  <2>2. FewerUnsaved /\ UNCHANGED route /\ SavedFrom(state)
    <3>1. CASE Checkpoint(calls[c].act.stage, calls[c].act.phase,
                          calls[c].act.answers)
      <4>1. /\ FewerUnsaved /\ UNCHANGED route
            /\ \/ UNCHANGED state
               \/ /\ state'.actions = state.actions
                  /\ state'.reviews = state.reviews /\ state'.status = "active"
        BY <1>t, <3>1, CheckpointIs DEF Checkpoint, Known
      <4> QED
        BY <1>t, <4>1, SameState, FromState
    <3>2. CASE UNCHANGED store
      BY <3>2, SameState DEF store, files, FewerUnsaved
    <3> QED
      BY <1>2, <3>1, <3>2 DEF FinishProducer
  <2> QED
    BY <2>1, <2>2, QuietIs
<1>3. CASE OpenContext(c)
  <2>1. FewerUnsaved /\ SavedFrom(state) /\ UNCHANGED <<route, charged, setBack>>
    BY <1>t, <1>3, Ensured DEF OpenContext, books
  <2>2. Leaves
    <3>1. /\ calls[c].pc \in {"open", "review"} /\ calls'[c].pc = "review"
          /\ \A d \in Calls \ {c} : calls'[d] = calls[d]
      BY <1>t, <1>3 DEF OpenContext, Call
    <3> QED
      BY <3>1 DEF Leaves, OpenReviews, Reserving
  <2> QED
    BY <2>1, <2>2, QuietIs
<1>4. CASE ReviewerGivesUp(c)
  <2>1. FewerUnsaved /\ UNCHANGED <<state, route, charged, setBack>>
    BY <1>4 DEF ReviewerGivesUp, store, files, books, FewerUnsaved
  <2> QED
    BY <1>4, <2>1, GotoLeaves, NothingIsQuiet DEF ReviewerGivesUp
<1>5. CASE FinishReview(c)
  <2>1. UNCHANGED <<route, charged, setBack>> /\ Leaves
    BY <1>5, ReturnLeaves DEF FinishReview, books
  <2>2. FewerUnsaved /\ SavedFrom(state)
    <3>1. CASE EnsureIntegration(calls[c].act.stage)
      BY <1>t, <3>1, Ensured
    <3>2. CASE UNCHANGED <<state, unsaved>>
      BY <3>2, SameState DEF FewerUnsaved
    <3> QED
      BY <1>5, <3>1, <3>2 DEF FinishReview
  <2> QED
    BY <2>1, <2>2, QuietIs
<1>6. CASE ReadIntegration(c)
  <2>1. FewerUnsaved /\ UNCHANGED <<state, route, charged, setBack>>
    BY <1>6 DEF ReadIntegration, store, files, books, FewerUnsaved
  <2>2. Leaves
    <3>1. CASE Return(c)
      BY <3>1, ReturnLeaves
    <3>2. CASE calls' = [calls EXCEPT ![c].pc = "draft",
                                      ![c].seen = Latest("integration")]
      <4>1. calls'[c].pc = "draft" /\ \A d \in Calls \ {c} : calls'[d] = calls[d]
        BY <1>t, <3>2 DEF Call
      <4> QED
        BY <4>1 DEF Leaves, OpenReviews, Reserving
    <3> QED
      BY <1>6, <3>1, <3>2 DEF ReadIntegration
  <2> QED
    BY <2>1, <2>2, NothingIsQuiet
<1>7. CASE PrepareRelease(c)
  <2>1. /\ FewerUnsaved /\ UNCHANGED <<route, charged, setBack>> /\ Leaves
        /\ state' = StateAfterRelease
    BY <1>7, ReturnLeaves
       DEF PrepareRelease, WriteRelease, Save, books, FewerUnsaved
  <2>2. SavedFrom(state)
    <3>1. /\ StateAfterRelease.actions = state.actions
          /\ StateAfterRelease.reviews = state.reviews
          /\ StateAfterRelease.status = "active"
      BY <1>t DEF StateAfterRelease, RunState
    <3> QED
      BY <1>t, <2>1, <3>1, FromState
  <2> QED
    BY <2>1, <2>2, QuietIs
<1> QED
  BY <1>1, <1>2, <1>3, <1>4, <1>5, <1>6, <1>7

\* A run state that was found counts what a known one has counted.
LEMMA FoundIs ==
    ASSUME IInv, NEW m \in Modes, NEW ruled \in MayFind(TargetState(m)),
           NEW found \in MayFind(ruled), SetBackIn(found) \subseteq setBack'
    PROVE  \E base \in Known : /\ Recorded(base)
                               /\ base.actions = found.actions
                               /\ base.reviews = found.reviews
                               /\ base.status = found.status
<1>1. PICK base \in Known : Targets(base, m, found)
  BY FoundIsSound DEF IInv
<1>2. base.actions = found.actions /\ base.reviews = found.reviews
  BY <1>1 DEF Targets
<1>3. SetBackIn(base) = SetBackIn(found)
  BY <1>2 DEF SetBackIn
<1> QED
  BY <1>1, <1>2, <1>3 DEF Recorded, Targets

LEMMA VerdictSteps ==
    ASSUME IInv, NEW c \in Calls, SubmitVerdict(c) \/ DieInVerdict(c)
    PROVE  QuietStep \/ JudgedStep(c)
<1> DEFINE m == calls[c].act.stage
<1>t. calls \in [Calls -> Call] /\ m \in Modes /\ StoreInv /\ StoreTypes
  BY ActsAreActions DEF IInv, CallTypes, StoreInv
<1>1. CASE SubmitVerdict(c)
  <2>p. PICK ruled \in MayFind(TargetState(m)) :
           \E entered \in MayFind(ruled), verdict \in Rulings(ruled, m) :
              /\ WriteVerdict(m, verdict)
              /\ Save(StateAfterVerdict(entered, m, verdict))
              /\ setBack' = setBack \cup SetBackIn(ruled) \cup SetBackIn(entered)
              /\ charged' = IF verdict.decision = "block" THEN charged
                            ELSE [charged EXCEPT !.reviews = @ + 1]
    BY <1>1 DEF SubmitVerdict
  <2>1. PICK entered \in MayFind(ruled), verdict \in Rulings(ruled, m) :
           /\ WriteVerdict(m, verdict)
           /\ Save(StateAfterVerdict(entered, m, verdict))
           /\ setBack' = setBack \cup SetBackIn(ruled) \cup SetBackIn(entered)
           /\ charged' = IF verdict.decision = "block" THEN charged
                         ELSE [charged EXCEPT !.reviews = @ + 1]
    BY <2>p
  <2>2. Reviewable(m) /\ FewerUnsaved /\ UNCHANGED route
        /\ state' = StateAfterVerdict(entered, m, verdict)
    BY <2>1 DEF WriteVerdict, Save, FewerUnsaved
  <2>3. ruled \in RunState /\ entered \in RunState
    BY <1>t, FoundIsSound
  <2>4. verdict \in Verdict /\ (verdict.decision # "block" => ruled.reviews < MaxReviews)
    BY <1>t, <2>2, <2>3, RulingIsVerdict
  <2>5. /\ state'.actions = entered.actions /\ state'.reviews = entered.reviews + 1
        /\ verdict.decision = "block" => state'.status = "blocked"
    BY <1>t, <2>2, <2>3, <2>4, AfterVerdictIs
  <2>6. PICK base \in Known : /\ Recorded(base)
                              /\ base.actions = entered.actions
                              /\ base.reviews = entered.reviews
    BY <1>t, <2>1, FoundIs
  <2>7. base.actions \in Nat /\ base.reviews \in Nat
    BY NumbersAre
  <2>8. /\ c \in OpenReviews /\ OpenReviews' \subseteq OpenReviews \ {c}
        /\ Reserving' \subseteq Reserving
    <3>1. /\ calls[c].pc = "review" /\ calls'[c].pc = "finish"
          /\ \A d \in Calls \ {c} : calls'[d] = calls[d]
      BY <1>t, <1>1 DEF SubmitVerdict, MaySubmit, Goto, Call
    <3> QED
      BY <3>1 DEF OpenReviews, Reserving
  <2>9. CASE verdict.decision = "block"
    <3>1. SavedFrom(base)
      BY <2>5, <2>6, <2>7, <2>9 DEF SavedFrom
    <3>2. Leaves /\ setBack \subseteq setBack' /\ UNCHANGED charged
      BY <2>1, <2>8, <2>9 DEF Leaves
    <3> QED
      BY <2>2, <3>1, <3>2, QuietIs
  <2>10. CASE verdict.decision # "block"
    <3>1. Fewer
      BY <2>1, <2>2, FewerIs
    <3>2. \E known \in Known : Recorded(known) /\ known.reviews < MaxReviews
      <4>1. ruled \in MayFind(ruled) /\ SetBackIn(ruled) \subseteq setBack'
        BY <2>1 DEF MayFind
      <4>2. PICK known \in Known : Recorded(known) /\ known.reviews = ruled.reviews
        BY <1>t, <4>1, FoundIs
      <4> QED
        BY <2>4, <2>10, <4>2
    <3>3. /\ state'.actions >= base.actions
          /\ state'.reviews >= base.reviews + 1
      BY <2>5, <2>6, <2>7
    <3> QED
      BY <2>1, <2>6, <2>8, <2>10, <3>1, <3>2, <3>3 DEF JudgedStep
  <2> QED
    BY <2>9, <2>10
<1>2. CASE DieInVerdict(c)
  <2>p. PICK ruled \in MayFind(TargetState(m)) :
           \E entered \in MayFind(ruled), verdict \in Rulings(ruled, m) :
              /\ WriteVerdict(m, verdict) /\ state' = entered
              /\ setBack' = setBack \cup SetBackIn(ruled) \cup SetBackIn(entered)
    BY <1>2 DEF DieInVerdict
  <2>1. PICK entered \in MayFind(ruled), verdict \in Rulings(ruled, m) :
           /\ WriteVerdict(m, verdict) /\ state' = entered
           /\ setBack' = setBack \cup SetBackIn(ruled) \cup SetBackIn(entered)
    BY <2>p
  <2>2. PICK base \in Known : /\ Recorded(base)
                              /\ base.actions = entered.actions
                              /\ base.reviews = entered.reviews
                              /\ base.status = entered.status
    BY <1>t, <2>1, FoundIs
  <2>3. SavedFrom(base)
    BY <2>1, <2>2, NumbersAre DEF SavedFrom
  <2>4. FewerUnsaved /\ UNCHANGED <<route, charged>>
        /\ calls' = [d \in Calls |-> Idle] /\ setBack \subseteq setBack'
    BY <1>2, <2>1 DEF DieInVerdict, Die, WriteVerdict, FewerUnsaved
  <2> QED
    BY <2>3, <2>4, ReturnLeaves, QuietIs
<1> QED
  BY <1>1, <1>2

LEMMA DeathSteps ==
    ASSUME IInv, NEW c \in Calls,
           Abandon(c) \/ DieInCheckpoint(c) \/ DieInRelease(c)
    PROVE  QuietStep
<1>1. UNCHANGED <<state, route, charged, setBack>> /\ FewerUnsaved
  BY DEF Abandon, DieInCheckpoint, DieInRelease, Die, WriteCheckpoint,
         WriteRelease, store, files, books, FewerUnsaved
<1>2. Leaves
  BY ReturnLeaves DEF Abandon, DieInCheckpoint, DieInRelease, Die
<1> QED
  BY <1>1, <1>2, NothingIsQuiet

LEMMA SharedSteps ==
    ASSUME IInv, \/ Look \/ SaveBlocked \/ Deliver \/ Restart \/ NewTurn
                 \/ OperatorReopens
    PROVE  QuietStep \/ LoadStep
<1>t. state \in RunState /\ state.actions \in Nat /\ state.reviews \in Nat
  BY NumbersAre DEF IInv, StoreInv, StoreTypes
<1>1. CASE Look
  <2>1. CASE Looked
    BY <1>1, <2>1, LookedIs, StayLeaves, QuietIs DEF Look, books
  <2>2. ASSUME NEW l \in Lookers, LoadsExhausted(l)
        PROVE  LoadStep
    BY <1>1, <2>2, LoadIs, StayLeaves DEF Look
  <2> QED
    BY <1>1, <2>1, <2>2 DEF Look
<1>2. CASE SaveBlocked
  <2>1. PICK l \in Lookers : SavesBlocked(l)
    BY <1>2 DEF SaveBlocked
  <2>2. FewerUnsaved /\ UNCHANGED <<route, charged>> /\ Leaves
        /\ setBack' = setBack \cup SetBackIn(state')
    BY <1>2, <2>1, StayLeaves DEF SaveBlocked, SavesBlocked, Sets, files, FewerUnsaved
  <2>3. state' \in Known /\ state'.status = "blocked"
    <3>1. state' \in Pending
      BY <2>1 DEF SavesBlocked, Pending
    <3> QED
      BY <3>1, NumbersAre DEF IInv, StoreInv, PendingIsSpent
  <2>4. SavedFrom(state')
    BY <2>2, <2>3, NumbersAre DEF SavedFrom, Recorded
  <2> QED
    BY <2>2, <2>4, QuietIs
<1>3. CASE Deliver
  <2>1. /\ FewerUnsaved /\ UNCHANGED <<route, charged, setBack>> /\ Leaves
        /\ state' = [state EXCEPT !.status = "released",
                                  !.current = "final_release"]
    BY <1>3, StayLeaves DEF Deliver, Save, files, books, FewerUnsaved
  <2>2. SavedFrom(state)
    BY <1>t, <2>1, FromState DEF RunState
  <2> QED
    BY <2>1, <2>2, QuietIs
<1>4. CASE Restart
  <2>1. FewerUnsaved /\ UNCHANGED <<state, route, charged, setBack>>
        /\ calls' = [d \in Calls |-> Idle]
    BY <1>4 DEF Restart, Die, files, FewerUnsaved
  <2>2. Leaves
    <3>1. Idle.pc = "idle"
      BY DEF Idle
    <3> QED
      BY <2>1, <3>1 DEF Leaves, OpenReviews, Reserving
  <2> QED
    BY <2>1, <2>2, NothingIsQuiet
<1>5. CASE NewTurn
  <2>1. FewerUnsaved /\ UNCHANGED <<state, route, charged, setBack>> /\ Leaves
    BY <1>5, StayLeaves DEF NewTurn, store, files, books, FewerUnsaved
  <2> QED
    BY <2>1, NothingIsQuiet
<1>6. CASE OperatorReopens
  <2>1. PICK change \in Changes : Reopen(change) \/ RepairReopening(change)
    BY <1>6 DEF OperatorReopens
  <2>2. PICK status \in {Restored(failure.stage), "produced"} :
           Save(Reactivated(failure.stage, status))
    BY <2>1 DEF Reopen, RepairReopening
  <2>3. /\ FewerUnsaved /\ UNCHANGED <<route, charged, setBack>> /\ Leaves
        /\ state' = Reactivated(failure.stage, status)
    BY <1>6, <2>1, <2>2, StayLeaves
       DEF OperatorReopens, Reopen, RepairReopening, Save, books, FewerUnsaved
  <2>4. SavedFrom(state)
    <3>1. /\ Reactivated(failure.stage, status).actions = state.actions
          /\ Reactivated(failure.stage, status).reviews = state.reviews
          /\ Reactivated(failure.stage, status).status = "active"
      BY <1>t DEF Reactivated, RunState
    <3> QED
      BY <1>t, <2>3, <3>1, FromState
  <2> QED
    BY <2>3, <2>4, QuietIs
<1> QED
  BY <1>1, <1>2, <1>3, <1>4, <1>5, <1>6

LEMMA EveryStepCounts ==
    ASSUME IInv, [Next]_vars
    PROVE  \/ QuietStep \/ LoadStep
           \/ \E c \in Calls : GivenStep(c) \/ ReservedStep(c) \/ JudgedStep(c)
<1>1. CASE UNCHANGED vars
  BY <1>1, StayLeaves, NothingIsQuiet
     DEF vars, store, files, books, FewerUnsaved
<1>2. ASSUME NEW c \in Calls, CallStep(c) \/ HostStep(c)
      PROVE  \/ QuietStep \/ LoadStep \/ GivenStep(c) \/ ReservedStep(c)
             \/ JudgedStep(c)
  BY <1>2, FirstSteps, WorkSteps, VerdictSteps, DeathSteps DEF CallStep, HostStep
<1> QED
  BY <1>1, <1>2, SharedSteps DEF Next

-----------------------------------------------------------------------------
(* The theorems.                                                           *)

LEMMA BudgetStep ==
    ASSUME IInv, IInv', BudgetInv, [Next]_vars
    PROVE  BudgetInv'
<1>1. PendingIsSpent'
  BY DEF IInv, StoreInv
<1>2. /\ ReviewsAreCounted' /\ (route = <<>> => ActionsAreCounted')
      /\ UNCHANGED route
  BY EveryStepCounts, QuietKeeps, LoadKeeps, GivenKeeps, ReservedKeeps, JudgedKeeps
     DEF QuietStep, LoadStep, GivenStep, ReservedStep, JudgedStep, Fewer
<1> QED
  BY <1>1, <1>2 DEF BudgetInv

\* However often a stale block is saved over later charges, what the counters
\* no longer tell is bounded by the calls that were under way.
THEOREM BudgetInvariance == Spec => []BudgetInv
<1>1. Init => BudgetInv
  <2> SUFFICES ASSUME Init PROVE BudgetInv
    OBVIOUS
  <2>1. /\ charged.actions = 0 /\ charged.reviews = 0 /\ Pending = {}
        /\ state.actions = 0 /\ state.reviews = 0
    BY DEF Init, InitStore, Pending
  <2> QED
    BY <2>1, BudgetAssumption
       DEF BudgetInv, PendingIsSpent, ReviewsAreCounted, ActionsAreCounted
<1>2. IInv /\ IInv' /\ BudgetInv /\ [Next]_vars => BudgetInv'
  BY BudgetStep
<1> QED
  BY <1>1, <1>2, Invariance, PTL DEF Spec

\* So no restart, recovery, reopening or overlap of calls extends a budget,
\* but for a stale block, and that by less than the calls of one response.
THEOREM BudgetsHold == Spec => []BudgetHolds
<1>1. IInv /\ BudgetInv => BudgetHolds
  <2> SUFFICES ASSUME IInv, BudgetInv PROVE BudgetHolds
    OBVIOUS
  <2>1. Within(charged.reviews, "reviews", MaxReviews)
    BY NumbersAre DEF BudgetInv, ReviewsAreCounted, ReviewsAreFew, Within
  <2>2. route = <<>> => Within(charged.actions, "actions", MaxActions)
    BY NumbersAre DEF BudgetInv, ActionsAreCounted, ActionsAreFew, Within
  <2> QED
    BY <2>1, <2>2 DEF BudgetHolds
<1> QED
  BY <1>1, Invariance, BudgetInvariance, PTL
=============================================================================
