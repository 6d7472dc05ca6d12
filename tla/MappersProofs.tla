--------------------------- MODULE MappersProofs ---------------------------
(***************************************************************************)
(* Facts about the field mappings, for every team and every input.           *)
(***************************************************************************)
EXTENDS Mappers, TLAPS, FiniteSetTheorems

\* The smallest index of a non-empty set of indices is one of them.
LEMMA FirstOfIsMember ==
    ASSUME NEW I \in SUBSET Nat, I # {}
    PROVE  FirstOf(I) \in I
\* No induction on numbers is at hand: the intervals 1..i are compared instead.
<1>. DEFINE T == {1..i : i \in I}
<1>1. IsWellFoundedOn(StrictSubsetOrdering(Nat), FiniteSubsetsOf(Nat))
  BY FS_StrictSubsetOrderingWellFounded
<1>2. T \subseteq FiniteSubsetsOf(Nat) /\ T # {}
  <2>1. \A i \in I : IsFiniteSet(1..i) /\ 1..i \in SUBSET Nat
    BY FS_Interval
  <2>2. T \subseteq FiniteSubsetsOf(Nat)
    BY <2>1 DEF FiniteSubsetsOf
  <2>3. T # {}
    OBVIOUS
  <2>. QED BY <2>2, <2>3
<1>3. \E X \in T : \A Y \in T : ~ (<<Y, X>> \in StrictSubsetOrdering(Nat))
  BY ONLY <1>1, <1>2, WFMin
<1>4. PICK x \in I : \A y \in I : ~ (<<1..y, 1..x>> \in StrictSubsetOrdering(Nat))
  BY <1>3
<1>5. \A y \in I : ~ ((1..y) \subseteq (1..x) /\ (1..y) # (1..x))
  <2>. SUFFICES ASSUME NEW y \in I, (1..y) \subseteq (1..x), (1..y) # (1..x) PROVE FALSE
    OBVIOUS
  <2>1. <<1..y, 1..x>> \in (SUBSET Nat) \X (SUBSET Nat)
    OBVIOUS
  <2>2. <<1..y, 1..x>> \in StrictSubsetOrdering(Nat)
    BY <2>1 DEF StrictSubsetOrdering
  <2>. QED BY <1>4, <2>2
<1>6. \A y \in I : x <= y
  <2>. SUFFICES ASSUME NEW y \in I, y < x PROVE FALSE
    OBVIOUS
  <2>1. (1..y) \subseteq (1..x) /\ x \in 1..x /\ x \notin 1..y
    OBVIOUS
  <2>. QED BY <1>5, <2>1
<1>. QED
  BY <1>6 DEF FirstOf

\* Whatever type is asked for, the picked state is one of the team's.
LEMMA PickedStateIsKnown ==
    ASSUME NEW type, NEW prefer_name
    PROVE  /\ pick_state_by_type(type, prefer_name) \in KnownStates
           /\ pick_state_by_type(type, prefer_name) \in State
<1>. DEFINE candidates == {i \in DOMAIN TeamStates : TeamStates[i].type = type}
            preferred  == {i \in candidates : TeamStates[i].name = prefer_name}
<1>1. /\ DOMAIN TeamStates = 1..Len(TeamStates)
      /\ Len(TeamStates) \in Nat \ {0}
      /\ \A i \in DOMAIN TeamStates : TeamStates[i] \in State
  BY TeamStatesAssumption
<1>2. candidates \in SUBSET Nat /\ preferred \in SUBSET Nat
  BY <1>1
<1>3. ASSUME candidates # {} PROVE FirstOf(candidates) \in DOMAIN TeamStates
  BY <1>2, <1>3, FirstOfIsMember
<1>4. ASSUME preferred # {} PROVE FirstOf(preferred) \in DOMAIN TeamStates
  BY <1>2, <1>4, FirstOfIsMember
<1>5. 1 \in DOMAIN TeamStates
  BY <1>1
<1>6. \E i \in DOMAIN TeamStates : pick_state_by_type(type, prefer_name) = TeamStates[i]
  BY <1>3, <1>4, <1>5 DEF pick_state_by_type
<1>. QED
  BY <1>1, <1>6 DEF KnownStates

\* If the team has a state of the type asked for, one of that type is picked.
LEMMA PickedStateHasType ==
    ASSUME NEW type, NEW prefer_name,
           \E i \in DOMAIN TeamStates : TeamStates[i].type = type
    PROVE  pick_state_by_type(type, prefer_name).type = type
<1>. DEFINE candidates == {i \in DOMAIN TeamStates : TeamStates[i].type = type}
            preferred  == {i \in candidates : TeamStates[i].name = prefer_name}
<1>1. DOMAIN TeamStates = 1..Len(TeamStates) /\ Len(TeamStates) \in Nat
  BY TeamStatesAssumption
<1>2. candidates \in SUBSET Nat /\ preferred \in SUBSET Nat /\ candidates # {}
  BY <1>1
<1>3. FirstOf(candidates) \in candidates
  BY <1>2, FirstOfIsMember
<1>4. ASSUME preferred # {} PROVE FirstOf(preferred) \in candidates
  BY <1>2, <1>4, FirstOfIsMember
<1>5. \E i \in candidates : pick_state_by_type(type, prefer_name) = TeamStates[i]
  BY <1>2, <1>3, <1>4 DEF pick_state_by_type
<1>. QED
  BY <1>5

LEMMA LinearStateIsState ==
    ASSUME NEW status, NEW state
    PROVE  pick_linear_state_from_tt(status, state_by_id(state)) \in State
<1>1. ASSUME state \in KnownStates PROVE state \in State
  BY <1>1, TeamStatesAssumption DEF KnownStates
<1>2. NoState.type \notin {"backlog", "unstarted", "started"}
  BY DEF NoState
<1>3. state_by_id(state).type \in {"backlog", "unstarted", "started"} => state_by_id(state) \in State
  BY <1>1, <1>2 DEF state_by_id
<1>. QED
  BY <1>3, PickedStateIsKnown DEF pick_linear_state_from_tt

\* The bucket nearest to any priority exists.
LEMMA ClampIsBucket ==
    ASSUME NEW p \in Int
    PROVE  clamp_tt_priority(p) \in Buckets
<1>1. \E b \in Buckets : \A c \in Buckets :
         \/ Distance(b, p) < Distance(c, p)
         \/ Distance(b, p) = Distance(c, p) /\ b <= c
  <2>1. CASE p <= 0
    <3>1. \A c \in Buckets : \/ Distance(0, p) < Distance(c, p)
                             \/ Distance(0, p) = Distance(c, p) /\ 0 <= c
      BY <2>1 DEF Buckets, Distance
    <3>. QED BY <3>1 DEF Buckets
  <2>2. CASE p = 1 \/ p = 2
    <3>1. \A c \in Buckets : \/ Distance(1, p) < Distance(c, p)
                             \/ Distance(1, p) = Distance(c, p) /\ 1 <= c
      BY <2>2 DEF Buckets, Distance
    <3>. QED BY <3>1 DEF Buckets
  <2>3. CASE p = 3 \/ p = 4
    <3>1. \A c \in Buckets : \/ Distance(3, p) < Distance(c, p)
                             \/ Distance(3, p) = Distance(c, p) /\ 3 <= c
      BY <2>3 DEF Buckets, Distance
    <3>. QED BY <3>1 DEF Buckets
  <2>4. CASE p >= 5
    <3>1. \A c \in Buckets : \/ Distance(5, p) < Distance(c, p)
                             \/ Distance(5, p) = Distance(c, p) /\ 5 <= c
      BY <2>4 DEF Buckets, Distance
    <3>. QED BY <3>1 DEF Buckets
  <2>. QED BY <2>1, <2>2, <2>3, <2>4
<1>. QED
  BY <1>1 DEF clamp_tt_priority

\* A bucket is its own nearest bucket.
LEMMA ClampIdempotent ==
    ASSUME NEW p \in Buckets
    PROVE  clamp_tt_priority(p) = p
<1>. p \in Int
  BY DEF Buckets
<1>1. \A c \in Buckets : \/ Distance(p, p) < Distance(c, p)
                         \/ Distance(p, p) = Distance(c, p) /\ p <= c
  BY DEF Buckets, Distance
<1>2. \A b \in Buckets :
         (\A c \in Buckets : \/ Distance(b, p) < Distance(c, p)
                             \/ Distance(b, p) = Distance(c, p) /\ b <= c) => b = p
  BY DEF Buckets, Distance
<1>. QED
  BY <1>1, <1>2 DEF clamp_tt_priority

\* tt_priority_to_linear and linear_priority_to_tt: a TickTick priority, taken
\* to Linear over any current one (Urgent included) and back, is its bucket.
THEOREM PriorityRoundTrip ==
    ASSUME NEW p \in Int, NEW current
    PROVE  /\ tt_priority_to_linear(p, current) \in 0..4
           /\ linear_priority_to_tt(tt_priority_to_linear(p, current)) = clamp_tt_priority(p)
<1>1. clamp_tt_priority(p) \in {0, 1, 3, 5}
  BY ClampIsBucket DEF Buckets
<1>. QED
  BY <1>1 DEF tt_priority_to_linear, linear_priority_to_tt, TT_TO_LINEAR_PRIORITY, Buckets

\* What linear_priority_to_tt sends to TickTick is a bucket, so reading it back
\* changes nothing.
LEMMA SentPriorityIsBucket ==
    ASSUME NEW p
    PROVE  /\ linear_priority_to_tt(p) \in Buckets
           /\ clamp_tt_priority(linear_priority_to_tt(p)) = linear_priority_to_tt(p)
<1>1. linear_priority_to_tt(p) \in Buckets
  BY DEF linear_priority_to_tt, Buckets
<1>. QED
  BY <1>1, ClampIdempotent

\* pick_linear_state_from_tt and linear_state_to_tt_status: on a board with a
\* completed, a canceled and an unstarted state, the status of a task, taken to
\* Linear over any current state and back, is the same.
THEOREM StatusRoundTrip ==
    ASSUME NEW status \in TTStatuses, NEW current,
           \A type \in {"completed", "canceled", "unstarted"} :
               \E i \in DOMAIN TeamStates : TeamStates[i].type = type
    PROVE  linear_state_to_tt_status(pick_linear_state_from_tt(status, current).type) = status
<1>1. \A n : /\ pick_state_by_type("completed", n).type = "completed"
             /\ pick_state_by_type("canceled", n).type = "canceled"
             /\ pick_state_by_type("unstarted", n).type = "unstarted"
  BY PickedStateHasType
<1>2. CASE status = TT_COMPLETED
  BY <1>1, <1>2 DEF pick_linear_state_from_tt, linear_state_to_tt_status
<1>3. CASE status = TT_WONTDO
  BY <1>1, <1>3
     DEF pick_linear_state_from_tt, linear_state_to_tt_status, TT_COMPLETED, TT_WONTDO
<1>4. CASE status = TT_OPEN
  <2>. DEFINE s == pick_linear_state_from_tt(status, current)
  <2>1. s.type \in {"backlog", "unstarted", "started"}
    <3>1. CASE current.type \in {"backlog", "unstarted", "started"}
      BY <1>4, <3>1 DEF pick_linear_state_from_tt, TT_OPEN, TT_COMPLETED, TT_WONTDO
    <3>2. CASE current.type \notin {"backlog", "unstarted", "started"}
      BY <1>1, <1>4, <3>2 DEF pick_linear_state_from_tt, TT_OPEN, TT_COMPLETED, TT_WONTDO
    <3>. QED BY <3>1, <3>2
  <2>. HIDE DEF s
  <2>2. linear_state_to_tt_status(s.type) = TT_OPEN
    BY <2>1 DEF linear_state_to_tt_status
  <2>. QED BY <1>4, <2>2 DEF s
<1>. QED
  BY <1>2, <1>3, <1>4 DEF TTStatuses
=============================================================================
