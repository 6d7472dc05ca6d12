--------------------------- MODULE LifecycleProofs ---------------------------
(***************************************************************************)
(* Lifecycle's types, and that no token comes to its end without a warning, *)
(* for every check interval, every life of a token and any number of starts.*)
(***************************************************************************)
EXTENDS Lifecycle, TLAPS

\* The check that has to warn is never put off further than an interval from
\* the day it should, from the start, the authorization and the last miss.
InTime(t) ==
    next_check <= t + token_check_interval \/ next_check <= since + token_check_interval

CheckInTime ==
    jobs # {} =>
        /\ ~soon => InTime(expires_at - Week)
        /\ ~asap => InTime(expires_at - Day)

Inv == TypeOK /\ CheckInTime

\* Once a running scheduler has its next check, the clock does not pass it.
LEMMA NotPassed ==
    ASSUME TypeOK, jobs # {}
    PROVE  next_check \in Int /\ next_check >= now /\ expires_at \in Int /\ sync_ctxs = jobs
  BY LifecycleAssumption DEF TypeOK, Times

LEMMA Bounds == /\ MaxTime \in Nat /\ MaxStarts \in Nat /\ MaxTokens \in Nat /\ MaxMisses \in Nat
                /\ 0 \in Times
  BY LifecycleAssumption DEF Times

LEMMA InvInit == Init => Inv
<1> SUFFICES ASSUME Init PROVE Inv
  OBVIOUS
<1>1. TypeOK
  <2>1. now \in Times /\ since \in 0..now
    BY Bounds DEF Init
  <2>2. starts \in 0..MaxStarts /\ tokens \in 0..MaxTokens /\ misses \in 0..MaxMisses
    BY Bounds DEF Init
  <2> QED  BY <2>1, <2>2 DEF Init, TypeOK
<1>2. CheckInTime
  BY DEF Init, CheckInTime
<1> QED  BY <1>1, <1>2 DEF Inv

LEMMA InvStart ==
    ASSUME Inv, Start
    PROVE  Inv'
<1> USE LifecycleAssumption DEF Inv
<1>1. PICK built \in SUBSET Pairs :
        /\ sync_ctxs' = built
        /\ jobs' = IF HasToken THEN built ELSE {}
        /\ next_check' = IF jobs' = {} THEN None ELSE now
  BY DEF Start
<1>2. jobs = {} /\ synced = {}
  BY DEF Start, TypeOK
<1>3. TypeOK'
  BY <1>1, <1>2, Bounds DEF Start, TypeOK, Times, HasToken, warnings
<1>4. CheckInTime'
  <2>1. CASE jobs' = {}
    BY <2>1 DEF CheckInTime
  <2>2. CASE jobs' # {}
    <3>1. next_check' = now /\ since' = now /\ now \in Nat
      BY <1>1, <2>2 DEF Start, TypeOK, Times
    <3>2. now <= now + token_check_interval
      BY <3>1
    <3> QED  BY <3>1, <3>2 DEF CheckInTime, InTime, Start
  <2> QED  BY <2>1, <2>2
<1> QED  BY <1>3, <1>4

LEMMA InvStop ==
    ASSUME Inv, Stop
    PROVE  Inv'
  BY DEF Inv, Stop, TypeOK, CheckInTime, Times, warnings

LEMMA InvAuthorize ==
    ASSUME Inv, Authorize
    PROVE  Inv'
<1> USE LifecycleAssumption DEF Inv
<1>1. PICK expires_in \in Lifetimes :
        expires_at' = now + (IF expires_in = 0 THEN Day ELSE expires_in)
  BY DEF Authorize
<1>2. now \in Nat /\ expires_at' \in Nat
  <2>1. now \in Nat
    BY Bounds DEF TypeOK, Times
  <2>2. expires_in \in Nat /\ Day \in Nat
    BY LifecycleAssumption
  <2> HIDE DEF Inv
  <2> QED  BY <1>1, <2>1, <2>2
<1>3. TypeOK'
  <2>1. /\ now' \in Times /\ since' \in 0..now'
        /\ starts' \in 0..MaxStarts /\ tokens' \in 0..MaxTokens /\ misses' \in 0..MaxMisses
    BY <1>2, Bounds DEF Authorize, TypeOK, Times, process
  <2>2. soon' \in BOOLEAN /\ asap' \in BOOLEAN
    BY DEF Authorize
  <2>3. expires_at' \in Nat \cup {None} /\ expires_at' # None
    BY <1>2
  <2> QED  BY <2>1, <2>2, <2>3 DEF Authorize, TypeOK, process
<1>4. CheckInTime'
  <2>1. since' = now /\ jobs' = jobs /\ next_check' = next_check
    BY DEF Authorize, process
  <2>2. jobs # {} => next_check <= now + token_check_interval
    BY <1>2 DEF TypeOK
  <2> QED  BY <2>1, <2>2 DEF CheckInTime, InTime
<1> QED  BY <1>3, <1>4

LEMMA InvPoll ==
    ASSUME Inv, NEW p \in Pairs, Poll(p)
    PROVE  Inv'
<1>1. UNCHANGED <<now, process, expires_at, since, warnings, starts, tokens, misses>> /\ synced' \subseteq jobs
  BY DEF Poll, Inv, TypeOK
<1> QED  BY <1>1 DEF Inv, TypeOK, CheckInTime, InTime, process, warnings

\* The check itself: if it does not warn yet, the day to warn is still to come.
LEMMA InvCheck ==
    ASSUME Inv, token_expiry_check
    PROVE  Inv'
<1> USE LifecycleAssumption DEF Inv
<1>1. jobs # {} /\ now \in Nat /\ expires_at \in Nat
  BY DEF token_expiry_check, CheckDue, TypeOK, Times
<1>2. TypeOK'
  BY <1>1 DEF token_expiry_check, TypeOK, Times
<1>3. ~soon' => now <= expires_at - Week
  <2>1. ~soon' => ~(expires_at - now < Week)
    BY Zenon DEF token_expiry_check
  <2> QED  BY <1>1, <2>1
<1>4. ~asap' => now <= expires_at - Day
  <2>1. ~asap' => ~(expires_at - now < Day)
    BY Zenon DEF token_expiry_check
  <2> QED  BY <1>1, <2>1
<1>5. next_check' = now + token_check_interval /\ expires_at' = expires_at
  BY DEF token_expiry_check
<1>6. CheckInTime'
  BY <1>1, <1>3, <1>4, <1>5 DEF CheckInTime, InTime
<1> QED  BY <1>2, <1>6

LEMMA InvMiss ==
    ASSUME Inv, MissCheck
    PROVE  Inv'
<1> USE LifecycleAssumption DEF Inv
<1>1. jobs # {} /\ now \in Nat
  BY DEF MissCheck, CheckDue, TypeOK, Times
<1>2. TypeOK'
  BY <1>1 DEF MissCheck, TypeOK, Times, warnings
<1>3. next_check' = now + token_check_interval /\ since' = now
  BY DEF MissCheck
<1>4. CheckInTime'
  BY <1>1, <1>3 DEF CheckInTime, InTime
<1> QED  BY <1>2, <1>4

LEMMA InvTick ==
    ASSUME Inv, Tick
    PROVE  Inv'
<1> USE LifecycleAssumption DEF Inv
<1>1. now \in Nat /\ now' = now + 1 /\ now' <= MaxTime
  BY DEF Tick, TypeOK, Times
<1>2. jobs # {} => next_check # now
  BY DEF Tick, CheckDue
<1>3. TypeOK'
  BY <1>1, <1>2 DEF Tick, TypeOK, Times, process, warnings
<1>4. CheckInTime'
  BY DEF Tick, CheckInTime, InTime, process, warnings
<1> QED  BY <1>3, <1>4

LEMMA InvNext == Inv /\ [Next]_vars => Inv'
<1> SUFFICES ASSUME Inv, [Next]_vars PROVE Inv'
  OBVIOUS
<1>1. CASE Start
  BY <1>1, InvStart
<1>2. CASE Stop
  BY <1>2, InvStop
<1>3. CASE Authorize
  BY <1>3, InvAuthorize
<1>4. CASE \E p \in Pairs : Poll(p)
  BY <1>4, InvPoll
<1>5. CASE token_expiry_check
  BY <1>5, InvCheck
<1>6. CASE MissCheck
  BY <1>6, InvMiss
<1>7. CASE Tick
  BY <1>7, InvTick
<1>8. CASE UNCHANGED vars
  BY <1>8 DEF vars, process, warnings, Inv, TypeOK, CheckInTime, InTime, Times
<1> QED  BY <1>1, <1>2, <1>3, <1>4, <1>5, <1>6, <1>7, <1>8 DEF Next

LEMMA InvWarns == Inv => WarnedInTime
<1> SUFFICES ASSUME Inv, jobs # {}
             PROVE  /\ Overdue(expires_at - Week) => soon
                    /\ Overdue(expires_at - Day)  => asap
  BY DEF WarnedInTime
<1>1. /\ next_check \in Int /\ next_check >= now /\ expires_at \in Int
      /\ now \in Int /\ since \in Int
  BY NotPassed DEF Inv, TypeOK, Times
<1> QED  BY <1>1, LifecycleAssumption DEF Inv, CheckInTime, InTime, Overdue

\* Every reachable state is well-typed: there is a scheduler only with a token,
\* it polls all pairs that were built, and its next check lies ahead.
THEOREM TypeCorrect == Spec => []TypeOK
<1>1. Inv => TypeOK
  BY DEF Inv
<1> QED  BY InvInit, InvNext, <1>1, PTL DEF Spec

\* While the scheduler runs, a token that comes to its last week, or its last
\* day, is warned of at the next check (token_expiry_check).
THEOREM TokenWarning == Spec => []WarnedInTime
  BY InvInit, InvNext, InvWarns, PTL DEF Spec
=============================================================================
