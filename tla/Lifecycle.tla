----------------------------- MODULE Lifecycle -----------------------------
(***************************************************************************)
(* The service from one start to the next: which pairs it serves, whether it *)
(* has a scheduler, and what becomes of that as TickTick's access token runs *)
(* out and the user authorizes again (app.py, sync/setup.py, scheduler.py,   *)
(* ticktick/token_provider.py, ticktick/oauth.py).                           *)
(*                                                                          *)
(* What a poll does is the subject of LinkSync; here it succeeds or not.     *)
(* MaxTime bounds the clock, MaxStarts the starts, MaxTokens the tokens, and *)
(* MaxMisses the token checks that are skipped or cannot push their warning. *)
(***************************************************************************)
EXTENDS Integers

CONSTANTS
    Pairs,
    Day, Week,             \* when the check begins to warn
    token_check_interval,
    Lifetimes,             \* what expires_in may be; 0, if it is absent
    MaxTime, MaxStarts, MaxTokens, MaxMisses, None

ASSUME LifecycleAssumption ==
    /\ Day \in Nat /\ Week \in Nat /\ Day <= Week
    /\ token_check_interval \in Nat \ {0}
    /\ Lifetimes \subseteq Nat
    /\ {MaxTime, MaxStarts, MaxTokens, MaxMisses} \subseteq Nat
    /\ None \notin Nat

VARIABLES
    now,
    up,
    sync_ctxs,    \* the pairs that could be built at the start
    jobs,         \* those that are polled: all of them, or none without a scheduler
    next_check,   \* when the token is to be checked, None without a scheduler
    expires_at,   \* of the stored token, None if there is none
    synced,       \* pairs a poll of which succeeded since the last authorization
    since,        \* the last start, authorization or check that came to nothing
    soon, asap,   \* the user has been warned of the stored token: "soon", "ASAP"
    starts, tokens, misses

process  == <<up, sync_ctxs, jobs, next_check>>
warnings == <<soon, asap>>
vars     == <<now, process, expires_at, synced, since, warnings, starts, tokens, misses>>

Times == 0..MaxTime

TypeOK ==
    /\ now \in Times /\ since \in 0..now
    /\ up \in BOOLEAN /\ soon \in BOOLEAN /\ asap \in BOOLEAN
    /\ sync_ctxs \subseteq Pairs /\ jobs \in {{}, sync_ctxs} /\ synced \subseteq jobs
    /\ ~up => sync_ctxs = {}
    /\ IF jobs = {} THEN next_check = None
       ELSE next_check \in now..(now + token_check_interval)
    /\ expires_at \in Nat \cup {None}
    /\ jobs # {} => expires_at # None
    /\ starts \in 0..MaxStarts /\ tokens \in 0..MaxTokens /\ misses \in 0..MaxMisses

\* DbTokenProvider answers, instead of raising a TokenError.
HasToken == expires_at # None /\ now < expires_at

----------------------------------------------------------------------------

\* Slip: the scheduler is started without a look at the token.
StartUnchecked ==
    /\ ~up
    /\ starts < MaxStarts
    /\ starts' = starts + 1
    /\ up' = TRUE
    /\ \E built \in SUBSET Pairs :
         /\ sync_ctxs' = built
         /\ jobs' = built
         /\ next_check' = IF built = {} THEN None ELSE now
    /\ since' = now
    /\ UNCHANGED <<now, expires_at, synced, warnings, tokens, misses>>

\* lifespan: pairs that cannot be built are skipped; without any, and without
\* a token, there is no scheduler.  Its first check follows within 30 s.
Start ==
    /\ ~up
    /\ starts < MaxStarts
    /\ starts' = starts + 1
    /\ up' = TRUE
    /\ \E built \in SUBSET Pairs :
         /\ sync_ctxs' = built
         /\ jobs' = IF HasToken THEN built ELSE {}
         /\ next_check' = IF jobs' = {} THEN None ELSE now
    /\ since' = now
    /\ UNCHANGED <<now, expires_at, synced, warnings, tokens, misses>>

\* The end of lifespan, or of the process.
Stop ==
    /\ up
    /\ up' = FALSE
    /\ sync_ctxs' = {} /\ jobs' = {} /\ next_check' = None /\ synced' = {}
    /\ UNCHANGED <<now, expires_at, since, warnings, starts, tokens, misses>>

\* oauth_callback: the new token replaces the old one, but no scheduler is
\* started, the next start does that.
Authorize ==
    /\ up
    /\ tokens < MaxTokens
    /\ tokens' = tokens + 1
    /\ \E expires_in \in Lifetimes :
         expires_at' = now + (IF expires_in = 0 THEN Day ELSE expires_in)
    /\ soon' = FALSE /\ asap' = FALSE
    /\ synced' = {}
    /\ since' = now
    /\ UNCHANGED <<now, process, starts, misses>>

\* Slip: a poll that raises is not scheduled again.
PollOrDrop(p) ==
    /\ p \in jobs
    /\ synced' = IF HasToken THEN synced \cup {p} ELSE synced
    /\ jobs' = IF HasToken THEN jobs ELSE jobs \ {p}
    /\ UNCHANGED <<now, up, sync_ctxs, next_check, expires_at, since, warnings,
                   starts, tokens, misses>>

\* poll_once asks for the token at every call, and raises without one.
Poll(p) ==
    /\ p \in jobs
    /\ synced' = IF HasToken THEN synced \cup {p} ELSE synced
    /\ UNCHANGED <<now, process, expires_at, since, warnings, starts, tokens, misses>>

CheckDue == jobs # {} /\ now = next_check

\* Slip: the check warns on the last day only.
CheckLastDay ==
    /\ CheckDue
    /\ next_check' = now + token_check_interval
    /\ asap' = (asap \/ expires_at - now < Day)
    /\ soon' = (soon \/ expires_at - now < Day)
    /\ UNCHANGED <<now, up, sync_ctxs, jobs, expires_at, synced, since, starts, tokens, misses>>

token_expiry_check ==
    /\ CheckDue
    /\ next_check' = now + token_check_interval
    /\ asap' = (asap \/ expires_at - now < Day)
    /\ soon' = (soon \/ expires_at - now < Week)
    /\ UNCHANGED <<now, up, sync_ctxs, jobs, expires_at, synced, since, starts, tokens, misses>>

\* The loop was busy when the check was due, or Pushover did not answer.
MissCheck ==
    /\ CheckDue
    /\ misses < MaxMisses
    /\ misses' = misses + 1
    /\ next_check' = now + token_check_interval
    /\ since' = now
    /\ UNCHANGED <<now, up, sync_ctxs, jobs, expires_at, synced, warnings, starts, tokens>>

Tick ==
    /\ now < MaxTime
    /\ ~CheckDue
    /\ now' = now + 1
    /\ UNCHANGED <<process, expires_at, synced, since, warnings, starts, tokens, misses>>

Init ==
    /\ now = 0 /\ since = 0
    /\ up = FALSE /\ sync_ctxs = {} /\ jobs = {} /\ next_check = None
    /\ expires_at = None
    /\ synced = {}
    /\ soon = FALSE /\ asap = FALSE
    /\ starts = 0 /\ tokens = 0 /\ misses = 0

Next ==
    \/ Start \/ Stop \/ Authorize
    \/ \E p \in Pairs : Poll(p)
    \/ token_expiry_check \/ MissCheck \/ Tick

Spec == Init /\ [][Next]_vars

\* The scheduler runs every job again and again.
FairSpec == Spec /\ \A p \in Pairs : WF_vars(Poll(p))

----------------------------------------------------------------------------

\* A check was due within an interval of t, and of the last start, of the last
\* authorization and of the last check that came to nothing.
Overdue(t) == now > t + token_check_interval /\ now > since + token_check_interval

\* "re-authorize ASAP", "Schedule re-auth" (scheduler.py): while the scheduler
\* runs no token comes to its last week, or its last day, without a warning,
\* later than the next check.
WarnedInTime ==
    jobs # {} =>
        /\ Overdue(expires_at - Week) => soon
        /\ Overdue(expires_at - Day)  => asap

\* The polls of a scheduler that is running succeed again once there is a new
\* token: no restart is needed, except where there was no scheduler before.
PollsResume ==
    \A p \in Pairs :
        p \in sync_ctxs /\ jobs # {} /\ HasToken ~> p \in synced \/ ~HasToken \/ ~up
=============================================================================
