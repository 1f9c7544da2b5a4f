----------------------------- MODULE LiveLeague -----------------------------
(***************************************************************************)
(* services/live_league.py for one league: requests call ensure_live when  *)
(* a page reads the league (wait=False) or a write is about to use it      *)
(* (wait=True); they and the background task share one asyncio.Lock, the   *)
(* freshness mark and the background entry.                                *)
(*                                                                         *)
(* Every await is a step boundary: the lock, the pull from Sleeper, the    *)
(* commit, the reload after it.                                            *)
(***************************************************************************)
EXTENDS Integers, Sequences

CONSTANTS
    Requests,     \* requests being served
    Background,   \* the league's background task
    FreshSeconds, \* _FRESH_SECONDS
    BootTime,     \* time.monotonic() when the process starts
    MaxTime,      \* bound: the last instant of a behaviour
    MaxVersion,   \* bound: Sleeper's versions of the league
    Imported,     \* the league was synced before (last_synced_at is set)
    Faults        \* which of FaultKinds may happen

FaultKinds ==
    {"pullFails", \* the pull or its commit raises; _refresh_blocking swallows it
     "escapes",   \* the rollback after it raises too, or the request is cancelled
     "restart"}   \* the process is restarted

ASSUME LiveLeagueAssumption ==
    /\ Background \notin Requests
    /\ FreshSeconds \in Nat \ {0} /\ BootTime \in Nat /\ MaxTime \in Nat /\ MaxVersion \in Nat
    /\ Imported \in BOOLEAN
    /\ Faults \subseteq FaultKinds

VARIABLES
    now,      \* time.monotonic()
    fresh,    \* _fresh[key], 0 when absent
    holder,   \* who holds _locks[key]: a set of at most one actor
    queue,    \* actors waiting for it, in order
    pc,       \* where each actor is
    wait,     \* each request's wait argument
    got,      \* the version an actor's pull has read, 0 before
    synced,   \* last_synced_at is set
    sleeper,  \* Sleeper's version of the league
    saved,    \* the version the saved league was built from
    calledAt, \* history: when each request called ensure_live
    okAt      \* history: when a pull that committed last ended

vars == <<now, fresh, holder, queue, pc, wait, got, synced, sleeper, saved, calledAt, okAt>>
world == <<now, synced, sleeper, saved>>

Actors == Requests \cup {Background}

\* The background entry exists while pc[Background] is not "idle".
Phases == {"idle", "scheduled", "queued", "pulling", "read", "committed", "failed", "served"}
Working == {"pulling", "read", "committed", "failed"}

IsFresh == now - fresh < FreshSeconds

Init ==
    /\ now = BootTime /\ fresh = 0
    /\ holder = {} /\ queue = << >>
    /\ pc = [a \in Actors |-> "idle"] /\ wait = [r \in Requests |-> FALSE]
    /\ got = [a \in Actors |-> 0]
    /\ synced = Imported /\ sleeper = 1 /\ saved = 0
    /\ calledAt = [r \in Requests |-> BootTime] /\ okAt = 0 - FreshSeconds

-----------------------------------------------------------------------------
(* The lock. asyncio.Lock is taken at once when it is free and nobody      *)
(* waits; otherwise its waiters get it in order.                           *)

\* What an actor does as soon as it holds the lock: it checks the mark again,
\* and lets go at once when a pull ended while it waited.
EnterUnchecked(a) ==
    /\ pc' = [pc EXCEPT ![a] = "pulling"]
    /\ holder' = {a}

Enter(a) ==
    IF IsFresh
    THEN /\ pc' = [pc EXCEPT ![a] = IF a = Background THEN "idle" ELSE "served"]
         /\ holder' = {}
    ELSE /\ pc' = [pc EXCEPT ![a] = "pulling"]
         /\ holder' = {a}

\* Mutant: the background refresh does not take the lock.
AcquireBackgroundAnyway(a) ==
    /\ IF a = Background \/ (holder = {} /\ queue = << >>)
       THEN Enter(a) /\ UNCHANGED queue
       ELSE /\ pc' = [pc EXCEPT ![a] = "queued"]
            /\ queue' = Append(queue, a)
            /\ UNCHANGED holder

Acquire(a) ==
    IF holder = {} /\ queue = << >>
    THEN Enter(a) /\ UNCHANGED queue
    ELSE /\ pc' = [pc EXCEPT ![a] = "queued"]
         /\ queue' = Append(queue, a)
         /\ UNCHANGED holder

\* The first waiter wakes up.
Wake(a) ==
    /\ pc[a] = "queued" /\ holder = {}
    /\ queue # << >> /\ a = Head(queue)
    /\ queue' = Tail(queue)
    /\ Enter(a)
    /\ UNCHANGED <<world, fresh, wait, got, calledAt, okAt>>

-----------------------------------------------------------------------------
(* ensure_live.                                                            *)

\* Mutant: a request never waits once the league was imported.
CallNeverWaits(r) ==
    /\ pc[r] \in {"idle", "served"}
    /\ calledAt' = [calledAt EXCEPT ![r] = now]
    /\ \E w \in BOOLEAN :
        /\ wait' = [wait EXCEPT ![r] = w]
        /\ IF IsFresh
           THEN pc' = [pc EXCEPT ![r] = "served"] /\ UNCHANGED <<holder, queue>>
           ELSE IF synced
           THEN /\ pc' = [pc EXCEPT ![r] = "served",
                                    ![Background] = IF @ = "idle" THEN "scheduled" ELSE @]
                /\ UNCHANGED <<holder, queue>>
           ELSE Acquire(r)
    /\ UNCHANGED <<world, fresh, got, okAt>>

\* A request calls ensure_live: nothing to do while the league is fresh; a
\* page of an imported league is served and schedules the background task
\* unless one is running; anyone else goes for the lock.
Call(r) ==
    /\ pc[r] \in {"idle", "served"}
    /\ calledAt' = [calledAt EXCEPT ![r] = now]
    /\ \E w \in BOOLEAN :
        /\ wait' = [wait EXCEPT ![r] = w]
        /\ IF IsFresh
           THEN pc' = [pc EXCEPT ![r] = "served"] /\ UNCHANGED <<holder, queue>>
           ELSE IF synced /\ ~w
           THEN /\ pc' = [pc EXCEPT ![r] = "served",
                                    ![Background] = IF @ = "idle" THEN "scheduled" ELSE @]
                /\ UNCHANGED <<holder, queue>>
           ELSE Acquire(r)
    /\ UNCHANGED <<world, fresh, got, okAt>>

\* The background task's first step.
Run ==
    /\ pc[Background] = "scheduled"
    /\ Acquire(Background)
    /\ UNCHANGED <<world, fresh, wait, got, calledAt, okAt>>

\* _refresh_blocking: the snapshot is fetched.
Fetch(a) ==
    /\ pc[a] = "pulling"
    /\ got' = [got EXCEPT ![a] = sleeper]
    /\ pc' = [pc EXCEPT ![a] = "read"]
    /\ UNCHANGED <<world, fresh, holder, queue, wait, calledAt, okAt>>

\* Snapshot and injury reports are applied and committed.
Commit(a) ==
    /\ pc[a] = "read"
    /\ saved' = got[a] /\ synced' = TRUE
    /\ pc' = [pc EXCEPT ![a] = "committed"]
    /\ UNCHANGED <<now, sleeper, fresh, holder, queue, wait, got, calledAt, okAt>>

\* The pull fails: the transaction is rolled back and nothing is raised.
PullFails(a) ==
    /\ "pullFails" \in Faults
    /\ pc[a] \in {"pulling", "read"}
    /\ pc' = [pc EXCEPT ![a] = "failed"]
    /\ UNCHANGED <<world, fresh, holder, queue, wait, got, calledAt, okAt>>

Leave(a) ==
    /\ pc' = [pc EXCEPT ![a] = IF a = Background THEN "idle" ELSE "served"]
    /\ holder' = holder \ {a}
    /\ got' = [got EXCEPT ![a] = 0]
    /\ UNCHANGED <<world, queue, wait, calledAt>>

\* Mutant: the background task finishes without releasing the lock.
FinishKeepsLock(a) ==
    /\ pc[a] \in {"committed", "failed"}
    /\ fresh' = now
    /\ okAt' = IF pc[a] = "committed" THEN now ELSE okAt
    /\ pc' = [pc EXCEPT ![a] = IF a = Background THEN "idle" ELSE "served"]
    /\ holder' = IF a = Background THEN holder ELSE holder \ {a}
    /\ got' = [got EXCEPT ![a] = 0]
    /\ UNCHANGED <<world, queue, wait, calledAt>>

\* The session is closed, the request's league reloaded, the mark set and the
\* lock released. A pull that failed sets the mark all the same.
Finish(a) ==
    /\ pc[a] \in {"committed", "failed"}
    /\ fresh' = now
    /\ okAt' = IF pc[a] = "committed" THEN now ELSE okAt
    /\ Leave(a)

\* An exception (a failed rollback, a cancelled request) leaves through the
\* lock without setting the mark. A request it leaves is not served.
Escape(a) ==
    /\ "escapes" \in Faults
    /\ pc[a] \in Working
    /\ pc' = [pc EXCEPT ![a] = "idle"]
    /\ holder' = holder \ {a}
    /\ got' = [got EXCEPT ![a] = 0]
    /\ UNCHANGED <<world, fresh, queue, wait, calledAt, okAt>>

-----------------------------------------------------------------------------
(* The process, the clock and Sleeper.                                     *)

\* cancel_background at shutdown, and a new process: locks, mark and entry
\* are module globals.
Restart ==
    /\ "restart" \in Faults
    /\ fresh' = 0 /\ holder' = {} /\ queue' = << >>
    /\ pc' = [a \in Actors |-> "idle"] /\ got' = [a \in Actors |-> 0]
    /\ UNCHANGED <<world, wait, calledAt, okAt>>

Tick ==
    /\ now < MaxTime
    /\ now' = now + 1
    /\ UNCHANGED <<fresh, holder, queue, pc, wait, got, synced, sleeper, saved, calledAt, okAt>>

SleeperChanges ==
    /\ sleeper < MaxVersion
    /\ sleeper' = sleeper + 1
    /\ UNCHANGED <<now, fresh, holder, queue, pc, wait, got, synced, saved, calledAt, okAt>>

Step(a) == Wake(a) \/ Fetch(a) \/ Commit(a) \/ PullFails(a) \/ Finish(a) \/ Escape(a)

Next ==
    \/ \E r \in Requests : Call(r)
    \/ Run
    \/ \E a \in Actors : Step(a)
    \/ Restart \/ Tick \/ SleeperChanges

Spec == Init /\ [][Next]_vars

\* The event loop runs what is ready, and every call to Sleeper, ESPN or the
\* database ends, by its answer or its timeout.
FairSpec == Spec /\ WF_vars(Run) /\ \A a \in Actors : WF_vars(Step(a))

-----------------------------------------------------------------------------
(* Properties.                                                             *)

TypeOK ==
    /\ now \in Nat /\ fresh \in Nat /\ fresh <= now
    /\ holder \in SUBSET Actors
    /\ queue \in Seq(Actors)
    /\ pc \in [Actors -> Phases]
    /\ wait \in [Requests -> BOOLEAN]
    /\ got \in [Actors -> Nat]
    /\ synced \in BOOLEAN
    /\ sleeper \in Nat \ {0} /\ saved \in Nat
    /\ calledAt \in [Requests -> Nat]
    /\ okAt \in Int

\* "Parallel requests for the same league share one pull": the actors that are
\* pulling are those that hold the lock, and they are one at most.
Pulling == {a \in Actors : pc[a] \in Working}
OnePull == Pulling = holder /\ \A a, b \in holder : a = b

\* Pulls commit in the order in which they read Sleeper: no refresh puts an
\* older league back over a newer one.
SavedNeverGoesBack == [][saved' >= saved]_vars

\* ensure_live: "wait=True is for writes: they build what they send to Sleeper
\* from the saved roster, so they wait for the refresh (or one already in
\* flight)".  When it has returned, a pull that committed ended less than
\* FreshSeconds before the call, or after it, unless the last attempt failed:
\* the league is marked fresh all the same.
WriteFollowsAPull ==
    \A r \in Requests :
        pc[r] = "served" /\ wait[r] => okAt > calledAt[r] - FreshSeconds \/ fresh > okAt

\* Every call returns, whatever fails or is cancelled in front of it.
EveryCallReturns == \A r \in Requests : pc[r] # "served" /\ pc[r] # "idle" ~> pc[r] \in {"served", "idle"}

\* live_league implements SharedPull: the pull is the holder's.
ReadByHolder == IF holder = {} THEN 0 ELSE got[CHOOSE a \in Actors : a \in holder]

S == INSTANCE SharedPull WITH pulling <- holder # {}, read <- ReadByHolder

\* Whoever pulls, whatever fails and whenever the process restarts: pulls
\* exclude one another, start FreshSeconds after the mark, and only their
\* commits move the saved league, to what they read.
SharesOnePull == S!SharedSpec
=============================================================================
