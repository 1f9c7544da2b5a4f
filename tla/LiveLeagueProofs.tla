-------------------------- MODULE LiveLeagueProofs --------------------------
(***************************************************************************)
(* Proofs about LiveLeague for any requests, freshness window and faults.  *)
(***************************************************************************)
EXTENDS LiveLeague, TLAPS

-----------------------------------------------------------------------------
(* Types.                                                                  *)

LEMMA EnterType ==
    ASSUME TypeOK, NEW a \in Actors, Enter(a)
    PROVE  pc' \in [Actors -> Phases] /\ holder' \in SUBSET Actors
  BY DEF Enter, TypeOK, Phases

LEMMA AcquireType ==
    ASSUME TypeOK, NEW a \in Actors, Acquire(a)
    PROVE  /\ pc' \in [Actors -> Phases] /\ holder' \in SUBSET Actors
           /\ queue' \in Seq(Actors)
<1>1. CASE holder = {} /\ queue = << >>
  BY <1>1, EnterType DEF Acquire, TypeOK
<1>2. CASE ~(holder = {} /\ queue = << >>)
  <2>1. pc' = [pc EXCEPT ![a] = "queued"] /\ queue' = Append(queue, a) /\ holder' = holder
    BY <1>2 DEF Acquire
  <2>2. pc' \in [Actors -> Phases]
    BY <2>1 DEF TypeOK, Phases
  <2>3. Append(queue, a) \in Seq(Actors)
    BY DEF TypeOK
  <2> QED BY <2>1, <2>2, <2>3 DEF TypeOK
<1> QED BY <1>1, <1>2

LEMMA InitType == Init => TypeOK
<1> SUFFICES ASSUME Init PROVE TypeOK
  OBVIOUS
<1>1. << >> \in Seq(Actors)
  OBVIOUS
<1> QED
  BY <1>1, LiveLeagueAssumption DEF Init, TypeOK, Phases

LEMMA CallType ==
    ASSUME TypeOK, NEW r \in Requests, Call(r)
    PROVE  TypeOK'
<1>1. /\ calledAt' \in [Requests -> Nat] /\ wait' \in [Requests -> BOOLEAN]
      /\ UNCHANGED <<world, fresh, got, okAt>>
  BY DEF Call, TypeOK
<1>2. pc' \in [Actors -> Phases] /\ holder' \in SUBSET Actors /\ queue' \in Seq(Actors)
  <2>1. r \in Actors /\ Background \in Actors
    BY DEF Actors
  <2>2. CASE Acquire(r)
    BY <2>1, <2>2, AcquireType
  <2>3. CASE pc' = [pc EXCEPT ![r] = "served"] /\ UNCHANGED <<holder, queue>>
    BY <2>1, <2>3 DEF TypeOK, Phases
  <2>4. CASE /\ pc' = [pc EXCEPT ![r] = "served", ![Background] = IF @ = "idle" THEN "scheduled" ELSE @]
             /\ UNCHANGED <<holder, queue>>
    BY <2>1, <2>4 DEF TypeOK, Phases
  <2> QED BY <2>2, <2>3, <2>4 DEF Call
<1> QED BY <1>1, <1>2 DEF TypeOK, world

LEMMA NextType == TypeOK /\ [Next]_vars => TypeOK'
<1> SUFFICES ASSUME TypeOK, [Next]_vars PROVE TypeOK'
  OBVIOUS
<1>1. ASSUME NEW r \in Requests, Call(r) PROVE TypeOK'
  BY <1>1, CallType
<1>2. CASE Run
  <2>1. Background \in Actors
    BY DEF Actors
  <2> QED BY <1>2, <2>1, AcquireType DEF Run, TypeOK, world
<1>3. ASSUME NEW a \in Actors, Wake(a) PROVE TypeOK'
  <2>1. queue' \in Seq(Actors)
    BY <1>3 DEF Wake, TypeOK
  <2> QED BY <1>3, <2>1, EnterType DEF Wake, TypeOK, world
<1>4. ASSUME NEW a \in Actors, Fetch(a) PROVE TypeOK'
  BY <1>4 DEF Fetch, TypeOK, Phases, world
<1>5. ASSUME NEW a \in Actors, Commit(a) PROVE TypeOK'
  BY <1>5 DEF Commit, TypeOK, Phases
<1>6. ASSUME NEW a \in Actors, PullFails(a) PROVE TypeOK'
  BY <1>6 DEF PullFails, TypeOK, Phases, world
<1>7. ASSUME NEW a \in Actors, Finish(a) PROVE TypeOK'
  BY <1>7 DEF Finish, Leave, TypeOK, Phases, world
<1>8. ASSUME NEW a \in Actors, Escape(a) PROVE TypeOK'
  BY <1>8 DEF Escape, TypeOK, Phases, world
<1>9. CASE Restart
  <2>1. << >> \in Seq(Actors)
    OBVIOUS
  <2> QED BY <1>9, <2>1 DEF Restart, TypeOK, Phases, world
<1>10. CASE Tick
  BY <1>10 DEF Tick, TypeOK
<1>11. CASE SleeperChanges
  BY <1>11 DEF SleeperChanges, TypeOK
<1>12. CASE UNCHANGED vars
  BY <1>12 DEF vars, TypeOK
<1> QED
  BY <1>1, <1>2, <1>3, <1>4, <1>5, <1>6, <1>7, <1>8, <1>9, <1>10, <1>11, <1>12 DEF Next, Step

\* live_league: the lock, the mark and the phases of every actor keep their
\* types, and the mark is never ahead of the clock.
THEOREM TypeCorrect == Spec => []TypeOK
  BY InitType, NextType, PTL DEF Spec

-----------------------------------------------------------------------------
(* One pull at a time.                                                     *)

\* Taking the lock when it is free keeps the actors that work and those that
\* hold it the same, at most one.
LEMMA EnterOnePull ==
    ASSUME TypeOK, OnePull, NEW a \in Actors, pc[a] \notin Working, holder = {}, Enter(a)
    PROVE  OnePull'
<1>1. \A b \in Actors : pc[b] \notin Working
  BY DEF OnePull, Pulling
<1>2. \A b \in Actors : b # a => pc'[b] = pc[b]
  BY DEF Enter, TypeOK
<1>3. \/ pc'[a] = "pulling" /\ holder' = {a}
      \/ pc'[a] \in {"idle", "served"} /\ holder' = {}
  BY DEF Enter, TypeOK
<1> QED BY <1>1, <1>2, <1>3 DEF OnePull, Pulling, Working

\* A step that neither takes nor releases the lock, and neither starts nor
\* ends a pull, keeps OnePull.
LEMMA SamePullers ==
    ASSUME OnePull, holder' = holder, \A b \in Actors : (pc'[b] \in Working) = (pc[b] \in Working)
    PROVE  OnePull'
  BY DEF OnePull, Pulling

LEMMA AcquireOnePull ==
    ASSUME TypeOK, OnePull, NEW a \in Actors, pc[a] \notin Working, Acquire(a)
    PROVE  OnePull'
<1>1. CASE holder = {} /\ queue = << >>
  BY <1>1, EnterOnePull DEF Acquire
<1>2. CASE ~(holder = {} /\ queue = << >>)
  <2>1. holder' = holder /\ \A b \in Actors : (pc'[b] \in Working) = (pc[b] \in Working)
    BY <1>2 DEF Acquire, TypeOK, Working
  <2> QED BY <2>1, SamePullers
<1> QED BY <1>1, <1>2

\* Whoever ends a pull releases the lock.
LEMMA EndOnePull ==
    ASSUME TypeOK, OnePull, NEW a \in Actors, pc[a] \in Working,
           NEW phase \in {"idle", "served"}, pc' = [pc EXCEPT ![a] = phase], holder' = holder \ {a}
    PROVE  OnePull' /\ holder = {a} /\ holder' = {}
<1>1. holder = {a}
  BY DEF OnePull, Pulling, TypeOK
<1>2. \A b \in Actors : pc'[b] \notin Working
  BY <1>1 DEF OnePull, Pulling, Working, TypeOK
<1> QED BY <1>1, <1>2 DEF OnePull, Pulling

LEMMA NextOnePull == TypeOK /\ OnePull /\ [Next]_vars => OnePull'
<1> SUFFICES ASSUME TypeOK, OnePull, [Next]_vars PROVE OnePull'
  OBVIOUS
<1>1. ASSUME NEW r \in Requests, Call(r) PROVE OnePull'
  <2>1. r \in Actors /\ Background \in Actors /\ pc[r] \notin Working
    BY <1>1 DEF Actors, Call, Working
  <2>2. CASE Acquire(r)
    BY <2>1, <2>2, AcquireOnePull
  <2>3. CASE pc' = [pc EXCEPT ![r] = "served"] /\ UNCHANGED <<holder, queue>>
    BY <2>1, <2>3, SamePullers DEF TypeOK, Working
  <2>4. CASE /\ pc' = [pc EXCEPT ![r] = "served", ![Background] = IF @ = "idle" THEN "scheduled" ELSE @]
             /\ UNCHANGED <<holder, queue>>
    BY <2>1, <2>4, SamePullers DEF TypeOK, Working
  <2> QED BY <1>1, <2>2, <2>3, <2>4 DEF Call
<1>2. CASE Run
  BY <1>2, AcquireOnePull DEF Run, Actors, Working
<1>3. ASSUME NEW a \in Actors, Wake(a) PROVE OnePull'
  BY <1>3, EnterOnePull DEF Wake, Working
<1>4. ASSUME NEW a \in Actors, Fetch(a) \/ Commit(a) \/ PullFails(a) PROVE OnePull'
  BY <1>4, SamePullers DEF Fetch, Commit, PullFails, TypeOK, Working
<1>5. ASSUME NEW a \in Actors, Finish(a) PROVE OnePull'
  BY <1>5, EndOnePull DEF Finish, Leave, Working
<1>6. ASSUME NEW a \in Actors, Escape(a) PROVE OnePull'
  BY <1>6, EndOnePull DEF Escape
<1>7. CASE Restart
  BY <1>7 DEF Restart, OnePull, Pulling, Working
<1>8. CASE Tick \/ SleeperChanges \/ UNCHANGED vars
  BY <1>8, SamePullers DEF Tick, SleeperChanges, vars
<1> QED BY <1>1, <1>2, <1>3, <1>4, <1>5, <1>6, <1>7, <1>8 DEF Next, Step

\* "Parallel requests for the same league share one pull": whoever pulls holds
\* the lock, and nobody else does.
THEOREM OnePullAtATime == Spec => []OnePull
<1>1. Init => OnePull
  BY DEF Init, OnePull, Pulling, Working
<1> QED BY <1>1, NextOnePull, TypeCorrect, PTL DEF Spec

-----------------------------------------------------------------------------
(* LiveLeague implements SharedPull.                                       *)

\* An actor has read a league only while it pulls, and what it is about to
\* commit is one it has read.
GotInv ==
    \A a \in Actors :
        /\ pc[a] \notin {"read", "committed", "failed"} => got[a] = 0
        /\ pc[a] = "read" => got[a] # 0

PullInv == TypeOK /\ OnePull /\ GotInv

\* A step that leaves got alone, and leaves phases alone but for those before
\* and after a pull.
LEMMA GotKept ==
    ASSUME GotInv, got' = got,
           \A b \in Actors : pc'[b] = pc[b] \/ (got[b] = 0 /\ pc'[b] \notin {"read", "committed", "failed"})
    PROVE  GotInv'
  BY DEF GotInv

LEMMA AcquirePhases ==
    ASSUME TypeOK, NEW a \in Actors, Acquire(a)
    PROVE  \A b \in Actors :
              IF b = a THEN pc'[b] \notin {"read", "committed", "failed"} ELSE pc'[b] = pc[b]
  BY DEF Acquire, Enter, TypeOK

LEMMA NextGotInv == TypeOK /\ GotInv /\ [Next]_vars => GotInv'
<1> SUFFICES ASSUME TypeOK, GotInv, [Next]_vars PROVE GotInv'
  OBVIOUS
<1>1. ASSUME NEW r \in Requests, Call(r) PROVE GotInv'
  <2>1. r \in Actors /\ Background \in Actors /\ got[r] = 0 /\ got' = got
    BY <1>1 DEF Actors, Call, GotInv
  <2>2. CASE Acquire(r)
    BY <2>1, <2>2, AcquirePhases, GotKept
  <2>3. CASE pc' = [pc EXCEPT ![r] = "served"]
    BY <2>1, <2>3, GotKept DEF TypeOK
  <2>4. CASE pc' = [pc EXCEPT ![r] = "served", ![Background] = IF @ = "idle" THEN "scheduled" ELSE @]
    BY <2>1, <2>4, GotKept DEF TypeOK, GotInv
  <2> QED BY <1>1, <2>2, <2>3, <2>4 DEF Call
<1>2. CASE Run
  <2>1. Background \in Actors /\ got[Background] = 0 /\ got' = got
    BY <1>2 DEF Actors, Run, GotInv
  <2> QED BY <1>2, <2>1, AcquirePhases, GotKept DEF Run
<1>3. ASSUME NEW a \in Actors, Wake(a) PROVE GotInv'
  BY <1>3 DEF Wake, Enter, TypeOK, GotInv
<1>4. ASSUME NEW a \in Actors, Fetch(a) PROVE GotInv'
  BY <1>4 DEF Fetch, TypeOK, GotInv
<1>5. ASSUME NEW a \in Actors, Commit(a) PROVE GotInv'
  BY <1>5 DEF Commit, TypeOK, GotInv
<1>6. ASSUME NEW a \in Actors, PullFails(a) PROVE GotInv'
  BY <1>6 DEF PullFails, TypeOK, GotInv
<1>7. ASSUME NEW a \in Actors, Finish(a) PROVE GotInv'
  BY <1>7 DEF Finish, Leave, TypeOK, GotInv
<1>8. ASSUME NEW a \in Actors, Escape(a) PROVE GotInv'
  BY <1>8 DEF Escape, TypeOK, GotInv
<1>9. CASE Restart
  BY <1>9 DEF Restart, GotInv
<1>10. CASE Tick \/ SleeperChanges \/ UNCHANGED vars
  BY <1>10 DEF Tick, SleeperChanges, vars, GotInv
<1> QED
  BY <1>1, <1>2, <1>3, <1>4, <1>5, <1>6, <1>7, <1>8, <1>9, <1>10 DEF Next, Step

\* What SharedPull's pull has read is what the actor that pulls has.
LEMMA HolderReads ==
    ASSUME OnePull, NEW a \in Actors, pc[a] \in Working
    PROVE  holder = {a} /\ ReadByHolder = got[a]
<1>1. holder = {a}
  BY DEF OnePull, Pulling
<1>2. (CHOOSE b \in Actors : b \in holder) = a
  BY <1>1
<1> QED BY <1>1, <1>2 DEF ReadByHolder

\* A step that changes neither what SharedPull sees of the holder nor of the
\* world is no step of SharedPull.
LEMMA Stutter ==
    ASSUME UNCHANGED <<now, fresh, holder, sleeper, saved>>, got' = got
    PROVE  UNCHANGED S!shared
  BY DEF S!shared, ReadByHolder

\* Taking the free lock starts a pull, or does nothing when the mark is fresh.
LEMMA EnterStarts ==
    ASSUME PullInv, NEW a \in Actors, pc[a] \notin Working, holder = {}, Enter(a),
           UNCHANGED <<now, fresh, sleeper, saved>>, got' = got
    PROVE  S!Start \/ UNCHANGED S!shared
<1>1. CASE IsFresh
  <2>1. holder' = holder
    BY <1>1 DEF Enter
  <2> QED BY <2>1, Stutter
<1>2. CASE ~IsFresh
  <2>1. holder' = {a} /\ got[a] = 0
    BY <1>2 DEF Enter, PullInv, GotInv, Working
  <2>2. (CHOOSE b \in Actors : b \in holder') = a
    BY <2>1
  <2>3. ReadByHolder' = 0 /\ ReadByHolder = 0
    BY <2>1, <2>2 DEF ReadByHolder
  <2>4. now - fresh >= FreshSeconds
    BY <1>2, LiveLeagueAssumption DEF IsFresh, PullInv, TypeOK
  <2> QED BY <2>1, <2>3, <2>4 DEF S!Start
<1> QED BY <1>1, <1>2

LEMMA AcquireStarts ==
    ASSUME PullInv, NEW a \in Actors, pc[a] \notin Working, Acquire(a),
           UNCHANGED <<now, fresh, sleeper, saved>>, got' = got
    PROVE  S!Start \/ UNCHANGED S!shared
<1>1. CASE holder = {} /\ queue = << >>
  BY <1>1, EnterStarts DEF Acquire
<1>2. CASE ~(holder = {} /\ queue = << >>)
  BY <1>2, Stutter DEF Acquire
<1> QED BY <1>1, <1>2

\* A pull that ends frees the lock: SharedPull's End.
LEMMA LeaveEnds ==
    ASSUME PullInv, NEW a \in Actors, pc[a] \in Working, holder' = holder \ {a},
           fresh' \in {fresh, now}, UNCHANGED <<now, sleeper, saved>>
    PROVE  S!End
<1>1. holder = {a}
  BY HolderReads DEF PullInv
<1>2. holder' = {}
  BY <1>1
<1> QED BY <1>1, <1>2 DEF S!End, ReadByHolder

LEMMA StepImplements == PullInv /\ [Next]_vars => [S!SharedNext]_(S!shared)
<1> SUFFICES ASSUME PullInv, [Next]_vars PROVE S!SharedNext \/ UNCHANGED S!shared
  OBVIOUS
<1> USE DEF S!SharedNext
<1>1. ASSUME NEW r \in Requests, Call(r) PROVE S!SharedNext \/ UNCHANGED S!shared
  <2>1. r \in Actors /\ pc[r] \notin Working
    BY <1>1 DEF Actors, Call, Working
  <2>2. UNCHANGED <<now, fresh, sleeper, saved>> /\ got' = got
    BY <1>1 DEF Call, world
  <2>3. CASE Acquire(r)
    BY <2>1, <2>2, <2>3, AcquireStarts
  <2>4. CASE UNCHANGED <<holder, queue>>
    BY <2>2, <2>4, Stutter
  <2> QED BY <1>1, <2>3, <2>4 DEF Call
<1>2. CASE Run
  <2>1. Background \in Actors /\ pc[Background] \notin Working
    BY <1>2 DEF Actors, Run, Working
  <2>2. Acquire(Background) /\ UNCHANGED <<now, fresh, sleeper, saved>> /\ got' = got
    BY <1>2 DEF Run, world
  <2> QED BY <2>1, <2>2, AcquireStarts
<1>3. ASSUME NEW a \in Actors, Wake(a) PROVE S!SharedNext \/ UNCHANGED S!shared
  <2>1. pc[a] \notin Working /\ holder = {} /\ Enter(a)
    BY <1>3 DEF Wake, Working
  <2>2. UNCHANGED <<now, fresh, sleeper, saved>> /\ got' = got
    BY <1>3 DEF Wake, world
  <2> QED BY <2>1, <2>2, EnterStarts
<1>4. ASSUME NEW a \in Actors, Fetch(a) PROVE S!Read
  <2>1. holder = {a}
    BY <1>4, HolderReads DEF Fetch, PullInv, Working
  <2>2. holder' = {a} /\ got'[a] = sleeper /\ UNCHANGED <<now, fresh, sleeper, saved>>
    BY <1>4, <2>1 DEF Fetch, world, PullInv, TypeOK
  <2>3. (CHOOSE b \in Actors : b \in holder') = a
    BY <2>2
  <2>4. ReadByHolder' = sleeper
    BY <2>2, <2>3 DEF ReadByHolder
  <2> QED BY <2>1, <2>2, <2>4 DEF S!Read
<1>5. ASSUME NEW a \in Actors, Commit(a) PROVE S!Commit
  <2>1. holder = {a} /\ ReadByHolder = got[a] /\ got[a] # 0
    BY <1>5, HolderReads DEF Commit, PullInv, GotInv, Working
  <2>2. saved' = got[a] /\ UNCHANGED <<now, fresh, holder, sleeper, got>>
    BY <1>5 DEF Commit
  <2>3. ReadByHolder' = ReadByHolder
    BY <2>2 DEF ReadByHolder
  <2> QED BY <2>1, <2>2, <2>3 DEF S!Commit
<1>6. ASSUME NEW a \in Actors, PullFails(a) PROVE UNCHANGED S!shared
  BY <1>6, Stutter DEF PullFails, world
<1>7. ASSUME NEW a \in Actors, Finish(a) PROVE S!End
  BY <1>7, LeaveEnds DEF Finish, Leave, Working, world
<1>8. ASSUME NEW a \in Actors, Escape(a) PROVE S!End
  BY <1>8, LeaveEnds DEF Escape, world
<1>9. CASE Restart
  BY <1>9 DEF Restart, S!Restart, ReadByHolder, world
<1>10. CASE Tick
  <2>1. now' > now /\ UNCHANGED <<fresh, holder, sleeper, saved, got>>
    BY <1>10 DEF Tick, PullInv, TypeOK
  <2> QED BY <2>1 DEF S!Elapse, ReadByHolder
<1>11. CASE SleeperChanges
  BY <1>11 DEF SleeperChanges, S!SleeperMoves, ReadByHolder
<1>12. CASE UNCHANGED vars
  BY <1>12, Stutter DEF vars
<1> QED
  BY <1>1, <1>2, <1>3, <1>4, <1>5, <1>6, <1>7, <1>8, <1>9, <1>10, <1>11, <1>12 DEF Next, Step

\* live_league implements SharedPull, for any number of requests and under
\* every failure: the promise "Parallel requests for the same league share one
\* pull" as an abstract specification.
THEOREM ImplementsSharedPull == Spec => SharesOnePull
<1>1. Init => S!SharedInit
  BY LiveLeagueAssumption DEF Init, S!SharedInit, ReadByHolder
<1>2. Init => GotInv
  BY DEF Init, GotInv
<1>3. Spec => []TypeOK
  BY TypeCorrect
<1>4. Spec => []OnePull
  BY OnePullAtATime
<1>5. Spec => []GotInv
  BY <1>2, <1>3, NextGotInv, PTL DEF Spec
<1>6. TypeOK /\ OnePull /\ GotInv /\ [Next]_vars => [S!SharedNext]_(S!shared)
  BY StepImplements DEF PullInv
<1> QED BY <1>1, <1>3, <1>4, <1>5, <1>6, PTL DEF Spec, SharesOnePull, S!SharedSpec

-----------------------------------------------------------------------------
(* The saved league never goes back.                                       *)

\* The saved league is one Sleeper had, and what a pull has read is not older.
VersionsInv ==
    /\ saved <= sleeper
    /\ \A a \in Actors : pc[a] = "read" => saved <= got[a] /\ got[a] <= sleeper

LEMMA NextVersionsInv ==
    ASSUME TypeOK, OnePull, VersionsInv, [Next]_vars
    PROVE  VersionsInv' /\ saved' >= saved
<1>1. ASSUME saved' = saved, got' = got, sleeper' >= sleeper, sleeper' \in Nat,
             \A b \in Actors : pc'[b] = "read" => pc[b] = "read"
      PROVE  VersionsInv' /\ saved' >= saved
  BY <1>1 DEF TypeOK, VersionsInv
<1>2. ASSUME NEW r \in Requests, Call(r) PROVE VersionsInv' /\ saved' >= saved
  <2>1. r \in Actors /\ Background \in Actors
    BY DEF Actors
  <2>2. \A b \in Actors : pc'[b] = "read" => pc[b] = "read"
    <3>1. CASE Acquire(r)
      BY <2>1, <3>1, AcquirePhases
    <3>2. CASE pc' = [pc EXCEPT ![r] = "served"]
      BY <2>1, <3>2 DEF TypeOK
    <3>3. CASE pc' = [pc EXCEPT ![r] = "served", ![Background] = IF @ = "idle" THEN "scheduled" ELSE @]
      BY <2>1, <3>3 DEF TypeOK
    <3> QED BY <1>2, <3>1, <3>2, <3>3 DEF Call
  <2> QED BY <1>1, <1>2, <2>2 DEF Call, world, TypeOK
<1>3. CASE Run
  <2>1. Background \in Actors
    BY DEF Actors
  <2>2. \A b \in Actors : pc'[b] = "read" => pc[b] = "read"
    BY <1>3, <2>1, AcquirePhases DEF Run
  <2> QED BY <1>1, <1>3, <2>2 DEF Run, world, TypeOK
<1>4. ASSUME NEW a \in Actors, Wake(a) PROVE VersionsInv' /\ saved' >= saved
  <2>1. \A b \in Actors : pc'[b] = "read" => pc[b] = "read"
    BY <1>4 DEF Wake, Enter, TypeOK
  <2> QED BY <1>1, <1>4, <2>1 DEF Wake, world, TypeOK
<1>5. ASSUME NEW a \in Actors, Fetch(a) PROVE VersionsInv' /\ saved' >= saved
  BY <1>5 DEF Fetch, world, TypeOK, VersionsInv
<1>6. ASSUME NEW a \in Actors, Commit(a) PROVE VersionsInv' /\ saved' >= saved
  <2>1. holder = {a}
    BY <1>6, HolderReads DEF Commit, Working
  <2>2. \A b \in Actors : pc'[b] # "read"
    BY <1>6, <2>1 DEF Commit, OnePull, Pulling, Working, TypeOK
  <2> QED BY <1>6, <2>2 DEF Commit, TypeOK, VersionsInv
<1>7. ASSUME NEW a \in Actors, PullFails(a) PROVE VersionsInv' /\ saved' >= saved
  <2>1. \A b \in Actors : pc'[b] = "read" => pc[b] = "read"
    BY <1>7 DEF PullFails, TypeOK
  <2> QED BY <1>1, <1>7, <2>1 DEF PullFails, world, TypeOK
<1>8. ASSUME NEW a \in Actors, Finish(a) \/ Escape(a) PROVE VersionsInv' /\ saved' >= saved
  <2>1. \A b \in Actors : pc'[b] = "read" => pc[b] = "read" /\ got'[b] = got[b]
    BY <1>8 DEF Finish, Leave, Escape, TypeOK
  <2> QED BY <1>8, <2>1 DEF Finish, Leave, Escape, world, TypeOK, VersionsInv
<1>9. CASE Restart
  BY <1>9 DEF Restart, world, TypeOK, VersionsInv
<1>10. CASE Tick \/ SleeperChanges \/ UNCHANGED vars
  BY <1>1, <1>10 DEF Tick, SleeperChanges, vars, TypeOK
<1> QED
  BY <1>2, <1>3, <1>4, <1>5, <1>6, <1>7, <1>8, <1>9, <1>10 DEF Next, Step

\* No refresh, in a request or in the background, puts an older league back
\* over a newer one, whatever fails or restarts in between.
THEOREM SavedMovesForward == Spec => SavedNeverGoesBack
<1>1. Init => VersionsInv
  BY DEF Init, VersionsInv
<1>2. TypeOK /\ OnePull /\ VersionsInv /\ [Next]_vars => VersionsInv'
  BY NextVersionsInv
<1>3. TypeOK /\ OnePull /\ VersionsInv /\ [Next]_vars => [saved' >= saved]_vars
  BY NextVersionsInv
<1>4. Spec => []TypeOK /\ []OnePull
  BY TypeCorrect, OnePullAtATime, PTL
<1> QED BY <1>1, <1>2, <1>3, <1>4, PTL DEF Spec, SavedNeverGoesBack

-----------------------------------------------------------------------------
(* A write follows a pull.                                                 *)

\* No pull has ended and no request has called after the clock.
PastInv == okAt <= now /\ \A r \in Requests : calledAt[r] <= now

\* What a request that returns has behind it: a pull that committed less than
\* FreshSeconds before its call or after it, or an attempt that failed since.
Behind(called, mark, ended) == ended > called - FreshSeconds \/ mark > ended

WriteInv == TypeOK /\ PastInv /\ WriteFollowsAPull

\* A mark is set by a pull that committed or one that failed, or is the 0 of a
\* process that has pulled nothing: a fresh one is enough for a call.
LEMMA FreshIsEnough ==
    ASSUME TypeOK, IsFresh, NEW called \in Nat, called <= now
    PROVE  Behind(called, fresh, okAt)
  BY LiveLeagueAssumption DEF TypeOK, IsFresh, Behind

\* A pull that ends is enough for every call made before it ended, and takes
\* nothing from one that has returned.
LEMMA EndIsEnough ==
    ASSUME TypeOK, PastInv, NEW ended \in {okAt, now}, NEW called \in Nat, called <= now
    PROVE  Behind(called, now, ended)
  BY LiveLeagueAssumption DEF TypeOK, PastInv, Behind

\* A step after which every request that has returned from a write had
\* returned before, and no mark moved.
LEMMA WriteKept ==
    ASSUME WriteFollowsAPull, UNCHANGED <<fresh, okAt>>,
           \A r \in Requests : pc'[r] = "served" /\ wait'[r] =>
              \/ pc[r] = "served" /\ wait[r] /\ calledAt'[r] = calledAt[r]
              \/ Behind(calledAt'[r], fresh, okAt)
    PROVE  WriteFollowsAPull'
  BY DEF WriteFollowsAPull, Behind

\* Going for the lock returns at once only while the league is fresh.
LEMMA EnterServes ==
    ASSUME TypeOK, NEW a \in Actors, Enter(a) \/ Acquire(a)
    PROVE  /\ \A b \in Actors : b # a => pc'[b] = pc[b]
           /\ pc'[a] = "served" => IsFresh
  BY DEF Acquire, Enter, TypeOK

LEMMA NextWriteInv == WriteInv /\ [Next]_vars => PastInv' /\ WriteFollowsAPull'
<1> SUFFICES ASSUME WriteInv, [Next]_vars PROVE PastInv' /\ WriteFollowsAPull'
  OBVIOUS
<1> USE DEF WriteInv
<1> Requests \subseteq Actors /\ Background \in Actors /\ Background \notin Requests
  BY LiveLeagueAssumption DEF Actors
<1>1. ASSUME NEW r \in Requests, Call(r) PROVE PastInv' /\ WriteFollowsAPull'
  <2>1. /\ calledAt' = [calledAt EXCEPT ![r] = now] /\ UNCHANGED <<now, fresh, okAt>>
        /\ \A q \in Requests : q # r => wait'[q] = wait[q]
    BY <1>1 DEF Call, TypeOK, world
  <2>2. PastInv'
    BY <2>1 DEF PastInv, TypeOK
  <2>3. calledAt'[r] = now /\ \A q \in Requests : q # r => calledAt'[q] = calledAt[q]
    BY <2>1 DEF TypeOK
  <2>4. \A q \in Requests : q # r => pc'[q] = pc[q]
    BY <1>1, EnterServes DEF Call, TypeOK
  <2>5. pc'[r] = "served" /\ wait'[r] => IsFresh
    BY <1>1, EnterServes DEF Call, TypeOK
  <2>6. IsFresh => Behind(now, fresh, okAt)
    BY FreshIsEnough DEF TypeOK
  <2> QED BY <2>1, <2>2, <2>3, <2>4, <2>5, <2>6, WriteKept
<1>2. CASE Run
  <2>1. \A q \in Requests : pc'[q] = pc[q]
    BY <1>2, EnterServes DEF Run
  <2> QED BY <1>2, <2>1, WriteKept DEF Run, world, PastInv
<1>3. ASSUME NEW a \in Actors, Wake(a) PROVE PastInv' /\ WriteFollowsAPull'
  <2>1. /\ \A b \in Actors : b # a => pc'[b] = pc[b]
        /\ pc'[a] = "served" => IsFresh
    BY <1>3, EnterServes DEF Wake
  <2>2. \A q \in Requests : IsFresh => Behind(calledAt[q], fresh, okAt)
    BY FreshIsEnough DEF PastInv, TypeOK
  <2> QED BY <1>3, <2>1, <2>2, WriteKept DEF Wake, world, PastInv
<1>4. ASSUME NEW a \in Actors, Fetch(a) \/ Commit(a) \/ PullFails(a) \/ Escape(a)
      PROVE  PastInv' /\ WriteFollowsAPull'
  <2>1. UNCHANGED <<now, fresh, wait, calledAt, okAt>>
    BY <1>4 DEF Fetch, Commit, PullFails, Escape, world
  <2>2. \A b \in Actors : pc'[b] = "served" => pc[b] = "served"
    BY <1>4 DEF Fetch, Commit, PullFails, Escape, TypeOK
  <2> QED BY <2>1, <2>2, WriteKept DEF PastInv
<1>5. ASSUME NEW a \in Actors, Finish(a) PROVE PastInv' /\ WriteFollowsAPull'
  <2>1. fresh' = now /\ okAt' \in {okAt, now} /\ UNCHANGED <<now, wait, calledAt>>
    BY <1>5 DEF Finish, Leave, world
  <2>2. \A r \in Requests : Behind(calledAt[r], now, okAt')
    BY <2>1, EndIsEnough DEF PastInv, TypeOK
  <2>3. PastInv'
    BY <2>1 DEF PastInv, TypeOK
  <2> QED BY <2>1, <2>2, <2>3 DEF WriteFollowsAPull, Behind
<1>6. CASE Restart
  BY <1>6 DEF Restart, world, PastInv, WriteFollowsAPull
<1>7. CASE Tick
  BY <1>7 DEF Tick, TypeOK, PastInv, WriteFollowsAPull
<1>8. CASE SleeperChanges \/ UNCHANGED vars
  BY <1>8 DEF SleeperChanges, vars, PastInv, WriteFollowsAPull
<1> QED BY <1>1, <1>2, <1>3, <1>4, <1>5, <1>6, <1>7, <1>8 DEF Next, Step

\* ensure_live: "wait=True is for writes: they build what they send to Sleeper
\* from the saved roster, so they wait for the refresh (or one already in
\* flight)".  Whichever way such a call returns - the mark was fresh, it pulled
\* itself, or it found a pull finished when it got the lock - it has that pull
\* behind it, or the failure that marked the league fresh in its place.
THEOREM WritesFollowAPull == Spec => []WriteFollowsAPull
<1>1. Init => PastInv /\ WriteFollowsAPull
  BY LiveLeagueAssumption DEF Init, PastInv, WriteFollowsAPull
<1>2. TypeOK /\ PastInv /\ WriteFollowsAPull /\ [Next]_vars => PastInv' /\ WriteFollowsAPull'
  BY NextWriteInv DEF WriteInv
<1> QED BY <1>1, <1>2, TypeCorrect, PTL DEF Spec
=============================================================================
