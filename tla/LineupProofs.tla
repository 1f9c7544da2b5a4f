------------------------ MODULE LineupProofs ------------------------
(***************************************************************************)
(* Proofs about what changes a lineup, for any players, slots, writers,    *)
(* weeks and injuries: SleeperWrites; LineupManagement and Assistant,      *)
(* whose moves SleeperWrites carries out, with what it says of a roster    *)
(* (Appraisal). They share Roster and the lemmas about it.                 *)
(***************************************************************************)
EXTENDS SleeperWrites, LineupManagement, Assistant, FiniteSetTheorems, WellFoundedInduction, TLAPS

-----------------------------------------------------------------------------
(* Rosters: what the pure computations return.                             *)

\* A function into Seats that follows a starters list where it seats starters
\* never seats two players in one slot.
LEMMA SeatsFromLineup ==
    ASSUME NEW S \in Lineups, NEW A \in SUBSET Players, NEW r \in [A -> Seats],
           \A p \in A : r[p] \in Slots => S[r[p]] = p
    PROVE  r \in Rosters
<1>1. r \in UNION {[who -> Seats] : who \in SUBSET Players}
  OBVIOUS
<1>2. \A p, q \in DOMAIN r : r[p] = r[q] /\ r[p] \in Slots => p = q
  OBVIOUS
<1> QED BY <1>1, <1>2 DEF Rosters

\* Every roster assigns seats to a set of players, no slot twice.
LEMMA RosterShape ==
    ASSUME NEW r \in Rosters
    PROVE  /\ DOMAIN r \subseteq Players
           /\ r \in [DOMAIN r -> Seats]
           /\ \A p, q \in DOMAIN r : r[p] = r[q] /\ r[p] \in Slots => p = q
  BY DEF Rosters

\* Two players who trade a slot for a slot or the bench leave a roster.
LEMMA ReseatedType ==
    ASSUME NEW r \in Rosters, NEW p \in DOMAIN r, NEW q \in DOMAIN r, p # q,
           r[q] \in Eligible[p], r[p] \in Eligible[q] \cup {Bench}
    PROVE  /\ [r EXCEPT ![p] = r[q], ![q] = r[p]] \in Rosters
           /\ DOMAIN [r EXCEPT ![p] = r[q], ![q] = r[p]] = DOMAIN r
<1> DEFINE n == [r EXCEPT ![p] = r[q], ![q] = r[p]]
<1>1. /\ DOMAIN r \subseteq Players /\ r \in [DOMAIN r -> Seats]
      /\ \A x, y \in DOMAIN r : r[x] = r[y] /\ r[x] \in Slots => x = y
  BY RosterShape
<1>2. /\ DOMAIN n = DOMAIN r /\ n \in [DOMAIN r -> Seats]
      /\ \A x \in DOMAIN r : n[x] = IF x = q THEN r[p] ELSE IF x = p THEN r[q] ELSE r[x]
  BY <1>1
<1> HIDE DEF n
<1>3. \A x, y \in DOMAIN r : n[x] = n[y] /\ n[x] \in Slots => x = y
  BY <1>1, <1>2
<1>4. n \in UNION {[rostered -> Seats] : rostered \in SUBSET Players}
  BY <1>1, <1>2
<1>5. n \in Rosters
  BY <1>2, <1>3, <1>4 DEF Rosters
<1> QED BY <1>2, <1>5 DEF n

\* The slot CHOOSE picks for a starter is one he is in.
LEMMA ChosenSlot ==
    ASSUME NEW S \in Lineups, NEW p \in Players, p \in Starting(S)
    PROVE  /\ (CHOOSE i \in Slots : S[i] = p) \in Slots
           /\ S[CHOOSE i \in Slots : S[i] = p] = p
  BY DEF Starting

LEMMA MapRosterType ==
    ASSUME NEW S \in Lineups, NEW A \in SUBSET Players, NEW R, NEW T
    PROVE  MapRoster(S, A, R, T) \in Rosters
<1> DEFINE r == MapRoster(S, A, R, T)
<1>1. r \in [A -> Seats]
  BY ChosenSlot DEF MapRoster, Seats
<1>2. \A p \in A : r[p] \in Slots => S[r[p]] = p
  BY ChosenSlot, RosterAssumption DEF MapRoster
<1> QED BY <1>1, <1>2, SeatsFromLineup

LEMMA PlacementType ==
    ASSUME NEW r \in Rosters, NEW S \in Lineups, NEW R
    PROVE  Placement(r, S, R) \in Rosters
<1> DEFINE n == Placement(r, S, R)
<1>0. DOMAIN r \subseteq Players
  BY RosterShape
<1>1. n \in [DOMAIN r -> Seats]
  BY <1>0, ChosenSlot DEF Placement, Seats
<1>2. \A p \in DOMAIN r : n[p] \in Slots => S[n[p]] = p
  BY <1>0, ChosenSlot, RosterAssumption DEF Placement
<1> QED BY <1>0, <1>1, <1>2, SeatsFromLineup

LEMMA ApplyLocalType ==
    ASSUME NEW r \in Rosters, NEW S \in Lineups
    PROVE  ApplyLocal(r, S) \in Rosters
<1> DEFINE n == ApplyLocal(r, S)
<1>0. DOMAIN r \subseteq Players
  BY RosterShape
<1>1. n \in [DOMAIN r -> Seats]
  BY <1>0, ChosenSlot DEF ApplyLocal, Seats
<1>2. \A p \in DOMAIN r : n[p] \in Slots => S[n[p]] = p
  BY <1>0, ChosenSlot, RosterAssumption DEF ApplyLocal
<1> QED BY <1>0, <1>1, <1>2, SeatsFromLineup

LEMMA AlignedType ==
    ASSUME NEW r \in Rosters
    PROVE  /\ AlignedStarters(r) \in Lineups
           /\ ReserveOf(r) \in SUBSET Players
  BY RosterShape DEF AlignedStarters, ReserveOf, Lineups

\* The starters list names exactly the players seated in slots, each once.
LEMMA AlignedSeats ==
    ASSUME NEW r \in Rosters, NEW i \in Slots
    PROVE  /\ AlignedStarters(r)[i] # NoPlayer =>
                 AlignedStarters(r)[i] \in DOMAIN r /\ r[AlignedStarters(r)[i]] = i
           /\ \A p \in DOMAIN r : r[p] = i => AlignedStarters(r)[i] = p
  BY RosterShape DEF AlignedStarters

LEMMA DesiredType ==
    ASSUME NEW r \in Rosters, NEW p \in DOMAIN r, NEW destination \in Destinations,
           NEW target \in Slots \cup {NoIndex}
    PROVE  /\ DesiredStarters(r, p, destination, target) \in Lineups
           /\ DesiredReserve(r, p, destination) \in SUBSET Players
<1>1. p \in Players
  BY RosterShape
<1>2. Without(AlignedStarters(r), p) \in Lineups
  BY AlignedType DEF Without, Lineups
<1> QED BY <1>1, <1>2, AlignedType DEF DesiredStarters, DesiredReserve, Lineups

LEMMA StepsType ==
    ASSUME NEW r, NEW p, NEW destination, NEW S, NEW R
    PROVE  Steps(r, p, destination, S, R) \in Plans \cup {<< >>}
  BY DEF Steps, Plans

-----------------------------------------------------------------------------
(* The type invariant.                                                     *)

LEMMA NoJobType == NoJob \in JobType
<1>1. [p \in {} |-> Bench] \in Rosters
  <2>1. [p \in {} |-> Bench] \in [{} -> Seats]
    OBVIOUS
  <2>2. [p \in {} |-> Bench] \in UNION {[A -> Seats] : A \in SUBSET Players}
    BY <2>1
  <2> QED BY <2>2 DEF Rosters
<1>2. [i \in Slots |-> NoPlayer] \in Lineups
  BY DEF Lineups
<1> QED BY <1>1, <1>2, WritesAssumption DEF NoJob, JobType, Phases

\* The part of TypeOK about the writers.
JobsOK ==
    /\ job \in [Writers -> JobType]
    /\ \A w \in Writers : job[w].phase # "idle" => job[w].todo # << >>
    /\ known \in [Writers -> SUBSET Lists]

LEMMA EndType ==
    ASSUME JobsOK, NEW w \in Writers, End(w)
    PROVE  JobsOK'
  BY NoJobType DEF JobsOK, End, NoJob

LEMMA ForgetType ==
    ASSUME JobsOK, NEW list, NEW week
    PROVE  Forget(list, week) \in [Writers -> SUBSET Lists]
  BY DEF JobsOK, Forget

LEMMA TodoShape ==
    ASSUME JobsOK, NEW w \in Writers, job[w].phase # "idle"
    PROVE  /\ Head(job[w].todo) \in Lists
           /\ Tail(job[w].todo) \in Plans \cup {<< >>}
           /\ Len(job[w].todo) # 1 => Tail(job[w].todo) \in {<<"starters">>, <<"reserve">>}
<1>1. job[w].todo \in Plans
  BY DEF JobsOK, JobType
<1>2. CASE job[w].todo = <<"starters">>
  BY <1>2 DEF Lists
<1>3. CASE job[w].todo = <<"reserve">>
  BY <1>3 DEF Lists
<1>4. CASE job[w].todo = <<"starters", "reserve">>
  BY <1>4 DEF Lists, Plans
<1>5. CASE job[w].todo = <<"reserve", "starters">>
  BY <1>5 DEF Lists, Plans
<1> QED BY <1>1, <1>2, <1>3, <1>4, <1>5 DEF Plans

LEMMA TypeInit == Init => TypeOK
<1> SUFFICES ASSUME Init PROVE TypeOK
  OBVIOUS
<1>1. local \in [Weeks -> Rosters]
  BY MapRosterType, WritesAssumption DEF Init
<1>2. starters \in [Weeks -> Lineups]
  BY WritesAssumption DEF Init
<1>3. job \in [Writers -> JobType] /\ \A w \in Writers : job[w].phase = "idle"
  BY NoJobType DEF Init, NoJob
<1>4. InitReserve \in SUBSET Players /\ InitSquad \in SUBSET Players
  BY WritesAssumption
<1>5. requests \in 0..MaxRequests /\ edits \in 0..MaxEdits
  BY WritesAssumption DEF Init
<1> QED BY <1>1, <1>2, <1>3, <1>4, <1>5 DEF Init, TypeOK

LEMMA BeginType ==
    ASSUME TypeOK, NEW w \in Writers, NEW kind \in {"move", "set"}, NEW week \in Weeks,
           NEW S \in Lineups, NEW R \in SUBSET Players, NEW order \in Plans,
           requests < MaxRequests, Begin(w, kind, week, S, R, order)
    PROVE  TypeOK'
<1>1. local[week] \in Rosters
  BY DEF TypeOK
<1>2. /\ AlignedStarters(local[week]) \in Lineups
      /\ ReserveOf(local[week]) \in SUBSET Players
  BY <1>1, AlignedType
<1>3. [i \in Slots |-> NoPlayer] \in Lineups
  BY DEF Lineups
<1>4. LockedNow(week) \in SUBSET Players
  BY DEF TypeOK, LockedNow
<1> DEFINE j == [phase |-> "prereadStarters", kind |-> kind, week |-> week,
                 base |-> local[week], wantS |-> S, wantR |-> R, todo |-> order,
                 haveS |-> AlignedStarters(local[week]),
                 haveR |-> ReserveOf(local[week]),
                 seenS |-> [i \in Slots |-> NoPlayer], locked |-> LockedNow(week)]
<1>a. order # << >>
  BY DEF Plans
<1>b. j \in JobType
  BY <1>1, <1>2, <1>3, <1>4 DEF JobType, Phases
<1>c. job' = [job EXCEPT ![w] = j]
  BY DEF Begin
<1>d. job'[w] = j
  BY <1>c DEF TypeOK
<1>5. job'[w] \in JobType /\ job'[w].phase # "idle" /\ job'[w].todo # << >>
  BY <1>a, <1>b, <1>d
<1>6. JobsOK'
  BY <1>5 DEF TypeOK, Begin, JobsOK
<1>7. requests' \in 0..MaxRequests
  BY WritesAssumption DEF TypeOK, Begin
<1> QED BY <1>6, <1>7 DEF TypeOK, JobsOK, Begin, sleeper, env

LEMMA RequestMoveType ==
    ASSUME TypeOK, NEW w \in Writers, RequestMove(w)
    PROVE  TypeOK'
<1>1. PICK week \in Weeks, p \in Players, destination \in Destinations,
           target \in Slots \cup {NoIndex} : Move(w, week, p, destination, target)
  BY DEF RequestMove
<1> DEFINE r == local[week]
           S == DesiredStarters(r, p, destination, target)
           R == DesiredReserve(r, p, destination)
           order == Steps(r, p, destination, S, R)
<1>2. r \in Rosters
  BY DEF TypeOK
<1>3. p \in DOMAIN r
  BY <1>1 DEF Move, Legal
<1>5. S \in Lineups /\ R \in SUBSET Players
  BY <1>2, <1>3, DesiredType
<1>6. order \in Plans
  BY <1>1, StepsType DEF Move
<1>7. Begin(w, "move", week, S, R, order)
  BY <1>1 DEF Move
<1> HIDE DEF r, S, R, order
<1>8. requests < MaxRequests
  BY DEF RequestMove
<1> QED BY <1>5, <1>6, <1>7, <1>8, BeginType

LEMMA RequestLineupType ==
    ASSUME TypeOK, NEW w \in Writers, RequestLineup(w)
    PROVE  TypeOK'
<1>1. PICK week \in Weeks, S \in Lineups :
        Begin(w, "set", week, S, ReserveOf(local[week]), <<"starters">>)
  BY DEF RequestLineup
<1>2. ReserveOf(local[week]) \in SUBSET Players
  BY AlignedType DEF TypeOK
<1>3. requests < MaxRequests
  BY DEF RequestLineup
<1> QED BY <1>1, <1>2, <1>3, BeginType DEF Plans

\* A writer's record keeps its type when its fields move on.
LEMMA JobUpdate ==
    ASSUME NEW j \in JobType, NEW phase \in Phases, NEW S \in Lineups,
           NEW R \in SUBSET Players, NEW T \in Plans \cup {<< >>}
    PROVE  /\ [j EXCEPT !.phase = phase] \in JobType
           /\ [j EXCEPT !.phase = phase].todo = j.todo
           /\ [j EXCEPT !.phase = phase, !.seenS = S] \in JobType
           /\ [j EXCEPT !.phase = phase, !.seenS = S].todo = j.todo
           /\ [j EXCEPT !.phase = phase, !.haveS = S] \in JobType
           /\ [j EXCEPT !.phase = phase, !.haveS = S].todo = j.todo
           /\ [j EXCEPT !.phase = phase, !.haveR = R] \in JobType
           /\ [j EXCEPT !.phase = phase, !.haveR = R].todo = j.todo
           /\ [j EXCEPT !.phase = phase, !.todo = T] \in JobType
           /\ [j EXCEPT !.phase = phase, !.todo = T].todo = T
  BY DEF JobType

JobsTyped == /\ job \in [Writers -> JobType]
             /\ \A v \in Writers : job[v].phase # "idle" => job[v].todo # << >>

\* One writer's record changes, the others keep theirs.
LEMMA JobStep ==
    ASSUME JobsOK, NEW w \in Writers, NEW j \in JobType, j.phase # "idle" => j.todo # << >>,
           job' = [job EXCEPT ![w] = j]
    PROVE  JobsTyped'
  BY DEF JobsOK, JobsTyped

LEMMA PhaseStep ==
    ASSUME JobsOK, NEW w \in Writers, NEW phase \in Phases, job[w].phase # "idle",
           job' = [job EXCEPT ![w].phase = phase]
    PROVE  JobsTyped'
<1> DEFINE j == [job[w] EXCEPT !.phase = phase]
<1>1. job[w] \in JobType /\ job[w].todo # << >>
  BY DEF JobsOK
<1>2. j \in JobType /\ j.todo = job[w].todo
  BY <1>1 DEF JobType
<1>3. job' = [job EXCEPT ![w] = j]
  OBVIOUS
<1> HIDE DEF j
<1> QED BY <1>1, <1>2, <1>3, JobStep

LEMMA LocalUpdate ==
    ASSUME TypeOK, NEW week \in Weeks, NEW r \in Rosters
    PROVE  [local EXCEPT ![week] = r] \in [Weeks -> Rosters]
  BY DEF TypeOK

LEMMA JobFields ==
    ASSUME TypeOK, NEW w \in Writers
    PROVE  /\ job[w] \in JobType
           /\ job[w].week \in Weeks /\ job[w].base \in Rosters
           /\ job[w].wantS \in Lineups /\ job[w].wantR \in SUBSET Players
           /\ job[w].haveS \in Lineups /\ job[w].haveR \in SUBSET Players
           /\ job[w].seenS \in Lineups /\ job[w].todo \in Plans \cup {<< >>}
  BY DEF TypeOK, JobType

LEMMA GuardType ==
    ASSUME TypeOK, NEW w \in Writers,
           PrereadStarters(w) \/ GuardPasses(w) \/ GuardConflicts(w) \/ PrereadFails(w)
    PROVE  TypeOK'
<1>0. JobsOK /\ job[w] \in JobType
  BY JobFields DEF TypeOK, JobsOK
<1>1. CASE PrereadStarters(w)
  <2>1. PICK S \in Lineups : job' = [job EXCEPT ![w] = [@ EXCEPT !.phase = "prereadReserve", !.seenS = S]]
    <3>1. starters[job[w].week] \in Lineups /\ job[w].haveS \in Lineups
      BY JobFields DEF TypeOK
    <3> QED BY <1>1, <3>1 DEF PrereadStarters
  <2>a. job[w].phase # "idle" /\ UNCHANGED <<sleeper, env, local, requests>>
    BY <1>1 DEF PrereadStarters
  <2>d. [job[w] EXCEPT !.phase = "prereadReserve", !.seenS = S] \in JobType
        /\ [job[w] EXCEPT !.phase = "prereadReserve", !.seenS = S].todo = job[w].todo
    BY <1>0, JobUpdate DEF Phases
  <2>2. JobsTyped'
    BY <1>0, <2>1, <2>a, <2>d, JobStep DEF JobsOK
  <2>b. PICK K \in SUBSET Lists : known' = [known EXCEPT ![w] = K]
    BY <1>1 DEF PrereadStarters, Lists
  <2>3. known' \in [Writers -> SUBSET Lists]
    BY <1>0, <2>b DEF JobsOK
  <2> QED BY <2>a, <2>2, <2>3 DEF TypeOK, JobsTyped, sleeper, env
<1>2. CASE GuardPasses(w)
  <2>a. /\ job[w].phase = "prereadReserve" /\ job' = [job EXCEPT ![w].phase = "push"]
        /\ UNCHANGED <<sleeper, env, local, requests>>
    BY <1>2 DEF GuardPasses
  <2>1. JobsTyped'
    BY <1>0, <2>a, PhaseStep DEF Phases
  <2>b. known[w] \cup {"reserve"} \in SUBSET Lists
    BY <1>0 DEF JobsOK, Lists
  <2>c. PICK K \in SUBSET Lists : known' = [known EXCEPT ![w] = K]
    BY <1>0, <1>2, <2>b DEF GuardPasses, JobsOK
  <2>2. known' \in [Writers -> SUBSET Lists]
    BY <1>0, <2>c DEF JobsOK
  <2> QED BY <2>a, <2>1, <2>2 DEF TypeOK, JobsTyped, sleeper, env
<1>3. CASE GuardConflicts(w)
  <2>1. JobsOK'
    BY <1>0, <1>3, EndType DEF GuardConflicts
  <2>2. local' \in [Weeks -> Rosters]
    BY <1>3, JobFields, PlacementType, LocalUpdate DEF GuardConflicts, TypeOK
  <2> QED BY <1>3, <2>1, <2>2 DEF GuardConflicts, TypeOK, JobsOK, sleeper, env
<1>4. CASE PrereadFails(w)
  <2>1. JobsTyped'
    BY <1>0, <1>4, PhaseStep DEF PrereadFails, Phases
  <2>2. known' \in [Writers -> SUBSET Lists]
    BY <1>0, <1>4 DEF PrereadFails, JobsOK, Lists
  <2> QED BY <1>4, <2>1, <2>2 DEF PrereadFails, TypeOK, JobsTyped, sleeper, env
<1> QED BY <1>1, <1>2, <1>3, <1>4

LEMMA EffectType ==
    ASSUME TypeOK, NEW w \in Writers, TakesEffect(w)
    PROVE  /\ starters' \in [Weeks -> Lineups] /\ reserve' \in SUBSET Players
           /\ squad' \in SUBSET Players
  BY JobFields DEF TakesEffect, TypeOK

LEMMA SaveConfirmedType ==
    ASSUME TypeOK, NEW w \in Writers, SaveConfirmed(w)
    PROVE  local' \in [Weeks -> Rosters]
  BY JobFields, PlacementType, LocalUpdate DEF SaveConfirmed, TypeOK

LEMMA PushType ==
    ASSUME TypeOK, NEW w \in Writers,
           PushApplied(w) \/ PushIgnored(w) \/ PushRefused(w) \/ PushRefusedAuth(w) \/ PushLost(w)
    PROVE  TypeOK'
<1>0. JobsOK /\ job[w] \in JobType
  BY JobFields DEF TypeOK, JobsOK
<1>1. CASE PushApplied(w)
  <2>1. JobsTyped'
    BY <1>0, <1>1, PhaseStep DEF PushApplied, Phases
  <2>2. known' \in [Writers -> SUBSET Lists]
    BY <1>0, <1>1, ForgetType DEF PushApplied
  <2> QED BY <1>1, <2>1, <2>2, EffectType DEF PushApplied, TypeOK, JobsTyped, env
<1>2. CASE PushIgnored(w)
  <2>1. JobsTyped'
    BY <1>0, <1>2, PhaseStep DEF PushIgnored, Phases
  <2>2. known' \in [Writers -> SUBSET Lists]
    BY <1>0, <1>2 DEF PushIgnored, JobsOK
  <2> QED BY <1>2, <2>1, <2>2 DEF PushIgnored, TypeOK, JobsTyped, sleeper, env
<1>3. CASE PushRefused(w)
  BY <1>0, <1>3, EndType, SaveConfirmedType DEF PushRefused, TypeOK, JobsOK, sleeper, env
<1>4. CASE PushRefusedAuth(w)
  BY <1>0, <1>4, EndType DEF PushRefusedAuth, TypeOK, JobsOK, sleeper, env
<1>5. CASE PushLost(w)
  <2>1. JobsTyped'
    BY <1>0, <1>5, NoJobType DEF JobsOK, JobsTyped, PushLost, NoJob
  <2>2. known' \in [Writers -> SUBSET Lists]
    BY <1>0, <1>5, ForgetType DEF PushLost
  <2> QED BY <1>5, <2>1, <2>2, EffectType, SaveConfirmedType DEF PushLost, TypeOK, JobsTyped, env
<1> QED BY <1>1, <1>2, <1>3, <1>4, <1>5

LEMMA ReadbackType ==
    ASSUME TypeOK, NEW w \in Writers,
           ReadbackMatches(w) \/ ReadbackDiffers(w) \/ ReadbackFails(w) \/ Crash(w)
    PROVE  TypeOK'
<1>0. JobsOK /\ job[w] \in JobType
  BY JobFields DEF TypeOK, JobsOK
<1>1. CASE ReadbackMatches(w)
  <2>1. job[w].phase # "idle" /\ job[w].todo # << >>
    BY <1>0, <1>1 DEF ReadbackMatches, JobsOK
  <2>2. \/ job' = [job EXCEPT ![w] = [job[w] EXCEPT !.phase = "apply", !.haveS = job[w].wantS]]
        \/ job' = [job EXCEPT ![w] = [job[w] EXCEPT !.phase = "apply", !.haveR = job[w].wantR]]
    BY <1>1 DEF ReadbackMatches
  <2>3. /\ [job[w] EXCEPT !.phase = "apply", !.haveS = job[w].wantS] \in JobType
        /\ [job[w] EXCEPT !.phase = "apply", !.haveR = job[w].wantR] \in JobType
        /\ [job[w] EXCEPT !.phase = "apply", !.haveS = job[w].wantS].todo = job[w].todo
        /\ [job[w] EXCEPT !.phase = "apply", !.haveR = job[w].wantR].todo = job[w].todo
    BY <1>0, JobUpdate, JobFields DEF Phases
  <2>4. JobsTyped'
    BY <1>0, <2>1, <2>2, <2>3, JobStep
  <2>5. known' \in [Writers -> SUBSET Lists]
    BY <1>0, <1>1, <2>1, TodoShape DEF ReadbackMatches, JobsOK
  <2> QED BY <1>1, <2>4, <2>5 DEF ReadbackMatches, TypeOK, JobsTyped, sleeper, env
<1>2. CASE ReadbackDiffers(w)
  BY <1>0, <1>2, EndType DEF ReadbackDiffers, TypeOK, JobsOK, sleeper, env
<1>3. CASE ReadbackFails(w)
  BY <1>0, <1>3, EndType DEF ReadbackFails, TypeOK, JobsOK, sleeper, env
<1>4. CASE Crash(w)
  BY <1>0, <1>4, EndType DEF Crash, TypeOK, JobsOK, sleeper, env
<1> QED BY <1>1, <1>2, <1>3, <1>4

LEMMA LastStep ==
    \A T \in {<<"starters">>, <<"reserve">>} : T # << >> /\ T \in Plans \cup {<< >>}
  BY DEF Plans

LEMMA ApplyType ==
    ASSUME TypeOK, NEW w \in Writers, Apply(w)
    PROVE  TypeOK'
<1>0. JobsOK /\ job[w] \in JobType
  BY JobFields DEF TypeOK, JobsOK
<1>1. local' \in [Weeks -> Rosters]
  BY JobFields, PlacementType, ApplyLocalType, LocalUpdate DEF Apply
<1>2. JobsTyped' /\ known' \in [Writers -> SUBSET Lists]
  <2>1. CASE Len(job[w].todo) = 1
    BY <1>0, <2>1, EndType DEF Apply, JobsOK, JobsTyped
  <2>2. CASE Len(job[w].todo) # 1
    <3>1. Tail(job[w].todo) \in {<<"starters">>, <<"reserve">>}
      BY <1>0, <2>2, TodoShape DEF Apply
    <3>2. [job[w] EXCEPT !.phase = "push", !.todo = Tail(job[w].todo)] \in JobType
      BY <1>0, <3>1 DEF JobType, Phases, Plans
    <3>3. [job[w] EXCEPT !.phase = "push", !.todo = Tail(job[w].todo)].todo # << >>
      <4>1. Tail(job[w].todo) # << >> /\ Tail(job[w].todo) \in Plans \cup {<< >>}
        BY <3>1, LastStep
      <4>2. [job[w] EXCEPT !.phase = "push", !.todo = Tail(job[w].todo)].todo = Tail(job[w].todo)
        BY <1>0 DEF JobType
      <4> QED BY <4>1, <4>2
    <3>4. job' = [job EXCEPT ![w] = [job[w] EXCEPT !.phase = "push", !.todo = Tail(job[w].todo)]]
      BY <2>2 DEF Apply
    <3>5. JobsTyped'
      BY <1>0, <3>2, <3>3, <3>4, JobStep
    <3> QED BY <2>2, <3>5 DEF Apply, TypeOK
  <2> QED BY <2>1, <2>2
<1> QED BY <1>1, <1>2 DEF Apply, TypeOK, JobsTyped, sleeper, env

LEMMA AppType ==
    ASSUME TypeOK,
           \/ AppSetsLineup \/ AppSetsReserve \/ AppSwapsPlayer
           \/ PublicCatchesUp \/ RefreshCommits \/ Kickoff
    PROVE  TypeOK'
<1>0. JobsOK
  BY DEF TypeOK, JobsOK
<1>1. CASE AppSetsLineup
  <2>1. edits' \in 0..MaxEdits
    BY <1>1, WritesAssumption DEF AppSetsLineup, AppEdit, TypeOK
  <2>2. PICK week \in Weeks, S \in Lineups :
          /\ starters' = [starters EXCEPT ![week] = S]
          /\ known' = Forget("starters", week)
    BY <1>1 DEF AppSetsLineup
  <2>3. known' \in [Writers -> SUBSET Lists]
    BY <1>0, <2>2, ForgetType
  <2> QED BY <1>1, <2>1, <2>2, <2>3 DEF AppSetsLineup, TypeOK
<1>2. CASE AppSetsReserve
  <2>1. edits' \in 0..MaxEdits
    BY <1>2, WritesAssumption DEF AppSetsReserve, AppEdit, TypeOK
  <2>2. known' \in [Writers -> SUBSET Lists]
    BY <1>0, <1>2, ForgetType DEF AppSetsReserve
  <2> QED BY <1>2, <2>1, <2>2 DEF AppSetsReserve, TypeOK
<1>3. CASE AppSwapsPlayer
  <2>1. edits' \in 0..MaxEdits
    BY <1>3, WritesAssumption DEF AppSwapsPlayer, AppEdit, TypeOK
  <2>2. PICK leaving \in squad : starters' = [k \in Weeks |-> Without(starters[k], leaving)]
    BY <1>3 DEF AppSwapsPlayer
  <2>3. starters' \in [Weeks -> Lineups]
    BY <2>2 DEF TypeOK, Without, Lineups
  <2> QED BY <1>3, <2>1, <2>3 DEF AppSwapsPlayer, TypeOK
<1>4. CASE PublicCatchesUp
  BY <1>4 DEF PublicCatchesUp, TypeOK, sleeper
<1>5. CASE RefreshCommits
  <2>1. local' \in [Weeks -> Rosters]
    BY <1>5, MapRosterType DEF RefreshCommits, TypeOK
  <2> QED BY <1>5, <2>1 DEF RefreshCommits, TypeOK, sleeper, env
<1>6. CASE Kickoff
  BY <1>6 DEF Kickoff, TypeOK, sleeper
<1> QED BY <1>1, <1>2, <1>3, <1>4, <1>5, <1>6

LEMMA TypeNext == TypeOK /\ [Next]_vars => TypeOK'
<1> SUFFICES ASSUME TypeOK, [Next]_vars PROVE TypeOK'
  OBVIOUS
<1>1. CASE \E w \in Writers : RequestMove(w) \/ RequestLineup(w)
  BY <1>1, RequestMoveType, RequestLineupType
<1>2. CASE \E w \in Writers : WriterStep(w)
  BY <1>2, GuardType, PushType, ReadbackType, ApplyType DEF WriterStep
<1>3. CASE \/ AppSetsLineup \/ AppSetsReserve \/ AppSwapsPlayer
           \/ PublicCatchesUp \/ RefreshCommits \/ Kickoff
  BY <1>3, AppType
<1>4. CASE UNCHANGED vars
  BY <1>4 DEF vars, TypeOK
<1> QED BY <1>1, <1>2, <1>3, <1>4 DEF Next

\* Every behaviour keeps every variable in its type: saved rows, whichever of
\* move_player, set_lineup, the guard or a refresh wrote them, never put two
\* players in one starting slot.
THEOREM TypeCorrect == Spec => []TypeOK
<1>1. Init => TypeOK
  BY TypeInit
<1>2. TypeOK /\ [Next]_vars => TypeOK'
  BY TypeNext
<1> QED BY <1>1, <1>2, PTL DEF Spec

-----------------------------------------------------------------------------
(* What a writer has seen.  The invariant also says what a writer between  *)
(* its two pre-reads knows: the lineup it has read, not yet the IR list.   *)

SeenOK(v) ==
    /\ job[v].phase \in {"push", "readback", "apply"} =>
         /\ "starters" \in known[v] => starters[job[v].week] = job[v].haveS
         /\ "reserve" \in known[v] => reserve = job[v].haveR
    /\ job[v].phase = "prereadReserve" =>
         /\ "starters" \in known[v] => starters[job[v].week] = job[v].seenS
         /\ "reserve" \notin known[v]

SeenInv == \A v \in Writers : SeenOK(v)

\* A writer who does nothing keeps what it has seen, as long as the lists it
\* still counts on do not change.
LEMMA StillSeen ==
    ASSUME NEW v \in Writers, SeenOK(v),
           job'[v] = job[v], known'[v] \subseteq known[v],
           "starters" \in known'[v] => starters'[job[v].week] = starters[job[v].week],
           "reserve" \in known'[v] => reserve' = reserve
    PROVE  SeenOK(v)'
  BY DEF SeenOK

\* A writer that comes to an end knows nothing.
LEMMA EndSeen ==
    ASSUME TypeOK, NEW w \in Writers, End(w)
    PROVE  /\ SeenOK(w)'
           /\ \A v \in Writers \ {w} : job'[v] = job[v] /\ known'[v] = known[v]
  BY DEF TypeOK, End, NoJob, SeenOK

LEMMA ForgetSeen ==
    ASSUME TypeOK, NEW list \in Lists, NEW week \in Weeks, NEW v \in Writers
    PROVE  /\ Forget(list, week)[v] \subseteq known[v]
           /\ list = "starters" /\ "starters" \in Forget(list, week)[v] => job[v].week # week
           /\ list = "reserve" => "reserve" \notin Forget(list, week)[v]
  BY DEF Forget

\* Who still counts on a list after a push took effect finds it unchanged.
LEMMA EffectSeen ==
    ASSUME TypeOK, NEW w \in Writers, job[w].phase = "push", TakesEffect(w), NEW v \in Writers,
           known'[v] \subseteq Forget(Head(job[w].todo), job[w].week)[v]
    PROVE  /\ known'[v] \subseteq known[v]
           /\ "starters" \in known'[v] => starters'[job[v].week] = starters[job[v].week]
           /\ "reserve" \in known'[v] => reserve' = reserve
<1>1. Head(job[w].todo) \in Lists /\ job[w].week \in Weeks /\ job[v].week \in Weeks
  BY TodoShape, JobFields DEF TypeOK, JobsOK
<1>2. CASE Head(job[w].todo) = "starters"
  <2>1. starters' = [starters EXCEPT ![job[w].week] = job[w].wantS] /\ reserve' = reserve
    BY <1>2 DEF TakesEffect
  <2>2. "starters" \in known'[v] => job[v].week # job[w].week
    BY <1>1, <1>2, ForgetSeen
  <2>3. known'[v] \subseteq known[v]
    BY <1>1, ForgetSeen
  <2> QED BY <1>1, <2>1, <2>2, <2>3 DEF TypeOK
<1>3. CASE Head(job[w].todo) = "reserve"
  <2>1. starters' = starters
    BY <1>3 DEF TakesEffect
  <2>2. "reserve" \notin known'[v]
    BY <1>1, <1>3, ForgetSeen
  <2>3. known'[v] \subseteq known[v]
    BY <1>1, ForgetSeen
  <2> QED BY <2>1, <2>2, <2>3
<1> QED BY <1>1, <1>2, <1>3 DEF Lists

LEMMA GuardSeen ==
    ASSUME TypeOK, SeenInv, NEW w \in Writers,
           PrereadStarters(w) \/ GuardPasses(w) \/ GuardConflicts(w) \/ PrereadFails(w)
    PROVE  SeenInv'
<1>1. starters' = starters /\ reserve' = reserve
  BY DEF PrereadStarters, GuardPasses, GuardConflicts, PrereadFails, sleeper
<1>2. \A v \in Writers \ {w} : job'[v] = job[v] /\ known'[v] = known[v]
  BY DEF PrereadStarters, GuardPasses, GuardConflicts, PrereadFails, End, TypeOK
<1>3. \A v \in Writers \ {w} : SeenOK(v)'
  BY <1>1, <1>2, StillSeen DEF SeenInv
<1>4. CASE PrereadStarters(w)
  <2>1. PICK answered \in BOOLEAN :
          /\ job' = [job EXCEPT ![w] = [job[w] EXCEPT !.phase = "prereadReserve",
                       !.seenS = IF answered THEN starters[job[w].week] ELSE job[w].haveS]]
          /\ known' = [known EXCEPT ![w] = IF answered THEN {"starters"} ELSE {}]
    BY <1>4 DEF PrereadStarters
  <2>2. /\ job'[w].phase = "prereadReserve" /\ job'[w].week = job[w].week
        /\ job'[w].seenS = IF answered THEN starters[job[w].week] ELSE job[w].haveS
        /\ known'[w] = IF answered THEN {"starters"} ELSE {}
    BY <2>1 DEF TypeOK, JobType
  <2>3. SeenOK(w)'
    BY <1>1, <2>2 DEF SeenOK
  <2> QED BY <1>3, <2>3 DEF SeenInv
<1>5. CASE GuardPasses(w)
  <2>1. /\ job[w].phase = "prereadReserve" /\ job[w].seenS = job[w].haveS
        /\ job' = [job EXCEPT ![w].phase = "push"]
    BY <1>5 DEF GuardPasses
  <2>2. PICK answered \in BOOLEAN :
          /\ answered => reserve = job[w].haveR
          /\ known' = [known EXCEPT ![w] = IF answered THEN known[w] \cup {"reserve"} ELSE known[w]]
    BY <1>5 DEF GuardPasses
  <2>3. /\ job'[w].phase = "push" /\ job'[w].week = job[w].week
        /\ job'[w].haveS = job[w].haveS /\ job'[w].haveR = job[w].haveR
    BY <2>1 DEF TypeOK, JobType
  <2>4. known'[w] = IF answered THEN known[w] \cup {"reserve"} ELSE known[w]
    BY <2>2 DEF TypeOK
  <2>5. SeenOK(w)'
    BY <1>1, <2>1, <2>2, <2>3, <2>4 DEF SeenOK, SeenInv
  <2> QED BY <1>3, <2>5 DEF SeenInv
<1>6. CASE GuardConflicts(w)
  <2>1. SeenOK(w)'
    BY <1>6, EndSeen DEF GuardConflicts
  <2> QED BY <1>3, <2>1 DEF SeenInv
<1>7. CASE PrereadFails(w)
  <2>1. job'[w].phase = "push" /\ known'[w] = {}
    BY <1>7 DEF PrereadFails, TypeOK, JobType
  <2>2. SeenOK(w)'
    BY <2>1 DEF SeenOK
  <2> QED BY <1>3, <2>2 DEF SeenInv
<1> QED BY <1>4, <1>5, <1>6, <1>7

LEMMA PushSeen ==
    ASSUME TypeOK, SeenInv, NEW w \in Writers,
           PushApplied(w) \/ PushIgnored(w) \/ PushRefused(w) \/ PushRefusedAuth(w) \/ PushLost(w)
    PROVE  SeenInv'
<1>1. CASE PushApplied(w)
  <2>1. /\ job[w].phase = "push" /\ TakesEffect(w)
        /\ known' = Forget(Head(job[w].todo), job[w].week)
        /\ job' = [job EXCEPT ![w].phase = "readback"]
    BY <1>1 DEF PushApplied
  <2>2. \A v \in Writers :
          /\ known'[v] \subseteq known[v]
          /\ "starters" \in known'[v] => starters'[job[v].week] = starters[job[v].week]
          /\ "reserve" \in known'[v] => reserve' = reserve
    BY <2>1, EffectSeen
  <2>3. \A v \in Writers \ {w} : job'[v] = job[v]
    BY <2>1 DEF TypeOK
  <2>4. \A v \in Writers \ {w} : SeenOK(v)'
    BY <2>2, <2>3, StillSeen DEF SeenInv
  <2>5. /\ job'[w].phase = "readback" /\ job'[w].week = job[w].week
        /\ job'[w].haveS = job[w].haveS /\ job'[w].haveR = job[w].haveR
    BY <2>1 DEF TypeOK, JobType
  <2>6. SeenOK(w)'
    BY <2>1, <2>2, <2>5 DEF SeenOK, SeenInv
  <2> QED BY <2>4, <2>6 DEF SeenInv
<1>2. CASE PushIgnored(w)
  <2>1. /\ job[w].phase = "push" /\ job' = [job EXCEPT ![w].phase = "readback"]
        /\ known' = [known EXCEPT ![w] = known[w] \ {Head(job[w].todo)}]
        /\ starters' = starters /\ reserve' = reserve
    BY <1>2 DEF PushIgnored, sleeper
  <2>2. \A v \in Writers \ {w} : job'[v] = job[v] /\ known'[v] = known[v]
    BY <2>1 DEF TypeOK
  <2>3. \A v \in Writers \ {w} : SeenOK(v)'
    BY <2>1, <2>2, StillSeen DEF SeenInv
  <2>4. /\ job'[w].phase = "readback" /\ job'[w].week = job[w].week
        /\ job'[w].haveS = job[w].haveS /\ job'[w].haveR = job[w].haveR
        /\ known'[w] \subseteq known[w]
    BY <2>1 DEF TypeOK, JobType
  <2>5. SeenOK(w)'
    BY <2>1, <2>4 DEF SeenOK, SeenInv
  <2> QED BY <2>3, <2>5 DEF SeenInv
<1>3. CASE PushRefused(w) \/ PushRefusedAuth(w)
  <2>1. End(w) /\ starters' = starters /\ reserve' = reserve
    BY <1>3 DEF PushRefused, PushRefusedAuth, sleeper
  <2> QED BY <2>1, EndSeen, StillSeen DEF SeenInv
<1>4. CASE PushLost(w)
  <2>1. /\ job[w].phase = "push" /\ TakesEffect(w)
        /\ known' = [Forget(Head(job[w].todo), job[w].week) EXCEPT ![w] = {}]
        /\ job' = [job EXCEPT ![w] = NoJob]
    BY <1>4 DEF PushLost
  <2>2. \A v \in Writers \ {w} :
          /\ job'[v] = job[v]
          /\ known'[v] \subseteq Forget(Head(job[w].todo), job[w].week)[v]
    BY <2>1 DEF TypeOK, Forget
  <2>3. \A v \in Writers \ {w} : SeenOK(v)'
    BY <2>1, <2>2, EffectSeen, StillSeen DEF SeenInv
  <2>4. job'[w].phase = "idle"
    BY <2>1 DEF TypeOK, NoJob
  <2>5. SeenOK(w)'
    BY <2>4 DEF SeenOK
  <2> QED BY <2>3, <2>5 DEF SeenInv
<1> QED BY <1>1, <1>2, <1>3, <1>4

LEMMA ReadbackSeen ==
    ASSUME TypeOK, SeenInv, NEW w \in Writers,
           \/ ReadbackMatches(w) \/ ReadbackDiffers(w) \/ ReadbackFails(w)
           \/ Apply(w) \/ Crash(w)
    PROVE  SeenInv'
<1>1. starters' = starters /\ reserve' = reserve
  BY DEF ReadbackMatches, ReadbackDiffers, ReadbackFails, Apply, Crash, sleeper
<1>2. \A v \in Writers \ {w} : job'[v] = job[v] /\ known'[v] = known[v]
  BY DEF ReadbackMatches, ReadbackDiffers, ReadbackFails, Apply, Crash, End, TypeOK
<1>3. \A v \in Writers \ {w} : SeenOK(v)'
  BY <1>1, <1>2, StillSeen DEF SeenInv
<1>4. CASE ReadbackMatches(w)
  <2>1. known'[w] = known[w] \cup {Head(job[w].todo)} /\ job[w].phase = "readback"
    BY <1>4 DEF ReadbackMatches, TypeOK
  <2>2. Head(job[w].todo) \in Lists
    BY <2>1, TodoShape DEF TypeOK, JobsOK
  <2>3. CASE Head(job[w].todo) = "starters"
    <3>1. /\ starters[job[w].week] = job[w].wantS
          /\ job' = [job EXCEPT ![w] = [job[w] EXCEPT !.phase = "apply", !.haveS = job[w].wantS]]
      BY <1>4, <2>3 DEF ReadbackMatches
    <3>2. /\ job'[w].phase = "apply" /\ job'[w].week = job[w].week
          /\ job'[w].haveS = job[w].wantS /\ job'[w].haveR = job[w].haveR
      BY <3>1 DEF TypeOK, JobType
    <3>3. SeenOK(w)'
      BY <1>1, <2>1, <2>3, <3>1, <3>2 DEF SeenOK, SeenInv
    <3> QED BY <1>3, <3>3 DEF SeenInv
  <2>4. CASE Head(job[w].todo) = "reserve"
    <3>1. /\ reserve = job[w].wantR
          /\ job' = [job EXCEPT ![w] = [job[w] EXCEPT !.phase = "apply", !.haveR = job[w].wantR]]
      BY <1>4, <2>4 DEF ReadbackMatches
    <3>2. /\ job'[w].phase = "apply" /\ job'[w].week = job[w].week
          /\ job'[w].haveS = job[w].haveS /\ job'[w].haveR = job[w].wantR
      BY <3>1 DEF TypeOK, JobType
    <3>3. SeenOK(w)'
      BY <1>1, <2>1, <2>4, <3>1, <3>2 DEF SeenOK, SeenInv
    <3> QED BY <1>3, <3>3 DEF SeenInv
  <2> QED BY <2>2, <2>3, <2>4 DEF Lists
<1>5. CASE Apply(w) /\ Len(job[w].todo) # 1
  <2>1. /\ job[w].phase = "apply" /\ known' = known
        /\ job' = [job EXCEPT ![w] = [job[w] EXCEPT !.phase = "push", !.todo = Tail(job[w].todo)]]
    BY <1>5 DEF Apply
  <2>2. /\ job'[w].phase = "push" /\ job'[w].week = job[w].week
        /\ job'[w].haveS = job[w].haveS /\ job'[w].haveR = job[w].haveR
    BY <2>1 DEF TypeOK, JobType
  <2>3. SeenOK(w)'
    BY <1>1, <2>1, <2>2 DEF SeenOK, SeenInv
  <2> QED BY <1>3, <2>3 DEF SeenInv
<1>6. CASE End(w)
  BY <1>3, <1>6, EndSeen DEF SeenInv
<1> QED BY <1>4, <1>5, <1>6 DEF ReadbackDiffers, ReadbackFails, Apply, Crash

LEMMA BeginSeen ==
    ASSUME TypeOK, SeenInv, NEW w \in Writers, RequestMove(w) \/ RequestLineup(w)
    PROVE  SeenInv'
<1>1. PICK kind, week, S, R, order : Begin(w, kind, week, S, R, order)
  BY DEF RequestMove, RequestLineup, Move
<1>2. starters' = starters /\ reserve' = reserve
  BY <1>1 DEF Begin, sleeper
<1>3. \A v \in Writers \ {w} : job'[v] = job[v] /\ known'[v] = known[v]
  BY <1>1 DEF Begin, TypeOK
<1>4. job'[w].phase = "prereadStarters"
  BY <1>1 DEF Begin, TypeOK
<1> QED BY <1>2, <1>3, <1>4, StillSeen DEF SeenInv, SeenOK

LEMMA AppSeen ==
    ASSUME TypeOK, SeenInv,
           \/ AppSetsLineup \/ AppSetsReserve \/ AppSwapsPlayer
           \/ PublicCatchesUp \/ RefreshCommits \/ Kickoff
    PROVE  SeenInv'
<1>1. job' = job
  BY DEF AppSetsLineup, AppSetsReserve, AppSwapsPlayer, PublicCatchesUp, RefreshCommits, Kickoff
<1>2. CASE AppSetsLineup
  <2>1. PICK week \in Weeks, S \in Lineups :
          starters' = [starters EXCEPT ![week] = S] /\ known' = Forget("starters", week)
    BY <1>2 DEF AppSetsLineup
  <2>2. reserve' = reserve
    BY <1>2 DEF AppSetsLineup
  <2>3. ASSUME NEW v \in Writers
        PROVE  /\ known'[v] \subseteq known[v]
               /\ "starters" \in known'[v] => starters'[job[v].week] = starters[job[v].week]
    BY <2>1, ForgetSeen, JobFields DEF TypeOK, Lists
  <2>4. ASSUME NEW v \in Writers PROVE SeenOK(v)'
    <3>1. job'[v] = job[v] /\ SeenOK(v)
      BY <1>1 DEF SeenInv
    <3> QED BY <2>2, <2>3, <3>1, StillSeen
  <2> QED BY <2>4 DEF SeenInv
<1>3. CASE AppSetsReserve
  <2>1. known' = Forget("reserve", CurrentWeek) /\ starters' = starters
    BY <1>3 DEF AppSetsReserve
  <2>2. \A v \in Writers : known'[v] \subseteq known[v] /\ "reserve" \notin known'[v]
    BY <2>1, ForgetSeen, WritesAssumption DEF Lists
  <2>3. ASSUME NEW v \in Writers PROVE SeenOK(v)'
    <3>1. job'[v] = job[v] /\ SeenOK(v)
      BY <1>1 DEF SeenInv
    <3> QED BY <2>1, <2>2, <3>1, StillSeen
  <2> QED BY <2>3 DEF SeenInv
<1>4. CASE AppSwapsPlayer
  <2>1. \A v \in Writers : known'[v] = {}
    BY <1>4 DEF AppSwapsPlayer
  <2> QED BY <1>1, <2>1, StillSeen DEF SeenInv
<1>5. CASE PublicCatchesUp \/ RefreshCommits \/ Kickoff
  <2>1. starters' = starters /\ reserve' = reserve /\ known' = known
    BY <1>5 DEF PublicCatchesUp, RefreshCommits, Kickoff, sleeper
  <2> QED BY <1>1, <2>1, StillSeen DEF SeenInv
<1> QED BY <1>2, <1>3, <1>4, <1>5

LEMMA SeenNext == TypeOK /\ SeenInv /\ [Next]_vars => SeenInv'
<1> SUFFICES ASSUME TypeOK, SeenInv, [Next]_vars PROVE SeenInv'
  OBVIOUS
<1>1. CASE \E w \in Writers : RequestMove(w) \/ RequestLineup(w)
  BY <1>1, BeginSeen
<1>2. CASE \E w \in Writers : WriterStep(w)
  BY <1>2, GuardSeen, PushSeen, ReadbackSeen DEF WriterStep
<1>3. CASE \/ AppSetsLineup \/ AppSetsReserve \/ AppSwapsPlayer
           \/ PublicCatchesUp \/ RefreshCommits \/ Kickoff
  BY <1>3, AppSeen
<1>4. CASE UNCHANGED vars
  BY <1>4 DEF vars, SeenInv, SeenOK
<1> QED BY <1>1, <1>2, <1>3, <1>4 DEF Next

LEMMA SeenAlways == Spec => [](TypeOK /\ SeenInv)
<1>1. Init => TypeOK /\ SeenInv
  BY TypeInit DEF Init, SeenInv, SeenOK, NoJob
<1>2. TypeOK /\ SeenInv /\ [Next]_vars => TypeOK' /\ SeenInv'
  BY TypeNext, SeenNext
<1> QED BY <1>1, <1>2, PTL DEF Spec

\* What a writer has read and nobody changed since is what Sleeper holds, for
\* any number of writers, app edits, refreshes and failures.  This is what
\* _guard_unchanged buys: only a change made after its reads is overwritten.
THEOREM SeenListsHold == Spec => []SeenListsStillHold
<1>1. SeenInv => SeenListsStillHold
  BY DEF SeenInv, SeenOK, SeenListsStillHold
<1> QED BY <1>1, SeenAlways, PTL

-----------------------------------------------------------------------------
(* What a request in progress is about.  The invariant below speaks of one  *)
(* writer's record only, so nothing the Sleeper app, a refresh or another   *)
(* writer does can disturb it.                                              *)

\* The lists a request wants fit the rows it was checked against: each player
\* once, a starter not on IR, and nobody moved whose game had started; a move
\* moves at most the player asked for and the one he displaces, and set_lineup
\* leaves the IR list as it is.
Wanted(j) ==
    /\ Injective(j.wantS)
    /\ Starting(j.wantS) \subseteq DOMAIN j.base /\ j.wantR \subseteq DOMAIN j.base
    /\ Starting(j.wantS) \cap j.wantR = {}
    /\ Moved(j.base, j.wantS, j.wantR) \cap j.locked = {}
    /\ j.kind = "move" => \E p, q \in Players : Moved(j.base, j.wantS, j.wantR) \subseteq {p, q}
    /\ j.kind = "set" => j.todo = <<"starters">> /\ j.wantR = ReserveOf(j.base)

\* How far a request has come: the list it is about to send, or has just
\* confirmed (sent), does not clash with the other list as it then is.
Reached(j, sent) ==
    IF Head(j.todo) = "starters"
    THEN /\ j.haveS = IF sent THEN j.wantS ELSE AlignedStarters(j.base)
         /\ j.haveR = IF Len(j.todo) = 1 THEN j.wantR ELSE ReserveOf(j.base)
         /\ Starting(j.wantS) \cap j.haveR = {}
    ELSE /\ j.haveR = IF sent THEN j.wantR ELSE ReserveOf(j.base)
         /\ j.haveS = IF Len(j.todo) = 1 THEN j.wantS ELSE AlignedStarters(j.base)
         /\ j.wantR \cap Starting(j.haveS) = {}

PlanOK(j) == Wanted(j) /\ Reached(j, j.phase = "apply")

PlanInv == \A w \in Writers : job[w].phase # "idle" => PlanOK(job[w])

-----------------------------------------------------------------------------
(* What move_player's computation promises.                                *)

\* The lineup the rows stand for names each player once, and nobody on IR.
LEMMA AlignedFits ==
    ASSUME NEW r \in Rosters
    PROVE  /\ Injective(AlignedStarters(r))
           /\ Starting(AlignedStarters(r)) = {p \in DOMAIN r : r[p] \in Slots}
           /\ Starting(AlignedStarters(r)) \cap ReserveOf(r) = {}
<1> DEFINE A == AlignedStarters(r)
<1>1. \A i \in Slots : A[i] # NoPlayer => A[i] \in DOMAIN r /\ r[A[i]] = i
  BY AlignedSeats
<1>2. \A i \in Slots, p \in DOMAIN r : r[p] = i => A[i] = p
  BY AlignedSeats
<1>3. NoPlayer \notin DOMAIN r
  BY RosterShape, RosterAssumption
<1> HIDE DEF A
<1>4. Injective(A)
  BY <1>1 DEF Injective
<1>5. Starting(A) = {p \in DOMAIN r : r[p] \in Slots}
  BY <1>1, <1>2, <1>3 DEF Starting
<1>6. Starting(A) \cap ReserveOf(r) = {}
  BY <1>5, RosterAssumption DEF ReserveOf
<1> QED BY <1>4, <1>5, <1>6 DEF A

LEMMA WithoutFits ==
    ASSUME NEW S \in Lineups, Injective(S), NEW p \in Players
    PROVE  /\ Without(S, p) \in Lineups
           /\ Injective(Without(S, p))
           /\ Starting(Without(S, p)) = Starting(S) \ {p}
<1>1. p # NoPlayer
  BY RosterAssumption
<1> QED BY <1>1 DEF Without, Lineups, Injective, Starting

\* What a move asks for: rostered players, each once, and none in both lists.
LEMMA DesiredFits ==
    ASSUME NEW r \in Rosters, NEW p \in DOMAIN r, NEW destination \in Destinations,
           NEW target, destination = "starter" => target \in Slots
    PROVE  LET S == DesiredStarters(r, p, destination, target)
               R == DesiredReserve(r, p, destination)
           IN  /\ Injective(S)
               /\ Starting(S) \subseteq DOMAIN r /\ R \subseteq DOMAIN r
               /\ Starting(S) \cap R = {}
<1> DEFINE A == AlignedStarters(r)
           W == Without(A, p)
           S == DesiredStarters(r, p, destination, target)
           R == DesiredReserve(r, p, destination)
<1>0. p \in Players /\ p # NoPlayer
  BY RosterShape, RosterAssumption
<1>1. A \in Lineups /\ Injective(A) /\ Starting(A) \subseteq DOMAIN r
      /\ Starting(A) \cap ReserveOf(r) = {}
  BY AlignedType, AlignedFits
<1>2. W \in Lineups /\ Injective(W) /\ Starting(W) = Starting(A) \ {p}
  BY <1>0, <1>1, WithoutFits
<1>3. ReserveOf(r) \subseteq DOMAIN r
  BY DEF ReserveOf
<1>4. R \subseteq ReserveOf(r) \cup {p}
  BY DEF DesiredReserve
<1>5. CASE destination = "starter"
  <2>1. S = [W EXCEPT ![target] = p] /\ target \in Slots
    BY <1>5 DEF DesiredStarters
  <2>2. \A i \in Slots : S[i] = IF i = target THEN p ELSE W[i]
    BY <1>2, <2>1 DEF Lineups
  <2>3. \A i \in Slots : W[i] # p
    BY <1>0, <1>2 DEF Starting
  <2> HIDE DEF S, W
  <2>4. Injective(S)
    BY <1>2, <2>2, <2>3 DEF Injective
  <2>5. Starting(S) \subseteq Starting(W) \cup {p}
    BY <2>2 DEF Starting
  <2>6. p \notin R
    BY <1>5 DEF DesiredReserve
  <2> QED BY <1>1, <1>2, <1>3, <1>4, <2>4, <2>5, <2>6 DEF S
<1>6. CASE destination # "starter"
  <2>1. S = W
    BY <1>6 DEF DesiredStarters
  <2> QED BY <1>1, <1>2, <1>3, <1>4, <2>1
<1> QED BY <1>5, <1>6

\* A move changes the seat of the player asked for and of one other at most.
LEMMA DesiredMoves ==
    ASSUME NEW r \in Rosters, NEW p \in DOMAIN r, NEW destination \in Destinations,
           NEW target, destination = "starter" => target \in Slots
    PROVE  \E q \in Players :
             Moved(r, DesiredStarters(r, p, destination, target),
                      DesiredReserve(r, p, destination)) \subseteq {p, q}
<1> DEFINE A == AlignedStarters(r)
           W == Without(A, p)
           S == DesiredStarters(r, p, destination, target)
           R == DesiredReserve(r, p, destination)
<1>0. p \in Players /\ A \in Lineups
  BY RosterShape, AlignedType
<1>1. \A i \in Slots : W[i] = IF A[i] = p THEN NoPlayer ELSE A[i]
  BY DEF Without
<1>2. (ReserveOf(r) \ R) \cup (R \ ReserveOf(r)) \subseteq {p}
  BY DEF DesiredReserve
<1>3. CASE destination = "starter"
  <2>1. \A i \in Slots : S[i] = IF i = target THEN p ELSE W[i]
    BY <1>3 DEF DesiredStarters, Without
  <2>2. PICK q \in Players : A[target] \in {q, NoPlayer}
    BY <1>0, <1>3 DEF Lineups
  <2> HIDE DEF S, W, A, R
  <2>3. \A i \in Slots : A[i] # S[i] => {A[i], S[i]} \subseteq {p, q, NoPlayer}
    BY <1>1, <2>1, <2>2
  <2>4. Moved(r, S, R) \subseteq {p, q}
    BY <1>2, <2>3 DEF Moved, A
  <2> QED BY <2>4 DEF S, R
<1>4. CASE destination # "starter"
  <2>1. S = W
    BY <1>4 DEF DesiredStarters
  <2> HIDE DEF S, W, A, R
  <2>3. \A i \in Slots : A[i] # S[i] => {A[i], S[i]} \subseteq {p, NoPlayer}
    BY <1>1, <2>1
  <2>4. Moved(r, S, R) \subseteq {p, p}
    BY <1>2, <2>3 DEF Moved, A
  <2> QED BY <1>0, <2>4 DEF S, R
<1> QED BY <1>3, <1>4

\* Whatever order a move sends its lists in, the one it sends first agrees with
\* the other as it still is: "leaving IR comes before starting; leaving the
\* lineup comes before IR".
LEMMA StepsFit ==
    ASSUME NEW r \in Rosters, NEW p \in DOMAIN r, NEW destination \in Destinations,
           NEW target, destination = "starter" => target \in Slots
    PROVE  LET A == AlignedStarters(r)
               V == ReserveOf(r)
               S == DesiredStarters(r, p, destination, target)
               R == DesiredReserve(r, p, destination)
               order == Steps(r, p, destination, S, R)
           IN  order # << >> =>
                 IF Head(order) = "starters"
                 THEN (Len(order) = 1 => R = V) /\ Starting(S) \cap V = {}
                 ELSE (Len(order) = 1 => S = A) /\ R \cap Starting(A) = {}
<1> DEFINE A == AlignedStarters(r)
           V == ReserveOf(r)
           S == DesiredStarters(r, p, destination, target)
           R == DesiredReserve(r, p, destination)
           order == Steps(r, p, destination, S, R)
<1> SUFFICES order # << >> =>
               IF Head(order) = "starters"
               THEN (Len(order) = 1 => R = V) /\ Starting(S) \cap V = {}
               ELSE (Len(order) = 1 => S = A) /\ R \cap Starting(A) = {}
  OBVIOUS
<1>1. Starting(A) \cap V = {} /\ A \in Lineups /\ Injective(A)
  BY AlignedFits, AlignedType
<1>2. Starting(S) \cap R = {}
  BY DesiredFits
<1>3. CASE destination = "starter" /\ r[p] = IR
  <2>1. R = V \ {p}
    BY <1>3 DEF DesiredReserve
  <2>2. order \in {<<"reserve", "starters">>, << >>}
    BY <1>3 DEF Steps
  <2>3. order # << >> => Head(order) = "reserve" /\ Len(order) = 2
    BY <2>2
  <2> HIDE DEF order, S, R, A, V
  <2> QED BY <1>1, <2>1, <2>3
<1>4. CASE ~(destination = "starter" /\ r[p] = IR)
  <2>1. Starting(S) \cap V = {}
    <3>1. Starting(S) \subseteq Starting(A) \cup (IF destination = "starter" THEN {p} ELSE {})
      <4>1. p \in Players
        BY RosterShape
      <4>2. Starting(Without(A, p)) \subseteq Starting(A)
        BY <1>1, <4>1, WithoutFits
      <4>3. CASE destination = "starter"
        <5>1. \A i \in Slots : S[i] = IF i = target THEN p ELSE Without(A, p)[i]
          BY <4>3 DEF DesiredStarters, Without
        <5> HIDE DEF S
        <5> QED BY <4>2, <4>3, <5>1 DEF Starting
      <4>4. CASE destination # "starter"
        BY <4>2, <4>4 DEF DesiredStarters
      <4> QED BY <4>3, <4>4
    <3>2. destination = "starter" => p \notin V
      BY <1>4 DEF ReserveOf
    <3> QED BY <1>1, <3>1, <3>2
  <2>2. order = IF S # A /\ R # V THEN <<"starters", "reserve">>
               ELSE IF S # A THEN <<"starters">> ELSE IF R # V THEN <<"reserve">> ELSE << >>
    BY <1>4 DEF Steps
  <2> HIDE DEF order, S, R, A, V
  <2> QED BY <1>2, <2>1, <2>2
<1> QED BY <1>3, <1>4

-----------------------------------------------------------------------------
(* The plan of a request is kept to.                                       *)

\* A plan depends on what a request wants and has confirmed, and on whether
\* the list at its head is confirmed; the other phases are all one to it.
LEMMA PlanFrame ==
    ASSUME NEW j, NEW k, PlanOK(j),
           k.base = j.base, k.wantS = j.wantS, k.wantR = j.wantR, k.kind = j.kind,
           k.todo = j.todo, k.haveS = j.haveS, k.haveR = j.haveR, k.locked = j.locked,
           k.phase = "apply" <=> j.phase = "apply"
    PROVE  PlanOK(k)
  BY DEF PlanOK, Wanted, Reached

LEMMA OnePlan ==
    ASSUME TypeOK, PlanInv, NEW w \in Writers, NEW k, k.phase # "idle" => PlanOK(k),
           job' = [job EXCEPT ![w] = k]
    PROVE  PlanInv'
<1>1. job'[w] = k /\ \A v \in Writers \ {w} : job'[v] = job[v]
  BY DEF TypeOK
<1>2. ASSUME NEW v \in Writers, job'[v].phase # "idle" PROVE PlanOK(job'[v])
  BY <1>1, <1>2 DEF PlanInv
<1> QED BY <1>2 DEF PlanInv

LEMMA EndPlan ==
    ASSUME TypeOK, PlanInv, NEW w \in Writers, job' = [job EXCEPT ![w] = NoJob]
    PROVE  PlanInv'
<1>1. NoJob.phase = "idle"
  BY DEF NoJob
<1> QED BY <1>1, OnePlan

LEMMA MovePlan ==
    ASSUME TypeOK, PlanInv, NEW w \in Writers, RequestMove(w)
    PROVE  PlanInv'
<1>1. PICK week \in Weeks, p \in Players, destination \in Destinations,
           target \in Slots \cup {NoIndex} : Move(w, week, p, destination, target)
  BY DEF RequestMove
<1> DEFINE r == local[week]
           S == DesiredStarters(r, p, destination, target)
           R == DesiredReserve(r, p, destination)
           order == Steps(r, p, destination, S, R)
           j == [phase |-> "prereadStarters", kind |-> "move", week |-> week,
                 base |-> r, wantS |-> S, wantR |-> R, todo |-> order,
                 haveS |-> AlignedStarters(r), haveR |-> ReserveOf(r),
                 seenS |-> [i \in Slots |-> NoPlayer], locked |-> LockedNow(week)]
<1>2. r \in Rosters /\ p \in DOMAIN r
  BY <1>1 DEF Move, Legal, TypeOK
<1>3. destination = "starter" => target \in Slots
  BY <1>1, RosterAssumption DEF Move, Legal
<1>4. order # << >> /\ Moved(r, S, R) \cap LockedNow(week) = {} /\ job' = [job EXCEPT ![w] = j]
  BY <1>1 DEF Move, Begin
<1>5. \E q \in Players : Moved(r, S, R) \subseteq {p, q}
  BY <1>2, <1>3, DesiredMoves
<1>6. /\ Injective(S)
      /\ Starting(S) \subseteq DOMAIN r /\ R \subseteq DOMAIN r
      /\ Starting(S) \cap R = {}
  BY <1>2, <1>3, DesiredFits
<1>7. IF Head(order) = "starters"
      THEN (Len(order) = 1 => R = ReserveOf(r)) /\ Starting(S) \cap ReserveOf(r) = {}
      ELSE (Len(order) = 1 => S = AlignedStarters(r)) /\ R \cap Starting(AlignedStarters(r)) = {}
  BY <1>2, <1>3, <1>4, StepsFit
<1> HIDE DEF r, S, R, order
<1>8. Wanted(j)
  BY <1>4, <1>5, <1>6 DEF Wanted
<1>9. Reached(j, FALSE)
  BY <1>7 DEF Reached
<1>10. PlanOK(j)
  BY <1>8, <1>9 DEF PlanOK
<1> QED BY <1>4, <1>10, OnePlan

LEMMA LineupPlan ==
    ASSUME TypeOK, PlanInv, NEW w \in Writers, RequestLineup(w)
    PROVE  PlanInv'
<1>1. PICK week \in Weeks, S \in Lineups :
        /\ Injective(S)
        /\ \A i \in Slots : S[i] # NoPlayer =>
             S[i] \in DOMAIN local[week] /\ local[week][S[i]] \notin {IR, Taxi} /\ i \in Eligible[S[i]]
        /\ Moved(local[week], S, ReserveOf(local[week])) \cap LockedNow(week) = {}
        /\ Begin(w, "set", week, S, ReserveOf(local[week]), <<"starters">>)
  BY DEF RequestLineup
<1> DEFINE r == local[week]
           j == [phase |-> "prereadStarters", kind |-> "set", week |-> week,
                 base |-> r, wantS |-> S, wantR |-> ReserveOf(r), todo |-> <<"starters">>,
                 haveS |-> AlignedStarters(r), haveR |-> ReserveOf(r),
                 seenS |-> [i \in Slots |-> NoPlayer], locked |-> LockedNow(week)]
<1>2. job' = [job EXCEPT ![w] = j]
  BY <1>1 DEF Begin
<1>3. Starting(S) \subseteq DOMAIN r /\ Starting(S) \cap ReserveOf(r) = {}
  BY <1>1 DEF Starting, ReserveOf
<1>4. ReserveOf(r) \subseteq DOMAIN r
  BY DEF ReserveOf
<1> HIDE DEF r
<1>5. Wanted(j)
  BY <1>1, <1>3, <1>4 DEF Wanted, r
<1>6. Reached(j, FALSE)
  BY <1>3 DEF Reached
<1>7. PlanOK(j)
  BY <1>5, <1>6 DEF PlanOK
<1> QED BY <1>2, <1>7, OnePlan

\* Steps that neither confirm a list nor go on to the next one.
LEMMA PhasePlan ==
    ASSUME TypeOK, PlanInv, NEW w \in Writers,
           \/ PrereadStarters(w) \/ GuardPasses(w) \/ PrereadFails(w)
           \/ PushApplied(w) \/ PushIgnored(w)
    PROVE  PlanInv'
<1>1. job[w].phase \notin {"idle", "apply"}
  BY DEF PrereadStarters, GuardPasses, PrereadFails, PushApplied, PushIgnored
<1>2. PICK phase \in {"prereadReserve", "push", "readback"} :
        \E S : job' = [job EXCEPT ![w] = [job[w] EXCEPT !.phase = phase, !.seenS = S]]
  <2>1. CASE PrereadStarters(w)
    BY <2>1 DEF PrereadStarters
  <2>2. CASE GuardPasses(w) \/ PrereadFails(w) \/ PushApplied(w) \/ PushIgnored(w)
    <3>1. PICK phase \in {"push", "readback"} : job' = [job EXCEPT ![w].phase = phase]
      BY <2>2 DEF GuardPasses, PrereadFails, PushApplied, PushIgnored
    <3>2. [job[w] EXCEPT !.phase = phase] = [job[w] EXCEPT !.phase = phase, !.seenS = job[w].seenS]
      BY JobFields DEF JobType
    <3> QED BY <3>1, <3>2
  <2> QED BY <2>1, <2>2
<1> PICK S : job' = [job EXCEPT ![w] = [job[w] EXCEPT !.phase = phase, !.seenS = S]]
  BY <1>2
<1> DEFINE k == [job[w] EXCEPT !.phase = phase, !.seenS = S]
<1>3. /\ k.base = job[w].base /\ k.wantS = job[w].wantS /\ k.wantR = job[w].wantR
      /\ k.kind = job[w].kind /\ k.todo = job[w].todo /\ k.locked = job[w].locked
      /\ k.haveS = job[w].haveS /\ k.haveR = job[w].haveR /\ k.phase = phase
  BY JobFields DEF JobType
<1>4. PlanOK(job[w])
  BY <1>1 DEF PlanInv
<1> HIDE DEF k
<1>5. PlanOK(k)
  BY <1>1, <1>3, <1>4, PlanFrame
<1> QED BY <1>2, <1>5, OnePlan DEF k

\* The list at the head of the plan is confirmed.
LEMMA ConfirmPlan ==
    ASSUME TypeOK, PlanInv, NEW w \in Writers, ReadbackMatches(w)
    PROVE  PlanInv'
<1> DEFINE j == job[w]
<1>1. j.phase = "readback" /\ PlanOK(j) /\ j \in JobType
  BY JobFields DEF ReadbackMatches, PlanInv
<1>2. CASE Head(j.todo) = "starters"
  <2> DEFINE k == [j EXCEPT !.phase = "apply", !.haveS = j.wantS]
  <2>1. job' = [job EXCEPT ![w] = k]
    BY <1>2 DEF ReadbackMatches
  <2>2. /\ k.base = j.base /\ k.wantS = j.wantS /\ k.wantR = j.wantR /\ k.kind = j.kind
        /\ k.todo = j.todo /\ k.haveS = j.wantS /\ k.haveR = j.haveR /\ k.locked = j.locked
        /\ k.phase = "apply"
    BY <1>1 DEF JobType
  <2> HIDE DEF k, j
  <2>3. PlanOK(k)
    BY <1>1, <1>2, <2>2 DEF PlanOK, Wanted, Reached
  <2> QED BY <2>1, <2>3, OnePlan
<1>3. CASE Head(j.todo) # "starters"
  <2> DEFINE k == [j EXCEPT !.phase = "apply", !.haveR = j.wantR]
  <2>1. job' = [job EXCEPT ![w] = k]
    BY <1>3 DEF ReadbackMatches
  <2>2. /\ k.base = j.base /\ k.wantS = j.wantS /\ k.wantR = j.wantR /\ k.kind = j.kind
        /\ k.todo = j.todo /\ k.haveS = j.haveS /\ k.haveR = j.wantR /\ k.locked = j.locked
        /\ k.phase = "apply"
    BY <1>1 DEF JobType
  <2> HIDE DEF k, j
  <2>3. PlanOK(k)
    BY <1>1, <1>3, <2>2 DEF PlanOK, Wanted, Reached
  <2> QED BY <2>1, <2>3, OnePlan
<1> QED BY <1>2, <1>3

\* The request goes on to its second list.
LEMMA NextListPlan ==
    ASSUME TypeOK, PlanInv, NEW w \in Writers, Apply(w), Len(job[w].todo) # 1
    PROVE  PlanInv'
<1> DEFINE j == job[w]
           k == [j EXCEPT !.phase = "push", !.todo = Tail(j.todo)]
<1>1. j.phase = "apply" /\ PlanOK(j) /\ j \in JobType /\ j.todo # << >>
  BY JobFields DEF Apply, PlanInv, TypeOK
<1>2. job' = [job EXCEPT ![w] = k]
  BY DEF Apply
<1>3. /\ k.base = j.base /\ k.wantS = j.wantS /\ k.wantR = j.wantR /\ k.kind = j.kind
      /\ k.todo = Tail(j.todo) /\ k.haveS = j.haveS /\ k.haveR = j.haveR /\ k.locked = j.locked
      /\ k.phase = "push"
  BY <1>1 DEF JobType
<1>4. j.todo \in {<<"starters", "reserve">>, <<"reserve", "starters">>}
  BY <1>1 DEF JobType, Plans
<1> HIDE DEF j, k
<1>5. j.kind # "set"
  BY <1>1, <1>4 DEF PlanOK, Wanted
<1>6. Wanted(k)
  BY <1>1, <1>3, <1>5 DEF PlanOK, Wanted
<1>7. CASE j.todo = <<"starters", "reserve">>
  <2>1. k.todo = <<"reserve">> /\ Head(k.todo) # "starters" /\ Len(k.todo) = 1
    BY <1>3, <1>7
  <2>2. Head(j.todo) = "starters" /\ Len(j.todo) # 1
    BY <1>7
  <2>3. Reached(k, FALSE)
    BY <1>1, <1>3, <2>1, <2>2 DEF PlanOK, Wanted, Reached
  <2> QED BY <1>2, <1>3, <1>6, <2>3, OnePlan DEF PlanOK
<1>8. CASE j.todo = <<"reserve", "starters">>
  <2>1. k.todo = <<"starters">> /\ Head(k.todo) = "starters" /\ Len(k.todo) = 1
    BY <1>3, <1>8
  <2>2. Head(j.todo) # "starters" /\ Len(j.todo) # 1
    BY <1>8
  <2>3. Reached(k, FALSE)
    BY <1>1, <1>3, <2>1, <2>2 DEF PlanOK, Wanted, Reached
  <2> QED BY <1>2, <1>3, <1>6, <2>3, OnePlan DEF PlanOK
<1> QED BY <1>4, <1>7, <1>8

LEMMA PlanNext == TypeOK /\ PlanInv /\ [Next]_vars => PlanInv'
<1> SUFFICES ASSUME TypeOK, PlanInv, [Next]_vars PROVE PlanInv'
  OBVIOUS
<1>1. CASE \E w \in Writers : RequestMove(w) \/ RequestLineup(w)
  BY <1>1, MovePlan, LineupPlan
<1>2. ASSUME NEW w \in Writers, WriterStep(w) PROVE PlanInv'
  <2>1. CASE \/ PrereadStarters(w) \/ GuardPasses(w) \/ PrereadFails(w)
             \/ PushApplied(w) \/ PushIgnored(w)
    BY <2>1, PhasePlan
  <2>2. CASE ReadbackMatches(w)
    BY <2>2, ConfirmPlan
  <2>3. CASE Apply(w) /\ Len(job[w].todo) # 1
    BY <2>3, NextListPlan
  <2>4. CASE job' = [job EXCEPT ![w] = NoJob]
    BY <2>4, EndPlan
  <2> QED BY <1>2, <2>1, <2>2, <2>3, <2>4
        DEF WriterStep, GuardConflicts, PushRefused, PushRefusedAuth, PushLost,
            ReadbackDiffers, ReadbackFails, Apply, Crash, End
<1>3. CASE UNCHANGED job
  BY <1>3 DEF PlanInv
<1>4. CASE \/ AppSetsLineup \/ AppSetsReserve \/ AppSwapsPlayer
           \/ PublicCatchesUp \/ RefreshCommits \/ Kickoff
  BY <1>3, <1>4 DEF AppSetsLineup, AppSetsReserve, AppSwapsPlayer, PublicCatchesUp,
                    RefreshCommits, Kickoff
<1> QED BY <1>1, <1>2, <1>3, <1>4 DEF Next, vars

LEMMA PlanAlways == Spec => [](TypeOK /\ SeenInv /\ PlanInv)
<1>1. Init => PlanInv
  BY DEF Init, PlanInv, NoJob
<1>2. TypeOK /\ PlanInv /\ [Next]_vars => PlanInv'
  BY PlanNext
<1> QED BY <1>1, <1>2, SeenAlways, PTL DEF Spec

-----------------------------------------------------------------------------
(* The rows saved for a starters list stand for that list.                 *)

LEMMA SeatsFit ==
    ASSUME NEW n \in Rosters, NEW S \in Lineups,
           \A p \in DOMAIN n : n[p] \in Slots => S[n[p]] = p,
           \A i \in Slots : S[i] # NoPlayer => S[i] \in DOMAIN n /\ n[S[i]] = i
    PROVE  AlignedStarters(n) = S
<1> DEFINE A == AlignedStarters(n)
<1>1. A \in Lineups
  BY AlignedType
<1>2. \A i \in Slots : /\ A[i] # NoPlayer => A[i] \in DOMAIN n /\ n[A[i]] = i
                       /\ \A p \in DOMAIN n : n[p] = i => A[i] = p
  BY AlignedSeats
<1> HIDE DEF A
<1>3. \A i \in Slots : A[i] = S[i]
  BY <1>2
<1>4. A = S
  BY <1>1, <1>3 DEF Lineups
<1> QED BY <1>4 DEF A

\* The slot chosen for a player who is in one slot only.
LEMMA OnlySlot ==
    ASSUME NEW S \in Lineups, Injective(S), NEW i \in Slots, S[i] # NoPlayer
    PROVE  S[i] \in Starting(S) /\ (CHOOSE k \in Slots : S[k] = S[i]) = i
<1>1. S[i] \in Starting(S) /\ S[i] \in Players
  BY DEF Starting, Lineups
<1>2. /\ (CHOOSE k \in Slots : S[k] = S[i]) \in Slots
      /\ S[CHOOSE k \in Slots : S[k] = S[i]] = S[i]
  BY <1>1, ChosenSlot
<1> QED BY <1>1, <1>2 DEF Injective

LEMMA PlacementFits ==
    ASSUME NEW r \in Rosters, NEW S \in Lineups, Injective(S), Starting(S) \subseteq DOMAIN r,
           NEW R, R \subseteq DOMAIN r
    PROVE  /\ AlignedStarters(Placement(r, S, R)) = S
           /\ ReserveOf(Placement(r, S, R)) = R \ Starting(S)
<1> DEFINE n == Placement(r, S, R)
<1>1. n \in Rosters /\ DOMAIN n = DOMAIN r /\ DOMAIN r \subseteq Players
  BY PlacementType, RosterShape DEF Placement
<1>2. \A p \in DOMAIN r :
        /\ p \in Starting(S) => n[p] = CHOOSE i \in Slots : S[i] = p
        /\ p \notin Starting(S) => (n[p] = IR <=> p \in R) /\ n[p] \in {IR, Taxi, Bench}
  BY RosterAssumption DEF Placement
<1> HIDE DEF n
<1>3. \A p \in DOMAIN n : n[p] \in Slots => S[n[p]] = p
  BY <1>1, <1>2, ChosenSlot, RosterAssumption
<1>4. \A i \in Slots : S[i] # NoPlayer => S[i] \in DOMAIN n /\ n[S[i]] = i
  BY <1>1, <1>2, OnlySlot
<1>5. AlignedStarters(n) = S
  BY <1>1, <1>3, <1>4, SeatsFit
<1>6. \A p \in Starting(S) : n[p] # IR
  BY <1>1, <1>2, ChosenSlot, RosterAssumption
<1>7. ReserveOf(n) = R \ Starting(S)
  BY <1>1, <1>2, <1>6 DEF ReserveOf
<1> QED BY <1>5, <1>7 DEF n

LEMMA ApplyLocalFits ==
    ASSUME NEW r \in Rosters, NEW S \in Lineups, Injective(S), Starting(S) \subseteq DOMAIN r
    PROVE  /\ AlignedStarters(ApplyLocal(r, S)) = S
           /\ ReserveOf(ApplyLocal(r, S)) = ReserveOf(r) \ Starting(S)
<1> DEFINE n == ApplyLocal(r, S)
<1>1. n \in Rosters /\ DOMAIN n = DOMAIN r /\ DOMAIN r \subseteq Players
  BY ApplyLocalType, RosterShape DEF ApplyLocal
<1>2. \A p \in DOMAIN r :
        /\ p \in Starting(S) => n[p] = CHOOSE i \in Slots : S[i] = p
        /\ p \notin Starting(S) => (n[p] = IR <=> r[p] = IR) /\ n[p] \in {IR, Taxi, Bench}
  BY RosterAssumption DEF ApplyLocal
<1> HIDE DEF n
<1>3. \A p \in DOMAIN n : n[p] \in Slots => S[n[p]] = p
  BY <1>1, <1>2, ChosenSlot, RosterAssumption
<1>4. \A i \in Slots : S[i] # NoPlayer => S[i] \in DOMAIN n /\ n[S[i]] = i
  BY <1>1, <1>2, OnlySlot
<1>5. AlignedStarters(n) = S
  BY <1>1, <1>3, <1>4, SeatsFit
<1>6. \A p \in Starting(S) : n[p] # IR
  BY <1>1, <1>2, ChosenSlot, RosterAssumption
<1>7. ReserveOf(n) = ReserveOf(r) \ Starting(S)
  BY <1>1, <1>2, <1>6 DEF ReserveOf
<1> QED BY <1>5, <1>7 DEF n

-----------------------------------------------------------------------------
(* The theorems these invariants give.                                     *)

\* move_player sends its lists in an order Sleeper accepts, for any lineup,
\* any number of writers and any failure: as long as nobody changed either
\* list since it read them, no starter it sends is on IR and no player it puts
\* on IR is in the lineup.
THEOREM SleeperHasNoReasonToRefuse == Spec => []StepsInSleeperOrder
<1>1. TypeOK /\ SeenInv /\ PlanInv => StepsInSleeperOrder
  <2> SUFFICES ASSUME TypeOK, SeenInv, PlanInv, NEW w \in Writers,
                      job[w].phase = "push", known[w] = Lists
               PROVE  IF Head(job[w].todo) = "starters"
                      THEN Starting(job[w].wantS) \cap reserve = {}
                      ELSE job[w].wantR \cap Starting(starters[job[w].week]) = {}
    BY DEF StepsInSleeperOrder
  <2>1. starters[job[w].week] = job[w].haveS /\ reserve = job[w].haveR
    BY DEF SeenInv, SeenOK, Lists
  <2>2. Reached(job[w], FALSE)
    BY DEF PlanInv, PlanOK
  <2> QED BY <2>1, <2>2 DEF Reached
<1> QED BY <1>1, PlanAlways, PTL

\* The players a push may reseat are those its request was checked for.
LEMMA PushMoves ==
    ASSUME TypeOK, SeenInv, PlanInv, NEW w \in Writers, job[w].phase = "push",
           TakesEffect(w), Head(job[w].todo) \in known[w]
    PROVE  MovedLive(job[w].week) \subseteq Moved(job[w].base, job[w].wantS, job[w].wantR)
<1> DEFINE j == job[w]
<1>1. j.week \in Weeks /\ Reached(j, FALSE)
  BY JobFields DEF PlanInv, PlanOK
<1>2. CASE Head(j.todo) = "starters"
  <2>1. starters' = [starters EXCEPT ![j.week] = j.wantS] /\ reserve' = reserve
    BY <1>2 DEF TakesEffect
  <2>2. starters[j.week] = j.haveS
    BY <1>2 DEF SeenInv, SeenOK
  <2>3. j.haveS = AlignedStarters(j.base)
    BY <1>1, <1>2 DEF Reached
  <2>4. starters[j.week] = AlignedStarters(j.base) /\ starters'[j.week] = j.wantS
    BY <1>1, <2>1, <2>2, <2>3 DEF TypeOK
  <2> HIDE DEF j
  <2>5. MovedLive(j.week) = Unsat(AlignedStarters(j.base), j.wantS)
    BY <2>1, <2>4 DEF MovedLive
  <2> QED BY <2>5 DEF Unsat, Moved, j
<1>3. CASE Head(j.todo) # "starters"
  <2>0. Head(j.todo) = "reserve"
    BY <1>3, TodoShape DEF TypeOK, JobsOK, Lists
  <2>1. starters' = starters /\ reserve' = j.wantR
    BY <1>3 DEF TakesEffect
  <2>2. reserve = j.haveR
    BY <2>0 DEF SeenInv, SeenOK
  <2>3. j.haveR = ReserveOf(j.base)
    BY <1>1, <1>3 DEF Reached
  <2> HIDE DEF j
  <2>4. MovedLive(j.week) = (ReserveOf(j.base) \ j.wantR) \cup (j.wantR \ ReserveOf(j.base))
    BY <2>1, <2>2, <2>3 DEF MovedLive, Unsat
  <2> QED BY <2>4 DEF Moved, j
<1> QED BY <1>2, <1>3

LEMMA PairSize ==
    ASSUME NEW p, NEW q, NEW A, A \subseteq {p, q}
    PROVE  Cardinality(A) <= 2
<1>1. IsFiniteSet({q}) /\ Cardinality({q}) = 1
  BY FS_Singleton
<1>2. IsFiniteSet({q} \cup {p}) /\ Cardinality({q} \cup {p}) \in 1..2
  BY <1>1, FS_AddElement
<1>3. {q} \cup {p} = {p, q}
  OBVIOUS
<1>4. Cardinality(A) <= Cardinality({p, q})
  BY <1>2, <1>3, FS_Subset
<1>5. IsFiniteSet(A)
  BY <1>2, <1>3, FS_Subset
<1>6. Cardinality(A) \in Nat
  BY <1>5, FS_CardinalityType
<1> QED BY <1>2, <1>3, <1>4, <1>6

\* A guarded push moves nobody whose game had started when the request was
\* checked, and a move reseats two players at most, for any lineup, any number
\* of writers, and whatever the app, refreshes and failures do in between.
THEOREM PushMovesOnlyTheRequest == Spec => GuardedPushMovesOnlyTheRequest
<1>1. TypeOK /\ SeenInv /\ PlanInv /\ [Next]_vars =>
        [\A w \in Writers :
           (PushApplied(w) \/ PushLost(w)) /\ Head(job[w].todo) \in known[w] =>
             /\ MovedLive(job[w].week) \cap job[w].locked = {}
             /\ job[w].kind = "move" => Cardinality(MovedLive(job[w].week)) <= 2]_vars
  <2> SUFFICES ASSUME TypeOK, SeenInv, PlanInv, NEW w \in Writers,
                      PushApplied(w) \/ PushLost(w), Head(job[w].todo) \in known[w]
               PROVE  /\ MovedLive(job[w].week) \cap job[w].locked = {}
                      /\ job[w].kind = "move" => Cardinality(MovedLive(job[w].week)) <= 2
    OBVIOUS
  <2>1. job[w].phase = "push" /\ TakesEffect(w)
    BY DEF PushApplied, PushLost
  <2>2. MovedLive(job[w].week) \subseteq Moved(job[w].base, job[w].wantS, job[w].wantR)
    BY <2>1, PushMoves
  <2>3. Wanted(job[w])
    BY <2>1 DEF PlanInv, PlanOK
  <2>4. MovedLive(job[w].week) \cap job[w].locked = {}
    BY <2>2, <2>3 DEF Wanted
  <2>5. ASSUME job[w].kind = "move" PROVE Cardinality(MovedLive(job[w].week)) <= 2
    <3>1. PICK p, q \in Players : Moved(job[w].base, job[w].wantS, job[w].wantR) \subseteq {p, q}
      BY <2>3, <2>5 DEF Wanted
    <3>2. MovedLive(job[w].week) \subseteq {p, q}
      BY <2>2, <3>1
    <3> QED BY <3>2, PairSize
  <2> QED BY <2>4, <2>5
<1> QED BY <1>1, PlanAlways, PTL DEF GuardedPushMovesOnlyTheRequest, Spec

\* What a writer saves when nobody changed a list since it read them is
\* exactly what Sleeper has: the rows name Sleeper's starters and its IR list.
THEOREM SavedRowsAreSleepers == Spec => CommitMatchesSleeper
<1>1. TypeOK /\ SeenInv /\ PlanInv /\ [Next]_vars =>
        [\A w \in Writers :
           Apply(w) /\ known[w] = Lists =>
             /\ AlignedStarters(local'[job[w].week]) = starters[job[w].week]
             /\ ReserveOf(local'[job[w].week]) = reserve]_vars
  <2> SUFFICES ASSUME TypeOK, SeenInv, PlanInv, NEW w \in Writers, Apply(w), known[w] = Lists
               PROVE  /\ AlignedStarters(local'[job[w].week]) = starters[job[w].week]
                      /\ ReserveOf(local'[job[w].week]) = reserve
    OBVIOUS
  <2> DEFINE j == job[w]
  <2>1. j.phase = "apply" /\ PlanOK(j) /\ j \in JobType
    BY JobFields DEF Apply, PlanInv
  <2>2. starters[j.week] = j.haveS /\ reserve = j.haveR
    BY <2>1 DEF SeenInv, SeenOK, Lists
  <2>3. local'[j.week] = IF j.kind = "set" THEN ApplyLocal(j.base, j.haveS)
                         ELSE Placement(j.base, j.haveS, j.haveR)
    BY JobFields DEF Apply, TypeOK
  <2> SUFFICES /\ AlignedStarters(local'[j.week]) = starters[j.week]
               /\ ReserveOf(local'[j.week]) = reserve
    OBVIOUS
  <2> HIDE DEF j
  <2>4. /\ j.base \in Rosters /\ j.haveS \in Lineups /\ j.kind \in {"move", "set"}
        /\ Injective(AlignedStarters(j.base)) /\ Starting(AlignedStarters(j.base)) \subseteq DOMAIN j.base
        /\ ReserveOf(j.base) \subseteq DOMAIN j.base
    BY <2>1, AlignedFits DEF JobType, ReserveOf
  <2>5. Wanted(j) /\ Reached(j, TRUE)
    BY <2>1 DEF PlanOK
  <2>6. /\ Injective(j.haveS) /\ Starting(j.haveS) \subseteq DOMAIN j.base
        /\ j.haveR \subseteq DOMAIN j.base /\ Starting(j.haveS) \cap j.haveR = {}
    BY <2>4, <2>5 DEF Wanted, Reached
  <2>7. CASE j.kind = "set"
    <3>1. j.haveR = ReserveOf(j.base)
      BY <2>5, <2>7 DEF Wanted, Reached
    <3>2. local'[j.week] = ApplyLocal(j.base, j.haveS)
      BY <2>3, <2>7
    <3>3. /\ AlignedStarters(ApplyLocal(j.base, j.haveS)) = j.haveS
          /\ ReserveOf(ApplyLocal(j.base, j.haveS)) = ReserveOf(j.base) \ Starting(j.haveS)
      BY <2>4, <2>6, ApplyLocalFits
    <3>4. ReserveOf(j.base) \ Starting(j.haveS) = j.haveR
      BY <2>6, <3>1
    <3> QED BY <2>2, <3>2, <3>3, <3>4
  <2>8. CASE j.kind = "move"
    <3>1. local'[j.week] = Placement(j.base, j.haveS, j.haveR)
      BY <2>3, <2>8
    <3>2. /\ AlignedStarters(Placement(j.base, j.haveS, j.haveR)) = j.haveS
          /\ ReserveOf(Placement(j.base, j.haveS, j.haveR)) = j.haveR \ Starting(j.haveS)
      BY <2>4, <2>6, PlacementFits
    <3>3. j.haveR \ Starting(j.haveS) = j.haveR
      BY <2>6
    <3> QED BY <2>2, <3>1, <3>2, <3>3
  <2> QED BY <2>4, <2>7, <2>8
<1> QED BY <1>1, PlanAlways, PTL DEF CommitMatchesSleeper, Spec

-----------------------------------------------------------------------------
(* What plan_management plans.                                             *)

\* A set of numbers has a least one.
LEMMA LeastOf ==
    ASSUME NEW P \in SUBSET Nat, P # {}
    PROVE  \E x \in P : \A y \in P : x <= y
<1> DEFINE less == OpToRel(<, Nat)
<1>1. PICK x \in P : \A y \in P : <<y, x>> \notin less
  BY NatLessThanWellFounded, WFMin
<1>2. \A y \in P : ~(y < x)
  BY <1>1 DEF OpToRel
<1>3. x \in Nat /\ \A y \in P : y \in Nat
  OBVIOUS
<1> QED BY <1>2, <1>3

\* SetToSeq lists a finite set, each element once.
LEMMA Listing ==
    ASSUME NEW P, IsFiniteSet(P)
    PROVE  /\ Cardinality(P) \in Nat
           /\ SetToSeq(P) \in [1..Cardinality(P) -> P]
           /\ \A j, k \in 1..Cardinality(P) : SetToSeq(P)[j] = SetToSeq(P)[k] => j = k
           /\ \A p \in P : \E k \in 1..Cardinality(P) : SetToSeq(P)[k] = p
<1> DEFINE n == Cardinality(P)
           s == SetToSeq(P)
<1>1. n \in Nat /\ ExistsBijection(1..n, P)
  BY FS_CardinalityType
<1>2. PICK b \in [1..n -> P] : \A j, k \in 1..n : b[j] = b[k] => j = k
  BY <1>1 DEF ExistsBijection, Bijection, Injection, IsInjective
<1>3. IsInjective(b)
  BY <1>2 DEF IsInjective
<1>4. s \in [1..n -> P] /\ IsInjective(s)
  BY <1>2, <1>3 DEF SetToSeq
<1> HIDE DEF n, s
<1>5. s \in Injection(1..n, P)
  BY <1>4 DEF Injection, IsInjective
<1>6. IsFiniteSet(1..n) /\ Cardinality(1..n) = n
  BY <1>1, FS_Interval
<1>7. s \in Surjection(1..n, P)
  BY <1>5, <1>6, FS_Injection DEF n
<1>8. \A p \in P : \E k \in 1..n : s[k] = p
  BY <1>7 DEF Surjection
<1> QED BY <1>1, <1>4, <1>8 DEF IsInjective, n, s

\* A sequence and what follows it.
LEMMA Joined ==
    ASSUME NEW X, NEW s \in Seq(X), NEW t \in Seq(X)
    PROVE  /\ s \o t \in Seq(X) /\ Len(s) \in Nat /\ Len(t) \in Nat
           /\ DOMAIN (s \o t) = 1..(Len(s) + Len(t))
           /\ DOMAIN s = 1..Len(s) /\ DOMAIN t = 1..Len(t)
           /\ \A k \in 1..Len(s) : k \in DOMAIN (s \o t) /\ (s \o t)[k] = s[k]
           /\ \A k \in 1..Len(t) : Len(s) + k \in DOMAIN (s \o t) /\ (s \o t)[Len(s) + k] = t[k]
           /\ \A k \in DOMAIN (s \o t) : k \in 1..Len(s) \/ \E l \in 1..Len(t) : k = Len(s) + l
<1> DEFINE m == Len(s)
           n == Len(t)
           both == s \o t
<1>1. m \in Nat /\ n \in Nat /\ DOMAIN s = 1..m /\ DOMAIN t = 1..n
  OBVIOUS
<1>2. both \in Seq(X) /\ DOMAIN both = 1..(m + n)
  OBVIOUS
<1>3. \A k \in 1..(m + n) : both[k] = IF k <= m THEN s[k] ELSE t[k - m]
  OBVIOUS
<1> HIDE DEF m, n, both
<1>4. \A k \in 1..m : k \in 1..(m + n) /\ both[k] = s[k]
  BY <1>1, <1>3
<1>5. ASSUME NEW k \in 1..n PROVE m + k \in 1..(m + n) /\ both[m + k] = t[k]
  <2>1. m + k \in 1..(m + n) /\ ~(m + k <= m) /\ (m + k) - m = k
    BY <1>1
  <2>2. both[m + k] = t[(m + k) - m]
    BY <1>3, <2>1
  <2> QED BY <2>1, <2>2
<1>6. ASSUME NEW k \in 1..(m + n) PROVE k \in 1..m \/ \E l \in 1..n : k = m + l
  <2>1. CASE k <= m
    BY <1>1, <2>1
  <2>2. CASE ~(k <= m)
    <3>1. k - m \in 1..n /\ k = m + (k - m)
      BY <1>1, <2>2
    <3> QED BY <3>1
  <2> QED BY <2>1, <2>2
<1> QED BY <1>1, <1>2, <1>4, <1>5, <1>6 DEF m, n, both

\* Two listings of sets without a common element, one after the other.
LEMMA ListingBoth ==
    ASSUME NEW P, NEW Q, IsFiniteSet(P), IsFiniteSet(Q), P \cap Q = {}
    PROVE  LET both == SetToSeq(P) \o SetToSeq(Q)
           IN  /\ both \in Seq(P \cup Q)
               /\ \A j, k \in DOMAIN both : both[j] = both[k] => j = k
               /\ \A p \in P \cup Q : \E k \in DOMAIN both : both[k] = p
<1> DEFINE m == Cardinality(P)
           n == Cardinality(Q)
           s == SetToSeq(P)
           t == SetToSeq(Q)
           both == s \o t
<1>1. /\ m \in Nat /\ s \in [1..m -> P]
      /\ \A j, k \in 1..m : s[j] = s[k] => j = k
      /\ \A p \in P : \E k \in 1..m : s[k] = p
  BY Listing
<1>2. /\ n \in Nat /\ t \in [1..n -> Q]
      /\ \A j, k \in 1..n : t[j] = t[k] => j = k
      /\ \A p \in Q : \E k \in 1..n : t[k] = p
  BY Listing
<1> HIDE DEF m, n, s, t
<1>3. s \in Seq(P \cup Q) /\ t \in Seq(P \cup Q) /\ Len(s) = m /\ Len(t) = n
  BY <1>1, <1>2
<1>4. /\ both \in Seq(P \cup Q)
      /\ \A k \in 1..m : k \in DOMAIN both /\ both[k] = s[k]
      /\ \A k \in 1..n : m + k \in DOMAIN both /\ both[m + k] = t[k]
      /\ \A k \in DOMAIN both : k \in 1..m \/ \E l \in 1..n : k = m + l
  <2>1. /\ both \in Seq(P \cup Q)
        /\ \A k \in 1..Len(s) : k \in DOMAIN both /\ both[k] = s[k]
        /\ \A k \in 1..Len(t) : Len(s) + k \in DOMAIN both /\ both[Len(s) + k] = t[k]
        /\ \A k \in DOMAIN both : k \in 1..Len(s) \/ \E l \in 1..Len(t) : k = Len(s) + l
    <3> DEFINE X == P \cup Q
    <3>1. s \in Seq(X) /\ t \in Seq(X)
      BY <1>3
    <3> HIDE DEF X
    <3>2. /\ both \in Seq(X)
          /\ \A k \in 1..Len(s) : k \in DOMAIN both /\ both[k] = s[k]
          /\ \A k \in 1..Len(t) : Len(s) + k \in DOMAIN both /\ both[Len(s) + k] = t[k]
          /\ \A k \in DOMAIN both : k \in 1..Len(s) \/ \E l \in 1..Len(t) : k = Len(s) + l
      BY <3>1, Joined
    <3> QED BY <3>2 DEF X
  <2> QED BY <1>3, <2>1
<1> HIDE DEF both
<1>5. \A k \in 1..m : both[k] \in P /\ both[k] \notin Q
  BY <1>1, <1>4
<1>6. \A k \in 1..n : both[m + k] \in Q /\ both[m + k] \notin P
  BY <1>2, <1>4
<1>7. ASSUME NEW j \in DOMAIN both, NEW k \in DOMAIN both, both[j] = both[k] PROVE j = k
  <2>1. CASE both[j] \in P
    <3>1. j \in 1..m /\ k \in 1..m
      BY <1>4, <1>6, <1>7, <2>1
    <3> QED BY <1>1, <1>4, <1>7, <3>1
  <2>2. CASE both[j] \notin P
    <3>1. PICK i \in 1..n, l \in 1..n : j = m + i /\ k = m + l
      BY <1>4, <1>5, <1>7, <2>2
    <3>2. t[i] = t[l]
      BY <1>4, <1>7, <3>1
    <3> QED BY <1>2, <3>1, <3>2
  <2> QED BY <2>1, <2>2
<1>8. ASSUME NEW p \in P \cup Q PROVE \E k \in DOMAIN both : both[k] = p
  <2>1. CASE p \in P
    BY <1>1, <1>4, <2>1
  <2>2. CASE p \in Q
    BY <1>2, <1>4, <2>2
  <2> QED BY <2>1, <2>2
<1> QED BY <1>4, <1>7, <1>8 DEF both, s, t

-----------------------------------------------------------------------------
\* The players of the moves before the k-th.
Before(moves, k) == {moves[j].player : j \in 1..(k - 1)}

\* Substitutions for slots 1 to n of roster r: each is for a starter who needs
\* one and takes the best candidate no earlier one took, no slot comes twice,
\* and who needs one and has none finds no candidate left.
SubsFor(r, moves, n) ==
    /\ moves \in Seq(Moves)
    /\ \A k \in DOMAIN moves :
         /\ moves[k].destination = "starter" /\ moves[k].slot \in 1..n
         /\ NeedsSub(r, moves[k].slot)
         /\ moves[k].player \in Candidates(r, moves[k].slot, Before(moves, k))
         /\ \A q \in Candidates(r, moves[k].slot, Before(moves, k)) :
              Rank[moves[k].player] <= Rank[q]
    /\ \A j, k \in DOMAIN moves : j # k => moves[j].slot # moves[k].slot
    /\ \A i \in 1..n : NeedsSub(r, i) =>
         \/ \E k \in DOMAIN moves : moves[k].slot = i
         \/ Candidates(r, i, Picked(moves)) = {}

LEMMA BestIsBest ==
    ASSUME NEW pool \in SUBSET Players, pool # {}
    PROVE  /\ Best(pool) \in pool
           /\ \A q \in pool : Rank[Best(pool)] <= Rank[q]
<1>1. \A p \in pool : Rank[p] \in Nat
  BY LineupManagementAssumption
<1>2. {Rank[p] : p \in pool} \in SUBSET Nat /\ {Rank[p] : p \in pool} # {}
  BY <1>1
<1>3. PICK x \in {Rank[p] : p \in pool} : \A y \in {Rank[p] : p \in pool} : x <= y
  BY <1>2, LeastOf
<1>4. \E p \in pool : \A q \in pool : Rank[p] <= Rank[q]
  BY <1>3
<1> QED BY <1>4 DEF Best

LEMMA WithSubFits ==
    ASSUME NEW r \in Rosters, NEW n \in Slots, NEW moves, SubsFor(r, moves, n - 1)
    PROVE  SubsFor(r, WithSub(r, moves, n), n)
<1> DEFINE pool == Candidates(r, n, Picked(moves))
           len == Len(moves)
<1>1. n \in Nat /\ n >= 1 /\ n <= NumSlots /\ NumSlots \in Nat
  BY RosterAssumption DEF Slots
<1>2. pool \in SUBSET Players
  BY RosterShape DEF Candidates
<1>3. moves \in Seq(Moves) /\ DOMAIN moves = 1..len /\ len \in Nat
  BY DEF SubsFor
<1>4. \A i \in 1..n : i # n => i \in 1..(n - 1)
  BY <1>1
<1>5. \A i \in 1..(n - 1) : i \in 1..n /\ i # n
  BY <1>1
<1>6. CASE NeedsSub(r, n) /\ pool # {}
  <2> DEFINE p == Best(pool)
             new == Append(moves, Start(p, n))
  <2>1. WithSub(r, moves, n) = new
    BY <1>6 DEF WithSub
  <2>2. p \in pool /\ p \in Players /\ \A q \in pool : Rank[p] <= Rank[q]
    BY <1>2, <1>6, BestIsBest
  <2>3. Start(p, n) \in Moves /\ Start(p, n).player = p /\ Start(p, n).slot = n
        /\ Start(p, n).destination = "starter"
    BY <2>2 DEF Start, Moves
  <2> HIDE DEF p
  <2>4. /\ new \in Seq(Moves) /\ DOMAIN new = 1..(len + 1)
        /\ new[len + 1] = Start(p, n)
        /\ \A k \in 1..len : new[k] = moves[k]
    BY <1>3, <2>3
  <2> HIDE DEF new, len
  <2>5. \A k \in DOMAIN new : k \in 1..len \/ k = len + 1
    BY <1>3, <2>4
  <2>6. \A k \in 1..len : k \in DOMAIN new /\ Before(new, k) = Before(moves, k)
    <3> SUFFICES ASSUME NEW k \in 1..len PROVE k \in DOMAIN new /\ Before(new, k) = Before(moves, k)
      OBVIOUS
    <3>1. \A j \in 1..(k - 1) : j \in 1..len
      BY <1>3
    <3>2. \A j \in 1..(k - 1) : new[j].player = moves[j].player
      BY <2>4, <3>1
    <3> QED BY <1>3, <2>4, <3>2 DEF Before
  <2>7. Before(new, len + 1) = Picked(moves)
    <3>1. len + 1 - 1 = len
      BY <1>3
    <3> QED BY <1>3, <2>4, <3>1 DEF Before, Picked
  <2>8. Picked(moves) \subseteq Picked(new)
    BY <1>3, <2>4, <2>6 DEF Picked
  <2>9. ASSUME NEW k \in DOMAIN new
        PROVE  /\ new[k].destination = "starter" /\ new[k].slot \in 1..n
               /\ NeedsSub(r, new[k].slot)
               /\ new[k].player \in Candidates(r, new[k].slot, Before(new, k))
               /\ \A q \in Candidates(r, new[k].slot, Before(new, k)) : Rank[new[k].player] <= Rank[q]
    <3>1. CASE k \in 1..len
      BY <1>3, <1>5, <2>4, <2>6, <3>1 DEF SubsFor
    <3>2. CASE k = len + 1
      BY <1>1, <1>6, <2>2, <2>3, <2>4, <2>7, <3>2
    <3> QED BY <2>5, <3>1, <3>2
  <2>10. ASSUME NEW j \in DOMAIN new, NEW k \in DOMAIN new, j # k PROVE new[j].slot # new[k].slot
    <3>1. \A l \in 1..len : new[l].slot # n
      BY <1>3, <1>5, <2>4 DEF SubsFor
    <3>2. new[len + 1].slot = n
      BY <2>3, <2>4
    <3>3. CASE j \in 1..len /\ k \in 1..len
      BY <1>3, <2>4, <2>10, <3>3 DEF SubsFor
    <3> QED BY <2>5, <2>10, <3>1, <3>2, <3>3
  <2>11. ASSUME NEW i \in 1..n, NeedsSub(r, i)
         PROVE  (\E k \in DOMAIN new : new[k].slot = i) \/ Candidates(r, i, Picked(new)) = {}
    <3>1. CASE i = n
      BY <1>3, <2>3, <2>4, <3>1
    <3>2. CASE i # n
      <4>1. (\E k \in DOMAIN moves : moves[k].slot = i) \/ Candidates(r, i, Picked(moves)) = {}
        BY <1>4, <2>11, <3>2 DEF SubsFor
      <4>2. Candidates(r, i, Picked(new)) \subseteq Candidates(r, i, Picked(moves))
        BY <2>8 DEF Candidates
      <4> QED BY <1>3, <2>4, <2>6, <4>1, <4>2
    <3> QED BY <3>1, <3>2
  <2>12. SubsFor(r, new, n)
    BY <2>4, <2>9, <2>10, <2>11 DEF SubsFor
  <2> QED BY <2>1, <2>12
<1>7. CASE ~(NeedsSub(r, n) /\ pool # {})
  <2>1. WithSub(r, moves, n) = moves
    BY <1>7 DEF WithSub
  <2>2. ASSUME NEW i \in 1..n, NeedsSub(r, i)
        PROVE  (\E k \in DOMAIN moves : moves[k].slot = i) \/ Candidates(r, i, Picked(moves)) = {}
    BY <1>4, <1>7, <2>2 DEF SubsFor
  <2>3. SubsFor(r, moves, n)
    BY <1>5, <2>2 DEF SubsFor
  <2> QED BY <2>1, <2>3
<1> QED BY <1>6, <1>7

\* The moves planned slot by slot, up to slot n.
UpTo(r, g, n) ==
    /\ g = [i \in 0..n |-> g[i]]
    /\ g[0] = << >>
    /\ \A i \in 1..n : g[i] = WithSub(r, g[i - 1], i)

LEMMA UpToExists ==
    ASSUME NEW r, NEW n \in Nat
    PROVE  \E g : UpTo(r, g, n)
<1> DEFINE Missing == {k \in Nat : ~ \E g : UpTo(r, g, k)}
<1> SUFFICES ASSUME Missing # {} PROVE FALSE
  OBVIOUS
<1>1. PICK k \in Missing : \A l \in Missing : k <= l
  BY LeastOf
<1>2. CASE k = 0
  <2> DEFINE g == [i \in 0..0 |-> << >>]
  <2>1. UpTo(r, g, 0)
    BY DEF UpTo
  <2> QED BY <1>1, <1>2, <2>1
<1>3. CASE k # 0
  <2>1. k - 1 \in Nat /\ k \in Nat /\ k \in 1..k /\ ~(k <= k - 1)
    BY <1>1, <1>3
  <2>2. k - 1 \notin Missing
    BY <1>1, <2>1
  <2>3. PICK g : UpTo(r, g, k - 1)
    BY <2>1, <2>2
  <2> DEFINE h == [i \in 0..k |-> IF i = k THEN WithSub(r, g[k - 1], k) ELSE g[i]]
  <2>4. \A i \in 0..k : h[i] = IF i = k THEN WithSub(r, g[k - 1], k) ELSE g[i]
    OBVIOUS
  <2>5. h = [i \in 0..k |-> h[i]]
    OBVIOUS
  <2> HIDE DEF h
  <2>6. 0 \in 0..k /\ 0 # k /\ \A i \in 1..k : i \in 0..k /\ i - 1 \in 0..k /\ i - 1 # k
    BY <2>1
  <2>7. \A i \in 1..k : i # k => i \in 1..(k - 1)
    BY <2>1
  <2>8. h[0] = << >>
    BY <2>3, <2>4, <2>6 DEF UpTo
  <2>9. ASSUME NEW i \in 1..k PROVE h[i] = WithSub(r, h[i - 1], i)
    <3>1. h[i - 1] = g[i - 1]
      BY <2>4, <2>6
    <3>2. CASE i = k
      BY <2>4, <2>6, <3>1, <3>2
    <3>3. CASE i # k
      <4>1. h[i] = g[i]
        BY <2>4, <2>6, <3>3
      <4>2. g[i] = WithSub(r, g[i - 1], i)
        BY <2>3, <2>7, <3>3 DEF UpTo
      <4> QED BY <3>1, <4>1, <4>2
    <3> QED BY <3>2, <3>3
  <2>10. UpTo(r, h, k)
    BY <2>5, <2>8, <2>9 DEF UpTo
  <2> QED BY <1>1, <2>10
<1> QED BY <1>2, <1>3

LEMMA SubsAreUpTo ==
    ASSUME NEW r
    PROVE  \E g : UpTo(r, g, NumSlots) /\ Subs(r) = g[NumSlots]
<1> DEFINE Walk(g) == [i \in 0..NumSlots |-> IF i = 0 THEN << >> ELSE WithSub(r, g[i - 1], i)]
           upTo == CHOOSE g : g = Walk(g)
<1>1. NumSlots \in Nat
  BY RosterAssumption
<1>2. Subs(r) = upTo[NumSlots]
  BY DEF Subs
<1>3. PICK g : UpTo(r, g, NumSlots)
  BY <1>1, UpToExists
<1>4. g = Walk(g)
  <2>1. \A i \in 0..NumSlots : i = 0 \/ i \in 1..NumSlots
    BY <1>1
  <2>2. \A i \in 0..NumSlots : g[i] = IF i = 0 THEN << >> ELSE WithSub(r, g[i - 1], i)
    BY <1>3, <2>1 DEF UpTo
  <2>3. g = [i \in 0..NumSlots |-> g[i]]
    BY <1>3 DEF UpTo
  <2> QED BY <2>2, <2>3
<1>5. upTo = Walk(upTo)
  BY <1>4
<1> HIDE DEF upTo
<1>6. \A i \in 0..NumSlots : upTo[i] = IF i = 0 THEN << >> ELSE WithSub(r, upTo[i - 1], i)
  BY <1>5
<1>7. 0 \in 0..NumSlots /\ \A i \in 1..NumSlots : i \in 0..NumSlots /\ i # 0
  BY <1>1
<1>8. upTo[0] = << >> /\ \A i \in 1..NumSlots : upTo[i] = WithSub(r, upTo[i - 1], i)
  BY <1>6, <1>7
<1>9. upTo = [i \in 0..NumSlots |-> upTo[i]]
  BY <1>5
<1> QED BY <1>2, <1>8, <1>9 DEF UpTo

LEMMA SubsFit ==
    ASSUME NEW r \in Rosters
    PROVE  SubsFor(r, Subs(r), NumSlots)
<1>1. PICK g : UpTo(r, g, NumSlots) /\ Subs(r) = g[NumSlots]
  BY SubsAreUpTo
<1>2. NumSlots \in Nat
  BY RosterAssumption
<1> DEFINE Wrong == {n \in 0..NumSlots : ~SubsFor(r, g[n], n)}
<1>3. Wrong = {}
  <2> SUFFICES ASSUME Wrong # {} PROVE FALSE
    OBVIOUS
  <2>1. Wrong \in SUBSET Nat
    BY <1>2
  <2>2. PICK n \in Wrong : \A l \in Wrong : n <= l
    BY <2>1, LeastOf
  <2>3. CASE n = 0
    <3>1. g[0] = << >>
      BY <1>1 DEF UpTo
    <3>2. << >> \in Seq(Moves) /\ DOMAIN << >> = {} /\ 1..0 = {}
      OBVIOUS
    <3>3. SubsFor(r, << >>, 0)
      BY <3>2 DEF SubsFor
    <3> QED BY <2>2, <2>3, <3>1, <3>3
  <2>4. CASE n # 0
    <3>1. n \in Slots /\ n \in 1..NumSlots /\ n - 1 \in 0..NumSlots /\ ~(n <= n - 1)
      BY <1>2, <2>2, <2>4 DEF Slots
    <3>2. SubsFor(r, g[n - 1], n - 1)
      BY <2>2, <3>1
    <3>3. g[n] = WithSub(r, g[n - 1], n)
      BY <1>1, <3>1 DEF UpTo
    <3>4. SubsFor(r, g[n], n)
      BY <3>1, <3>2, <3>3, WithSubFits
    <3> QED BY <2>2, <3>4
  <2> QED BY <2>3, <2>4
<1>4. NumSlots \in 0..NumSlots
  BY <1>2
<1> QED BY <1>1, <1>3, <1>4

LEMMA ReturningFits ==
    ASSUME NEW r \in Rosters
    PROVE  LET moves == Activations(r)
               W == Returning(r, IR) \cup Returning(r, Taxi)
           IN  /\ moves \in Seq(Moves)
               /\ \A k \in DOMAIN moves :
                    moves[k].destination = "bench" /\ moves[k].slot = NoIndex /\ moves[k].player \in W
               /\ \A j, k \in DOMAIN moves : moves[j].player = moves[k].player => j = k
               /\ \A p \in W : \E k \in DOMAIN moves : moves[k].player = p
<1> DEFINE moves == Activations(r)
           A == Returning(r, IR)
           B == Returning(r, Taxi)
           back == SetToSeq(A) \o SetToSeq(B)
<1>1. A \subseteq Players /\ B \subseteq Players /\ A \cap B = {}
  BY RosterShape, RosterAssumption DEF Returning
<1>2. IsFiniteSet(A) /\ IsFiniteSet(B)
  BY <1>1, LineupManagementAssumption, FS_Subset
<1>3. moves = [k \in DOMAIN back |-> Activate(back[k])]
  BY DEF Activations
<1> HIDE DEF A, B
<1>4. /\ back \in Seq(A \cup B)
      /\ \A j, k \in DOMAIN back : back[j] = back[k] => j = k
      /\ \A p \in A \cup B : \E k \in DOMAIN back : back[k] = p
  BY <1>1, <1>2, ListingBoth
<1> HIDE DEF moves, back
<1>5. \A k \in DOMAIN back : back[k] \in A \cup B /\ back[k] \in Players
  BY <1>1, <1>4
<1>6. \A p \in Players : /\ Activate(p) \in Moves /\ Activate(p).player = p
                          /\ Activate(p).destination = "bench" /\ Activate(p).slot = NoIndex
  BY DEF Activate, Moves
<1>7. DOMAIN moves = DOMAIN back /\ \A k \in DOMAIN back : moves[k] = Activate(back[k])
  BY <1>3
<1>8. moves \in Seq(Moves)
  <2>1. Len(back) \in Nat /\ DOMAIN back = 1..Len(back)
    BY <1>4
  <2>2. moves \in [1..Len(back) -> Moves]
    BY <1>3, <1>5, <1>6, <2>1
  <2> QED BY <2>1, <2>2
<1>9. \A k \in DOMAIN moves :
        /\ moves[k].destination = "bench" /\ moves[k].slot = NoIndex
        /\ moves[k].player = back[k] /\ back[k] \in A \cup B
  BY <1>5, <1>6, <1>7
<1> QED BY <1>4, <1>7, <1>8, <1>9 DEF A, B, moves

\* The plan for roster r, substitutions first.
PlanFor(r, moves) ==
    /\ moves \in Seq(Moves)
    /\ \A j, k \in DOMAIN moves : j # k =>
         /\ moves[j].player # moves[k].player
         /\ moves[j].slot = moves[k].slot => moves[j].slot = NoIndex
    /\ \A k \in DOMAIN moves :
         /\ moves[k].destination = "starter" <=> moves[k].slot # NoIndex
         /\ moves[k].player \in DOMAIN r /\ r[moves[k].player] \notin Slots
    /\ \A k \in DOMAIN moves : moves[k].slot # NoIndex =>
         /\ NeedsSub(r, moves[k].slot)
         /\ moves[k].player \in Candidates(r, moves[k].slot, Before(moves, k))
         /\ \A q \in Candidates(r, moves[k].slot, Before(moves, k)) :
              Rank[moves[k].player] <= Rank[q]
    /\ \A i \in Slots : NeedsSub(r, i) =>
         \/ \E k \in DOMAIN moves : moves[k].slot = i
         \/ Candidates(r, i, Picked(moves)) = {}
    /\ \A p \in DOMAIN r \ (out \cup locked) : r[p] \in {IR, Taxi} => p \in Picked(moves)

LEMMA PlanFits ==
    ASSUME NEW r \in Rosters
    PROVE  PlanFor(r, Plan(r))
<1> DEFINE s == Subs(r)
           t == Activations(r)
           moves == s \o t
           W == Returning(r, IR) \cup Returning(r, Taxi)
           m == Len(s)
           n == Len(t)
<1>1. SubsFor(r, s, NumSlots)
  BY SubsFit
<1>2. /\ t \in Seq(Moves)
      /\ \A k \in DOMAIN t : t[k].destination = "bench" /\ t[k].slot = NoIndex /\ t[k].player \in W
      /\ \A j, k \in DOMAIN t : t[j].player = t[k].player => j = k
      /\ \A p \in W : \E k \in DOMAIN t : t[k].player = p
  BY ReturningFits
<1>3. s \in Seq(Moves)
  BY <1>1 DEF SubsFor
<1>4. \A p \in W : p \in DOMAIN r /\ r[p] \in {IR, Taxi} /\ p \notin Picked(s)
  BY DEF Returning
<1>5. \A p \in DOMAIN r \ (out \cup locked) : r[p] \in {IR, Taxi} => p \in Picked(s) \cup W
  BY DEF Returning
<1>6. Slots = 1..NumSlots /\ NoIndex \notin Slots /\ IR \notin Slots /\ Taxi \notin Slots
  BY RosterAssumption DEF Slots
<1>7. Plan(r) = moves
  BY DEF Plan
<1>8. /\ moves \in Seq(Moves) /\ m \in Nat /\ n \in Nat
      /\ DOMAIN moves = 1..(m + n) /\ DOMAIN s = 1..m /\ DOMAIN t = 1..n
      /\ \A k \in 1..m : k \in DOMAIN moves /\ moves[k] = s[k]
      /\ \A k \in 1..n : m + k \in DOMAIN moves /\ moves[m + k] = t[k]
      /\ \A k \in DOMAIN moves : k \in 1..m \/ \E l \in 1..n : k = m + l
  BY <1>2, <1>3, Joined
<1> HIDE DEF s, t, moves, m, n, W
<1>9. \A k \in 1..m :
        /\ moves[k].destination = "starter" /\ moves[k].slot \in Slots
        /\ NeedsSub(r, moves[k].slot)
        /\ moves[k].player \in Candidates(r, moves[k].slot, Before(moves, k))
        /\ \A q \in Candidates(r, moves[k].slot, Before(moves, k)) : Rank[moves[k].player] <= Rank[q]
  <2> SUFFICES ASSUME NEW k \in 1..m
               PROVE  /\ moves[k].destination = "starter" /\ moves[k].slot \in Slots
                      /\ NeedsSub(r, moves[k].slot)
                      /\ moves[k].player \in Candidates(r, moves[k].slot, Before(moves, k))
                      /\ \A q \in Candidates(r, moves[k].slot, Before(moves, k)) :
                           Rank[moves[k].player] <= Rank[q]
    OBVIOUS
  <2>1. \A j \in 1..(k - 1) : j \in 1..m
    BY <1>8
  <2>2. Before(moves, k) = Before(s, k)
    BY <1>8, <2>1 DEF Before
  <2>3. /\ s[k].destination = "starter" /\ s[k].slot \in 1..NumSlots
        /\ NeedsSub(r, s[k].slot)
        /\ s[k].player \in Candidates(r, s[k].slot, Before(s, k))
        /\ \A q \in Candidates(r, s[k].slot, Before(s, k)) : Rank[s[k].player] <= Rank[q]
    BY <1>1, <1>8 DEF SubsFor
  <2>4. moves[k] = s[k]
    BY <1>8
  <2> QED BY <1>6, <2>2, <2>3, <2>4
<1>10. \A k \in 1..n : /\ moves[m + k].destination = "bench" /\ moves[m + k].slot = NoIndex
                        /\ moves[m + k].player \in W
  <2> SUFFICES ASSUME NEW k \in 1..n
               PROVE  /\ moves[m + k].destination = "bench" /\ moves[m + k].slot = NoIndex
                      /\ moves[m + k].player \in W
    OBVIOUS
  <2>1. moves[m + k] = t[k]
    BY <1>8
  <2>2. t[k].destination = "bench" /\ t[k].slot = NoIndex /\ t[k].player \in W
    BY <1>2, <1>8
  <2> QED BY <2>1, <2>2
<1>11. \A k \in 1..m : moves[k].player \in Picked(s)
  BY <1>8 DEF Picked
<1>12. Picked(s) \subseteq Picked(moves) /\ W \subseteq Picked(moves)
  <2>1. \A k \in DOMAIN s : k \in DOMAIN moves /\ moves[k] = s[k]
    BY <1>8
  <2>2. ASSUME NEW p \in W PROVE p \in Picked(moves)
    <3>1. PICK k \in 1..n : t[k].player = p
      BY <1>2, <1>8
    <3>2. m + k \in DOMAIN moves /\ moves[m + k].player = p
      BY <1>8, <3>1
    <3> QED BY <3>2 DEF Picked
  <2> QED BY <2>1, <2>2 DEF Picked
<1>13. ASSUME NEW j \in DOMAIN moves, NEW k \in DOMAIN moves, moves[j].player = moves[k].player
       PROVE  j = k
  <2>1. \A i \in 1..m, l \in 1..m : i < l => moves[i].player # moves[l].player
    <3> SUFFICES ASSUME NEW i \in 1..m, NEW l \in 1..m, i < l PROVE moves[i].player # moves[l].player
      OBVIOUS
    <3>1. i \in 1..(l - 1)
      BY <1>8
    <3>2. moves[i].player \in Before(moves, l)
      BY <3>1 DEF Before
    <3> QED BY <1>9, <3>2 DEF Candidates
  <2>2. CASE j \in 1..m /\ k \in 1..m
    <3>1. ~(j < k) /\ ~(k < j)
      BY <1>13, <2>1, <2>2
    <3> QED BY <1>8, <2>2, <3>1
  <2>3. \A i \in 1..m, l \in DOMAIN moves : l \notin 1..m => moves[i].player # moves[l].player
    <3> SUFFICES ASSUME NEW i \in 1..m, NEW l \in DOMAIN moves, l \notin 1..m
                 PROVE  moves[i].player # moves[l].player
      OBVIOUS
    <3>1. PICK x \in 1..n : l = m + x
      BY <1>8
    <3>2. moves[l].player \in W
      BY <1>10, <3>1
    <3> QED BY <1>4, <1>11, <3>2
  <2>4. CASE (j \in 1..m /\ k \notin 1..m) \/ (j \notin 1..m /\ k \in 1..m)
    BY <1>13, <2>3, <2>4
  <2>5. CASE j \notin 1..m /\ k \notin 1..m
    <3>1. PICK i \in 1..n, l \in 1..n : j = m + i /\ k = m + l
      BY <1>8, <2>5
    <3>2. t[i].player = t[l].player
      BY <1>8, <1>13, <3>1
    <3> QED BY <1>2, <1>8, <3>1, <3>2
  <2> QED BY <2>2, <2>4, <2>5
<1>14. ASSUME NEW j \in DOMAIN moves, NEW k \in DOMAIN moves, j # k, moves[j].slot = moves[k].slot
       PROVE  moves[j].slot = NoIndex
  <2>1. CASE j \in 1..m /\ k \in 1..m
    BY <1>1, <1>8, <1>14, <2>1 DEF SubsFor
  <2>2. CASE ~(j \in 1..m /\ k \in 1..m)
    BY <1>8, <1>10, <1>14, <2>2
  <2> QED BY <2>1, <2>2
<1>15. ASSUME NEW k \in DOMAIN moves
       PROVE  /\ moves[k].destination = "starter" <=> moves[k].slot # NoIndex
              /\ moves[k].player \in DOMAIN r /\ r[moves[k].player] \notin Slots
  <2>1. CASE k \in 1..m
    BY <1>6, <1>9, <2>1 DEF Candidates
  <2>2. CASE k \notin 1..m
    BY <1>4, <1>6, <1>8, <1>10, <2>2
  <2> QED BY <2>1, <2>2
<1>16. ASSUME NEW k \in DOMAIN moves, moves[k].slot # NoIndex
       PROVE  k \in 1..m
  BY <1>8, <1>10, <1>16
<1>17. ASSUME NEW i \in Slots, NeedsSub(r, i)
       PROVE  (\E k \in DOMAIN moves : moves[k].slot = i) \/ Candidates(r, i, Picked(moves)) = {}
  <2>1. (\E k \in DOMAIN s : s[k].slot = i) \/ Candidates(r, i, Picked(s)) = {}
    BY <1>1, <1>6, <1>17 DEF SubsFor
  <2>2. Candidates(r, i, Picked(moves)) \subseteq Candidates(r, i, Picked(s))
    BY <1>12 DEF Candidates
  <2> QED BY <1>8, <2>1, <2>2
<1>18. PlanFor(r, moves)
  BY <1>5, <1>8, <1>9, <1>12, <1>13, <1>14, <1>15, <1>16, <1>17 DEF PlanFor
<1> QED BY <1>7, <1>18

-----------------------------------------------------------------------------
(* The sweep in progress.                                                  *)

\* The moves a sweep has left, for the roster, the injured and the changes noted
\* as they are now: nobody is moved twice and no slot filled twice; whoever is in
\* a slot that will be filled cannot play, unless somebody changed that; and whoever
\* will be moved starts only where somebody else put him.
Pending(moves, r, hurt, noted) ==
    /\ moves \in Seq(Moves)
    /\ \A j, k \in DOMAIN moves : j # k =>
         /\ moves[j].player # moves[k].player
         /\ moves[j].slot = moves[k].slot => moves[j].slot = NoIndex
    /\ \A k \in DOMAIN moves :
         /\ moves[k].destination = "starter" <=> moves[k].slot # NoIndex
         /\ moves[k].player \in DOMAIN r
         /\ r[moves[k].player] \in Slots => moves[k].player \in noted
    /\ \A k \in DOMAIN moves, p \in DOMAIN r :
         moves[k].slot # NoIndex /\ r[p] = moves[k].slot => p \in hurt \cup noted

Typed ==
    /\ actual \in Rosters /\ seats \in Rosters /\ DOMAIN seats = DOMAIN actual
    /\ out \subseteq Players /\ locked \subseteq Players /\ board \subseteq Players
    /\ enabled \in BOOLEAN /\ events \in Nat /\ changed \subseteq Players

SweepInv == Typed /\ Pending(plan, seats, out, changed)

LEMMA NothingPending ==
    ASSUME NEW r, NEW hurt, NEW noted
    PROVE  Pending(<< >>, r, hurt, noted)
<1>1. << >> \in Seq(Moves) /\ DOMAIN << >> = {}
  OBVIOUS
<1> QED BY <1>1 DEF Pending

LEMMA PlannedPending ==
    ASSUME NEW r \in Rosters, NEW noted
    PROVE  Pending(Plan(r), r, out, noted)
<1> DEFINE moves == Plan(r)
<1>1. PlanFor(r, moves)
  BY PlanFits
<1> HIDE DEF moves
<1>2. ASSUME NEW k \in DOMAIN moves, NEW p \in DOMAIN r, moves[k].slot # NoIndex, r[p] = moves[k].slot
      PROVE  p \in out
  <2>1. moves \in Seq(Moves)
    BY <1>1 DEF PlanFor
  <2>2. moves[k] \in Moves
    BY <2>1
  <2>3. moves[k].slot \in Slots
    BY <1>2, <2>2 DEF Moves
  <2>4. NeedsSub(r, moves[k].slot)
    BY <1>1, <1>2 DEF PlanFor
  <2>5. AlignedStarters(r)[moves[k].slot] = p
    BY <1>2, <2>3, AlignedSeats
  <2> QED BY <2>4, <2>5 DEF NeedsSub
<1>3. Pending(moves, r, out, noted)
  BY <1>1, <1>2 DEF PlanFor, Pending
<1> QED BY <1>3 DEF moves

\* What anybody else does, or a pull brings, is noted.
LEMMA NotedPending ==
    ASSUME NEW moves, NEW r, NEW n, NEW hurt, NEW heal, NEW noted, NEW more,
           Pending(moves, r, hurt, noted), DOMAIN n = DOMAIN r,
           noted \subseteq more, hurt \subseteq heal \cup more,
           \A p \in DOMAIN r : n[p] # r[p] => p \in more
    PROVE  Pending(moves, n, heal, more)
<1>1. \A k \in DOMAIN moves :
        /\ moves[k].destination = "starter" <=> moves[k].slot # NoIndex
        /\ moves[k].player \in DOMAIN n
        /\ n[moves[k].player] \in Slots => moves[k].player \in more
  BY DEF Pending
<1>2. ASSUME NEW k \in DOMAIN moves, NEW p \in DOMAIN n, moves[k].slot # NoIndex, n[p] = moves[k].slot
      PROVE  p \in heal \cup more
  BY <1>2 DEF Pending
<1> QED BY <1>1, <1>2 DEF Pending

\* A move puts nobody but its player into a slot, and him only into its own.
LEMMA TailPending ==
    ASSUME NEW moves, moves # << >>, NEW r, NEW n, NEW hurt, NEW noted,
           Pending(moves, r, hurt, noted), DOMAIN n = DOMAIN r,
           \A p \in DOMAIN r : n[p] \in Slots =>
             n[p] = r[p] \/ (p = Head(moves).player /\ n[p] = Head(moves).slot)
    PROVE  Pending(Tail(moves), n, hurt, noted)
<1> DEFINE rest == Tail(moves)
           m == moves[1]
<1>1. moves \in Seq(Moves) /\ 1 \in DOMAIN moves /\ Head(moves) = m
  BY DEF Pending
<1>2. rest \in Seq(Moves) /\ \A k \in DOMAIN rest : k + 1 \in DOMAIN moves /\ k + 1 # 1 /\ rest[k] = moves[k + 1]
  BY <1>1
<1> HIDE DEF rest, m
<1>3. \A k \in DOMAIN rest : rest[k] \in Moves
  BY <1>2
<1>4. ASSUME NEW j \in DOMAIN rest, NEW k \in DOMAIN rest, j # k
      PROVE  /\ rest[j].player # rest[k].player
             /\ rest[j].slot = rest[k].slot => rest[j].slot = NoIndex
  <2>1. j \in Nat /\ k \in Nat
    BY <1>2
  <2>2. j + 1 # k + 1
    BY <1>4, <2>1
  <2> QED BY <1>2, <2>2 DEF Pending
<1>5. ASSUME NEW k \in DOMAIN rest
      PROVE  /\ rest[k].player # m.player
             /\ rest[k].slot = m.slot => rest[k].slot = NoIndex
             /\ rest[k].destination = "starter" <=> rest[k].slot # NoIndex
             /\ rest[k].player \in DOMAIN r
             /\ r[rest[k].player] \in Slots => rest[k].player \in noted
             /\ \A p \in DOMAIN r : rest[k].slot # NoIndex /\ r[p] = rest[k].slot => p \in hurt \cup noted
  BY <1>1, <1>2 DEF Pending, m
<1>6. \A p \in DOMAIN r : n[p] \in Slots => n[p] = r[p] \/ (p = m.player /\ n[p] = m.slot)
  BY <1>1
<1>7. \A k \in DOMAIN rest : n[rest[k].player] \in Slots => rest[k].player \in noted
  BY <1>5, <1>6
<1>8. ASSUME NEW k \in DOMAIN rest, NEW p \in DOMAIN n, rest[k].slot # NoIndex, n[p] = rest[k].slot
      PROVE  p \in hurt \cup noted
  <2>1. n[p] \in Slots
    BY <1>3, <1>8 DEF Moves
  <2> QED BY <1>5, <1>6, <1>8, <2>1
<1>9. Pending(rest, n, hurt, noted)
  BY <1>2, <1>4, <1>5, <1>7, <1>8 DEF Pending
<1> QED BY <1>9 DEF rest

-----------------------------------------------------------------------------
(* A whole move_player.                                                    *)

\* Which list goes first says whether the player is on IR, and what a plan
\* leaves out is already so.
LEMMA OrderTells ==
    ASSUME NEW r \in Rosters, NEW p \in DOMAIN r, NEW destination \in Destinations,
           NEW target, destination = "starter" => target \in Slots
    PROVE  LET A == AlignedStarters(r)
               V == ReserveOf(r)
               S == DesiredStarters(r, p, destination, target)
               R == DesiredReserve(r, p, destination)
               order == Steps(r, p, destination, S, R)
           IN  /\ order \in Plans \cup {<< >>}
               /\ order = <<"starters">> => R = V
               /\ order = <<"reserve">> => S = A
               /\ order = <<"reserve", "starters">> => S # A /\ R # V /\ r[p] = IR
               /\ order = <<"starters", "reserve">> => S # A /\ R # V /\ r[p] # IR
<1> DEFINE A == AlignedStarters(r)
           V == ReserveOf(r)
           S == DesiredStarters(r, p, destination, target)
           R == DesiredReserve(r, p, destination)
           order == Steps(r, p, destination, S, R)
<1>1. p \in Players /\ A \in [Slots -> Players \cup {NoPlayer}] /\ NoPlayer \notin Players
  BY RosterShape, AlignedType, RosterAssumption DEF Lineups
<1>2. order = IF destination = "starter" /\ r[p] = IR /\ (S # A \/ R # V)
              THEN <<"reserve", "starters">>
              ELSE IF S # A /\ R # V THEN <<"starters", "reserve">>
              ELSE IF S # A THEN <<"starters">>
              ELSE IF R # V THEN <<"reserve">> ELSE << >>
  BY DEF Steps
<1>3. r[p] = IR => \A i \in Slots : A[i] # p
  BY <1>1, AlignedSeats, RosterAssumption
<1>4. destination = "starter" /\ r[p] = IR => S # A /\ R # V
  <2> SUFFICES ASSUME destination = "starter", r[p] = IR PROVE S # A /\ R # V
    OBVIOUS
  <2>1. target \in Slots /\ S[target] = p
    BY <1>1 DEF DesiredStarters, Without
  <2>2. p \in V /\ R = V \ {p}
    BY DEF ReserveOf, DesiredReserve
  <2> HIDE DEF A, V, S, R
  <2> QED BY <1>3, <2>1, <2>2
<1>5. S # A /\ R # V => destination = "starter" \/ r[p] # IR
  <2> SUFFICES ASSUME S # A, R # V, destination # "starter", r[p] = IR PROVE FALSE
    OBVIOUS
  <2>1. CASE destination = "ir"
    BY <2>1 DEF DesiredReserve, ReserveOf
  <2>2. S = Without(A, p)
    BY DEF DesiredStarters
  <2>3. Without(A, p) = [i \in Slots |-> A[i]]
    BY <1>3 DEF Without
  <2>4. [i \in Slots |-> A[i]] = A
    BY <1>1
  <2> QED BY <2>2, <2>3, <2>4
<1> HIDE DEF A, V, S, R, order
<1> SUFFICES /\ order \in Plans \cup {<< >>}
             /\ order = <<"starters">> => R = V
             /\ order = <<"reserve">> => S = A
             /\ order = <<"reserve", "starters">> => S # A /\ R # V /\ r[p] = IR
             /\ order = <<"starters", "reserve">> => S # A /\ R # V /\ r[p] # IR
  BY DEF A, V, S, R, order
<1> QED BY <1>2, <1>4, <1>5 DEF Plans

\* The lists of a move Sleeper is sent fit the roster.
LEMMA SendableFits ==
    ASSUME seats \in Rosters, NEW m, NEW kickoffs, Sendable(m, kickoffs), m.destination \in Destinations,
           m.slot \in Slots \cup {NoIndex}
    PROVE  /\ WantedStarters(m) \in Lineups /\ Injective(WantedStarters(m))
           /\ Starting(WantedStarters(m)) \subseteq DOMAIN seats
           /\ WantedReserve(m) \subseteq DOMAIN seats
           /\ Starting(WantedStarters(m)) \cap WantedReserve(m) = {}
           /\ m.player \in DOMAIN seats /\ (m.destination = "starter" => m.slot \in Slots)
<1>1. m.player \in DOMAIN seats /\ m.player \in Players
  BY RosterShape DEF Sendable, Legal
<1>2. m.destination = "starter" => m.slot \in Slots
  BY <1>1, RosterAssumption DEF Sendable, Legal
<1> QED BY <1>1, <1>2, DesiredType, DesiredFits DEF WantedStarters, WantedReserve

\* Whom a write does not move keeps his slot and his IR spot, and gets none.
LEMMA UnmovedStay ==
    ASSUME NEW r \in Rosters, NEW S \in Lineups, Injective(S), Starting(S) \subseteq DOMAIN r,
           NEW R, R \subseteq DOMAIN r,
           NEW p \in DOMAIN r, p \notin Moved(r, S, R)
    PROVE  LET n == Placement(r, S, R)
           IN  r[p] \in Slots \cup {IR} \/ n[p] \in Slots \cup {IR} => n[p] = r[p]
<1> DEFINE A == AlignedStarters(r)
           n == Placement(r, S, R)
<1>1. n \in Rosters /\ DOMAIN n = DOMAIN r
  BY PlacementType DEF Placement
<1>2. AlignedStarters(n) = S /\ ReserveOf(n) = R \ Starting(S)
  BY PlacementFits
<1>3. p # NoPlayer
  BY RosterShape, RosterAssumption
<1>4. \A i \in Slots : (A[i] = p <=> r[p] = i) /\ (S[i] = p <=> n[p] = i)
  BY <1>1, <1>2, <1>3, AlignedSeats
<1>5. (p \in ReserveOf(r) <=> r[p] = IR) /\ (p \in R /\ p \notin Starting(S) <=> n[p] = IR)
  BY <1>1, <1>2 DEF ReserveOf
<1> HIDE DEF n, A
<1>6. \A i \in Slots : A[i] = p <=> S[i] = p
  BY <1>3 DEF Moved, A
<1>7. p \in ReserveOf(r) <=> p \in R
  BY DEF Moved
<1>8. r[p] \in Slots \/ n[p] \in Slots => n[p] = r[p]
  BY <1>4, <1>6
<1>9. r[p] = IR \/ n[p] = IR => n[p] = r[p]
  <2>1. p \in Starting(S) => r[p] \in Slots
    BY <1>4, <1>6 DEF Starting
  <2> QED BY <1>5, <1>7, <2>1, RosterAssumption
<1> QED BY <1>8, <1>9 DEF n

\* Nobody but the player of a move enters a slot.
LEMMA EntersOwnSlot ==
    ASSUME seats \in Rosters, NEW m, NEW kickoffs, Sendable(m, kickoffs), m.destination \in Destinations,
           m.slot \in Slots \cup {NoIndex}, NEW p \in DOMAIN seats
    PROVE  LET n == Placement(seats, WantedStarters(m), WantedReserve(m))
           IN  /\ n[p] \in Slots => n[p] = seats[p] \/ (p = m.player /\ n[p] = m.slot)
               /\ seats[p] \in Slots /\ n[p] # seats[p] =>
                    \/ p = m.player
                    \/ m.destination = "starter" /\ seats[p] = m.slot /\ n[m.player] = m.slot
<1> DEFINE A == AlignedStarters(seats)
           S == WantedStarters(m)
           R == WantedReserve(m)
           n == Placement(seats, S, R)
<1>1. /\ S \in Lineups /\ Injective(S) /\ Starting(S) \subseteq DOMAIN seats /\ R \subseteq DOMAIN seats
      /\ m.player \in DOMAIN seats /\ (m.destination = "starter" => m.slot \in Slots)
  BY SendableFits
<1>2. \A i \in Slots : S[i] = IF m.destination = "starter" /\ i = m.slot THEN m.player
                              ELSE IF A[i] = m.player THEN NoPlayer ELSE A[i]
  <2>1. \A i \in Slots : Without(A, m.player)[i] = IF A[i] = m.player THEN NoPlayer ELSE A[i]
    BY DEF Without
  <2>2. CASE m.destination = "starter"
    <3>1. S = [Without(A, m.player) EXCEPT ![m.slot] = m.player]
      BY <2>2 DEF WantedStarters, DesiredStarters
    <3>2. \A i \in Slots : i \in DOMAIN Without(A, m.player)
      BY DEF Without
    <3> QED BY <2>1, <2>2, <3>1, <3>2
  <2>3. CASE m.destination # "starter"
    BY <2>1, <2>3 DEF WantedStarters, DesiredStarters
  <2> QED BY <2>2, <2>3
<1> HIDE DEF S, R
<1>3. n \in Rosters /\ DOMAIN n = DOMAIN seats /\ AlignedStarters(n) = S
  BY <1>1, PlacementType, PlacementFits DEF Placement
<1>4. NoPlayer \notin DOMAIN seats
  BY RosterShape, RosterAssumption
<1>5. \A q \in DOMAIN seats, i \in Slots : (A[i] = q <=> seats[q] = i) /\ (S[i] = q <=> n[q] = i)
  BY <1>3, <1>4, AlignedSeats
<1> HIDE DEF n, A
<1>6. n[p] \in Slots => n[p] = seats[p] \/ (p = m.player /\ n[p] = m.slot)
  BY <1>2, <1>4, <1>5
<1>7. seats[p] \in Slots /\ n[p] # seats[p] =>
        \/ p = m.player
        \/ m.destination = "starter" /\ seats[p] = m.slot /\ n[m.player] = m.slot
  <2> SUFFICES ASSUME seats[p] \in Slots, n[p] # seats[p], p # m.player
               PROVE  m.destination = "starter" /\ seats[p] = m.slot /\ n[m.player] = m.slot
    OBVIOUS
  <2>1. A[seats[p]] = p /\ S[seats[p]] # p
    BY <1>5
  <2>2. m.destination = "starter" /\ seats[p] = m.slot /\ S[seats[p]] = m.player
    BY <1>2, <2>1
  <2> QED BY <1>1, <1>5, <2>2
<1> QED BY <1>6, <1>7 DEF n, S, R

\* A roster with some of a move's lists in place is a roster of the same players.
LEMMA WithType ==
    ASSUME seats \in Rosters, NEW m, NEW kickoffs, Sendable(m, kickoffs), m.destination \in Destinations,
           m.slot \in Slots \cup {NoIndex}, NEW r \in Rosters, NEW lists
    PROVE  With(r, m, lists) \in Rosters /\ DOMAIN With(r, m, lists) = DOMAIN r
<1>1. StartersOf(r, m, lists) \in Lineups
  BY SendableFits, AlignedType DEF StartersOf
<1> QED BY <1>1, PlacementType DEF With, Placement

\* Whom a move does not move stays, whichever of its lists are in place.
LEMMA WithStays ==
    ASSUME seats \in Rosters, NEW m, NEW kickoffs, Sendable(m, kickoffs), m.destination \in Destinations,
           m.slot \in Slots \cup {NoIndex}, NEW lists, NEW p \in DOMAIN seats, p \notin Reseated(m)
    PROVE  LET n == With(seats, m, lists)
           IN  seats[p] \in Slots \cup {IR} \/ n[p] \in Slots \cup {IR} => n[p] = seats[p]
<1> DEFINE S == StartersOf(seats, m, lists)
           R == ReserveFor(seats, m, lists)
<1>1. /\ S \in Lineups /\ Injective(S) /\ Starting(S) \subseteq DOMAIN seats
      /\ R \subseteq DOMAIN seats
  BY SendableFits, AlignedType, AlignedFits DEF StartersOf, ReserveFor, ReserveOf
<1>2. S \in {AlignedStarters(seats), WantedStarters(m)} /\ R \in {ReserveOf(seats), WantedReserve(m)}
  BY DEF StartersOf, ReserveFor
<1> HIDE DEF S, R
<1>3. Moved(seats, S, R) \subseteq Reseated(m)
  BY <1>2 DEF Moved, Reseated
<1>4. With(seats, m, lists) = Placement(seats, S, R)
  BY DEF With, S, R
<1> QED BY <1>1, <1>3, <1>4, UnmovedStay

\* None of them in place: the roster as it is.
LEMMA WithNothing ==
    ASSUME seats \in Rosters, NEW m
    PROVE  With(seats, m, {}) = seats
<1> DEFINE A == AlignedStarters(seats)
           V == ReserveOf(seats)
           n == Placement(seats, A, V)
<1>1. With(seats, m, {}) = n
  BY DEF With, StartersOf, ReserveFor
<1>2. /\ A \in Lineups /\ Injective(A) /\ Starting(A) = {p \in DOMAIN seats : seats[p] \in Slots}
      /\ \A p \in DOMAIN seats, i \in Slots : seats[p] = i => A[i] = p
      /\ NoPlayer \notin DOMAIN seats /\ seats \in [DOMAIN seats -> Seats]
  BY AlignedType, AlignedFits, AlignedSeats, RosterShape, RosterAssumption
<1>3. \A p \in DOMAIN seats : p \in V <=> seats[p] = IR
  BY DEF ReserveOf
<1> HIDE DEF A, V
<1>4. ASSUME NEW p \in DOMAIN seats PROVE n[p] = seats[p]
  <2>1. CASE seats[p] \in Slots
    <3>1. A[seats[p]] = p /\ p # NoPlayer
      BY <1>2, <2>1
    <3>2. (CHOOSE i \in Slots : A[i] = p) = seats[p] /\ p \in Starting(A)
      BY <1>2, <2>1, <3>1, OnlySlot
    <3> QED BY <3>2 DEF Placement
  <2>2. CASE seats[p] \notin Slots
    <3>1. p \notin Starting(A) /\ seats[p] \in {Bench, IR, Taxi}
      BY <1>2, <2>2 DEF Seats
    <3> QED BY <1>3, <3>1 DEF Placement
  <2> QED BY <2>1, <2>2
<1>5. n = [p \in DOMAIN seats |-> n[p]]
  BY DEF Placement
<1> HIDE DEF n
<1>6. seats = [p \in DOMAIN seats |-> seats[p]]
  BY <1>2
<1> QED BY <1>1, <1>4, <1>5, <1>6

\* What a move, made in whole, leaves.
LEMMA PlaceFits ==
    ASSUME Typed, NEW m, NEW kickoffs, Sendable(m, kickoffs), Place(m), m.destination \in Destinations,
           m.slot \in Slots \cup {NoIndex}
    PROVE  /\ actual' \in Rosters /\ seats' \in Rosters /\ DOMAIN seats' = DOMAIN actual'
           /\ DOMAIN seats' = DOMAIN seats
           /\ \A p \in DOMAIN seats : seats'[p] \in Slots =>
                seats'[p] = seats[p] \/ (p = m.player /\ seats'[p] = m.slot)
<1>1. CASE AlreadyThere(m)
  BY <1>1 DEF Place, Typed
<1>2. CASE ~AlreadyThere(m)
  <2>1. /\ seats' = Placement(seats, WantedStarters(m), WantedReserve(m))
        /\ actual' = With(actual, m, Range(StepsOf(m)))
    BY <1>2 DEF Place, SleeperTakes
  <2>2. seats \in Rosters /\ actual \in Rosters /\ DOMAIN seats = DOMAIN actual
    BY DEF Typed
  <2>3. seats' \in Rosters /\ DOMAIN seats' = DOMAIN seats
    BY <2>1, <2>2, SendableFits, PlacementType DEF Placement
  <2>4. actual' \in Rosters /\ DOMAIN actual' = DOMAIN actual
    BY <2>1, <2>2, WithType
  <2> QED BY <2>1, <2>2, <2>3, <2>4, EntersOwnSlot
<1> QED BY <1>1, <1>2

\* What one that stops leaves.
LEMMA StopsType ==
    ASSUME Typed, NEW m, NEW kickoffs, Stops(m, kickoffs), m.destination \in Destinations,
           m.slot \in Slots \cup {NoIndex}
    PROVE  /\ actual' \in Rosters /\ seats' \in Rosters /\ DOMAIN seats' = DOMAIN actual'
           /\ DOMAIN seats' = DOMAIN seats
<1>1. seats \in Rosters /\ actual \in Rosters /\ DOMAIN seats = DOMAIN actual /\ Sendable(m, kickoffs)
  BY DEF Typed, Stops
<1>2. PICK saved, taken : seats' = With(seats, m, saved) /\ actual' = With(actual, m, taken)
  BY DEF Stops, SleeperTakes
<1> QED BY <1>1, <1>2, WithType

\* Of a move that ends in a slot or on the bench, nothing is saved, or that its
\* player has left IR.
LEMMA StopsFits ==
    ASSUME Typed, NEW m, NEW kickoffs, Stops(m, kickoffs), m.destination \in {"starter", "bench"},
           m.slot \in Slots \cup {NoIndex}
    PROVE  \/ seats' = seats
           \/ /\ StepsOf(m) = <<"reserve", "starters">>
              /\ seats' = Placement(seats, AlignedStarters(seats), WantedReserve(m))
<1>1. PICK n \in 1..Len(StepsOf(m)) : seats' = With(seats, m, {StepsOf(m)[k] : k \in 1..(n - 1)})
  BY DEF Stops
<1>2. seats \in Rosters /\ Sendable(m, kickoffs) /\ m.destination \in Destinations
  BY DEF Typed, Stops, Destinations
<1>3. m.player \in DOMAIN seats /\ (m.destination = "starter" => m.slot \in Slots)
  BY <1>2, SendableFits
<1>4. /\ StepsOf(m) \in Plans \cup {<< >>}
      /\ StepsOf(m) = <<"starters", "reserve">> => WantedReserve(m) # ReserveOf(seats) /\ seats[m.player] # IR
  BY <1>2, <1>3, OrderTells DEF StepsOf, WantedStarters, WantedReserve
<1>5. StepsOf(m) # <<"starters", "reserve">>
  BY <1>4 DEF WantedReserve, DesiredReserve, ReserveOf
<1>6. CASE n = 1
  <2>1. {StepsOf(m)[k] : k \in 1..(n - 1)} = {}
    BY <1>6
  <2> QED BY <1>1, <1>2, <2>1, WithNothing
<1>7. CASE n # 1
  <2>1. StepsOf(m) \in {<< >>, <<"starters">>, <<"reserve">>, <<"reserve", "starters">>}
    BY <1>4, <1>5 DEF Plans
  <2>2. StepsOf(m) # << >> /\ StepsOf(m) # <<"starters">> /\ StepsOf(m) # <<"reserve">>
    <3>1. n \in 1..Len(StepsOf(m)) /\ n \notin 1..1 /\ n \notin 1..0
      BY <1>7
    <3>2. Len(<< >>) = 0 /\ Len(<<"starters">>) = 1 /\ Len(<<"reserve">>) = 1
      OBVIOUS
    <3>3. \A s : Len(s) \in {0, 1} => StepsOf(m) # s
      BY <3>1
    <3> QED BY <3>2, <3>3
  <2>3. StepsOf(m) = <<"reserve", "starters">>
    BY <2>1, <2>2
  <2>4. n = 2
    <3>1. n \in 1..2
      BY <2>3
    <3> QED BY <1>7, <3>1
  <2>5. {StepsOf(m)[k] : k \in 1..(n - 1)} = {"reserve"}
    BY <2>3, <2>4
  <2> QED BY <1>1, <2>3, <2>5 DEF With, StartersOf, ReserveFor
<1> QED BY <1>6, <1>7

\* The reserve step of a move that starts a player from IR.
LEMMA HalfFits ==
    ASSUME Typed, NEW m, NEW kickoffs, Sendable(m, kickoffs), m.destination \in Destinations,
           m.slot \in Slots \cup {NoIndex}, StepsOf(m) = <<"reserve", "starters">>
    PROVE  LET n == Placement(seats, AlignedStarters(seats), WantedReserve(m))
           IN  \A p \in DOMAIN seats : seats[p] \in Slots => n[p] = seats[p]
<1> DEFINE A == AlignedStarters(seats)
           R == WantedReserve(m)
           n == Placement(seats, A, R)
<1>1. seats \in Rosters
  BY DEF Typed
<1>2. A \in Lineups /\ Injective(A) /\ Starting(A) \subseteq DOMAIN seats /\ R \subseteq DOMAIN seats
  BY <1>1, SendableFits, AlignedType, AlignedFits
<1>3. n \in Rosters /\ DOMAIN n = DOMAIN seats /\ AlignedStarters(n) = A
  BY <1>1, <1>2, PlacementType, PlacementFits DEF Placement
<1>4. ASSUME NEW p \in DOMAIN seats, seats[p] \in Slots PROVE n[p] = seats[p]
  <2>1. p # NoPlayer
    BY <1>1, RosterShape, RosterAssumption
  <2>2. A[seats[p]] = p
    BY <1>1, <1>4, AlignedSeats
  <2> QED BY <1>3, <1>4, <2>1, <2>2, AlignedSeats
<1> QED BY <1>4

-----------------------------------------------------------------------------
(* Every step keeps the invariant.                                         *)

LEMMA HeadMove ==
    ASSUME SweepInv, plan # << >>
    PROVE  /\ 1 \in DOMAIN plan /\ Head(plan) = plan[1] /\ Head(plan) \in Moves
           /\ Head(plan).destination \in Destinations /\ Head(plan).slot \in Slots \cup {NoIndex}
<1>1. plan \in Seq(Moves)
  BY DEF SweepInv, Pending
<1>2. 1 \in DOMAIN plan /\ Head(plan) = plan[1] /\ Head(plan) \in Moves
  BY <1>1
<1> QED BY <1>2 DEF Moves, Destinations

LEMMA SweepInit == ManagementInit => SweepInv
<1> SUFFICES ASSUME ManagementInit PROVE SweepInv
  OBVIOUS
<1>1. Typed
  BY LineupManagementAssumption DEF ManagementInit, Typed
<1>2. Pending(plan, seats, out, changed)
  BY NothingPending DEF ManagementInit
<1> QED BY <1>1, <1>2 DEF SweepInv

LEMMA EventTyped == ASSUME Typed, NEW kind, Event(kind) PROVE events' \in Nat
  BY DEF Typed, Event

LEMMA SweepBegins == ASSUME SweepInv, StartSweep PROVE SweepInv'
<1>1. Typed'
  BY EventTyped DEF StartSweep, SweepInv, Typed
<1>2. PICK r \in Rosters : r = seats'
  BY <1>1 DEF Typed
<1>3. plan' = Plan(r) /\ out' = out /\ changed' = changed
  BY <1>2 DEF StartSweep
<1>4. Pending(plan', r, out, changed)
  BY <1>3, PlannedPending
<1> QED BY <1>1, <1>2, <1>3, <1>4 DEF SweepInv

LEMMA SweepMovesOn == ASSUME SweepInv, MoveApplied PROVE SweepInv'
<1> DEFINE m == Head(plan)
<1>1. Typed /\ Sendable(m, board) /\ Place(m) /\ plan' = Tail(plan) /\ plan # << >>
      /\ out' = out /\ locked' = locked /\ enabled' = enabled
  BY DEF SweepInv, MoveApplied
<1>2. /\ actual' \in Rosters /\ seats' \in Rosters /\ DOMAIN seats' = DOMAIN actual'
      /\ DOMAIN seats' = DOMAIN seats
      /\ \A p \in DOMAIN seats : seats'[p] \in Slots =>
           seats'[p] = seats[p] \/ (p = m.player /\ seats'[p] = m.slot)
  BY <1>1, HeadMove, PlaceFits
<1>3. changed' \in {changed, {}} /\ board' \in {board, {}} /\ (plan' # << >> => changed' = changed)
  BY DEF MoveApplied, Noting
<1>4. events' \in Nat
  BY <1>1, EventTyped DEF MoveApplied, Typed
<1>5. Typed'
  BY <1>1, <1>2, <1>3, <1>4 DEF Typed
<1>6. Pending(Tail(plan), seats', out, changed)
  BY <1>1, <1>2, TailPending DEF SweepInv
<1>7. Pending(plan', seats', out', changed')
  BY <1>1, <1>3, <1>6, NothingPending
<1> QED BY <1>5, <1>7 DEF SweepInv

LEMMA SweepEnds == ASSUME SweepInv, MoveRefused \/ MoveStops PROVE SweepInv'
<1> DEFINE m == Head(plan)
<1>1. Typed /\ plan # << >> /\ plan' = << >> /\ changed' = {} /\ board' = {}
      /\ out' = out /\ locked' = locked /\ enabled' = enabled
  BY DEF SweepInv, MoveRefused, MoveStops, Noting
<1>2. events' \in Nat
  BY <1>1, EventTyped DEF MoveRefused, MoveStops, Typed
<1>3. actual' \in Rosters /\ seats' \in Rosters /\ DOMAIN seats' = DOMAIN actual'
  <2>1. CASE MoveRefused
    BY <1>1, <2>1 DEF MoveRefused, Refuse, Typed
  <2>2. CASE MoveStops
    BY <1>1, <2>2, HeadMove, StopsType DEF MoveStops
  <2> QED BY <2>1, <2>2
<1>4. Typed'
  BY <1>1, <1>2, <1>3 DEF Typed
<1> QED BY <1>1, <1>4, NothingPending DEF SweepInv

LEMMA UserSweeps == ASSUME SweepInv, UserMoves PROVE SweepInv'
<1>1. Typed /\ Pending(plan, seats, out, changed)
      /\ out' = out /\ locked' = locked /\ enabled' = enabled /\ plan' = plan
  BY DEF SweepInv, UserMoves
<1>2. events' \in Nat
  BY <1>1, EventTyped DEF UserMoves
<1>3. PICK p \in DOMAIN seats, d \in Destinations, i \in Slots \cup {NoIndex} :
        LET m == [player |-> p, destination |-> d, slot |-> i]
        IN  (Sendable(m, locked) /\ Place(m)) \/ Stops(m, locked) \/ Refuse(m, locked)
  BY DEF UserMoves
<1> DEFINE m == [player |-> p, destination |-> d, slot |-> i]
<1>4. m.destination \in Destinations /\ m.slot \in Slots \cup {NoIndex}
  OBVIOUS
<1>5. (Sendable(m, locked) /\ Place(m)) \/ Stops(m, locked) \/ Refuse(m, locked)
  BY <1>3
<1> HIDE DEF m
<1>6. /\ actual' \in Rosters /\ seats' \in Rosters /\ DOMAIN seats' = DOMAIN actual'
      /\ DOMAIN seats' = DOMAIN seats
  <2>1. CASE Sendable(m, locked) /\ Place(m)
    BY <1>1, <1>4, <2>1, PlaceFits
  <2>2. CASE Stops(m, locked)
    BY <1>1, <1>4, <2>2, StopsType
  <2>3. CASE Refuse(m, locked)
    BY <1>1, <2>3 DEF Refuse, Typed
  <2> QED BY <1>5, <2>1, <2>2, <2>3
<1>7. /\ changed' = IF plan' = << >> THEN {} ELSE changed \cup {q \in DOMAIN seats : seats'[q] # seats[q]}
      /\ board' \in {board, {}}
  BY DEF UserMoves, Noting
<1>8. changed' \subseteq Players /\ board' \subseteq Players
  BY <1>1, <1>7, RosterShape DEF Typed
<1>9. Typed'
  BY <1>1, <1>2, <1>6, <1>8 DEF Typed
<1>10. Pending(plan', seats', out', changed')
  <2>1. CASE plan = << >>
    BY <1>1, <2>1, NothingPending
  <2>2. CASE plan # << >>
    <3>1. changed \subseteq changed' /\ \A q \in DOMAIN seats : seats'[q] # seats[q] => q \in changed'
      BY <1>1, <1>7, <2>2
    <3> QED BY <1>1, <1>6, <3>1, NotedPending
  <2> QED BY <2>1, <2>2
<1> QED BY <1>9, <1>10 DEF SweepInv

LEMMA OthersSweep ==
    ASSUME SweepInv, Save \/ AppSwaps \/ Hurt \/ Heals \/ GameStarts
    PROVE  SweepInv'
<1>1. Typed /\ Pending(plan, seats, out, changed) /\ seats' = seats /\ plan' = plan
  BY DEF SweepInv, Save, AppSwaps, Hurt, Heals, GameStarts
<1>2. events' \in Nat
  BY <1>1, EventTyped DEF Save, AppSwaps, Hurt, Heals, GameStarts
<1>3. actual' \in Rosters /\ DOMAIN actual' = DOMAIN actual
  <2>1. CASE Save \/ Hurt \/ Heals \/ GameStarts
    BY <1>1, <2>1 DEF Save, Hurt, Heals, GameStarts, Typed
  <2>2. CASE AppSwaps
    <3>1. PICK p \in DOMAIN actual, q \in DOMAIN actual :
            /\ p # q /\ actual[q] \in Eligible[p] /\ actual[p] \in Eligible[q] \cup {Bench}
            /\ actual' = [actual EXCEPT ![p] = actual[q], ![q] = actual[p]]
      BY <2>2 DEF AppSwaps
    <3>2. actual \in Rosters
      BY <1>1 DEF Typed
    <3> QED BY <3>1, <3>2, ReseatedType
  <2> QED BY <2>1, <2>2
<1>4. /\ out' \subseteq Players /\ locked' \subseteq Players /\ enabled' \in BOOLEAN
      /\ changed' \subseteq Players /\ board' \subseteq Players
  BY <1>1 DEF Typed, Save, AppSwaps, Hurt, Heals, GameStarts, Noting
<1>5. Typed'
  BY <1>1, <1>2, <1>3, <1>4 DEF Typed
<1>6. Pending(plan', seats', out', changed')
  <2>1. CASE plan = << >>
    BY <1>1, <2>1, NothingPending
  <2>2. CASE plan # << >>
    <3>1. changed \subseteq changed' /\ out \subseteq out' \cup changed'
      BY <1>1, <2>2 DEF Save, AppSwaps, Hurt, Heals, GameStarts, Noting
    <3> QED BY <1>1, <3>1, NotedPending
  <2> QED BY <2>1, <2>2
<1> QED BY <1>5, <1>6 DEF SweepInv

LEMMA SweepNext == SweepInv /\ [ManagementNext]_managementVars => SweepInv'
<1> SUFFICES ASSUME SweepInv, [ManagementNext]_managementVars PROVE SweepInv'
  OBVIOUS
<1>1. CASE UNCHANGED managementVars
  BY <1>1 DEF managementVars, SweepInv, Typed
<1> QED BY <1>1, SweepBegins, SweepMovesOn, SweepEnds, UserSweeps, OthersSweep DEF ManagementNext

LEMMA AlwaysSweepInv == ManagementSpec => []SweepInv
  BY SweepInit, SweepNext, PTL DEF ManagementSpec

-----------------------------------------------------------------------------
(* The theorems about LineupManagement.                                    *)

\* Whatever the sweep, the user, the Sleeper app and the injury report do, the
\* rows stay a roster with one player a slot, the same players' as Sleeper's, and
\* the moves left are moves of its players.
THEOREM ManagementTypesHold == ManagementSpec => []ManagementTypes
<1>1. SweepInv => ManagementTypes
  BY DEF SweepInv, Typed, Pending, ManagementTypes
<1> QED BY <1>1, AlwaysSweepInv, PTL

\* What plan_management (services/lineup_management.py) plans for any saved
\* roster, whoever is hurt or has played: nobody is moved twice, no slot filled
\* twice, every substitute is the best left who can play and may fill the slot,
\* and whoever needs a substitute or may come off the reserve list gets his move.
THEOREM PlansSubstitute == ManagementSpec => []PlanSubstitutes
<1>1. ASSUME Typed PROVE PlanSubstitutes
  <2> DEFINE moves == Plan(seats)
             fit(p, i) == p \notin out \cup locked /\ seats[p] \notin Slots /\ i \in Eligible[p]
  <2>1. seats \in Rosters
    BY <1>1 DEF Typed
  <2>2. PlanFor(seats, moves)
    BY <2>1, PlanFits
  <2> HIDE DEF moves
  <2>3. \A k \in DOMAIN moves, q \in DOMAIN seats : moves[k].slot # NoIndex =>
          (q \in Candidates(seats, moves[k].slot, Before(moves, k)) <=>
             fit(q, moves[k].slot) /\ q \notin Before(moves, k))
    BY DEF Candidates
  <2>4. ASSUME NEW k \in DOMAIN moves, moves[k].slot # NoIndex
        PROVE  /\ fit(moves[k].player, moves[k].slot)
               /\ \A q \in DOMAIN seats \ Before(moves, k) :
                    fit(q, moves[k].slot) => Rank[moves[k].player] <= Rank[q]
    BY <2>2, <2>3, <2>4 DEF PlanFor
  <2>5. ASSUME NEW p \in out \ locked, p \in DOMAIN seats, seats[p] \in Slots
        PROVE  \/ \E k \in DOMAIN moves : moves[k].slot = seats[p]
               \/ \A q \in DOMAIN seats : fit(q, seats[p]) => q \in Picked(moves)
    <3>1. NeedsSub(seats, seats[p])
      BY <2>1, <2>5, AlignedSeats DEF NeedsSub
    <3>2. CASE Candidates(seats, seats[p], Picked(moves)) = {}
      BY <3>2 DEF Candidates
    <3> QED BY <2>2, <2>5, <3>1, <3>2 DEF PlanFor
  <2> QED BY <2>2, <2>4, <2>5 DEF PlanSubstitutes, PlanFor, Before, moves
<1>2. SweepInv => PlanSubstitutes
  BY <1>1 DEF SweepInv
<1> QED BY <1>2, AlwaysSweepInv, PTL

\* The lock check of move_player, as a sweep meets it: nobody whose game had
\* started on the scoreboard the sweep read gains or loses a starting slot or an IR
\* spot by a planned move, whoever moved and whichever list failed since the plan
\* was made; nor does he at Sleeper, if the rows were Sleeper's. A game that starts
\* after that read is not seen.
THEOREM StartedPlayersStay == ManagementSpec => StartedStay
<1> DEFINE Stay == SweepMoves => \A p \in board \cap DOMAIN seats :
              Stays(seats, p) /\ (seats = actual => Stays(actual, p))
<1>1. SweepInv /\ [ManagementNext]_managementVars => [Stay]_managementVars
  <2> SUFFICES ASSUME SweepInv, SweepMoves, NEW p \in board, p \in DOMAIN seats
               PROVE  Stays(seats, p) /\ (seats = actual => Stays(actual, p))
    OBVIOUS
  <2> DEFINE m == Head(plan)
  <2>1. plan # << >> /\ Sendable(m, board) /\ seats \in Rosters
    BY DEF SweepInv, Typed, SweepMoves, MoveApplied, MoveStops, Stops
  <2>2. m.destination \in Destinations /\ m.slot \in Slots \cup {NoIndex}
    BY <2>1, HeadMove
  <2>3. p \notin Reseated(m)
    BY <2>1 DEF Sendable
  <2>4. Place(m) \/ Stops(m, board)
    BY DEF SweepMoves, MoveApplied, MoveStops
  <2> HIDE DEF m
  <2>5. \A lists : LET n == With(seats, m, lists)
                   IN  seats[p] \in Slots \cup {IR} \/ n[p] \in Slots \cup {IR} => n[p] = seats[p]
    BY <2>1, <2>2, <2>3, WithStays
  <2>6. CASE Place(m) /\ AlreadyThere(m)
    BY <2>6 DEF Place, Stays
  <2>7. CASE Place(m) /\ ~AlreadyThere(m)
    <3>1. seats' = With(seats, m, {"starters", "reserve"}) /\ actual' = With(actual, m, Range(StepsOf(m)))
      BY <2>7 DEF Place, SleeperTakes, With, StartersOf, ReserveFor
    <3> QED BY <2>5, <3>1 DEF Stays
  <2>8. CASE Stops(m, board)
    <3>1. PICK saved, taken : seats' = With(seats, m, saved) /\ actual' = With(actual, m, taken)
      BY <2>8 DEF Stops, SleeperTakes
    <3> QED BY <2>5, <3>1 DEF Stays
  <2> QED BY <2>4, <2>6, <2>7, <2>8
<1> QED BY <1>1, AlwaysSweepInv, PTL DEF ManagementSpec, StartedStay

\* "Projection upgrades of a healthy starter are not made" (lineup_management.py:3),
\* to the end of the plan: a starter nobody else moved and who did not heal loses his
\* slot to a sweep only if he cannot play, and somebody takes the slot.
THEOREM OnlyStartersWhoCannotPlayLose == ManagementSpec => OnlySubsLoseTheirSlot
<1> DEFINE Loses == SweepMoves => \A p \in DOMAIN seats \ changed :
         seats[p] \in Slots /\ seats'[p] # seats[p] =>
            p \in out /\ \E q \in DOMAIN seats : seats'[q] = seats[p]
<1>1. SweepInv /\ [ManagementNext]_managementVars => [Loses]_managementVars
  <2> SUFFICES ASSUME SweepInv, SweepMoves, NEW p \in DOMAIN seats, p \notin changed,
                      seats[p] \in Slots, seats'[p] # seats[p]
               PROVE  p \in out /\ \E q \in DOMAIN seats : seats'[q] = seats[p]
    OBVIOUS
  <2> DEFINE m == Head(plan)
  <2>1. Typed /\ plan # << >> /\ Sendable(m, board) /\ seats \in Rosters
    BY DEF SweepInv, SweepMoves, MoveApplied, MoveStops, Stops, Typed
  <2>2. /\ m.destination \in Destinations /\ m.slot \in Slots \cup {NoIndex}
        /\ 1 \in DOMAIN plan /\ m = plan[1] /\ m \in Moves
    BY <2>1, HeadMove
  <2>3. /\ m.destination = "starter" <=> m.slot # NoIndex
        /\ m.player \in DOMAIN seats /\ (seats[m.player] \in Slots => m.player \in changed)
        /\ \A q \in DOMAIN seats : m.slot # NoIndex /\ seats[q] = m.slot => q \in out \cup changed
    BY <2>2 DEF SweepInv, Pending
  <2> HIDE DEF m
  <2>4. CASE Place(m)
    <3>1. ~AlreadyThere(m)
      BY <2>4 DEF Place
    <3>2. seats' = Placement(seats, WantedStarters(m), WantedReserve(m))
      BY <2>4, <3>1 DEF Place
    <3>3. p # m.player
      BY <2>3
    <3>4. m.destination = "starter" /\ seats[p] = m.slot /\ seats'[m.player] = m.slot
      BY <2>1, <2>2, <3>2, <3>3, EntersOwnSlot
    <3> QED BY <2>3, <3>4
  <2>5. CASE Stops(m, board)
    <3>1. m.destination \in {"starter", "bench"}
      BY <2>2 DEF Moves
    <3>2. /\ StepsOf(m) = <<"reserve", "starters">>
          /\ seats' = Placement(seats, AlignedStarters(seats), WantedReserve(m))
      BY <2>1, <2>2, <2>5, <3>1, StopsFits
    <3> QED BY <2>1, <2>2, <3>2, HalfFits
  <2> QED BY <2>4, <2>5 DEF SweepMoves, MoveApplied, MoveStops, m
<1> QED BY <1>1, AlwaysSweepInv, PTL DEF ManagementSpec, OnlySubsLoseTheirSlot

-----------------------------------------------------------------------------
(* Moves and swaps, on the roster they are made for.                       *)

\* A whole move reseats its player, and the occupant of the slot he starts in.
LEMMA MoveReseats ==
    ASSUME NEW r \in Rosters, NEW p \in DOMAIN r, NEW destination \in Destinations,
           NEW target \in Slots \cup {NoIndex}, destination = "starter" => target \in Slots,
           NEW q \in DOMAIN r, q # p,
           destination = "starter" => AlignedStarters(r)[target] # q
    PROVE  Placement(r, DesiredStarters(r, p, destination, target),
                        DesiredReserve(r, p, destination))[q] = r[q]
<1> DEFINE S == DesiredStarters(r, p, destination, target)
           R == DesiredReserve(r, p, destination)
           n == Placement(r, S, R)
           A == AlignedStarters(r)
<1>1. DOMAIN r \subseteq Players /\ r[q] \in Seats
  BY RosterShape
<1>2. S \in Lineups /\ Injective(S)
  BY DesiredType, DesiredFits
<1>3. ASSUME NEW i \in Slots PROVE S[i] = q <=> A[i] = q
  <2> DEFINE W == Without(A, p)
  <2>1. W[i] = q <=> A[i] = q
    BY <1>1, RosterAssumption DEF Without
  <2>2. W \in [Slots -> {W[j] : j \in Slots}]
    BY DEF Without
  <2> HIDE DEF W
  <2>3. CASE destination = "starter"
    <3>1. S = [W EXCEPT ![target] = p]
      BY <2>3 DEF DesiredStarters, W
    <3>2. S[i] = IF i = target THEN p ELSE W[i]
      BY <2>2, <3>1
    <3> QED BY <2>1, <2>3, <3>2
  <2>4. CASE destination # "starter"
    BY <2>1, <2>4 DEF DesiredStarters, W
  <2> QED BY <2>3, <2>4
<1>4. q \in R <=> r[q] = IR
  BY DEF DesiredReserve, ReserveOf
<1>5. \A i \in Slots : A[i] = q <=> r[q] = i
  BY <1>1, AlignedSeats, RosterAssumption
<1>6. n[q] = IF q \in Starting(S) THEN CHOOSE i \in Slots : S[i] = q
             ELSE IF q \in R THEN IR ELSE IF r[q] = Taxi THEN Taxi ELSE Bench
  BY DEF Placement
<1>7. q # NoPlayer
  BY <1>1, RosterAssumption
<1> HIDE DEF S, R, n, A
<1>8. CASE r[q] \in Slots
  <2>1. S[r[q]] = q
    BY <1>3, <1>5, <1>8
  <2>2. q \in Starting(S) /\ (CHOOSE i \in Slots : S[i] = q) = r[q]
    BY <1>2, <1>7, <1>8, <2>1, OnlySlot
  <2> QED BY <1>6, <2>2 DEF n, S, R
<1>9. CASE r[q] \notin Slots
  <2>1. q \notin Starting(S)
    BY <1>3, <1>5, <1>9 DEF Starting
  <2>2. r[q] \in {Bench, IR, Taxi}
    BY <1>1, <1>9 DEF Seats
  <2> QED BY <1>4, <1>6, <2>1, <2>2, RosterAssumption DEF n, S, R
<1> QED BY <1>8, <1>9

\* What a proposal is, shown on a page with its mark.
Proposals ==
    [player : Players, destination : Destinations, slot : Slots \cup {NoIndex},
     over : Players \cup {NoPlayer}]
Pages == [offer : Proposals, fresh : BOOLEAN]

\* A proposal fits a roster: the slot it names holds the starter it names, or
\* already the player it would start.
Fit(o, r) == o.destination = "starter" => o.slot \in Slots /\ AlignedStarters(r)[o.slot] \in {o.over, o.player}

LEMMA AfterMoveType ==
    ASSUME entries \in Rosters, NEW o, o.destination \in Destinations, NEW kickoffs, NEW n \in AfterMove(o, kickoffs)
    PROVE  n \in Rosters /\ DOMAIN n = DOMAIN entries
<1>1. PICK i \in Allowed(o, kickoffs) : n = Placement(entries, DesiredS(o, i), DesiredR(o))
  BY DEF AfterMove
<1>2. /\ o.player \in DOMAIN entries
      /\ i \in Slots \cup {NoIndex}
  <2>1. o.player \in DOMAIN entries
    BY DEF Allowed, Legal
  <2>2. Eligible[o.player] \subseteq Slots
    BY <2>1, RosterShape, RosterAssumption
  <2> QED BY <2>1, <2>2 DEF Allowed, TargetSlots, OpenSlots
<1>3. DesiredS(o, i) \in Lineups
  BY <1>2, DesiredType DEF DesiredS
<1> QED BY <1>1, <1>3, PlacementType DEF Placement

\* An approved proposal that fits moves its player, and the starter it names.
LEMMA AfterMoveFits ==
    ASSUME entries \in Rosters, NEW o \in Proposals, Fit(o, entries), NEW kickoffs, NEW n \in AfterMove(o, kickoffs)
    PROVE  /\ \A q \in DOMAIN entries : n[q] # entries[q] => q \in {o.player, o.over}
           /\ o.destination = "starter" =>
                \A i \in Slots : i # o.slot /\ AlignedStarters(entries)[i] # o.player =>
                  AlignedStarters(n)[i] = AlignedStarters(entries)[i]
<1>1. PICK i \in Allowed(o, kickoffs) : n = Placement(entries, DesiredS(o, i), DesiredR(o))
  BY DEF AfterMove
<1>2. o.player \in DOMAIN entries /\ o.destination \in Destinations
  BY DEF Allowed, Legal, Proposals
<1>3. IF o.destination = "starter" THEN i = o.slot /\ i \in Slots ELSE i = NoIndex
  BY RosterAssumption DEF Allowed, TargetSlots, Fit
<1>4. /\ n = Placement(entries, DesiredStarters(entries, o.player, o.destination, i),
                                DesiredReserve(entries, o.player, o.destination))
      /\ i \in Slots \cup {NoIndex} /\ (o.destination = "starter" => i \in Slots)
  BY <1>1, <1>3 DEF DesiredS, DesiredR
<1>5. ASSUME NEW q \in DOMAIN entries, q \notin {o.player, o.over} PROVE n[q] = entries[q]
  <2>1. o.destination = "starter" => AlignedStarters(entries)[i] # q
    BY <1>3, <1>5 DEF Fit
  <2> QED BY <1>2, <1>4, <1>5, <2>1, MoveReseats
<1>6. ASSUME o.destination = "starter", NEW k \in Slots, k # o.slot,
             AlignedStarters(entries)[k] # o.player
      PROVE  AlignedStarters(n)[k] = AlignedStarters(entries)[k]
  <2> DEFINE S == DesiredStarters(entries, o.player, o.destination, i)
             R == DesiredReserve(entries, o.player, o.destination)
  <2>1. S \in Lineups /\ Injective(S) /\ Starting(S) \subseteq DOMAIN entries /\ R \subseteq DOMAIN entries
    BY <1>2, <1>4, DesiredType, DesiredFits
  <2>2. S[k] = AlignedStarters(entries)[k]
    BY <1>3, <1>6 DEF DesiredStarters, Without
  <2> HIDE DEF S, R
  <2>3. AlignedStarters(Placement(entries, S, R)) = S
    BY <2>1, PlacementFits
  <2> QED BY <1>4, <2>2, <2>3 DEF S, R
<1> QED BY <1>5, <1>6

\* Whether it fits or not, a move takes the slot of whoever else it reseats.
LEMMA AfterMoveTakes ==
    ASSUME entries \in Rosters, NEW o \in Proposals, NEW kickoffs, NEW n \in AfterMove(o, kickoffs),
           NEW q \in DOMAIN entries, q # o.player, n[q] # entries[q]
    PROVE  entries[q] \in Slots /\ n[o.player] = entries[q]
<1>1. PICK i \in Allowed(o, kickoffs) : n = Placement(entries, DesiredS(o, i), DesiredR(o))
  BY DEF AfterMove
<1>2. o.player \in DOMAIN entries /\ o.destination \in Destinations
  BY DEF Allowed, Legal, Proposals
<1>3. Eligible[o.player] \subseteq Slots
  BY <1>2, RosterShape, RosterAssumption
<1>4. i \in Slots \cup {NoIndex} /\ (o.destination = "starter" => i \in Slots)
  BY <1>3 DEF Allowed, TargetSlots, OpenSlots
<1> DEFINE S == DesiredStarters(entries, o.player, o.destination, i)
<1>5. n = Placement(entries, S, DesiredReserve(entries, o.player, o.destination))
  BY <1>1 DEF DesiredS, DesiredR
<1>6. o.destination = "starter" /\ AlignedStarters(entries)[i] = q
  BY <1>2, <1>4, <1>5, MoveReseats
<1>7. i \in Slots /\ q # NoPlayer /\ entries[q] = i
  BY <1>4, <1>6, RosterShape, RosterAssumption, AlignedSeats
<1>8. S \in Lineups /\ Injective(S)
  BY <1>2, <1>4, DesiredType, DesiredFits
<1>9. S[i] = o.player /\ o.player # NoPlayer
  <2>1. S = [Without(AlignedStarters(entries), o.player) EXCEPT ![i] = o.player]
    BY <1>6 DEF DesiredStarters
  <2>2. Without(AlignedStarters(entries), o.player) \in [Slots -> {Without(AlignedStarters(entries), o.player)[j] : j \in Slots}]
    BY DEF Without
  <2> QED BY <1>2, <1>7, <2>1, <2>2, RosterShape, RosterAssumption
<1> HIDE DEF S
<1>10. o.player \in Starting(S) /\ (CHOOSE k \in Slots : S[k] = o.player) = i
  BY <1>7, <1>8, <1>9, OnlySlot
<1>11. n[o.player] = i
  BY <1>2, <1>5, <1>10 DEF Placement
<1> QED BY <1>7, <1>11

\* The candidates of a slot are in an order without ties.
LEMMA BestAlone ==
    ASSUME NEW view, NEW pool \in SUBSET Players, NEW p \in BestOf(view, pool),
           NEW q \in BestOf(view, pool)
    PROVE  p = q
<1>1. Better(view, p, q) /\ Better(view, q, p) /\ p \in Players /\ q \in Players
  BY DEF BestOf
<1>2. /\ \A r \in DOMAIN Points : Points[r] \in Nat
      /\ Order[p] \in Nat /\ Order[q] \in Nat /\ (Order[p] = Order[q] => p = q)
  BY <1>1, AdviceAssumption
<1>3. Order[p] <= Order[q] /\ Order[q] <= Order[p]
  <2>1. CASE p \in DOMAIN Points /\ q \in DOMAIN Points
    BY <1>1, <1>2, <2>1 DEF Better
  <2>2. CASE p \notin DOMAIN Points \/ q \notin DOMAIN Points
    BY <1>1, <2>2 DEF Better
  <2> QED BY <2>1, <2>2
<1> QED BY <1>2, <1>3

\* The swaps of the first n visits: each brings a bench player in for the starter
\* of a slot visited - once for a starter who cannot play, in the second round for
\* one who can - and no player and no slot comes twice.
SwapsFor(view, swaps, n) ==
    /\ swaps \subseteq Proposals
    /\ \A s \in swaps :
         /\ s.destination = "starter" /\ s.slot \in Slots
         /\ s.over = Occupant(view, s.slot) /\ s.over # NoPlayer
         /\ s.player \in BenchOf(view)
         /\ (IF IsUnavailable(view, s.over) THEN s.slot ELSE s.slot + NumSlots) <= n
    /\ \A s, t \in swaps : s # t => s.player # t.player /\ s.slot # t.slot

LEMMA VisitFits ==
    ASSUME NEW view, view.seats \in Rosters, NEW n \in 1..(2 * NumSlots), NEW swaps,
           SwapsFor(view, swaps, n - 1)
    PROVE  SwapsFor(view, Visit(view, swaps, n), n)
<1> DEFINE i == IF n <= NumSlots THEN n ELSE n - NumSlots
           p == Occupant(view, i)
           candidates == IF n <= NumSlots THEN Covers(view, swaps, i) ELSE Upgrades(view, swaps, i)
           new == {Offer(q, "starter", i, p) : q \in candidates}
<1>1. NumSlots \in Nat /\ n \in Nat /\ i \in Slots
  BY RosterAssumption DEF Slots
<1>2. DOMAIN view.seats \subseteq Players
  BY RosterShape
<1>3. p \in Players \cup {NoPlayer}
  BY <1>1, <1>2, AlignedSeats DEF Occupant
<1>4. /\ Visit(view, swaps, n) = swaps \/ Visit(view, swaps, n) = swaps \cup new
      /\ p = NoPlayer => Visit(view, swaps, n) = swaps
  BY DEF Visit
<1>5. SwapsFor(view, swaps, n)
  BY <1>1 DEF SwapsFor, Slots
<1>6. ASSUME NEW q \in candidates
      PROVE  /\ q \in BenchOf(view) /\ q \in Players /\ q \notin Used(swaps)
             /\ IsUnavailable(view, p) <=> n <= NumSlots
             /\ \A r \in candidates : r = q
  <2> DEFINE free == BenchCandidates(view, i, Used(swaps))
             well == {r \in free : r \in DOMAIN Points /\ IsHealthy(view, r)}
             pool == IF n <= NumSlots THEN free ELSE well
  <2>1. free \subseteq BenchOf(view) \ Used(swaps) /\ well \subseteq free
    BY DEF BenchCandidates
  <2>2. BenchOf(view) \subseteq Players
    BY <1>2 DEF BenchOf
  <2>3. \A r \in candidates : r \in BestOf(view, pool) /\ (IsUnavailable(view, p) <=> n <= NumSlots)
    BY DEF Covers, Upgrades
  <2>4. \A r \in BestOf(view, pool) : r \in pool
    BY DEF BestOf
  <2> HIDE DEF free, well, candidates
  <2>5. pool \in SUBSET Players
    BY <2>1, <2>2
  <2> HIDE DEF pool
  <2>6. \A r \in candidates : r = q
    BY <1>6, <2>3, <2>5, BestAlone
  <2>7. q \in free
    BY <1>6, <2>1, <2>3, <2>4 DEF pool
  <2> QED BY <1>6, <2>1, <2>2, <2>3, <2>6, <2>7
<1> HIDE DEF candidates
<1>7. ASSUME NEW s \in new
      PROVE  /\ s \in Proposals /\ s.destination = "starter" /\ s.slot = i /\ s.over = p
             /\ s.player \in BenchOf(view) /\ s.player \notin Used(swaps)
             /\ (IF IsUnavailable(view, p) THEN i ELSE i + NumSlots) = n
             /\ \A t \in new : t = s
  <2>1. PICK q \in candidates : s = Offer(q, "starter", i, p)
    OBVIOUS
  <2>2. /\ q \in BenchOf(view) /\ q \in Players /\ q \notin Used(swaps)
        /\ IsUnavailable(view, p) <=> n <= NumSlots
        /\ \A r \in candidates : r = q
    BY <1>6
  <2>3. (IF IsUnavailable(view, p) THEN i ELSE i + NumSlots) = n
    BY <1>1, <2>2
  <2>4. \A t \in new : t = s
    BY <2>1, <2>2
  <2> HIDE DEF i, p, new
  <2>5. s \in Proposals /\ s.destination = "starter" /\ s.slot = i /\ s.over = p /\ s.player = q
    BY <1>1, <1>3, <2>1, <2>2 DEF Offer, Proposals, Destinations
  <2> QED BY <2>2, <2>3, <2>4, <2>5
<1>8. ASSUME NEW s \in swaps, NEW t \in new PROVE s.player # t.player /\ s.slot # t.slot
  <2>1. /\ t.slot = i /\ t.player \notin Used(swaps)
        /\ (IF IsUnavailable(view, p) THEN i ELSE i + NumSlots) = n
    BY <1>7
  <2>2. s.player # t.player
    BY <2>1 DEF Used
  <2>3. /\ s.over = Occupant(view, s.slot) /\ s.slot \in Nat
        /\ (IF IsUnavailable(view, s.over) THEN s.slot ELSE s.slot + NumSlots) <= n - 1
    BY DEF SwapsFor, Slots
  <2>4. s.slot # i
    <3> SUFFICES ASSUME s.slot = i PROVE FALSE
      OBVIOUS
    <3>1. s.over = p
      BY <2>3
    <3> HIDE DEF p, i
    <3> QED BY <1>1, <2>1, <2>3, <3>1
  <2> QED BY <2>1, <2>2, <2>4
<1> HIDE DEF new
<1>9. ASSUME p # NoPlayer PROVE SwapsFor(view, swaps \cup new, n)
  <2>1. swaps \cup new \subseteq Proposals
    BY <1>7 DEF SwapsFor
  <2>2. ASSUME NEW s \in swaps \cup new
        PROVE  /\ s.destination = "starter" /\ s.slot \in Slots
               /\ s.over = Occupant(view, s.slot) /\ s.over # NoPlayer
               /\ s.player \in BenchOf(view)
               /\ (IF IsUnavailable(view, s.over) THEN s.slot ELSE s.slot + NumSlots) <= n
    <3>1. CASE s \in swaps
      BY <1>5, <3>1 DEF SwapsFor
    <3>2. CASE s \in new
      <4>1. /\ s.destination = "starter" /\ s.slot = i /\ s.over = p /\ s.player \in BenchOf(view)
            /\ (IF IsUnavailable(view, p) THEN i ELSE i + NumSlots) = n
        BY <1>7, <3>2
      <4>2. s.over = Occupant(view, s.slot)
        BY <4>1
      <4>3. s.over # NoPlayer
        BY <1>9, <4>1
      <4> HIDE DEF p, i
      <4> QED BY <1>1, <4>1, <4>2, <4>3
    <3> QED BY <3>1, <3>2
  <2>3. ASSUME NEW s \in swaps \cup new, NEW t \in swaps \cup new, s # t
        PROVE  s.player # t.player /\ s.slot # t.slot
    <3>1. CASE s \in swaps /\ t \in swaps
      BY <2>3, <3>1 DEF SwapsFor
    <3>2. CASE s \in new /\ t \in new
      BY <1>7, <2>3, <3>2
    <3>3. CASE s \in swaps /\ t \in new
      BY <1>8, <3>3
    <3>4. CASE s \in new /\ t \in swaps
      BY <1>8, <3>4
    <3> QED BY <2>3, <3>1, <3>2, <3>3, <3>4
  <2> QED BY <2>1, <2>2, <2>3 DEF SwapsFor
<1> QED BY <1>4, <1>5, <1>9

\* The swaps visit by visit, up to visit n.
Walked(view, g, n) ==
    /\ g = [k \in 0..n |-> g[k]]
    /\ g[0] = {}
    /\ \A k \in 1..n : g[k] = Visit(view, g[k - 1], k)

LEMMA WalkExists ==
    ASSUME NEW view, NEW n \in Nat
    PROVE  \E g : Walked(view, g, n)
<1> DEFINE Missing == {k \in Nat : ~ \E g : Walked(view, g, k)}
<1> SUFFICES ASSUME Missing # {} PROVE FALSE
  OBVIOUS
<1>1. PICK k \in Missing : \A l \in Missing : k <= l
  BY LeastOf
<1>2. CASE k = 0
  <2> DEFINE g == [i \in 0..0 |-> {}]
  <2>1. Walked(view, g, 0)
    BY DEF Walked
  <2> QED BY <1>1, <1>2, <2>1
<1>3. CASE k # 0
  <2>1. k - 1 \in Nat /\ k \in Nat /\ k \in 1..k /\ ~(k <= k - 1)
    BY <1>1, <1>3
  <2>2. k - 1 \notin Missing
    BY <1>1, <2>1
  <2>3. PICK g : Walked(view, g, k - 1)
    BY <2>1, <2>2
  <2> DEFINE h == [i \in 0..k |-> IF i = k THEN Visit(view, g[k - 1], k) ELSE g[i]]
  <2>4. \A i \in 0..k : h[i] = IF i = k THEN Visit(view, g[k - 1], k) ELSE g[i]
    OBVIOUS
  <2>5. h = [i \in 0..k |-> h[i]]
    OBVIOUS
  <2> HIDE DEF h
  <2>6. 0 \in 0..k /\ 0 # k /\ \A i \in 1..k : i \in 0..k /\ i - 1 \in 0..k /\ i - 1 # k
    BY <2>1
  <2>7. \A i \in 1..k : i # k => i \in 1..(k - 1)
    BY <2>1
  <2>8. h[0] = {}
    BY <2>3, <2>4, <2>6 DEF Walked
  <2>9. ASSUME NEW i \in 1..k PROVE h[i] = Visit(view, h[i - 1], i)
    <3>1. h[i - 1] = g[i - 1]
      BY <2>4, <2>6
    <3>2. CASE i = k
      BY <2>4, <2>6, <3>1, <3>2
    <3>3. CASE i # k
      <4>1. h[i] = g[i]
        BY <2>4, <2>6, <3>3
      <4>2. g[i] = Visit(view, g[i - 1], i)
        BY <2>3, <2>7, <3>3 DEF Walked
      <4> QED BY <3>1, <4>1, <4>2
    <3> QED BY <3>2, <3>3
  <2>10. Walked(view, h, k)
    BY <2>5, <2>8, <2>9 DEF Walked
  <2> QED BY <1>1, <2>10
<1> QED BY <1>2, <1>3

LEMMA SwapsAreWalked ==
    ASSUME NEW view
    PROVE  \E g : Walked(view, g, 2 * NumSlots) /\ SuggestSwaps(view) = g[2 * NumSlots]
<1> DEFINE last == 2 * NumSlots
           Walk(g) == [n \in 0..last |-> IF n = 0 THEN {} ELSE Visit(view, g[n - 1], n)]
           swaps == CHOOSE g : g = Walk(g)
<1>1. last \in Nat
  BY RosterAssumption
<1>2. SuggestSwaps(view) = swaps[last]
  BY DEF SuggestSwaps
<1> HIDE DEF last
<1>3. PICK g : Walked(view, g, last)
  BY <1>1, WalkExists
<1>4. g = Walk(g)
  <2>1. \A n \in 0..last : n = 0 \/ n \in 1..last
    BY <1>1
  <2>2. \A n \in 0..last : g[n] = IF n = 0 THEN {} ELSE Visit(view, g[n - 1], n)
    BY <1>3, <2>1 DEF Walked
  <2>3. g = [n \in 0..last |-> g[n]]
    BY <1>3 DEF Walked
  <2> QED BY <2>2, <2>3
<1>5. swaps = Walk(swaps)
  BY <1>4
<1> HIDE DEF swaps
<1>6. \A n \in 0..last : swaps[n] = IF n = 0 THEN {} ELSE Visit(view, swaps[n - 1], n)
  BY <1>5
<1>7. 0 \in 0..last /\ \A n \in 1..last : n \in 0..last /\ n # 0
  BY <1>1
<1>8. swaps[0] = {} /\ \A n \in 1..last : swaps[n] = Visit(view, swaps[n - 1], n)
  BY <1>6, <1>7
<1>9. swaps = [n \in 0..last |-> swaps[n]]
  BY <1>5
<1>10. Walked(view, swaps, last)
  BY <1>8, <1>9 DEF Walked
<1> QED BY <1>2, <1>10 DEF last

LEMMA StartSitFits ==
    ASSUME NEW view, view.seats \in Rosters
    PROVE  SwapsFor(view, StartSit(view), 2 * NumSlots)
<1> DEFINE last == 2 * NumSlots
<1>1. last \in Nat
  BY RosterAssumption
<1>2. PICK g : Walked(view, g, last) /\ SuggestSwaps(view) = g[last]
  BY SwapsAreWalked
<1> HIDE DEF last
<1> DEFINE Bad == {n \in 0..last : ~SwapsFor(view, g[n], n)}
<1>3. SwapsFor(view, g[last], last)
  <2> SUFFICES ASSUME Bad # {} PROVE FALSE
    BY <1>1
  <2>1. Bad \in SUBSET Nat
    BY <1>1
  <2>2. PICK n \in Bad : \A k \in Bad : n <= k
    BY <2>1, LeastOf
  <2>3. CASE n = 0
    <3>1. SwapsFor(view, {}, 0)
      BY DEF SwapsFor
    <3> QED BY <1>2, <2>2, <2>3, <3>1 DEF Walked
  <2>4. CASE n # 0
    <3>1. n \in 1..last /\ n - 1 \in 0..last /\ ~(n <= n - 1)
      BY <1>1, <2>2, <2>4
    <3>2. n - 1 \notin Bad
      BY <2>2, <3>1
    <3>3. SwapsFor(view, g[n - 1], n - 1)
      BY <3>1, <3>2
    <3>4. g[n] = Visit(view, g[n - 1], n)
      BY <1>2, <3>1 DEF Walked
    <3>5. SwapsFor(view, g[n], n)
      BY <3>1, <3>3, <3>4, VisitFits DEF last
    <3> QED BY <2>2, <3>5
  <2> QED BY <2>3, <2>4
<1> QED BY <1>2, <1>3 DEF StartSit, last

-----------------------------------------------------------------------------
(* The assistant's state.                                                  *)

Chats ==
    [kind : ChatKinds, stage : {"asking", "tools", "closing", "schema"}, auto : BOOLEAN,
     base : Rosters, cache : Rosters \cup {NoView}, board : SUBSET Players, rounds : Nat, calls : Int, attempt : Nat,
     tries : Nat, wrote : BOOLEAN, pending : SUBSET Proposals, fresh : BOOLEAN]

StartedTyped == started \in SUBSET Players

AssistantTyped ==
    /\ entries \in Rosters /\ outside \in Nat
    /\ offers \subseteq Pages /\ notes \subseteq Pages
    /\ chat \in Chats \cup {NoChat}

\* What a request knows of the lineup: nothing waits for approval in a chat that
\* writes on its own; until somebody else changes the lineup, the context the tools
\* cached is the lineup, the team the chat started with is too unless one of its
\* tools has written, and what its tools proposed fits.
ChatFits(c, r) ==
    /\ c.auto => c.kind = "chat" /\ c.pending = {}
    /\ c.fresh =>
         /\ c.cache \in {r, NoView}
         /\ ~c.wrote => c.base = r
         /\ \A o \in c.pending : Fit(o, r)

\* The notes of a page are of one age, each about a player on the bench, no two
\* about one player or one slot.
NotesFit ==
    /\ \A s \in notes : s.fresh =>
         s.offer.destination = "starter" /\ s.offer.player \in DOMAIN entries /\ entries[s.offer.player] = Bench
    /\ \A s, t \in notes :
         /\ s.fresh = t.fresh
         /\ s.offer # t.offer => s.offer.player # t.offer.player /\ s.offer.slot # t.offer.slot

PagesFit(pages, r) == \A s \in pages : s.fresh => Fit(s.offer, r)

AssistantInv ==
    /\ AssistantTyped
    /\ Running => ChatFits(chat, entries)
    /\ PagesFit(offers, entries) /\ PagesFit(notes, entries)
    /\ NotesFit

\* What is stale keeps its type.
LEMMA StalePages ==
    ASSUME NEW shown \in SUBSET Pages
    PROVE  /\ Stale(shown) \subseteq Pages
           /\ \A s \in Stale(shown) : s.fresh = FALSE /\ \E t \in shown : s.offer = t.offer
<1>1. ASSUME NEW s \in Stale(shown)
      PROVE  s \in Pages /\ s.fresh = FALSE /\ \E t \in shown : s.offer = t.offer
  <2>1. PICK t \in shown : s = [t EXCEPT !.fresh = FALSE]
    BY DEF Stale
  <2>2. t \in Pages
    OBVIOUS
  <2> QED BY <2>1, <2>2 DEF Pages
<1> QED BY <1>1

LEMMA ShownPages ==
    ASSUME NEW moves \in SUBSET Proposals
    PROVE  /\ Shown(moves) \subseteq Pages
           /\ \A s \in Shown(moves) : s.fresh = TRUE /\ s.offer \in moves
  BY DEF Shown, Pages

LEMMA ChatIsNone == \A c \in Chats : c # NoChat
  BY DEF Chats, ChatKinds, NoChat

\* Once the lineup changes, nothing shown claims to fit it.
LEMMA LineupChanged ==
    ASSUME AssistantInv, entries' \in Rosters, outside' \in Nat,
           offers' \subseteq Stale(offers), notes' = Stale(notes),
           chat' \in Chats \cup {NoChat}, Running' => ChatFits(chat', entries')
    PROVE  AssistantInv'
<1>1. AssistantTyped /\ NotesFit
  BY DEF AssistantInv
<1>2. /\ offers' \subseteq Pages /\ \A s \in offers' : s.fresh = FALSE
      /\ notes' \subseteq Pages
      /\ \A s \in notes' : s.fresh = FALSE /\ \E t \in notes : s.offer = t.offer
  BY <1>1, StalePages DEF AssistantTyped
<1>3. \A s, t \in notes' : s.offer # t.offer => s.offer.player # t.offer.player /\ s.offer.slot # t.offer.slot
  BY <1>1, <1>2 DEF NotesFit
<1>4. NotesFit'
  BY <1>2, <1>3 DEF NotesFit
<1> QED BY <1>2, <1>4 DEF AssistantInv, AssistantTyped, PagesFit

\* Nor does a request that somebody else's change has reached.
LEMMA OutdatedFits ==
    ASSUME AssistantInv, NEW r
    PROVE  Outdated \in Chats \cup {NoChat} /\ (Outdated # NoChat => ChatFits(Outdated, r))
<1>1. CASE chat = NoChat
  BY <1>1 DEF Outdated, Running
<1>2. CASE chat # NoChat
  <2>1. chat \in Chats /\ ChatFits(chat, entries)
    BY <1>2 DEF AssistantInv, AssistantTyped, Running
  <2>2. Outdated = [chat EXCEPT !.fresh = FALSE]
    BY <1>2 DEF Outdated, Running
  <2>3. /\ Outdated \in Chats /\ Outdated.fresh = FALSE
        /\ Outdated.auto = chat.auto /\ Outdated.kind = chat.kind /\ Outdated.pending = chat.pending
    BY <2>1, <2>2 DEF Chats
  <2> QED BY <2>1, <2>3 DEF ChatFits
<1> QED BY <1>1, <1>2

\* A step that leaves the lineup alone, and what is shown but for new offers that fit.
LEMMA LineupKept ==
    ASSUME AssistantInv, entries' = entries, outside' \in Nat,
           notes' = notes, chat' \in Chats \cup {NoChat}, Running' => ChatFits(chat', entries),
           NEW more \in SUBSET Pages, PagesFit(more, entries), offers' \subseteq offers \cup more
    PROVE  AssistantInv'
<1>1. AssistantTyped' /\ PagesFit(offers', entries')
  BY DEF AssistantInv, AssistantTyped, PagesFit
<1> QED BY <1>1 DEF AssistantInv, NotesFit, PagesFit

-----------------------------------------------------------------------------
(* What is proposed fits.                                                  *)

LEMMA OccupantType ==
    ASSUME NEW view, view.seats \in Rosters, NEW i \in Slots
    PROVE  Occupant(view, i) \in Players \cup {NoPlayer}
  BY AlignedSeats, RosterShape DEF Occupant

LEMMA SwapsMentionedFit ==
    ASSUME NEW view, view.seats \in Rosters, NEW said,
           \A pair \in said : pair[1] \in DOMAIN view.seats /\ pair[2] \in DOMAIN view.seats
    PROVE  \A o \in SwapsMentioned(view, said) : o \in Proposals /\ Fit(o, view.seats)
<1> TAKE o \in SwapsMentioned(view, said)
<1>1. PICK pair \in said : /\ view.seats[pair[2]] \in Slots
                           /\ o = Offer(pair[1], "starter", view.seats[pair[2]], pair[2])
  BY DEF SwapsMentioned
<1>2. pair[1] \in Players /\ pair[2] \in Players
  BY RosterShape
<1>3. AlignedStarters(view.seats)[view.seats[pair[2]]] = pair[2]
  BY <1>1, AlignedSeats
<1> QED BY <1>1, <1>2, <1>3 DEF Offer, Proposals, Destinations, Fit

LEMMA SubsProposedFit ==
    ASSUME NEW view, view.seats \in Rosters, NEW p \in DOMAIN view.seats, NEW q \in DOMAIN view.seats
    PROVE  \A o \in SubOne(view, p) \cup SubPair(view, p, q) : o \in Proposals /\ Fit(o, view.seats)
<1> DEFINE Seated(x) == view.seats[x] \in Slots
<1>1. DOMAIN view.seats \subseteq Players
  BY RosterShape
<1>2. ASSUME NEW x \in DOMAIN view.seats, NEW y \in DOMAIN view.seats, Seated(y)
      PROVE  LET o == Offer(x, "starter", view.seats[y], y) IN o \in Proposals /\ Fit(o, view.seats)
  <2>1. AlignedStarters(view.seats)[view.seats[y]] = y
    BY <1>2, AlignedSeats
  <2> QED BY <1>1, <1>2, <2>1 DEF Offer, Proposals, Destinations, Fit
<1>3. ASSUME NEW o \in SubOne(view, p) PROVE o \in Proposals /\ Fit(o, view.seats)
  <2>1. CASE Seated(p)
    <3>1. PICK x \in Available(view) : o = Offer(x, "starter", view.seats[p], p)
      BY <1>3, <2>1 DEF SubOne, Replacements
    <3>2. x \in DOMAIN view.seats
      BY <3>1 DEF Available
    <3> QED BY <1>2, <2>1, <3>1, <3>2
  <2>2. CASE ~Seated(p)
    <3>1. PICK i \in Eligible[p] : o = Offer(p, "starter", i, Occupant(view, i))
      BY <1>3, <2>2 DEF SubOne, SubDestinations
    <3>2. i \in Slots
      BY <1>1, <3>1, RosterAssumption
    <3>3. Occupant(view, i) \in Players \cup {NoPlayer}
      BY <3>2, OccupantType
    <3> QED BY <1>1, <3>1, <3>2, <3>3 DEF Offer, Proposals, Destinations, Fit, Occupant
  <2> QED BY <2>1, <2>2
<1>4. ASSUME NEW o \in SubPair(view, p, q) PROVE o \in Proposals /\ Fit(o, view.seats)
  <2>1. \/ Seated(q) /\ o = Offer(p, "starter", view.seats[q], q)
        \/ Seated(p) /\ o = Offer(q, "starter", view.seats[p], p)
    BY <1>4 DEF SubPair
  <2> QED BY <1>2, <2>1
<1> QED BY <1>3, <1>4

LEMMA StartOfferFits ==
    ASSUME NEW view, view.seats \in Rosters, NEW p \in Players, NEW i \in Slots
    PROVE  StartOffer(view, p, i) \in Proposals /\ Fit(StartOffer(view, p, i), view.seats)
<1>1. Occupant(view, i) \in Players \cup {NoPlayer}
  BY OccupantType
<1> QED BY <1>1 DEF StartOffer, Offer, Proposals, Destinations, Fit, Occupant

LEMMA NotesProposedFit ==
    ASSUME NEW view, view.seats \in Rosters
    PROVE  LET swaps == StartSit(view)
           IN  /\ \A o \in swaps : /\ o \in Proposals /\ Fit(o, view.seats) /\ o.destination = "starter"
                                   /\ o.player \in DOMAIN view.seats /\ view.seats[o.player] = Bench
                                   /\ o.over \in DOMAIN view.seats
               /\ \A o, u \in swaps : o # u => o.player # u.player /\ o.slot # u.slot
<1>1. SwapsFor(view, StartSit(view), 2 * NumSlots)
  BY StartSitFits
<1>2. ASSUME NEW o \in StartSit(view)
      PROVE  /\ o \in Proposals /\ Fit(o, view.seats) /\ o.destination = "starter"
             /\ o.player \in DOMAIN view.seats /\ view.seats[o.player] = Bench
             /\ o.over \in DOMAIN view.seats
  BY <1>1, AlignedSeats DEF SwapsFor, Fit, Occupant, BenchOf
<1> QED BY <1>1, <1>2 DEF SwapsFor

-----------------------------------------------------------------------------
(* The steps of a request.                                                 *)

LEMMA FromOutsideTyped ==
    ASSUME outside \in Nat, NEW kind, FromOutside(kind)
    PROVE  outside' \in Nat /\ outside' # outside
  BY DEF FromOutside

LEMMA ChatRunning ==
    ASSUME AssistantInv, Running
    PROVE  chat \in Chats /\ ChatFits(chat, entries)
  BY DEF AssistantInv, AssistantTyped, Running

\* A call answered leaves what the request knows.
LEMMA DoneKeeps ==
    ASSUME NEW c \in Chats
    PROVE  /\ Done(c) \in Chats /\ Done(c).calls # c.calls
           /\ Done(c).auto = c.auto /\ Done(c).kind = c.kind /\ Done(c).pending = c.pending
           /\ Done(c).fresh = c.fresh /\ Done(c).cache = c.cache
           /\ Done(c).wrote = c.wrote /\ Done(c).base = c.base
<1> DEFINE stage == IF c.calls > 1 THEN "tools" ELSE IF c.rounds = MaxRounds THEN "closing" ELSE "asking"
<1>1. stage \in {"asking", "tools", "closing", "schema"} /\ c.calls \in Int /\ c.calls - 1 \in Int
  BY DEF Chats
<1>2. c.calls - 1 # c.calls
  BY <1>1
<1>3. Done(c) = [c EXCEPT !.calls = c.calls - 1, !.stage = stage]
  BY DEF Done
<1> HIDE DEF stage
<1> QED BY <1>1, <1>2, <1>3 DEF Chats

\* What a tool reads is the lineup, unless somebody else has changed it.
LEMMA ContextFits ==
    ASSUME AssistantInv, Running
    PROVE  Context \in Rosters /\ (chat.fresh => Context = entries)
<1>1. chat \in Chats /\ ChatFits(chat, entries) /\ entries \in Rosters
  BY ChatRunning DEF AssistantInv, AssistantTyped
<1> QED BY <1>1 DEF Context, ChatFits, Chats

LEMMA RequestBegins ==
    ASSUME AssistantInv, StartedTyped, StartChat \/ StartAdvice \/ StartAnalysis \/ StartNote
    PROVE  AssistantInv'
<1>1. PICK kind \in Kinds, stage \in {"asking", "closing"}, auto \in BOOLEAN :
        (auto => kind = "chat") /\ chat' = NewChat(kind, stage, auto)
  BY DEF StartChat, StartAdvice, StartAnalysis, StartNote, Ask
<1>2. entries' = entries /\ outside' = outside /\ notes' = notes /\ offers' = offers
  BY DEF StartChat, StartAdvice, StartAnalysis, StartNote, Ask, team
<1>3. kind \in ChatKinds /\ entries \in Rosters /\ outside \in Nat /\ started \in SUBSET Players
  BY AssistantAssumption DEF AssistantInv, AssistantTyped, StartedTyped
<1>4. chat' \in Chats /\ ChatFits(chat', entries)
  BY <1>1, <1>3 DEF NewChat, Chats, ChatFits
<1>5. {} \in SUBSET Pages /\ PagesFit({}, entries)
  BY DEF PagesFit
<1> QED BY <1>2, <1>3, <1>4, <1>5, LineupKept

\* sub_proposal and the reply without a model.
LEMMA RepliesAtOnce ==
    ASSUME AssistantInv, SubProposal \/ RuleBased
    PROVE  AssistantInv'
<1>1. /\ entries' = entries /\ outside' = outside /\ notes' = notes /\ chat' = chat
      /\ entries \in Rosters /\ outside \in Nat /\ chat \in Chats \cup {NoChat}
      /\ Running => ChatFits(chat, entries)
  BY DEF SubProposal, RuleBased, team, AssistantInv, AssistantTyped
<1>2. View.seats = entries /\ View.seats \in Rosters
  BY <1>1 DEF View
<1>3. \E moves \in SUBSET Proposals :
        (\A o \in moves : Fit(o, entries)) /\ offers' = offers \cup Shown(moves)
  <2>1. CASE SubProposal
    <3>1. PICK p \in DOMAIN entries, q \in DOMAIN entries :
            offers' = offers \cup Shown(IF p = q THEN SubOne(View, p) ELSE SubPair(View, p, q))
      BY <2>1 DEF SubProposal
    <3> QED BY <1>2, <3>1, SubsProposedFit
  <2>2. CASE RuleBased
    <3>1. PICK told \in SUBSET StartSit(View) :
            offers' = offers \cup Shown(SwapsMentioned(View, {<<o.player, o.over>> : o \in told}))
      BY <2>2 DEF RuleBased
    <3>2. \A o \in StartSit(View) : o.player \in DOMAIN entries /\ o.over \in DOMAIN entries
      BY <1>2, NotesProposedFit
    <3>3. \A pair \in {<<o.player, o.over>> : o \in told} :
            pair[1] \in DOMAIN entries /\ pair[2] \in DOMAIN entries
      BY <3>2
    <3> QED BY <1>2, <3>1, <3>3, SwapsMentionedFit
  <2> QED BY <2>1, <2>2
<1>4. PICK moves \in SUBSET Proposals :
        (\A o \in moves : Fit(o, entries)) /\ offers' = offers \cup Shown(moves)
  BY <1>3
<1>5. Shown(moves) \subseteq Pages /\ PagesFit(Shown(moves), entries)
  BY <1>4, ShownPages DEF PagesFit
<1>6. Running' => ChatFits(chat', entries)
  BY <1>1 DEF Running
<1> QED BY <1>1, <1>4, <1>5, <1>6, LineupKept

\* Steps of the model, and tools that read or fail.
LEMMA RequestGoesOn ==
    ASSUME AssistantInv,
           ModelRetries \/ ModelCalls \/ AskForSchema \/ SchemaAnswered
             \/ ToolReads \/ ToolReadsRows \/ ToolErrs \/ ToolDeclines,
           SchemaAnswered => chat' # NoChat
    PROVE  AssistantInv'
<1>1. Running
  BY DEF ModelRetries, ModelCalls, AskForSchema, SchemaAnswered, ToolReads, ToolReadsRows, ToolErrs,
         ToolDeclines, Waiting, Calling
<1>2. chat \in Chats /\ ChatFits(chat, entries) /\ entries \in Rosters /\ outside \in Nat
  BY <1>1, ChatRunning DEF AssistantInv, AssistantTyped
<1>3. Context \in Rosters /\ (chat.fresh => Context = entries)
  BY <1>1, ContextFits
<1>4. /\ chat' \in Chats
      /\ chat'.auto = chat.auto /\ chat'.kind = chat.kind /\ chat'.pending = chat.pending
      /\ chat'.fresh = chat.fresh /\ chat'.cache \in {chat.cache, Context}
      /\ chat.wrote => chat'.wrote
      /\ chat'.base = chat.base
  <2>1. CASE ModelRetries \/ ModelCalls \/ AskForSchema \/ SchemaAnswered
    <3>1. CASE ModelRetries
      BY <1>2, <3>1 DEF ModelRetries, Chats
    <3>2. CASE ModelCalls
      <4>1. PICK n \in 1..MaxCalls :
              chat' = [chat EXCEPT !.stage = "tools", !.calls = n, !.attempt = 0, !.rounds = chat.rounds + 1]
        BY <3>2 DEF ModelCalls, Counted
      <4>2. n \in Int /\ chat.rounds + 1 \in Nat
        BY <1>2, <4>1, AssistantAssumption DEF Chats
      <4> QED BY <1>2, <4>1, <4>2 DEF Chats
    <3>3. CASE AskForSchema
      BY <1>2, <3>3 DEF AskForSchema, Chats
    <3>4. CASE SchemaAnswered
      <4>1. chat' = [chat EXCEPT !.tries = 1, !.attempt = 0]
        BY <3>4 DEF SchemaAnswered
      <4> QED BY <1>2, <4>1 DEF Chats
    <3> QED BY <2>1, <3>1, <3>2, <3>3, <3>4
  <2>2. CASE ToolReads
    <3> DEFINE c == [chat EXCEPT !.cache = Context]
    <3>1. /\ c \in Chats /\ c.auto = chat.auto /\ c.kind = chat.kind /\ c.pending = chat.pending
          /\ c.fresh = chat.fresh /\ c.cache = Context /\ c.wrote = chat.wrote /\ c.base = chat.base
      BY <1>2, <1>3 DEF Chats
    <3> HIDE DEF c
    <3>2. chat' = Done(c)
      BY <2>2 DEF ToolReads, c
    <3> QED BY <3>1, <3>2, DoneKeeps
  <2>3. CASE ToolReadsRows \/ ToolErrs
    BY <1>2, <2>3, DoneKeeps DEF ToolReadsRows, ToolErrs
  <2>4. CASE ToolDeclines
    <3> DEFINE c == [chat EXCEPT !.cache = Context, !.wrote = TRUE]
    <3>1. /\ c \in Chats /\ c.auto = chat.auto /\ c.kind = chat.kind /\ c.pending = chat.pending
          /\ c.fresh = chat.fresh /\ c.cache = Context /\ c.wrote = TRUE /\ c.base = chat.base
      BY <1>2, <1>3 DEF Chats
    <3> HIDE DEF c
    <3>2. chat' = Done(c)
      BY <2>4 DEF ToolDeclines, c
    <3> QED BY <3>1, <3>2, DoneKeeps
  <2> QED BY <2>1, <2>2, <2>3, <2>4
<1>5. ChatFits(chat', entries)
  BY <1>2, <1>3, <1>4 DEF ChatFits
<1>6. /\ entries' = entries /\ notes' = notes /\ offers' = offers
      /\ outside' \in Nat
  BY <1>2, FromOutsideTyped DEF ModelRetries, ModelCalls, AskForSchema, SchemaAnswered, ToolReads, ToolReadsRows,
         ToolErrs, ToolDeclines, team
<1>7. {} \in SUBSET Pages /\ PagesFit({}, entries)
  BY DEF PagesFit
<1> QED BY <1>4, <1>5, <1>6, <1>7, LineupKept

LEMMA RequestEnds ==
    ASSUME AssistantInv,
           \/ chat' = NoChat /\ (ModelFails \/ AdviceAnswered \/ SchemaAnswered)
           \/ Decline
    PROVE  AssistantInv'
<1>1. /\ entries' = entries /\ notes' = notes /\ offers' \subseteq offers
      /\ chat' \in {chat, NoChat}
  BY DEF ModelFails, AdviceAnswered, SchemaAnswered, Decline, team
<1>2. outside' \in Nat
  BY FromOutsideTyped DEF ModelFails, AdviceAnswered, SchemaAnswered, Decline, AssistantInv, AssistantTyped
<1>3. chat' \in Chats \cup {NoChat} /\ (Running' => ChatFits(chat', entries))
  BY <1>1 DEF AssistantInv, AssistantTyped, Running
<1>4. {} \in SUBSET Pages /\ PagesFit({}, entries) /\ offers' \subseteq offers \cup {}
  BY <1>1 DEF PagesFit
<1> QED BY <1>1, <1>2, <1>3, <1>4, LineupKept

\* A chat's reply offers what its tools proposed and what its prose names.
LEMMA ChatReplies ==
    ASSUME AssistantInv, ChatAnswered
    PROVE  AssistantInv'
<1>1. /\ Running /\ chat' = NoChat
      /\ entries' = entries /\ notes' = notes /\ outside' = outside
  BY DEF ChatAnswered, team
<1>2. chat \in Chats /\ ChatFits(chat, entries) /\ outside \in Nat
  BY <1>1, ChatRunning DEF AssistantInv, AssistantTyped
<1>3. chat.base \in Rosters /\ chat.pending \in SUBSET Proposals /\ chat.fresh \in BOOLEAN
  BY <1>2 DEF Chats
<1>4. PICK said \in SUBSET (BenchOf([seats |-> chat.base]) \X Starting(AlignedStarters(chat.base))) :
        offers' = offers \cup [offer : chat.pending \cup ProseOffers(said), fresh : {chat.fresh}]
  BY DEF ChatAnswered
<1> DEFINE view == [View EXCEPT !.seats = chat.base]
           more == [offer : chat.pending \cup ProseOffers(said), fresh : {chat.fresh}]
<1>5. view.seats = chat.base
  BY DEF View
<1>6. \A pair \in said : pair[1] \in DOMAIN chat.base /\ pair[2] \in DOMAIN chat.base
  BY <1>3, AlignedFits DEF BenchOf
<1>7. ProseOffers(said) \subseteq SwapsMentioned(view, said) /\ (chat.wrote => ProseOffers(said) = {})
  BY DEF ProseOffers
<1> HIDE DEF view
<1>8. \A o \in SwapsMentioned(view, said) : o \in Proposals /\ Fit(o, chat.base)
  BY <1>3, <1>5, <1>6, SwapsMentionedFit
<1>9. \A o \in chat.pending \cup ProseOffers(said) : o \in Proposals /\ (chat.fresh => Fit(o, entries))
  BY <1>2, <1>3, <1>7, <1>8 DEF ChatFits
<1>10. more \in SUBSET Pages /\ PagesFit(more, entries)
  BY <1>3, <1>9 DEF Pages, PagesFit
<1> HIDE DEF more
<1>11. offers' \subseteq offers \cup more
  BY <1>4 DEF more
<1>12. chat' \in Chats \cup {NoChat} /\ (Running' => ChatFits(chat', entries))
  BY <1>1 DEF Running
<1> QED BY <1>1, <1>2, <1>10, <1>11, <1>12, LineupKept

\* change_lineup without auto-approval.
LEMMA ToolsPropose ==
    ASSUME AssistantInv, ToolProposes
    PROVE  AssistantInv'
<1>1. /\ Running /\ ~MayWrite /\ chat.kind = "chat"
      /\ entries' = entries /\ notes' = notes /\ outside' = outside /\ offers' = offers
  BY DEF ToolProposes, Calling, team
<1>2. chat \in Chats /\ ChatFits(chat, entries) /\ outside \in Nat
  BY <1>1, ChatRunning DEF AssistantInv, AssistantTyped
<1>3. Context \in Rosters /\ (chat.fresh => Context = entries) /\ ~chat.auto
  BY <1>1, ContextFits DEF MayWrite
<1>4. \E o \in Proposals :
        /\ Fit(o, Context)
        /\ chat' = Done([chat EXCEPT !.cache = Context, !.wrote = TRUE, !.pending = chat.pending \cup {o}])
  <2>1. PICK p \in DOMAIN Context, i \in Slots, destination \in Destinations :
          chat' = Done([chat EXCEPT !.cache = Context, !.wrote = TRUE,
                          !.pending = chat.pending \cup {IF destination = "starter"
                                               THEN StartOffer([seats |-> Context], p, i)
                                               ELSE MoveOffer(p, destination)}])
    BY DEF ToolProposes
  <2>2. p \in Players
    BY <1>3, RosterShape
  <2>3. /\ StartOffer([seats |-> Context], p, i) \in Proposals
        /\ Fit(StartOffer([seats |-> Context], p, i), Context)
    <3> DEFINE view == [seats |-> Context]
    <3>1. view.seats = Context
      OBVIOUS
    <3> HIDE DEF view
    <3>2. StartOffer(view, p, i) \in Proposals /\ Fit(StartOffer(view, p, i), Context)
      BY <1>3, <2>2, <3>1, StartOfferFits
    <3> QED BY <3>2 DEF view
  <2>4. destination # "starter" =>
          MoveOffer(p, destination) \in Proposals /\ Fit(MoveOffer(p, destination), Context)
    BY <2>2 DEF MoveOffer, Offer, Proposals, Fit
  <2> QED BY <2>1, <2>3, <2>4
<1>5. PICK o \in Proposals :
        /\ Fit(o, Context)
        /\ chat' = Done([chat EXCEPT !.cache = Context, !.wrote = TRUE, !.pending = chat.pending \cup {o}])
  BY <1>4
<1> DEFINE c == [chat EXCEPT !.cache = Context, !.wrote = TRUE, !.pending = chat.pending \cup {o}]
<1>6. /\ c \in Chats /\ c.auto = chat.auto /\ c.kind = chat.kind /\ c.pending = chat.pending \cup {o}
      /\ c.fresh = chat.fresh /\ c.cache = Context /\ c.wrote = TRUE
  BY <1>2, <1>3 DEF Chats
<1> HIDE DEF c
<1>7. chat' = Done(c)
  BY <1>5 DEF c
<1>8. chat' \in Chats /\ ChatFits(chat', entries)
  BY <1>2, <1>3, <1>5, <1>6, <1>7, DoneKeeps DEF ChatFits
<1>9. {} \in SUBSET Pages /\ PagesFit({}, entries)
  BY DEF PagesFit
<1> QED BY <1>1, <1>2, <1>8, <1>9, LineupKept

\* A lineup tool leads to rosters.
LEMMA ToolWritesType ==
    ASSUME AssistantInv, Running, NEW n \in ToolWrites
    PROVE  n \in Rosters
<1>1. entries \in Rosters /\ Context \in Rosters
  BY ContextFits DEF AssistantInv, AssistantTyped
<1>2. CASE \E p \in DOMAIN Context, destination \in Destinations : n \in AfterMove(MoveOffer(p, destination), chat.board)
  BY <1>1, <1>2, AfterMoveType DEF MoveOffer, Offer
<1>3. CASE \E p \in DOMAIN Context, i \in Slots : n \in AfterMove(Offer(p, "starter", i, NoPlayer), chat.board)
  BY <1>1, <1>3, AfterMoveType DEF Offer, Destinations
<1>4. CASE \E S \in [Slots -> DOMAIN Context \cup {NoPlayer}] : n \in AfterLineup(S, chat.board)
  <2>1. PICK S \in [Slots -> DOMAIN Context \cup {NoPlayer}] : n = ApplyLocal(entries, S)
    BY <1>4 DEF AfterLineup
  <2>2. S \in Lineups
    BY <1>1, RosterShape DEF Lineups
  <2> QED BY <1>1, <2>1, <2>2, ApplyLocalType
<1> QED BY <1>2, <1>3, <1>4 DEF ToolWrites

\* With auto-approval, and with or without the answer.
LEMMA ToolsWrite ==
    ASSUME AssistantInv, ToolMoves \/ ToolLosesAnswer
    PROVE  AssistantInv'
<1>1. /\ Running /\ MayWrite /\ entries' \in ToolWrites
      /\ offers' = Stale(offers) /\ notes' = Stale(notes)
  BY DEF ToolMoves, ToolLosesAnswer, Calling
<1>2. chat \in Chats /\ ChatFits(chat, entries) /\ entries' \in Rosters /\ outside' \in Nat
  BY <1>1, ChatRunning, ToolWritesType, FromOutsideTyped DEF ToolMoves, ToolLosesAnswer, AssistantInv, AssistantTyped
<1>3. chat.auto /\ chat.kind = "chat" /\ chat.pending = {}
  BY <1>1, <1>2 DEF MayWrite, ChatFits
<1>4. chat' \in Chats /\ ChatFits(chat', entries')
  <2>1. CASE ToolMoves
    <3> DEFINE c == [chat EXCEPT !.cache = NoView, !.wrote = TRUE]
    <3>1. /\ c \in Chats /\ c.kind = "chat" /\ c.pending = {} /\ c.cache = NoView /\ c.wrote = TRUE
      BY <1>2, <1>3 DEF Chats
    <3> HIDE DEF c
    <3>2. chat' = Done(c)
      BY <2>1 DEF ToolMoves, c
    <3> QED BY <3>1, <3>2, DoneKeeps DEF ChatFits
  <2>2. CASE ToolLosesAnswer
    <3>1. chat' = [Done(chat) EXCEPT !.fresh = FALSE]
      BY <2>2 DEF ToolLosesAnswer
    <3>2. Done(chat) \in Chats /\ Done(chat).kind = "chat" /\ Done(chat).pending = {}
      BY <1>2, <1>3, DoneKeeps
    <3>3. chat' \in Chats /\ chat'.kind = "chat" /\ chat'.pending = {} /\ chat'.fresh = FALSE
      BY <3>1, <3>2 DEF Chats
    <3> QED BY <3>3 DEF ChatFits
  <2> QED BY <1>1, <2>1, <2>2
<1> QED BY <1>1, <1>2, <1>4, LineupChanged

-----------------------------------------------------------------------------
(* The manager's steps, and everyone else's.                               *)

LEMMA MoveApproved ==
    ASSUME AssistantInv, Approve
    PROVE  AssistantInv'
<1>1. PICK s \in offers : entries' \in AfterMove(s.offer, started) /\ offers' = Stale(offers \ {s})
  BY DEF Approve
<1>2. notes' = Stale(notes) /\ chat' = Outdated /\ outside' = outside
  BY DEF Approve
<1>3. entries \in Rosters /\ outside \in Nat /\ s.offer.destination \in Destinations
  BY <1>1 DEF AssistantInv, AssistantTyped, Pages, Proposals
<1>4. entries' \in Rosters
  BY <1>1, <1>3, AfterMoveType
<1>5. offers' \subseteq Stale(offers)
  BY <1>1 DEF Stale
<1>6. chat' \in Chats \cup {NoChat} /\ (Running' => ChatFits(chat', entries'))
  BY <1>2, OutdatedFits DEF Running
<1> QED BY <1>2, <1>3, <1>4, <1>5, <1>6, LineupChanged

LEMMA ClaimApproved ==
    ASSUME AssistantInv, ApproveClaim
    PROVE  AssistantInv'
<1>1. PICK claim \in Claims(View) :
        LET rest == DOMAIN entries \ {claim.drop}
        IN  entries' = [p \in (rest \cup {claim.add}) \ {NoPlayer} |-> IF p \in rest THEN entries[p] ELSE Bench]
  BY DEF ApproveClaim
<1>2. /\ offers' = Stale(offers) /\ notes' = Stale(notes) /\ chat' = Outdated
      /\ entries \in Rosters /\ outside' \in Nat
  BY FromOutsideTyped DEF ApproveClaim, AssistantInv, AssistantTyped
<1> DEFINE rest == DOMAIN entries \ {claim.drop}
           rostered == (rest \cup {claim.add}) \ {NoPlayer}
<1>3. claim.add \in Players \cup {NoPlayer}
  BY DEF Claims
<1>4. /\ DOMAIN entries \subseteq Players /\ entries \in [DOMAIN entries -> Seats]
      /\ \A p, q \in DOMAIN entries : entries[p] = entries[q] /\ entries[p] \in Slots => p = q
  BY <1>2, RosterShape
<1>5. rostered \in SUBSET Players
  BY <1>3, <1>4
<1>6. entries' = [p \in rostered |-> IF p \in rest THEN entries[p] ELSE Bench]
  BY <1>1
<1>7. rest \subseteq DOMAIN entries
  OBVIOUS
<1> HIDE DEF rest, rostered
<1>8. entries' \in [rostered -> Seats] /\ DOMAIN entries' = rostered
  BY <1>4, <1>6, <1>7 DEF Seats
<1>9. \A p, q \in rostered : entries'[p] = entries'[q] /\ entries'[p] \in Slots => p = q
  BY <1>4, <1>6, <1>7, RosterAssumption
<1>10. entries' \in Rosters
  BY <1>5, <1>8, <1>9 DEF Rosters
<1>11. chat' \in Chats \cup {NoChat} /\ (Running' => ChatFits(chat', entries'))
  BY <1>2, OutdatedFits DEF Running
<1> QED BY <1>2, <1>10, <1>11, LineupChanged

LEMMA NotesAppear ==
    ASSUME AssistantInv, ReadNotes
    PROVE  AssistantInv'
<1>1. /\ entries' = entries /\ chat' = chat /\ offers' = offers /\ outside' = outside
      /\ notes' = Shown(StartSit(View))
  BY DEF ReadNotes, team
<1>2. View.seats = entries /\ entries \in Rosters
  BY DEF View, AssistantInv, AssistantTyped
<1>3. /\ \A o \in StartSit(View) : /\ o \in Proposals /\ Fit(o, entries) /\ o.destination = "starter"
                                   /\ o.player \in DOMAIN entries /\ entries[o.player] = Bench
      /\ \A o, u \in StartSit(View) : o # u => o.player # u.player /\ o.slot # u.slot
  BY <1>2, NotesProposedFit
<1>4. StartSit(View) \in SUBSET Proposals
  BY <1>3
<1>5. notes' \subseteq Pages /\ \A s \in notes' : s.fresh = TRUE /\ s.offer \in StartSit(View)
  BY <1>1, <1>4, ShownPages
<1>6. PagesFit(notes', entries') /\ NotesFit'
  BY <1>1, <1>3, <1>5 DEF PagesFit, NotesFit
<1>7. /\ AssistantTyped'
      /\ Running' => ChatFits(chat', entries')
      /\ PagesFit(offers', entries')
  BY <1>1, <1>5 DEF AssistantInv, AssistantTyped, Running
<1> QED BY <1>6, <1>7 DEF AssistantInv

\* A note that is followed leaves the others to be followed: they are about other
\* players, who are still on the bench, and other slots.
LEMMA NoteFollowed ==
    ASSUME AssistantInv, FollowNote
    PROVE  AssistantInv'
<1>1. PICK s \in notes : entries' \in AfterMove(s.offer, started) /\ notes' = notes \ {s}
  BY DEF FollowNote
<1>2. offers' = Stale(offers) /\ chat' = Outdated /\ outside' = outside
  BY DEF FollowNote
<1>3. /\ entries \in Rosters /\ outside \in Nat /\ offers \subseteq Pages /\ notes \subseteq Pages
      /\ PagesFit(notes, entries) /\ NotesFit
  BY DEF AssistantInv, AssistantTyped
<1>4. s.offer \in Proposals /\ s.offer.destination \in Destinations /\ s.fresh \in BOOLEAN
  BY <1>1, <1>3 DEF Pages, Proposals
<1>5. entries' \in Rosters /\ DOMAIN entries' = DOMAIN entries
  BY <1>1, <1>3, <1>4, AfterMoveType
<1>6. offers' \subseteq Pages /\ \A t \in offers' : t.fresh = FALSE
  BY <1>2, <1>3, StalePages
<1>7. chat' \in Chats \cup {NoChat} /\ (Running' => ChatFits(chat', entries'))
  BY <1>2, OutdatedFits DEF Running
<1>8. ASSUME NEW t \in notes', t.fresh
      PROVE  /\ Fit(t.offer, entries')
             /\ t.offer.destination = "starter" /\ t.offer.player \in DOMAIN entries'
             /\ entries'[t.offer.player] = Bench
  <2>1. t \in notes /\ t # s /\ s.fresh /\ t.fresh \in BOOLEAN /\ t.fresh = s.fresh
    BY <1>1, <1>3, <1>4, <1>8 DEF NotesFit, Pages
  <2>2. s.offer # t.offer
    <3>1. s = [offer |-> s.offer, fresh |-> s.fresh] /\ t = [offer |-> t.offer, fresh |-> t.fresh]
      BY <1>1, <1>3, <2>1 DEF Pages
    <3> QED BY <2>1, <3>1
  <2>3. s.offer.player # t.offer.player /\ s.offer.slot # t.offer.slot
    BY <1>1, <1>3, <2>1, <2>2 DEF NotesFit
  <2>4. /\ s.offer.destination = "starter" /\ Fit(s.offer, entries)
        /\ s.offer.player \in DOMAIN entries /\ entries[s.offer.player] = Bench
        /\ t.offer.destination = "starter" /\ Fit(t.offer, entries)
        /\ t.offer.player \in DOMAIN entries /\ entries[t.offer.player] = Bench
    BY <1>1, <1>3, <2>1 DEF NotesFit, PagesFit
  <2>5. \A i \in Slots : AlignedStarters(entries)[i] \notin {s.offer.player, t.offer.player}
    BY <1>3, <2>4, AlignedSeats, RosterShape, RosterAssumption
  <2>6. s.offer.slot \in Slots /\ s.offer.over = AlignedStarters(entries)[s.offer.slot]
    BY <2>4, <2>5 DEF Fit
  <2>7. t.offer.slot \in Slots /\ t.offer.over = AlignedStarters(entries)[t.offer.slot]
    BY <2>4, <2>5 DEF Fit
  <2>8. /\ \A q \in DOMAIN entries : entries'[q] # entries[q] => q \in {s.offer.player, s.offer.over}
        /\ \A i \in Slots : i # s.offer.slot /\ AlignedStarters(entries)[i] # s.offer.player =>
             AlignedStarters(entries')[i] = AlignedStarters(entries)[i]
    BY <1>1, <1>3, <1>4, <2>4, AfterMoveFits
  <2>9. entries'[t.offer.player] = Bench
    BY <2>3, <2>4, <2>5, <2>6, <2>8
  <2>10. AlignedStarters(entries')[t.offer.slot] = t.offer.over
    BY <2>3, <2>5, <2>7, <2>8
  <2> QED BY <1>5, <2>4, <2>7, <2>9, <2>10 DEF Fit
<1>9. PagesFit(notes', entries')
  BY <1>8 DEF PagesFit
<1>10. NotesFit'
  BY <1>1, <1>3, <1>8 DEF NotesFit
<1>11. AssistantTyped' /\ PagesFit(offers', entries')
  BY <1>1, <1>2, <1>3, <1>5, <1>6, <1>7 DEF AssistantTyped, PagesFit
<1> QED BY <1>7, <1>9, <1>10, <1>11 DEF AssistantInv

LEMMA OthersAct ==
    ASSUME AssistantInv, AppReseats \/ HealthChanges \/ PlayerLocks
    PROVE  AssistantInv'
<1>1. outside' \in Nat /\ entries \in Rosters
  BY FromOutsideTyped DEF AppReseats, HealthChanges, PlayerLocks, AssistantInv, AssistantTyped
<1>2. CASE AppReseats
  <2>1. entries' \in Rosters
    <3>1. PICK p, q \in DOMAIN entries \ started :
            /\ p # q /\ entries[q] \in Eligible[p] /\ entries[p] \in Eligible[q] \cup {Bench}
            /\ entries' = [entries EXCEPT ![p] = entries[q], ![q] = entries[p]]
      BY <1>2 DEF AppReseats
    <3>2. p \in DOMAIN entries /\ q \in DOMAIN entries
      OBVIOUS
    <3>3. [entries EXCEPT ![p] = entries[q], ![q] = entries[p]] \in Rosters
      BY <1>1, <3>1, <3>2, ReseatedType
    <3> QED BY <3>1, <3>3
  <2>2. offers' = Stale(offers) /\ notes' = Stale(notes) /\ chat' = Outdated
    BY <1>2 DEF AppReseats
  <2>3. chat' \in Chats \cup {NoChat} /\ (Running' => ChatFits(chat', entries'))
    BY <2>2, OutdatedFits DEF Running
  <2> QED BY <1>1, <2>1, <2>2, <2>3, LineupChanged
<1>3. CASE HealthChanges \/ PlayerLocks
  <2>1. entries' = entries /\ chat' = chat /\ offers' = offers /\ notes' = notes
    BY <1>3 DEF HealthChanges, PlayerLocks
  <2> QED BY <1>1, <2>1 DEF AssistantInv, AssistantTyped, NotesFit, Running
<1> QED BY <1>2, <1>3

LEMMA AssistantBegins == AssistantInit => AssistantInv
<1> SUFFICES ASSUME AssistantInit PROVE AssistantInv
  OBVIOUS
<1>1. AssistantTyped
  BY AssistantAssumption DEF AssistantInit, AssistantTyped
<1> QED BY <1>1 DEF AssistantInit, AssistantInv, PagesFit, NotesFit, Running

LEMMA StartedGoesOn == StartedTyped /\ [AssistantNext]_assistantVars => StartedTyped'
<1> SUFFICES ASSUME StartedTyped, [AssistantNext]_assistantVars PROVE StartedTyped'
  OBVIOUS
<1>1. CASE PlayerLocks
  BY <1>1 DEF PlayerLocks, StartedTyped
<1>2. CASE started' = started
  BY <1>2 DEF StartedTyped
<1>3. PlayerLocks \/ started' = started
  BY DEF AssistantNext, assistantVars, StartChat, StartAdvice, StartAnalysis, StartNote, Ask, SubProposal, RuleBased,
         ModelStep, ModelCalls, ChatAnswered, AdviceAnswered, AskForSchema, SchemaAnswered,
         ToolStep, ToolReads, ToolReadsRows, ToolErrs, ToolDeclines, ToolProposes, ToolMoves,
         ModelRetries, ModelFails, ToolLosesAnswer, Approve, Decline, ApproveClaim, ReadNotes, FollowNote,
         AppReseats, HealthChanges, team
<1> QED BY <1>1, <1>2, <1>3

LEMMA AssistantGoesOn == AssistantInv /\ StartedTyped /\ [AssistantNext]_assistantVars => AssistantInv'
<1> SUFFICES ASSUME AssistantInv, StartedTyped, [AssistantNext]_assistantVars PROVE AssistantInv'
  OBVIOUS
<1>1. CASE UNCHANGED assistantVars
  BY <1>1 DEF assistantVars, AssistantInv, AssistantTyped, NotesFit, Running
<1>2. CASE ModelFails \/ AdviceAnswered \/ Decline
  <2>1. ModelFails \/ AdviceAnswered => chat' = NoChat
    BY DEF ModelFails, AdviceAnswered
  <2> QED BY <1>2, <2>1, RequestEnds
<1>3. CASE SchemaAnswered
  BY <1>3, RequestEnds, RequestGoesOn
<1>4. CASE ModelRetries \/ ModelCalls \/ AskForSchema \/ ToolReads \/ ToolReadsRows \/ ToolErrs \/ ToolDeclines
  <2>1. CASE SchemaAnswered
    BY <1>3, <2>1
  <2>2. CASE ~SchemaAnswered
    BY <1>4, <2>2, RequestGoesOn
  <2> QED BY <2>1, <2>2
<1>5. CASE ChatAnswered \/ ToolProposes \/ ToolMoves \/ ToolLosesAnswer
  BY <1>5, ChatReplies, ToolsPropose, ToolsWrite
<1>6. CASE ModelStep \/ ToolStep
  BY <1>2, <1>3, <1>4, <1>5, <1>6 DEF ModelStep, ToolStep
<1> QED BY <1>1, <1>2, <1>4, <1>5, <1>6, RequestBegins, RepliesAtOnce, MoveApproved, ClaimApproved,
           NotesAppear, NoteFollowed, OthersAct DEF AssistantNext

LEMMA AssistantAlways == AssistantSpec => [](AssistantInv /\ StartedTyped)
<1>1. AssistantInit => StartedTyped
  BY DEF AssistantInit, StartedTyped
<1> QED BY <1>1, AssistantBegins, AssistantGoesOn, StartedGoesOn, PTL DEF AssistantSpec

-----------------------------------------------------------------------------
(* The theorems about Assistant.                                           *)

\* swaps_mentioned, start_over_action, sub_proposal and suggest_swaps name whom a
\* move replaces. Whatever tools have read, proposed, written or failed in a chat,
\* a move it shows puts its player where the starter it names sits, until somebody
\* else changes the lineup, another move is approved or a write of the chat itself
\* loses its answer; and the notes of a page can be followed in any order.
THEOREM ProposalsFit == AssistantSpec => []ProposalsFitTheLineup
<1>1. AssistantInv => ProposalsFitTheLineup
  BY DEF AssistantInv, PagesFit, NotesFit, Fit, ProposalsFitTheLineup, Occupant, View
<1> QED BY <1>1, AssistantAlways, PTL

\* "A start-over stays a proposal until the manager approves it" (ai/approvals.py:1):
\* whatever the model asks for, a tool changes the lineup only in a chat sent with
\* auto-approval, and an approved move, outdated or not, reseats nobody but its player
\* and the starter whose slot he takes; unless outdated, the starter it named.
THEOREM OnlyDecidedChanges == AssistantSpec => OnlyWhatWasDecided
<1> DEFINE Decided == entries' # entries =>
         \/ outside' # outside
         \/ Running /\ chat.auto /\ chat' # chat
         \/ \E s \in offers \cup notes : DecidedOn(s) /\ ReseatsNoMore(s)
<1>1. AssistantInv /\ [AssistantNext]_assistantVars => [Decided]_assistantVars
  <2> SUFFICES ASSUME AssistantInv, AssistantNext, entries' # entries, outside' = outside
               PROVE  \/ Running /\ chat.auto /\ chat' # chat
                      \/ \E s \in offers \cup notes : DecidedOn(s) /\ ReseatsNoMore(s)
    BY DEF assistantVars
  <2>1. /\ entries \in Rosters /\ outside \in Nat
        /\ \A s \in offers \cup notes : s.offer \in Proposals /\ (s.fresh => Fit(s.offer, entries))
    BY DEF AssistantInv, AssistantTyped, PagesFit, Pages
  <2>2. \A kind : ~FromOutside(kind)
    BY <2>1, FromOutsideTyped
  <2>3. ToolMoves \/ Approve \/ FollowNote
    BY <2>2 DEF AssistantNext, StartChat, StartAdvice, StartAnalysis, StartNote, Ask, SubProposal, RuleBased,
         ModelStep, ModelCalls, ChatAnswered, AdviceAnswered, AskForSchema, SchemaAnswered,
         ToolStep, ToolReads, ToolReadsRows, ToolErrs, ToolDeclines, ToolProposes,
         ModelRetries, ModelFails, ToolLosesAnswer, Decline, ApproveClaim, ReadNotes,
         AppReseats, HealthChanges, PlayerLocks, team
  <2>4. CASE ToolMoves
    <3>1. Running /\ chat.auto
      BY <2>4 DEF ToolMoves, Calling, MayWrite
    <3>2. chat \in Chats
      BY <3>1, ChatRunning
    <3> DEFINE c == [chat EXCEPT !.cache = NoView, !.wrote = TRUE]
    <3>3. c \in Chats /\ c.calls = chat.calls
      BY <3>2 DEF Chats
    <3> HIDE DEF c
    <3>4. chat' = Done(c)
      BY <2>4 DEF ToolMoves, c
    <3>5. chat'.calls # chat.calls
      BY <3>3, <3>4, DoneKeeps
    <3> QED BY <3>1, <3>5
  <2>5. CASE Approve \/ FollowNote
    <3>1. PICK s \in offers \cup notes :
            entries' \in AfterMove(s.offer, started) /\ DecidedOn(s)
      BY <2>5 DEF Approve, FollowNote, DecidedOn
    <3>2. s.fresh => \A q \in DOMAIN entries : entries'[q] # entries[q] => q \in {s.offer.player, s.offer.over}
      BY <2>1, <3>1, AfterMoveFits
    <3>3. \A q \in DOMAIN entries \ {s.offer.player} : entries'[q] # entries[q] =>
            entries[q] \in Slots /\ entries'[s.offer.player] = entries[q]
      BY <2>1, <3>1, AfterMoveTakes
    <3> QED BY <3>1, <3>2, <3>3 DEF ReseatsNoMore
  <2> QED BY <2>3, <2>4, <2>5
<1> QED BY <1>1, AssistantAlways, PTL DEF AssistantSpec, OnlyWhatWasDecided

-----------------------------------------------------------------------------
(* Counting players.                                                       *)

LEMMA FewerIn ==
    ASSUME NEW S \in SUBSET Players, NEW T \in SUBSET S
    PROVE  /\ Cardinality(S) \in Nat /\ Cardinality(T) \in Nat
           /\ Cardinality(T) <= Cardinality(S)
<1>1. IsFiniteSet(S)
  BY AppraisalAssumption, FS_Subset
<1>2. IsFiniteSet(T) /\ Cardinality(T) <= Cardinality(S)
  BY <1>1, FS_Subset
<1> QED BY <1>1, <1>2, FS_CardinalityType

\* One player more or less.
LEMMA OneLess ==
    ASSUME NEW S \in SUBSET Players, NEW p
    PROVE  /\ Cardinality(S) \in Nat /\ Cardinality(S \ {p}) \in Nat
           /\ Cardinality(S \ {p}) \in {Cardinality(S), Cardinality(S) - 1}
<1>1. IsFiniteSet(S)
  BY AppraisalAssumption, FS_Subset
<1>2. Cardinality(S) \in Nat
  BY <1>1, FS_CardinalityType
<1>3. IsFiniteSet(S \ {p}) /\ Cardinality(S \ {p}) = IF p \in S THEN Cardinality(S) - 1 ELSE Cardinality(S)
  BY <1>1, FS_RemoveElement
<1>4. Cardinality(S \ {p}) \in Nat
  BY <1>3, FS_CardinalityType
<1> QED BY <1>2, <1>3, <1>4

LEMMA UnionAtMost ==
    ASSUME NEW S \in SUBSET Players, NEW T \in SUBSET Players
    PROVE  Cardinality(S \cup T) <= Cardinality(S) + Cardinality(T)
<1>1. IsFiniteSet(S) /\ IsFiniteSet(T)
  BY AppraisalAssumption, FS_Subset
<1>2. Cardinality(S \cup T) = Cardinality(S) + Cardinality(T) - Cardinality(S \cap T)
  BY <1>1, FS_Union
<1>3. IsFiniteSet(S \cap T)
  BY <1>1, FS_Intersection
<1>4. Cardinality(S) \in Nat /\ Cardinality(T) \in Nat /\ Cardinality(S \cap T) \in Nat
  BY <1>1, <1>3, FS_CardinalityType
<1> QED BY <1>2, <1>4

\* required_starters counts slots.
LEMMA RequiredIsNatural ==
    ASSUME NEW o
    PROVE  Required(o) \in Nat
<1>1. IsFiniteSet(1..NumSlots)
  BY RosterAssumption, FS_Interval
<1>2. IsFiniteSet({i \in 1..NumSlots : SlotPosition[i] = o})
  BY <1>1, FS_Subset
<1>3. Cardinality({i \in 1..NumSlots : SlotPosition[i] = o}) \in Nat
  BY <1>2, FS_CardinalityType
<1> QED BY <1>3 DEF Required, Slots

-----------------------------------------------------------------------------
(* IR and taxi places.                                                     *)

TaxiOf(r) == {p \in DOMAIN r : r[p] = Taxi}

\* A roster with no more on IR and taxi is within the places another is within.
LEMMA StaysWithinPlaces ==
    ASSUME NEW r \in Rosters, WithinPlaces(r), NEW n \in Rosters,
           \A p \in DOMAIN n : n[p] \in {IR, Taxi} => p \in DOMAIN r /\ n[p] = r[p]
    PROVE  WithinPlaces(n)
<1>1. ReserveOf(r) \in SUBSET Players /\ TaxiOf(r) \in SUBSET Players
  BY RosterShape DEF ReserveOf, TaxiOf
<1>2. ReserveOf(n) \in SUBSET ReserveOf(r) /\ TaxiOf(n) \in SUBSET TaxiOf(r)
  BY DEF ReserveOf, TaxiOf
<1>3. /\ Cardinality(ReserveOf(n)) <= Cardinality(ReserveOf(r))
      /\ Cardinality(ReserveOf(n)) \in Nat /\ Cardinality(ReserveOf(r)) \in Nat
  BY <1>1, <1>2, FewerIn
<1>4. /\ Cardinality(TaxiOf(n)) <= Cardinality(TaxiOf(r))
      /\ Cardinality(TaxiOf(n)) \in Nat /\ Cardinality(TaxiOf(r)) \in Nat
  BY <1>1, <1>2, FewerIn
<1>5. IRCapacity \in Nat /\ TaxiSlots \in Nat
  BY RosterAssumption, AppraisalAssumption
<1>6. Cardinality(ReserveOf(r)) <= IRCapacity /\ Cardinality(TaxiOf(r)) <= TaxiSlots
  BY DEF WithinPlaces, TaxiOf
<1>7. Cardinality(ReserveOf(n)) <= IRCapacity /\ Cardinality(TaxiOf(n)) <= TaxiSlots
  BY <1>3, <1>4, <1>5, <1>6
<1> QED BY <1>7 DEF WithinPlaces, TaxiOf

\* move_player counts the IR before it sends anybody there.
LEMMA MoveStaysWithinPlaces ==
    ASSUME entries \in Rosters, WithinPlaces(entries), NEW o, o.destination \in Destinations,
           NEW kickoffs, NEW n \in AfterMove(o, kickoffs)
    PROVE  WithinPlaces(n)
<1>1. PICK i \in Allowed(o, kickoffs) : n = Placement(entries, DesiredS(o, i), DesiredR(o))
  BY DEF AfterMove
<1>2. Legal(entries, o.player, o.destination, i)
  BY <1>1 DEF Allowed
<1>3. n \in Rosters
  BY AfterMoveType
<1>4. /\ DOMAIN n = DOMAIN entries
      /\ \A p \in DOMAIN n : /\ n[p] = IR => p \in DesiredR(o)
                             /\ n[p] = Taxi => entries[p] = Taxi
  <2> DEFINE S == DesiredS(o, i)
             R == DesiredR(o)
  <2>1. \A p \in Starting(S) : (CHOOSE j \in Slots : S[j] = p) \in Slots
    BY DEF Starting
  <2> HIDE DEF S, R
  <2> QED BY <1>1, <2>1, RosterAssumption DEF Placement, S, R
<1>5. CASE o.destination # "ir" \/ o.player \in ReserveOf(entries)
  <2>1. DesiredR(o) \subseteq ReserveOf(entries)
    BY <1>5 DEF DesiredR, DesiredReserve
  <2>2. \A p \in DOMAIN n : n[p] \in {IR, Taxi} => p \in DOMAIN entries /\ n[p] = entries[p]
    BY <1>4, <2>1 DEF ReserveOf
  <2> QED BY <1>3, <2>2, StaysWithinPlaces
<1>6. CASE o.destination = "ir" /\ o.player \notin ReserveOf(entries)
  <2>1. Cardinality(ReserveOf(entries)) < IRCapacity /\ o.player \in DOMAIN entries
    BY <1>2, <1>6 DEF Legal
  <2>2. ReserveOf(entries) \in SUBSET Players /\ DOMAIN entries \subseteq Players
    BY RosterShape DEF ReserveOf
  <2>3. ReserveOf(n) \subseteq ReserveOf(entries) \cup {o.player}
    BY <1>4, <1>6 DEF DesiredR, DesiredReserve, ReserveOf
  <2>4. TaxiOf(n) \in SUBSET TaxiOf(entries) /\ TaxiOf(entries) \in SUBSET Players
    BY <1>4, <2>2 DEF TaxiOf
  <2>5. ReserveOf(n) \ {o.player} \in SUBSET ReserveOf(entries) /\ ReserveOf(n) \in SUBSET Players
    BY <2>1, <2>2, <2>3
  <2>6. /\ Cardinality(ReserveOf(n) \ {o.player}) <= Cardinality(ReserveOf(entries))
        /\ Cardinality(ReserveOf(entries)) \in Nat
    BY <2>2, <2>5, FewerIn
  <2>7. /\ Cardinality(ReserveOf(n) \ {o.player}) \in {Cardinality(ReserveOf(n)), Cardinality(ReserveOf(n)) - 1}
        /\ Cardinality(ReserveOf(n)) \in Nat /\ Cardinality(ReserveOf(n) \ {o.player}) \in Nat
    BY <2>5, OneLess
  <2>8. IRCapacity \in Nat /\ TaxiSlots \in Nat
    BY RosterAssumption, AppraisalAssumption
  <2>9. Cardinality(ReserveOf(n)) <= IRCapacity
    BY <2>1, <2>6, <2>7, <2>8
  <2>10. Cardinality(TaxiOf(n)) <= Cardinality(TaxiOf(entries)) /\ Cardinality(TaxiOf(n)) \in Nat
         /\ Cardinality(TaxiOf(entries)) \in Nat
    BY <2>4, FewerIn
  <2>11. Cardinality(TaxiOf(entries)) <= TaxiSlots
    BY DEF WithinPlaces, TaxiOf
  <2>12. Cardinality(TaxiOf(n)) <= TaxiSlots
    BY <2>8, <2>10, <2>11
  <2> QED BY <2>9, <2>12 DEF WithinPlaces, TaxiOf
<1> QED BY <1>5, <1>6

\* Whatever changes the lineup leaves it within the league's places.
LEMMA PlacesKept ==
    AssistantInv /\ AssistantInv' /\ WithinPlaces(entries) /\ [AssistantNext]_assistantVars => WithinPlaces(entries')
<1> SUFFICES ASSUME AssistantInv, AssistantInv', WithinPlaces(entries), AssistantNext, entries' # entries
             PROVE  WithinPlaces(entries')
  BY DEF assistantVars
<1>1. /\ entries \in Rosters /\ entries' \in Rosters
      /\ \A s \in offers \cup notes : s.offer \in Proposals
  BY DEF AssistantInv, AssistantTyped, Pages
<1>2. ToolMoves \/ ToolLosesAnswer \/ Approve \/ FollowNote \/ ApproveClaim \/ AppReseats
  <2>1. ~(StartChat \/ StartAdvice \/ StartAnalysis \/ StartNote \/ SubProposal \/ RuleBased)
    BY DEF StartChat, StartAdvice, StartAnalysis, StartNote, Ask, SubProposal, RuleBased, team
  <2>2. ~ModelStep /\ ~ModelRetries /\ ~ModelFails
    BY DEF ModelStep, ModelCalls, ChatAnswered, AdviceAnswered, AskForSchema, SchemaAnswered,
         ModelRetries, ModelFails, team
  <2>3. ~(ToolReads \/ ToolReadsRows \/ ToolErrs \/ ToolDeclines \/ ToolProposes)
    BY DEF ToolReads, ToolReadsRows, ToolErrs, ToolDeclines, ToolProposes, team
  <2>4. ~(Decline \/ ReadNotes \/ HealthChanges \/ PlayerLocks)
    BY DEF Decline, ReadNotes, HealthChanges, PlayerLocks, team
  <2> QED BY <2>1, <2>2, <2>3, <2>4 DEF AssistantNext, ToolStep
<1>3. CASE Approve \/ FollowNote
  <2>1. PICK s \in offers \cup notes : entries' \in AfterMove(s.offer, started)
    BY <1>3 DEF Approve, FollowNote
  <2>2. s.offer.destination \in Destinations
    BY <1>1 DEF Proposals
  <2> QED BY <1>1, <2>1, <2>2, MoveStaysWithinPlaces
<1>4. CASE ToolMoves \/ ToolLosesAnswer
  <2>1. entries' \in ToolWrites
    BY <1>4 DEF ToolMoves, ToolLosesAnswer
  <2>2. CASE \E p \in DOMAIN Context, destination \in Destinations : entries' \in AfterMove(MoveOffer(p, destination), chat.board)
    BY <1>1, <2>2, MoveStaysWithinPlaces DEF MoveOffer, Offer
  <2>3. CASE \E p \in DOMAIN Context, i \in Slots : entries' \in AfterMove(Offer(p, "starter", i, NoPlayer), chat.board)
    BY <1>1, <2>3, MoveStaysWithinPlaces DEF Offer, Destinations
  <2>4. CASE \E S : entries' \in AfterLineup(S, chat.board)
    <3>1. PICK S : entries' = ApplyLocal(entries, S)
      BY <2>4 DEF AfterLineup
    <3>2. \A p \in Starting(S) : (CHOOSE j \in Slots : S[j] = p) \in Slots
      BY DEF Starting
    <3>3. /\ DOMAIN entries' = DOMAIN entries
          /\ \A p \in DOMAIN entries' : entries'[p] \in {IR, Taxi} => entries'[p] = entries[p]
      BY <3>1, <3>2, RosterAssumption DEF ApplyLocal
    <3> QED BY <1>1, <3>3, StaysWithinPlaces
  <2> QED BY <2>1, <2>2, <2>3, <2>4 DEF ToolWrites
<1>5. CASE ApproveClaim
  <2>1. PICK claim \in Claims(View) :
          entries' = [p \in ((DOMAIN entries \ {claim.drop}) \cup {claim.add}) \ {NoPlayer} |->
                        IF p \in DOMAIN entries \ {claim.drop} THEN entries[p] ELSE Bench]
    BY <1>5 DEF ApproveClaim
  <2>2. \A p \in DOMAIN entries' : entries'[p] \in {IR, Taxi} => p \in DOMAIN entries /\ entries'[p] = entries[p]
    BY <2>1, RosterAssumption
  <2> QED BY <1>1, <2>2, StaysWithinPlaces
<1>6. CASE AppReseats
  <2>1. PICK p, q \in DOMAIN entries \ started :
          /\ p # q /\ entries[q] \in Eligible[p] /\ entries[p] \in Eligible[q] \cup {Bench}
          /\ entries' = [entries EXCEPT ![p] = entries[q], ![q] = entries[p]]
    BY <1>6 DEF AppReseats
  <2>2. p \in Players /\ q \in Players
    BY <1>1, RosterShape
  <2>3. Eligible[p] \subseteq Slots /\ Eligible[q] \subseteq Slots
    BY <2>2, RosterAssumption
  <2>4. {entries[p], entries[q]} \cap {IR, Taxi} = {}
    BY <2>1, <2>3, RosterAssumption
  <2>5. /\ DOMAIN entries' = DOMAIN entries
        /\ \A k \in DOMAIN entries' : entries'[k] \in {IR, Taxi} => entries'[k] = entries[k]
    BY <2>1, <2>4
  <2> QED BY <1>1, <2>5, StaysWithinPlaces
<1> QED BY <1>2, <1>3, <1>4, <1>5, <1>6

LEMMA PlacesAlways == AssistantSpec => [](AssistantInv /\ WithinPlaces(entries))
<1>1. AssistantInit => WithinPlaces(entries)
  BY AssistantAssumption DEF AssistantInit
<1>2. AssistantInv /\ AssistantInv' /\ WithinPlaces(entries) /\ [AssistantNext]_assistantVars
        => WithinPlaces(entries)'
  BY PlacesKept
<1> QED BY <1>1, <1>2, AssistantAlways, PTL DEF AssistantSpec

-----------------------------------------------------------------------------
(* Grades and the notes read from them.                                    *)

LEMMA StartersCounted ==
    ASSUME NEW view, view.seats \in Rosters, NEW o
    PROVE  Active(view) \in SUBSET Players /\ CanStart(view, o) \in SUBSET Players
  BY RosterShape DEF Active, CanStart

\* Without a player, his position has the same players who could start but him.
LEMMA WithoutHim ==
    ASSUME NEW view, view.seats \in Rosters, view = [seats |-> view.seats, health |-> view.health, locked |-> view.locked],
           NEW p, NEW o
    PROVE  CanStart(LessOne(view, p), o) = CanStart(view, o) \ {p}
<1> DEFINE less == LessOne(view, p)
<1>1. /\ less.seats = [q \in DOMAIN view.seats \ {p} |-> view.seats[q]]
      /\ less.health = view.health
  BY DEF LessOne
<1> HIDE DEF less
<1>2. Active(less) = Active(view) \ {p}
  BY <1>1 DEF Active
<1>3. \A q : IsUnavailable(less, q) <=> IsUnavailable(view, q)
  BY <1>1 DEF IsUnavailable
<1> QED BY <1>2, <1>3 DEF CanStart, less

\* grade_position: one player fewer does not make a strong position weak.
LEMMA StrongBearsALoss ==
    ASSUME NEW o, NEW d \in Nat, NEW e \in Nat, e \in {d, d - 1}, Grade(o, d) = "Strong"
    PROVE  Grade(o, e) # "Weak"
<1>1. Required(o) \in Nat
  BY RequiredIsNatural
<1>2. CASE o \in {"QB", "K", "DEF"}
  <2>1. d - Required(o) > 0
    BY <1>1, <1>2 DEF Grade
  <2>2. e - Required(o) >= 0
    BY <1>1, <2>1
  <2> QED BY <1>1, <1>2, <2>2 DEF Grade
<1>3. CASE o \notin {"QB", "K", "DEF"}
  <2>1. d - Required(o) > 1
    BY <1>1, <1>3 DEF Grade
  <2>2. e - Required(o) >= 1
    BY <1>1, <2>1
  <2> QED BY <1>1, <1>3, <2>2 DEF Grade
<1> QED BY <1>2, <1>3

\* open_roster_spots and claim_player: the roster is what is active, on IR and on
\* taxi, and the last two are within their places.
LEMMA RoomIsRoom ==
    ASSUME NEW view, view.seats \in Rosters, WithinPlaces(view.seats), OpenSpots(view) > 0
    PROVE  ~Full(view)
<1> DEFINE active == Active(view)
           onIR == ReserveOf(view.seats)
           onTaxi == TaxiOf(view.seats)
           room == MaxRosterSize - IRCapacity - TaxiSlots - Cardinality(active)
<1>1. active \in SUBSET Players /\ onIR \in SUBSET Players /\ onTaxi \in SUBSET Players
  BY RosterShape DEF Active, ReserveOf, TaxiOf
<1>2. DOMAIN view.seats = active \cup (onIR \cup onTaxi)
  BY DEF Active, ReserveOf, TaxiOf
<1>3. OpenSpots(view) = Max({0, room})
  BY DEF OpenSpots
<1> HIDE DEF active, onIR, onTaxi
<1>4. Cardinality(DOMAIN view.seats) <= Cardinality(active) + Cardinality(onIR \cup onTaxi)
  BY <1>1, <1>2, UnionAtMost
<1>5. Cardinality(onIR \cup onTaxi) <= Cardinality(onIR) + Cardinality(onTaxi)
  BY <1>1, UnionAtMost
<1>6. Cardinality(onIR) <= IRCapacity /\ Cardinality(onTaxi) <= TaxiSlots
  BY DEF WithinPlaces, onIR, onTaxi, TaxiOf
<1>7. /\ Cardinality(active) \in Nat /\ Cardinality(onIR) \in Nat /\ Cardinality(onTaxi) \in Nat
      /\ Cardinality(onIR \cup onTaxi) \in Nat /\ Cardinality(DOMAIN view.seats) \in Nat
  BY <1>1, <1>2, FewerIn
<1>8. IRCapacity \in Nat /\ TaxiSlots \in Nat /\ MaxRosterSize \in Nat
  BY RosterAssumption, AppraisalAssumption
<1>9. room > 0
  <2>1. room \in Int
    BY <1>7, <1>8
  <2> HIDE DEF room
  <2>2. CASE room <= 0
    <3>1. Max({0, room}) = 0
      BY <2>1, <2>2 DEF Max
    <3> QED BY <1>3, <3>1
  <2> QED BY <2>1, <2>2
<1> QED BY <1>4, <1>5, <1>6, <1>7, <1>8, <1>9 DEF Full

\* pick_give prefers a player of a strong position to all others.
LEMMA OutOfAStrongPosition ==
    ASSUME NEW view, NEW q, NEW p \in PickGive(view, q), NEW s \in Active(view),
           GradeOf(view, Position[s]) = "Strong"
    PROVE  GradeOf(view, Position[p]) = "Strong"
<1> DEFINE a == GiveKey(view, q, p)
           b == GiveKey(view, q, s)
<1>1. Lexicographic(a, b)
  BY DEF PickGive
<1>2. b[1] = 0
  BY DEF GiveKey
<1>3. a[1] \in {0, 1, 2} /\ (a[1] = 0 => GradeOf(view, Position[p]) = "Strong")
  BY DEF GiveKey
<1>4. DOMAIN a = 1..4
  BY DEF GiveKey
<1> HIDE DEF a, b
<1>5. CASE a = b
  BY <1>2, <1>3, <1>5
<1>6. CASE \E k \in DOMAIN a : a[k] < b[k] /\ \A j \in 1..(k - 1) : a[j] = b[j]
  <2>1. PICK k \in 1..4 : a[k] < b[k] /\ \A j \in 1..(k - 1) : a[j] = b[j]
    BY <1>4, <1>6
  <2>2. k # 1
    BY <1>2, <1>3, <2>1
  <2>3. 1 \in 1..(k - 1)
    BY <2>2
  <2> QED BY <1>2, <1>3, <2>1, <2>3
<1> QED BY <1>1, <1>5, <1>6 DEF Lexicographic

LEMMA NotesAgreeAlways ==
    ASSUME entries \in Rosters, WithinPlaces(entries)
    PROVE  NotesAgree
<1>1. View.seats = entries /\ View.health = health /\ View = [seats |-> View.seats, health |-> View.health, locked |-> View.locked]
  BY DEF View
<1>2. OpenSpots(View) > 0 => ~Full(View)
  BY <1>1, RoomIsRoom
<1>3. ASSUME NEW p \in Active(View), GradeOf(View, Position[p]) = "Strong"
      PROVE  GradeOf(LessOne(View, p), Position[p]) # "Weak"
  <2> DEFINE o == Position[p]
             can == CanStart(View, o)
  <2>1. CanStart(LessOne(View, p), o) = can \ {p}
    BY <1>1, WithoutHim
  <2>2. can \in SUBSET Players
    BY <1>1, StartersCounted
  <2> HIDE DEF can
  <2>3. /\ Cardinality(can) \in Nat /\ Cardinality(can \ {p}) \in Nat
        /\ Cardinality(can \ {p}) \in {Cardinality(can), Cardinality(can) - 1}
    BY <2>2, OneLess
  <2>4. Grade(o, Cardinality(can)) = "Strong"
    BY <1>3 DEF GradeOf, can
  <2>5. Grade(o, Cardinality(can \ {p})) # "Weak"
    BY <2>3, <2>4, StrongBearsALoss
  <2> QED BY <2>1, <2>5 DEF GradeOf
<1>4. ASSUME TradeIdea(View), NEW q, NEW p \in PickGive(View, q)
      PROVE  GradeOf(View, Position[p]) = "Strong"
  <2>1. PICK o \in Surplus(View) : TRUE
    BY <1>4 DEF TradeIdea
  <2> DEFINE fit == {x \in CanStart(View, o) : IsHealthy(View, x)}
  <2>2. /\ GradeOf(View, o) = "Strong"
        /\ Cardinality(fit) - Required(o) >= (IF o \in {"RB", "WR"} THEN 3 ELSE 1)
    BY <2>1 DEF Surplus
  <2>3. fit # {}
    <3>1. CASE fit = {}
      <4>1. Cardinality(fit) = 0
        BY <3>1, FS_EmptySet
      <4> HIDE DEF fit
      <4> QED BY <2>2, <4>1, RequiredIsNatural
    <3> QED BY <3>1
  <2>4. PICK s \in fit : TRUE
    BY <2>3
  <2>5. s \in Active(View) /\ Position[s] = o
    BY <2>4 DEF CanStart
  <2> QED BY <1>4, <2>2, <2>5, OutOfAStrongPosition
<1>5. ASSUME NEW p \in DropCandidates(View), health[p] # "unsigned"
      PROVE  GradeOf(LessOne(View, p), Position[p]) = GradeOf(View, Position[p])
  <2>1. IsUnavailable(View, p)
    BY <1>1, <1>5 DEF DropCandidates, IsUnavailable
  <2>2. CanStart(View, Position[p]) \ {p} = CanStart(View, Position[p])
    BY <2>1 DEF CanStart
  <2>3. CanStart(LessOne(View, p), Position[p]) = CanStart(View, Position[p]) \ {p}
    BY <1>1, WithoutHim
  <2> QED BY <2>2, <2>3 DEF GradeOf
<1> QED BY <1>2, <1>3, <1>4, <1>5 DEF NotesAgree

-----------------------------------------------------------------------------
(* Verdicts on a trade of one player for another.                          *)

\* One player projects what he projects.
LEMMA OneProjected ==
    ASSUME NEW p, Points[p] \in Nat
    PROVE  Projected({p}) = Points[p]
<1> DEFINE Sums(f) == f = [s \in SUBSET {p} |-> IF s = {} THEN 0
                             ELSE Points[CHOOSE x \in s : TRUE] + f[s \ {CHOOSE x \in s : TRUE}]]
           iter == CHOOSE f : Sums(f)
           w == [s \in SUBSET {p} |-> IF s = {} THEN 0 ELSE Points[p]]
<1>1. Projected({p}) = iter[{p}]
  BY DEF Projected, MapThenSumSet, MapThenFoldSet
<1>2. (CHOOSE x \in {p} : TRUE) = p
  OBVIOUS
<1>3. SUBSET {p} = {{}, {p}}
  OBVIOUS
<1>4. Sums(w)
  BY <1>2, <1>3
<1>5. Sums(iter)
  BY <1>4
<1> HIDE DEF iter
<1>6. iter[{}] = 0
  BY <1>3, <1>5
<1>7. iter[{p}] = Points[p] + iter[{p} \ {p}]
  BY <1>2, <1>3, <1>5
<1>8. {p} \ {p} = {}
  OBVIOUS
<1> QED BY <1>1, <1>6, <1>7, <1>8

\* score_exchange: what one side calls a gain the other calls a loss.
LEMMA VerdictsMirror ==
    ASSUME NEW p, NEW q
    PROVE  Verdict({q}, {p}) = Mirror[Verdict({p}, {q})]
<1>1. CASE {p, q} \subseteq DOMAIN Points
  <2>1. Points[p] \in Nat /\ Points[q] \in Nat
    BY <1>1, AdviceAssumption
  <2>2. Projected({p}) = Points[p] /\ Projected({q}) = Points[q]
    BY <2>1, OneProjected
  <2> DEFINE a == Points[p]
             b == Points[q]
  <2>3. /\ Verdict({p}, {q}) = IF b - a > 4 THEN "ACCEPT" ELSE IF b - a < -4 THEN "REJECT" ELSE "NEGOTIATE"
        /\ Verdict({q}, {p}) = IF a - b > 4 THEN "ACCEPT" ELSE IF a - b < -4 THEN "REJECT" ELSE "NEGOTIATE"
    BY <1>1, <2>2 DEF Verdict
  <2> HIDE DEF a, b
  <2>4. a \in Nat /\ b \in Nat
    BY <2>1 DEF a, b
  <2>5. CASE b - a > 4
    <3>1. a - b < -4 /\ ~(a - b > 4)
      BY <2>4, <2>5
    <3> QED BY <2>3, <2>5, <3>1 DEF Mirror
  <2>6. CASE b - a < -4
    <3>1. a - b > 4 /\ ~(b - a > 4)
      BY <2>4, <2>6
    <3> QED BY <2>3, <2>6, <3>1 DEF Mirror
  <2>7. CASE ~(b - a > 4) /\ ~(b - a < -4)
    <3>1. ~(a - b > 4) /\ ~(a - b < -4)
      BY <2>4, <2>7
    <3> QED BY <2>3, <2>7, <3>1 DEF Mirror
  <2> QED BY <2>5, <2>6, <2>7
<1>2. CASE ~({p, q} \subseteq DOMAIN Points)
  <2>1. Verdict({p}, {q}) = "UNCLEAR" /\ Verdict({q}, {p}) = "UNCLEAR"
    BY <1>2 DEF Verdict
  <2> QED BY <2>1 DEF Mirror
<1> QED BY <1>1, <1>2

Thin(view, o) == GradeOf(view, o) \in {"Weak", "Needs depth"}

\* deterministic_trade says what score_exchange says, where neither position is thin.
LEMMA AssessedByPoints ==
    ASSUME NEW view, NEW p, NEW q,
           ~Thin(view, Position[p]), ~Thin(view, Position[q])
    PROVE  Assess(view, {p}, {q}) = Verdict({p}, {q})
<1>1. /\ {x \in {p} : GradeOf(view, Position[x]) \in {"Weak", "Needs depth"}} = {}
      /\ {x \in {q} : GradeOf(view, Position[x]) \in {"Weak", "Needs depth"}} = {}
  BY DEF Thin
<1> DEFINE projected == {p, q} \subseteq DOMAIN Points
           delta == IF projected THEN Projected({q}) - Projected({p}) ELSE 0
           points == IF delta > 4 THEN 1 ELSE IF delta < -4 THEN -1 ELSE 0
           score == 0 - 0 + points
<1>2. Assess(view, {p}, {q}) = CASE ~projected /\ score = 0 -> "UNCLEAR"
                                 [] score > 0 -> "ACCEPT"
                                 [] score < 0 -> "REJECT"
                                 [] OTHER -> "NEGOTIATE"
  <2>1. Cardinality({}) = 0
    BY FS_EmptySet
  <2>2. {p} \cup {q} = {p, q}
    OBVIOUS
  <2> QED BY <1>1, <2>1, <2>2 DEF Assess
<1>3. ASSUME projected PROVE delta = Projected({q}) - Projected({p}) /\ delta \in Int
  <2>1. Points[p] \in Nat /\ Points[q] \in Nat
    BY <1>3, AdviceAssumption
  <2>2. Projected({p}) = Points[p] /\ Projected({q}) = Points[q]
    BY <2>1, OneProjected
  <2>3. delta = Projected({q}) - Projected({p})
    BY <1>3
  <2> HIDE DEF delta
  <2>4. delta \in Int
    BY <2>1, <2>2, <2>3
  <2> QED BY <2>3, <2>4
<1>4. ~projected => delta = 0
  OBVIOUS
<1> HIDE DEF delta, projected
<1>5. delta \in Int
  BY <1>3, <1>4
<1>6. /\ delta > 4 => score = 1
      /\ ~(delta > 4) /\ delta < -4 => score = -1
      /\ ~(delta > 4) /\ ~(delta < -4) => score = 0
  BY <1>5
<1> HIDE DEF score
<1>7. CASE projected
  <2>1. {p} \cup {q} \subseteq DOMAIN Points /\ {p} # {} /\ {q} # {}
    BY <1>7 DEF projected
  <2>2. Verdict({p}, {q}) = IF delta > 4 THEN "ACCEPT" ELSE IF delta < -4 THEN "REJECT" ELSE "NEGOTIATE"
    BY <1>3, <1>7, <2>1 DEF Verdict
  <2>3. CASE delta > 4
    <3>1. score = 1
      BY <1>6, <2>3
    <3>2. score > 0 /\ ~(score < 0) /\ score # 0
      BY <3>1
    <3>3. Assess(view, {p}, {q}) = "ACCEPT"
      BY <1>2, <3>2, Zenon
    <3> QED BY <2>2, <2>3, <3>3
  <2>4. CASE ~(delta > 4) /\ delta < -4
    <3>1. score = -1
      BY <1>6, <2>4
    <3>2. ~(score > 0) /\ score < 0 /\ score # 0
      BY <3>1
    <3>3. Assess(view, {p}, {q}) = "REJECT"
      BY <1>2, <3>2, Zenon
    <3> QED BY <2>2, <2>4, <3>3
  <2>5. CASE ~(delta > 4) /\ ~(delta < -4)
    <3>1. score = 0
      BY <1>6, <2>5
    <3>2. ~(score > 0) /\ ~(score < 0)
      BY <3>1
    <3>3. Assess(view, {p}, {q}) = "NEGOTIATE"
      BY <1>2, <1>7, <3>2, Zenon
    <3> QED BY <2>2, <2>5, <3>3
  <2> QED BY <2>3, <2>4, <2>5
<1>8. CASE ~projected
  <2>1. Verdict({p}, {q}) = "UNCLEAR"
    BY <1>8 DEF Verdict, projected
  <2>2. score = 0
    BY <1>4, <1>6, <1>8
  <2>3. ~(score > 0) /\ ~(score < 0)
    BY <2>2
  <2>4. Assess(view, {p}, {q}) = "UNCLEAR"
    BY <1>2, <1>8, <2>2, <2>3, Zenon
  <2> QED BY <2>1, <2>4
<1> QED BY <1>7, <1>8

\* exchanges: the record of a trade between two teams.
Traded(p, q) == [adds  |-> {[player |-> q, team |-> "ours"], [player |-> p, team |-> "theirs"]},
                 drops |-> {[player |-> p, team |-> "ours"], [player |-> q, team |-> "theirs"]}]

LEMMA RowsOfATrade ==
    ASSUME NEW p, NEW q
    PROVE  LET rows == Exchanges(Traded(p, q).adds, Traded(p, q).drops)
           IN  /\ DOMAIN rows = {"ours", "theirs"}
               /\ rows["ours"].sent = {p} /\ rows["ours"].received = {q}
               /\ rows["theirs"].sent = {q} /\ rows["theirs"].received = {p}
<1> DEFINE adds == Traded(p, q).adds
           drops == Traded(p, q).drops
           rows == Exchanges(adds, drops)
<1>1. /\ adds = {[player |-> q, team |-> "ours"], [player |-> p, team |-> "theirs"]}
      /\ drops = {[player |-> p, team |-> "ours"], [player |-> q, team |-> "theirs"]}
  BY DEF Traded
<1> HIDE DEF adds, drops
<1>2. {m.team : m \in adds \cup drops} = {"ours", "theirs"}
  BY <1>1
<1>3. /\ {m \in drops : m.team = "ours"} = {[player |-> p, team |-> "ours"]}
      /\ {m \in drops : m.team = "theirs"} = {[player |-> q, team |-> "theirs"]}
      /\ {m \in adds : m.team = "ours"} = {[player |-> q, team |-> "ours"]}
      /\ {m \in adds : m.team = "theirs"} = {[player |-> p, team |-> "theirs"]}
  BY <1>1
<1>4. \A x, t : {m.player : m \in {[player |-> x, team |-> t]}} = {x}
  OBVIOUS
<1>5. rows = [t \in {"ours", "theirs"} |->
                [sent     |-> {m.player : m \in {m \in drops : m.team = t}},
                 received |-> {m.player : m \in {m \in adds : m.team = t}}]]
  BY <1>2 DEF Exchanges
<1> HIDE DEF rows
<1>6. /\ rows["ours"].sent = {m.player : m \in {m \in drops : m.team = "ours"}}
      /\ rows["ours"].received = {m.player : m \in {m \in adds : m.team = "ours"}}
      /\ rows["theirs"].sent = {m.player : m \in {m \in drops : m.team = "theirs"}}
      /\ rows["theirs"].received = {m.player : m \in {m \in adds : m.team = "theirs"}}
      /\ DOMAIN rows = {"ours", "theirs"}
  BY <1>5
<1>7. /\ rows["ours"].sent = {p} /\ rows["ours"].received = {q}
      /\ rows["theirs"].sent = {q} /\ rows["theirs"].received = {p}
  BY <1>3, <1>4, <1>6
<1> QED BY <1>6, <1>7 DEF rows, adds, drops

\* review_trade: each manager reads the verdict on his side, an onlooker either.
LEMMA ReviewsOfATrade ==
    ASSUME NEW p, NEW q
    PROVE  LET adds == Traded(p, q).adds
               drops == Traded(p, q).drops
           IN  /\ Reviews(adds, drops, "ours") = {Verdict({p}, {q})}
               /\ Reviews(adds, drops, "theirs") = {Verdict({q}, {p})}
               /\ Reviews(adds, drops, "nobody's") = {Verdict({p}, {q}), Verdict({q}, {p})}
<1> DEFINE adds == Traded(p, q).adds
           drops == Traded(p, q).drops
           rows == Exchanges(adds, drops)
<1>1. /\ DOMAIN rows = {"ours", "theirs"}
      /\ rows["ours"].sent = {p} /\ rows["ours"].received = {q}
      /\ rows["theirs"].sent = {q} /\ rows["theirs"].received = {p}
  BY RowsOfATrade
<1>2. {m.team : m \in drops} = {"ours", "theirs"} /\ drops # {}
  BY DEF Traded
<1> HIDE DEF adds, drops
<1>3. /\ Reviewed(adds, drops, "ours") = {"ours"}
      /\ Reviewed(adds, drops, "theirs") = {"theirs"}
      /\ Reviewed(adds, drops, "nobody's") = {"ours", "theirs"}
  BY <1>1, <1>2 DEF Reviewed
<1>4. \A side : Reviews(adds, drops, side) =
        {Verdict(rows[t].sent, rows[t].received) :
           t \in {t \in Reviewed(adds, drops, side) : {} \notin {rows[t].sent, rows[t].received}}}
  BY DEF Reviews
<1> HIDE DEF rows
<1>5. \A t \in {"ours", "theirs"} : {} \notin {rows[t].sent, rows[t].received}
  BY <1>1
<1>6. Reviews(adds, drops, "ours") = {Verdict({p}, {q})}
  <2>1. {t \in {"ours"} : {} \notin {rows[t].sent, rows[t].received}} = {"ours"}
    BY <1>5
  <2>2. Reviews(adds, drops, "ours") = {Verdict(rows["ours"].sent, rows["ours"].received)}
    BY <1>3, <1>4, <2>1
  <2> QED BY <1>1, <2>2
<1>7. Reviews(adds, drops, "theirs") = {Verdict({q}, {p})}
  <2>1. {t \in {"theirs"} : {} \notin {rows[t].sent, rows[t].received}} = {"theirs"}
    BY <1>5
  <2>2. Reviews(adds, drops, "theirs") = {Verdict(rows["theirs"].sent, rows["theirs"].received)}
    BY <1>3, <1>4, <2>1
  <2> QED BY <1>1, <2>2
<1>8. Reviews(adds, drops, "nobody's") = {Verdict({p}, {q}), Verdict({q}, {p})}
  <2>1. {t \in {"ours", "theirs"} : {} \notin {rows[t].sent, rows[t].received}} = {"ours", "theirs"}
    BY <1>5
  <2>2. Reviews(adds, drops, "nobody's") = {Verdict(rows[t].sent, rows[t].received) : t \in {"ours", "theirs"}}
    BY <1>3, <1>4, <2>1
  <2>3. Reviews(adds, drops, "nobody's") = {Verdict(rows["ours"].sent, rows["ours"].received),
                                             Verdict(rows["theirs"].sent, rows["theirs"].received)}
    BY <2>2
  <2> QED BY <1>1, <2>3
<1> QED BY <1>6, <1>7, <1>8 DEF adds, drops

LEMMA VerdictsAgreeAlways ==
    ASSUME entries \in Rosters
    PROVE  VerdictsAgree
<1>1. View.seats = entries /\ View.health = health
  BY DEF View
<1>2. ASSUME NEW s, IsUnavailable(View, s.over), health[s.over] # "inactive"
      PROVE  Alert(View, s.over) = "HIGH"
  BY <1>1, <1>2 DEF IsUnavailable, Alert
<1>3. ASSUME NEW p \in DOMAIN entries, entries[p] \in Slots, Alert(View, p) = "HIGH", health[p] # "suspended"
      PROVE  entries[p] \in LineupIssues(View)
  <2>1. Occupant(View, entries[p]) = p
    BY <1>1, <1>3, AlignedSeats DEF Occupant
  <2>2. health[p] \in {"out", "bye", "doubtful"}
    BY <1>1, <1>3 DEF Alert
  <2> QED BY <1>1, <1>3, <2>1, <2>2 DEF LineupIssues
<1>4. ASSUME NEW p \in DOMAIN entries, NEW q \in Players \ DOMAIN entries
      PROVE  LET adds == Traded(p, q).adds
                 drops == Traded(p, q).drops
                 ours == Reviews(adds, drops, "ours")
             IN  /\ {Position[p], Position[q]} \subseteq Listed(View) \ Weakest(View) => ours = {Assess(View, {p}, {q})}
                 /\ Reviews(adds, drops, "theirs") = {Mirror[v] : v \in ours}
                 /\ Reviews(adds, drops, "nobody's") = ours \cup {Mirror[v] : v \in ours}
  <2> DEFINE adds == Traded(p, q).adds
             drops == Traded(p, q).drops
  <2>1. /\ Reviews(adds, drops, "ours") = {Verdict({p}, {q})}
        /\ Reviews(adds, drops, "theirs") = {Verdict({q}, {p})}
        /\ Reviews(adds, drops, "nobody's") = {Verdict({p}, {q}), Verdict({q}, {p})}
    BY ReviewsOfATrade
  <2>2. Verdict({q}, {p}) = Mirror[Verdict({p}, {q})]
    BY VerdictsMirror
  <2>3. ASSUME {Position[p], Position[q]} \subseteq Listed(View) \ Weakest(View)
        PROVE  Assess(View, {p}, {q}) = Verdict({p}, {q})
    <3>1. ~Thin(View, Position[p]) /\ ~Thin(View, Position[q])
      BY <2>3 DEF Weakest, Thin
    <3> QED BY <3>1, AssessedByPoints
  <2> HIDE DEF adds, drops
  <2>4. /\ {Position[p], Position[q]} \subseteq Listed(View) \ Weakest(View) =>
             Reviews(adds, drops, "ours") = {Assess(View, {p}, {q})}
        /\ Reviews(adds, drops, "theirs") = {Mirror[v] : v \in Reviews(adds, drops, "ours")}
        /\ Reviews(adds, drops, "nobody's")
             = Reviews(adds, drops, "ours") \cup {Mirror[v] : v \in Reviews(adds, drops, "ours")}
    BY <2>1, <2>2, <2>3
  <2> USE DEF adds, drops
  <2> QED BY <2>4
<1>5. \A s \in StartSit(View) :
        IsUnavailable(View, s.over) /\ health[s.over] # "inactive" => Alert(View, s.over) = "HIGH"
  BY <1>2
<1>6. \A p \in DOMAIN entries :
        entries[p] \in Slots /\ Alert(View, p) = "HIGH" /\ health[p] # "suspended" =>
          entries[p] \in LineupIssues(View)
  BY <1>3
<1> QED BY <1>4, <1>5, <1>6 DEF VerdictsAgree, Traded

\* What OMAHA says of one roster in different places - open spots and claims, depth
\* and drops, trade ideas and drafts, swaps, alerts and lineup issues, the verdict on
\* a trade before and after and from both sides - does not contradict itself, for
\* any league, roster, injuries and projections a chat can meet.
THEOREM AppraisalsDoNotContradict == AssistantSpec => []AppraisalsAgree
<1>1. AssistantInv /\ WithinPlaces(entries) => AppraisalsAgree
  BY NotesAgreeAlways, VerdictsAgreeAlways DEF AssistantInv, AssistantTyped, AppraisalsAgree
<1> QED BY <1>1, PlacesAlways, PTL

-----------------------------------------------------------------------------
(* The writes of a request are steps of Assistant.                         *)
(* Where entries and started are the rows and the kickoffs a request has   *)
(* read, what SleeperWrites saves for it is what Assistant does in a step. *)

\* What move_player computed when it accepted the move, and the lists it has
\* still to send.
MoveAsked(j, p, destination, asked, target) ==
    /\ IF destination = "starter" THEN target \in TargetSlots(j.base, p, asked) ELSE target = NoIndex
    /\ Legal(j.base, p, destination, target)
    /\ j.wantS = DesiredStarters(j.base, p, destination, target)
    /\ j.wantR = DesiredReserve(j.base, p, destination)
    /\ LET order == Steps(j.base, p, destination, j.wantS, j.wantR)
       IN  j.todo \in {order, Tail(order)}

\* What set_lineup accepted.
LineupAsked(j) ==
    \A i \in Slots : j.wantS[i] # NoPlayer =>
        j.base[j.wantS[i]] \notin {IR, Taxi} /\ i \in Eligible[j.wantS[i]]

Asked(j) ==
    IF j.kind = "move"
    THEN \E p \in Players, destination \in Destinations, asked, target \in Slots \cup {NoIndex} :
            MoveAsked(j, p, destination, asked, target)
    ELSE LineupAsked(j)

AskedInv == \A w \in Writers : job[w].phase # "idle" => Asked(job[w])

\* A move whose first list alone is saved: the player is on the bench, and
\* nobody else is moved. It is the write a move to the bench would have been.
LEMMA HalfIsAMove ==
    ASSUME NEW r \in Rosters, NEW p \in DOMAIN r, NEW destination \in Destinations,
           NEW target, destination = "starter" => target \in Slots,
           Legal(r, p, destination, target),
           NEW L, Moved(r, DesiredStarters(r, p, destination, target),
                        DesiredReserve(r, p, destination)) \cap L = {},
           DesiredStarters(r, p, destination, target) # AlignedStarters(r),
           DesiredReserve(r, p, destination) # ReserveOf(r)
    PROVE  LET A == AlignedStarters(r)
               V == ReserveOf(r)
               S == DesiredStarters(r, p, destination, target)
               R == DesiredReserve(r, p, destination)
               B == DesiredStarters(r, p, "bench", NoIndex)
               C == DesiredReserve(r, p, "bench")
           IN  /\ Legal(r, p, "bench", NoIndex)
               /\ Moved(r, B, C) \cap L = {}
               /\ r[p] = IR => B = A /\ C = R
               /\ r[p] # IR => B = S /\ C = V
<1> DEFINE A == AlignedStarters(r)
           V == ReserveOf(r)
           S == DesiredStarters(r, p, destination, target)
           R == DesiredReserve(r, p, destination)
           B == DesiredStarters(r, p, "bench", NoIndex)
           C == DesiredReserve(r, p, "bench")
<1>1. p \in Players /\ A \in [Slots -> Players \cup {NoPlayer}] /\ NoPlayer \notin Players
  BY RosterShape, AlignedType, RosterAssumption DEF Lineups
<1>2. /\ B = Without(A, p) /\ C = V \ {p}
      /\ destination # "starter" => S = Without(A, p)
      /\ R = IF destination = "ir" THEN V \cup {p} ELSE V \ {p}
      /\ p \in V <=> r[p] = IR
  BY DEF DesiredStarters, DesiredReserve, ReserveOf
<1>3. r[p] = IR => Without(A, p) = A
  <2> SUFFICES ASSUME r[p] = IR PROVE Without(A, p) = A
    OBVIOUS
  <2>1. \A i \in Slots : A[i] # p
    BY <1>1, AlignedSeats, RosterAssumption
  <2>2. Without(A, p) = [i \in Slots |-> A[i]]
    BY <2>1 DEF Without
  <2> QED BY <1>1, <2>2
<1>4. Legal(r, p, "bench", NoIndex)
  BY DEF Legal
<1>5. Moved(r, S, R) = (({A[i] : i \in {j \in Slots : A[j] # S[j]}}
                          \cup {S[i] : i \in {j \in Slots : A[j] # S[j]}}) \ {NoPlayer})
                        \cup (V \ R) \cup (R \ V)
  BY DEF Moved
<1>6. Moved(r, B, C) = (({A[i] : i \in {j \in Slots : A[j] # B[j]}}
                          \cup {B[i] : i \in {j \in Slots : A[j] # B[j]}}) \ {NoPlayer})
                        \cup (V \ C) \cup (C \ V)
  BY DEF Moved
<1>7. S # A /\ R # V /\ destination \in {"bench", "ir", "starter"} /\ Moved(r, S, R) \cap L = {}
  BY DEF Destinations
<1> HIDE DEF A, V, S, R, B, C
<1>8. CASE r[p] = IR
  <2>1. destination = "starter" /\ B = A /\ C = R
    BY <1>2, <1>3, <1>7, <1>8
  <2>2. Moved(r, B, C) \subseteq Moved(r, S, R)
    BY <1>5, <1>6, <2>1
  <2>3. Moved(r, B, C) \cap L = {} /\ B = A /\ C = R
    BY <1>7, <2>1, <2>2
  <2> QED BY <1>4, <1>8, <2>3 DEF A, V, S, R, B, C
<1>9. CASE r[p] # IR
  <2>1. destination = "ir" /\ B = S /\ C = V
    BY <1>2, <1>7, <1>9
  <2>2. Moved(r, B, C) \subseteq Moved(r, S, R)
    BY <1>5, <1>6, <2>1
  <2>3. Moved(r, B, C) \cap L = {} /\ B = S /\ C = V
    BY <1>7, <2>1, <2>2
  <2> QED BY <1>4, <1>9, <2>3 DEF A, V, S, R, B, C
<1> QED BY <1>8, <1>9

\* A request that takes a step keeps what the others asked.
LEMMA OneAsked ==
    ASSUME TypeOK, AskedInv, NEW w \in Writers, NEW k, k.phase # "idle" => Asked(k),
           job' = [job EXCEPT ![w] = k]
    PROVE  AskedInv'
<1>1. job'[w] = k /\ \A v \in Writers \ {w} : job'[v] = job[v]
  BY DEF TypeOK
<1>2. ASSUME NEW v \in Writers, job'[v].phase # "idle" PROVE Asked(job'[v])
  BY <1>1, <1>2 DEF AskedInv
<1> QED BY <1>2 DEF AskedInv

\* What was asked does not depend on how far the request has come.
LEMMA AskedFrame ==
    ASSUME NEW j, NEW k, Asked(j),
           k.base = j.base, k.wantS = j.wantS, k.wantR = j.wantR, k.kind = j.kind, k.todo = j.todo
    PROVE  Asked(k)
  BY DEF Asked, MoveAsked, LineupAsked

\* A request is begun.
LEMMA RequestAsked ==
    ASSUME TypeOK, AskedInv, NEW w \in Writers, RequestMove(w) \/ RequestLineup(w)
    PROVE  AskedInv'
<1>1. CASE RequestMove(w)
  <2>1. PICK week \in Weeks, p \in Players, destination \in Destinations,
             asked \in Slots \cup {NoIndex}, target \in Slots \cup {NoIndex} :
          /\ IF destination = "starter" THEN target \in TargetSlots(local[week], p, asked)
             ELSE target = NoIndex /\ asked = NoIndex
          /\ Move(w, week, p, destination, target)
    BY <1>1 DEF RequestMove
  <2> DEFINE r == local[week]
             S == DesiredStarters(r, p, destination, target)
             R == DesiredReserve(r, p, destination)
             order == Steps(r, p, destination, S, R)
             j == [phase |-> "prereadStarters", kind |-> "move", week |-> week,
                   base |-> r, wantS |-> S, wantR |-> R, todo |-> order,
                   haveS |-> AlignedStarters(r), haveR |-> ReserveOf(r),
                   seenS |-> [i \in Slots |-> NoPlayer], locked |-> LockedNow(week)]
  <2>2. Legal(r, p, destination, target) /\ job' = [job EXCEPT ![w] = j]
    BY <2>1 DEF Move, Begin
  <2>3. MoveAsked(j, p, destination, asked, target)
    BY <2>1, <2>2 DEF MoveAsked
  <2>4. j.kind = "move"
    OBVIOUS
  <2> HIDE DEF j
  <2>5. Asked(j)
    BY <2>3, <2>4 DEF Asked
  <2> QED BY <2>2, <2>5, OneAsked
<1>2. CASE RequestLineup(w)
  <2>1. PICK week \in Weeks, S \in Lineups :
          /\ \A i \in Slots : S[i] # NoPlayer =>
               S[i] \in DOMAIN local[week] /\ local[week][S[i]] \notin {IR, Taxi} /\ i \in Eligible[S[i]]
          /\ Begin(w, "set", week, S, ReserveOf(local[week]), <<"starters">>)
    BY <1>2 DEF RequestLineup
  <2> DEFINE r == local[week]
             j == [phase |-> "prereadStarters", kind |-> "set", week |-> week,
                   base |-> r, wantS |-> S, wantR |-> ReserveOf(r), todo |-> <<"starters">>,
                   haveS |-> AlignedStarters(r), haveR |-> ReserveOf(r),
                   seenS |-> [i \in Slots |-> NoPlayer], locked |-> LockedNow(week)]
  <2>2. job' = [job EXCEPT ![w] = j]
    BY <2>1 DEF Begin
  <2>3. LineupAsked(j) /\ j.kind = "set"
    BY <2>1 DEF LineupAsked
  <2> HIDE DEF j
  <2>4. Asked(j)
    BY <2>3 DEF Asked
  <2> QED BY <2>2, <2>4, OneAsked
<1> QED BY <1>1, <1>2

\* A request goes on, with the same list at the head.
LEMMA PhaseAsked ==
    ASSUME TypeOK, AskedInv, NEW w \in Writers,
           \/ PrereadStarters(w) \/ GuardPasses(w) \/ PrereadFails(w)
           \/ PushApplied(w) \/ PushIgnored(w) \/ ReadbackMatches(w)
    PROVE  AskedInv'
<1>1. job[w].phase # "idle" /\ job[w] \in JobType
  BY JobFields DEF PrereadStarters, GuardPasses, PrereadFails, PushApplied, PushIgnored, ReadbackMatches
<1>2. PICK k : /\ job' = [job EXCEPT ![w] = k]
               /\ k.base = job[w].base /\ k.wantS = job[w].wantS /\ k.wantR = job[w].wantR
               /\ k.kind = job[w].kind /\ k.todo = job[w].todo
  <2>1. CASE PrereadStarters(w)
    <3>1. PICK S : job' = [job EXCEPT ![w] = [job[w] EXCEPT !.phase = "prereadReserve", !.seenS = S]]
      BY <2>1 DEF PrereadStarters
    <3> DEFINE k == [job[w] EXCEPT !.phase = "prereadReserve", !.seenS = S]
    <3>2. job' = [job EXCEPT ![w] = k]
      BY <3>1
    <3>3. /\ k.base = job[w].base /\ k.wantS = job[w].wantS /\ k.wantR = job[w].wantR
         /\ k.kind = job[w].kind /\ k.todo = job[w].todo
      BY <1>1 DEF JobType
    <3> HIDE DEF k
    <3> QED BY <3>2, <3>3
  <2>2. CASE GuardPasses(w) \/ PrereadFails(w) \/ PushApplied(w) \/ PushIgnored(w)
    <3>1. PICK phase : job' = [job EXCEPT ![w].phase = phase]
      BY <2>2 DEF GuardPasses, PrereadFails, PushApplied, PushIgnored
    <3> DEFINE k == [job[w] EXCEPT !.phase = phase]
    <3>2. job' = [job EXCEPT ![w] = k]
      BY <3>1
    <3>3. /\ k.base = job[w].base /\ k.wantS = job[w].wantS /\ k.wantR = job[w].wantR
         /\ k.kind = job[w].kind /\ k.todo = job[w].todo
      BY <1>1 DEF JobType
    <3> HIDE DEF k
    <3> QED BY <3>2, <3>3
  <2>3. CASE ReadbackMatches(w) /\ Head(job[w].todo) = "starters"
    <3> DEFINE k == [job[w] EXCEPT !.phase = "apply", !.haveS = job[w].wantS]
    <3>2. job' = [job EXCEPT ![w] = k]
      BY <2>3 DEF ReadbackMatches
    <3>3. /\ k.base = job[w].base /\ k.wantS = job[w].wantS /\ k.wantR = job[w].wantR
         /\ k.kind = job[w].kind /\ k.todo = job[w].todo
      BY <1>1 DEF JobType
    <3> HIDE DEF k
    <3> QED BY <3>2, <3>3
  <2>4. CASE ReadbackMatches(w) /\ Head(job[w].todo) # "starters"
    <3> DEFINE k == [job[w] EXCEPT !.phase = "apply", !.haveR = job[w].wantR]
    <3>2. job' = [job EXCEPT ![w] = k]
      BY <2>4 DEF ReadbackMatches
    <3>3. /\ k.base = job[w].base /\ k.wantS = job[w].wantS /\ k.wantR = job[w].wantR
         /\ k.kind = job[w].kind /\ k.todo = job[w].todo
      BY <1>1 DEF JobType
    <3> HIDE DEF k
    <3> QED BY <3>2, <3>3
  <2> QED BY <2>1, <2>2, <2>3, <2>4
<1>3. Asked(job[w])
  BY <1>1 DEF AskedInv
<1>4. Asked(k)
  BY <1>2, <1>3, AskedFrame
<1> QED BY <1>2, <1>4, OneAsked

\* A request goes on to its second list.
LEMMA NextListAsked ==
    ASSUME TypeOK, PlanInv, AskedInv, NEW w \in Writers, Apply(w), Len(job[w].todo) # 1
    PROVE  AskedInv'
<1> DEFINE j == job[w]
           k == [j EXCEPT !.phase = "push", !.todo = Tail(j.todo)]
<1>1. j.phase = "apply" /\ PlanOK(j) /\ Asked(j) /\ j \in JobType /\ j.todo # << >>
  BY JobFields DEF Apply, PlanInv, AskedInv, TypeOK
<1>2. job' = [job EXCEPT ![w] = k]
  BY DEF Apply
<1>3. /\ k.base = j.base /\ k.wantS = j.wantS /\ k.wantR = j.wantR /\ k.kind = j.kind
      /\ k.todo = Tail(j.todo) /\ k.phase = "push" /\ j.base \in Rosters
  BY <1>1 DEF JobType
<1>4. j.todo \in {<<"starters", "reserve">>, <<"reserve", "starters">>}
  BY <1>1 DEF JobType, Plans
<1> HIDE DEF j, k
<1>5. j.kind # "set" /\ j.kind \in {"move", "set"}
  BY <1>1, <1>4 DEF PlanOK, Wanted, JobType
<1>6. PICK p \in Players, destination \in Destinations, asked \in Slots \cup {NoIndex},
           target \in Slots \cup {NoIndex} : MoveAsked(j, p, destination, asked, target)
  BY <1>1, <1>5 DEF Asked
<1>7. p \in DOMAIN j.base /\ (destination = "starter" => target \in Slots)
  BY <1>6, RosterAssumption DEF MoveAsked, Legal
<1> DEFINE order == Steps(j.base, p, destination, j.wantS, j.wantR)
<1>8. order \in Plans \cup {<< >>} /\ j.todo \in {order, Tail(order)}
  BY <1>3, <1>6, <1>7, OrderTells DEF MoveAsked
<1>9. j.todo = order
  <2>1. Len(j.todo) = 2
    BY <1>4
  <2>2. ASSUME NEW o \in Plans \cup {<< >>} PROVE Len(Tail(o)) # 2
    <3>1. CASE o \in {<<"starters">>, <<"reserve">>, << >>}
      BY <3>1
    <3>2. CASE o \in {<<"starters", "reserve">>, <<"reserve", "starters">>}
      BY <3>2
    <3> QED BY <3>1, <3>2 DEF Plans
  <2> HIDE DEF order
  <2> QED BY <1>8, <2>1, <2>2
<1>10. MoveAsked(k, p, destination, asked, target)
  BY <1>3, <1>6, <1>9 DEF MoveAsked
<1>11. Asked(k)
  BY <1>3, <1>5, <1>10 DEF Asked
<1> QED BY <1>2, <1>11, OneAsked

\* What was asked stays what a request works on.
LEMMA AskedNext == TypeOK /\ PlanInv /\ AskedInv /\ [Next]_vars => AskedInv'
<1> SUFFICES ASSUME TypeOK, PlanInv, AskedInv, [Next]_vars PROVE AskedInv'
  OBVIOUS
<1>1. CASE \E w \in Writers : RequestMove(w) \/ RequestLineup(w)
  BY <1>1, RequestAsked
<1>2. ASSUME NEW w \in Writers, WriterStep(w) PROVE AskedInv'
  <2>1. CASE \/ PrereadStarters(w) \/ GuardPasses(w) \/ PrereadFails(w)
             \/ PushApplied(w) \/ PushIgnored(w) \/ ReadbackMatches(w)
    BY <2>1, PhaseAsked
  <2>2. CASE Apply(w) /\ Len(job[w].todo) # 1
    BY <2>2, NextListAsked
  <2>3. CASE job' = [job EXCEPT ![w] = NoJob]
    <3>1. NoJob.phase = "idle"
      BY DEF NoJob
    <3> QED BY <2>3, <3>1, OneAsked
  <2> QED BY <1>2, <2>1, <2>2, <2>3
        DEF WriterStep, GuardConflicts, PushRefused, PushRefusedAuth, PushLost,
            ReadbackDiffers, ReadbackFails, Apply, Crash, End
<1>3. CASE UNCHANGED job
  BY <1>3 DEF AskedInv
<1>4. CASE \/ AppSetsLineup \/ AppSetsReserve \/ AppSwapsPlayer
           \/ PublicCatchesUp \/ RefreshCommits \/ Kickoff
  BY <1>3, <1>4 DEF AppSetsLineup, AppSetsReserve, AppSwapsPlayer, PublicCatchesUp,
                    RefreshCommits, Kickoff
<1> QED BY <1>1, <1>2, <1>3, <1>4 DEF Next, vars

LEMMA AskedAlways == Spec => [](TypeOK /\ PlanInv /\ AskedInv)
<1>1. Init => AskedInv
  BY DEF Init, AskedInv, NoJob
<1>2. TypeOK /\ PlanInv /\ AskedInv /\ [Next]_vars => AskedInv'
  BY AskedNext
<1> QED BY <1>1, <1>2, PlanAlways, PTL DEF Spec

------------------------------------------------------------------------

\* The rosters one write of Assistant leads to.
OneWrite ==
    (UNION {AfterMove(Offer(p, destination, i, NoPlayer), started) :
              p \in Players, destination \in Destinations, i \in Slots \cup {NoIndex}})
    \cup (UNION {AfterLineup(S, started) : S \in Lineups})

\* An accepted move is a write of Assistant.
LEMMA MoveIsOneWrite ==
    ASSUME NEW p \in Players, NEW destination \in Destinations,
           NEW asked \in Slots \cup {NoIndex}, NEW target,
           IF destination = "starter" THEN target \in TargetSlots(entries, p, asked) ELSE target = NoIndex,
           Legal(entries, p, destination, target),
           Moved(entries, DesiredStarters(entries, p, destination, target),
                 DesiredReserve(entries, p, destination)) \cap started = {}
    PROVE  Placement(entries, DesiredStarters(entries, p, destination, target),
                     DesiredReserve(entries, p, destination)) \in OneWrite
<1> DEFINE m == Offer(p, destination, asked, NoPlayer)
<1>1. m.player = p /\ m.destination = destination /\ m.slot = asked
  BY DEF Offer
<1> HIDE DEF m
<1>2. target \in Allowed(m, started)
  BY <1>1 DEF Allowed, DesiredS, DesiredR
<1>3. Placement(entries, DesiredStarters(entries, p, destination, target),
                DesiredReserve(entries, p, destination)) \in AfterMove(m, started)
  BY <1>1, <1>2 DEF AfterMove, DesiredS, DesiredR
<1> QED BY <1>3 DEF OneWrite, m

\* What a request saves of a move: all of it, or its first list.
LEMMA SavedMove ==
    ASSUME NEW j \in JobType, j.kind = "move", Asked(j), Wanted(j), j.todo # << >>,
           entries = j.base, started = j.locked,
           \/ j.haveS = j.wantS /\ j.haveR = j.wantR
           \/ /\ Head(j.todo) = "starters" /\ Len(j.todo) = 1
              /\ j.haveS = AlignedStarters(j.base) /\ j.haveR = j.wantR /\ j.haveR # ReserveOf(j.base)
           \/ /\ Head(j.todo) = "reserve" /\ Len(j.todo) = 1
              /\ j.haveS = j.wantS /\ j.haveR = ReserveOf(j.base) /\ j.haveS # AlignedStarters(j.base)
           \/ /\ Head(j.todo) = "reserve" /\ Len(j.todo) # 1
              /\ j.haveS = AlignedStarters(j.base) /\ j.haveR = j.wantR
           \/ /\ Head(j.todo) = "starters" /\ Len(j.todo) # 1
              /\ j.haveS = j.wantS /\ j.haveR = ReserveOf(j.base)
    PROVE  Placement(j.base, j.haveS, j.haveR) \in OneWrite
<1> DEFINE n == Placement(j.base, j.haveS, j.haveR)
<1>1. PICK p \in Players, destination \in Destinations, asked \in Slots \cup {NoIndex},
           target \in Slots \cup {NoIndex} : MoveAsked(j, p, destination, asked, target)
  BY DEF Asked
<1> DEFINE order == Steps(j.base, p, destination, j.wantS, j.wantR)
<1>2. /\ IF destination = "starter" THEN target \in TargetSlots(j.base, p, asked) ELSE target = NoIndex
      /\ Legal(j.base, p, destination, target)
      /\ j.wantS = DesiredStarters(j.base, p, destination, target)
      /\ j.wantR = DesiredReserve(j.base, p, destination)
      /\ j.todo \in {order, Tail(order)}
  BY <1>1 DEF MoveAsked
<1>3. p \in DOMAIN j.base /\ (destination = "starter" => target \in Slots) /\ j.base \in Rosters
  BY <1>2, RosterAssumption DEF Legal, JobType
<1>4. Moved(j.base, j.wantS, j.wantR) \cap j.locked = {}
  BY DEF Wanted
<1>5. CASE j.haveS = j.wantS /\ j.haveR = j.wantR
  BY <1>2, <1>4, <1>5, MoveIsOneWrite
<1>6. CASE ~(j.haveS = j.wantS /\ j.haveR = j.wantR)
  <2>1. /\ order \in Plans \cup {<< >>}
        /\ order = <<"starters">> => j.wantR = ReserveOf(j.base)
        /\ order = <<"reserve">> => j.wantS = AlignedStarters(j.base)
        /\ order = <<"reserve", "starters">> =>
             j.wantS # AlignedStarters(j.base) /\ j.wantR # ReserveOf(j.base) /\ j.base[p] = IR
        /\ order = <<"starters", "reserve">> =>
             j.wantS # AlignedStarters(j.base) /\ j.wantR # ReserveOf(j.base) /\ j.base[p] # IR
    BY <1>2, <1>3, OrderTells
  <2> HIDE DEF order
  <2>2. /\ Head(<<"starters">>) = "starters" /\ Len(<<"starters">>) = 1
        /\ Head(<<"reserve">>) = "reserve" /\ Len(<<"reserve">>) = 1
        /\ Head(<<"starters", "reserve">>) = "starters" /\ Len(<<"starters", "reserve">>) = 2
        /\ Head(<<"reserve", "starters">>) = "reserve" /\ Len(<<"reserve", "starters">>) = 2
        /\ Tail(<<"starters">>) = << >> /\ Tail(<<"reserve">>) = << >>
        /\ Tail(<<"starters", "reserve">>) = <<"reserve">>
        /\ Tail(<<"reserve", "starters">>) = <<"starters">>
    OBVIOUS
  <2>3. order # << >>
    <3>1. order = << >> => Tail(order) = << >>
      OBVIOUS
    <3> QED BY <1>2, <3>1
  <2>4. \/ order = <<"reserve", "starters">> /\ j.haveS = AlignedStarters(j.base) /\ j.haveR = j.wantR
        \/ order = <<"starters", "reserve">> /\ j.haveS = j.wantS /\ j.haveR = ReserveOf(j.base)
    <3>1. CASE order = <<"starters">>
      BY <1>2, <1>6, <2>1, <2>2, <3>1
    <3>2. CASE order = <<"reserve">>
      BY <1>2, <1>6, <2>1, <2>2, <3>2
    <3>3. CASE order = <<"starters", "reserve">>
      <4>1. CASE j.todo = order
        BY <1>6, <2>2, <3>3, <4>1
      <4>2. CASE j.todo = Tail(order)
        <5>1. j.todo = <<"reserve">>
          BY <2>2, <3>3, <4>2
        <5> QED BY <1>6, <2>2, <3>3, <5>1
      <4> QED BY <1>2, <4>1, <4>2
    <3>4. CASE order = <<"reserve", "starters">>
      <4>1. CASE j.todo = order
        BY <1>6, <2>2, <3>4, <4>1
      <4>2. CASE j.todo = Tail(order)
        <5>1. j.todo = <<"starters">>
          BY <2>2, <3>4, <4>2
        <5> QED BY <1>6, <2>2, <3>4, <5>1
      <4> QED BY <1>2, <4>1, <4>2
    <3> QED BY <2>1, <2>3, <3>1, <3>2, <3>3, <3>4 DEF Plans
  <2> DEFINE B == DesiredStarters(j.base, p, "bench", NoIndex)
             C == DesiredReserve(j.base, p, "bench")
  <2>5. /\ Legal(j.base, p, "bench", NoIndex) /\ Moved(j.base, B, C) \cap j.locked = {}
        /\ j.base[p] = IR => B = AlignedStarters(j.base) /\ C = j.wantR
        /\ j.base[p] # IR => B = j.wantS /\ C = ReserveOf(j.base)
    <3>1. j.wantS # AlignedStarters(j.base) /\ j.wantR # ReserveOf(j.base)
      BY <2>1, <2>4
    <3> QED BY <1>2, <1>3, <1>4, <3>1, HalfIsAMove
  <2>6. Placement(entries, B, C) \in OneWrite
    BY <2>5, MoveIsOneWrite DEF Destinations
  <2> HIDE DEF B, C
  <2>7. B = j.haveS /\ C = j.haveR
    BY <2>1, <2>4, <2>5
  <2> QED BY <2>6, <2>7
<1> QED BY <1>5, <1>6

\* Whatever a writer saves - all of what it was asked for, or what was confirmed
\* when a later step fails - is what one write of Assistant would have made of the
\* rows the request read, and the kickoffs it read; only a conflict saves what the
\* guard saw at Sleeper instead. In particular a move that stops halfway leaves
\* what a move of its player to the bench would: nobody is left in a place no
\* request could have put him in.
THEOREM EveryWriteIsOneStep ==
    Spec => [][\A w \in Writers :
                 WriterStep(w) /\ local' # local /\ entries = job[w].base /\ started = job[w].locked =>
                   \/ GuardConflicts(w)
                   \/ \E n \in OneWrite : local' = [local EXCEPT ![job[w].week] = n]]_vars
<1>1. TypeOK /\ PlanInv /\ AskedInv =>
        [\A w \in Writers :
           WriterStep(w) /\ local' # local /\ entries = job[w].base /\ started = job[w].locked =>
             \/ GuardConflicts(w)
             \/ \E n \in OneWrite : local' = [local EXCEPT ![job[w].week] = n]]_vars
  <2> SUFFICES ASSUME TypeOK, PlanInv, AskedInv, NEW w \in Writers, WriterStep(w), local' # local,
                      entries = job[w].base, started = job[w].locked, ~GuardConflicts(w)
               PROVE  \E n \in OneWrite : local' = [local EXCEPT ![job[w].week] = n]
    OBVIOUS
  <2> DEFINE j == job[w]
  <2>1. Apply(w) \/ ((PushRefused(w) \/ PushLost(w)) /\ SaveConfirmed(w))
    BY DEF WriterStep, PrereadStarters, GuardPasses, PrereadFails, PushApplied, PushIgnored,
           PushRefused, PushRefusedAuth, PushLost, ReadbackMatches, ReadbackDiffers, ReadbackFails, Crash
  <2>2. j.phase = IF Apply(w) THEN "apply" ELSE "push"
    BY <2>1 DEF Apply, PushRefused, PushLost
  <2>3. /\ j \in JobType /\ j.kind \in {"move", "set"} /\ j.todo \in Plans
        /\ Wanted(j) /\ Reached(j, j.phase = "apply") /\ Asked(j)
    <3>1. j.phase # "idle" /\ j \in JobType
      BY <2>2, JobFields
    <3>2. PlanOK(j) /\ Asked(j) /\ j.todo # << >>
      BY <3>1 DEF PlanInv, AskedInv, TypeOK
    <3> QED BY <3>1, <3>2 DEF PlanOK, JobType
  <2>4. Head(j.todo) \in Lists /\ j.todo # << >>
    BY <2>3 DEF Plans, Lists
  <2>5. CASE j.kind = "set"
    <3>1. j.todo = <<"starters">> /\ j.wantR = ReserveOf(j.base) /\ Head(j.todo) = "starters" /\ Len(j.todo) = 1
      BY <2>3, <2>5 DEF Wanted
    <3>2. CASE Apply(w)
      <4>1. local' = [local EXCEPT ![j.week] = ApplyLocal(j.base, j.haveS)]
        BY <2>5, <3>2 DEF Apply
      <4>2. j.haveS = j.wantS
        BY <2>2, <2>3, <3>1, <3>2 DEF Reached
      <4>3. /\ Injective(j.wantS) /\ Starting(j.wantS) \subseteq DOMAIN entries
            /\ \A i \in Slots : j.wantS[i] # NoPlayer =>
                 entries[j.wantS[i]] \notin {IR, Taxi} /\ i \in Eligible[j.wantS[i]]
            /\ Moved(entries, j.wantS, ReserveOf(entries)) \cap started = {}
        BY <2>3, <2>5, <3>1 DEF Wanted, Asked, LineupAsked
      <4>4. ApplyLocal(entries, j.wantS) \in AfterLineup(j.wantS, started) /\ j.wantS \in Lineups
        BY <2>3, <4>3 DEF AfterLineup, JobType
      <4>5. ApplyLocal(entries, j.wantS) \in OneWrite
        BY <4>4 DEF OneWrite
      <4> QED BY <4>1, <4>2, <4>5
    <3>3. CASE ~Apply(w)
      <4>1. j.haveS = AlignedStarters(j.base) /\ j.haveR = ReserveOf(j.base)
        BY <2>2, <2>3, <3>1, <3>3 DEF Reached
      <4> QED BY <2>1, <3>3, <4>1 DEF SaveConfirmed
    <3> QED BY <3>2, <3>3
  <2>6. CASE j.kind = "move"
    <3>1. local' = [local EXCEPT ![j.week] = Placement(j.base, j.haveS, j.haveR)]
      BY <2>1, <2>6 DEF Apply, SaveConfirmed
    <3>2. ~Apply(w) => j.haveS # AlignedStarters(j.base) \/ j.haveR # ReserveOf(j.base)
      BY <2>1 DEF SaveConfirmed
    <3>3. Apply(w) <=> j.phase = "apply"
      BY <2>2
    <3> HIDE DEF j
    <3>4. Placement(j.base, j.haveS, j.haveR) \in OneWrite
      <4>1. CASE Head(j.todo) = "starters"
        BY <2>3, <2>4, <2>6, <3>2, <3>3, <4>1, SavedMove DEF Reached, j
      <4>2. CASE Head(j.todo) = "reserve"
        BY <2>3, <2>4, <2>6, <3>2, <3>3, <4>2, SavedMove DEF Reached, j
      <4> QED BY <2>4, <4>1, <4>2 DEF Lists
    <3> QED BY <3>1, <3>4 DEF j
  <2> QED BY <2>3, <2>5, <2>6
<1> QED BY <1>1, AskedAlways, PTL DEF Spec

\* A move of a sweep, done or stopped at one of its lists, leaves what one write of
\* Assistant would from the rows and the kickoffs the move had read: what
\* LineupManagement takes for a step of move_player, and for the half of one that is
\* saved, is what a request does. The kickoffs are those the sweep read at its plan.
THEOREM EverySweepMoveIsOneStep ==
    ManagementSpec => [][SweepMoves /\ seats' # seats /\ entries = seats /\ started = board =>
                           seats' \in OneWrite]_managementVars
<1>1. SweepInv =>
        [SweepMoves /\ seats' # seats /\ entries = seats /\ started = board =>
           seats' \in OneWrite]_managementVars
  <2> SUFFICES ASSUME SweepInv, SweepMoves, seats' # seats, entries = seats, started = board
               PROVE  seats' \in OneWrite
    OBVIOUS
  <2> DEFINE m == Head(plan)
             p == m.player
             d == m.destination
             i == m.slot
             target == IF d = "starter" THEN i ELSE NoIndex
             S == DesiredStarters(seats, p, d, i)
             R == DesiredReserve(seats, p, d)
  <2>1. plan # << >> /\ Sendable(m, board)
    BY DEF SweepMoves, MoveApplied, MoveStops, Stops
  <2>2. Legal(seats, p, d, i) /\ Moved(seats, S, R) \cap board = {}
    BY <2>1 DEF Sendable, Reseated, WantedStarters, WantedReserve
  <2>3. m \in Moves
    BY <2>1, HeadMove
  <2>4. /\ seats \in Rosters /\ p \in DOMAIN seats /\ p \in Players
        /\ d \in Destinations /\ i \in Slots \cup {NoIndex}
        /\ d = "starter" => i \in Slots /\ i # NoIndex /\ i \in TargetSlots(seats, p, i)
    BY <2>2, <2>3, RosterAssumption DEF SweepInv, Typed, Moves, Destinations, Legal, TargetSlots
  <2>5. S = DesiredStarters(seats, p, d, target) /\ Legal(seats, p, d, target)
    BY <2>2 DEF DesiredStarters, Legal
  <2> HIDE DEF m, p, d, i
  <2>6. CASE MoveApplied
    <3>1. seats' = Placement(seats, S, R)
      BY <2>6 DEF MoveApplied, Place, WantedStarters, WantedReserve, m, p, d, i
    <3>2. IF d = "starter" THEN target \in TargetSlots(seats, p, i) ELSE target = NoIndex
      BY <2>4
    <3> HIDE DEF target
    <3>3. Placement(entries, DesiredStarters(entries, p, d, target), R) \in OneWrite
      BY <2>2, <2>4, <2>5, <3>2, MoveIsOneWrite
    <3> QED BY <2>5, <3>1, <3>3
  <2>7. CASE MoveStops
    <3>1. /\ Steps(seats, p, d, S, R) = <<"reserve", "starters">>
          /\ seats' = Placement(seats, AlignedStarters(seats), R)
      <4>1. Typed /\ Stops(m, board) /\ m.destination \in {"starter", "bench"} /\ m.slot \in Slots \cup {NoIndex}
        BY <2>3, <2>7 DEF SweepInv, MoveStops, Moves, m
      <4>2. StepsOf(m) = <<"reserve", "starters">> /\ seats' = Placement(seats, AlignedStarters(seats), WantedReserve(m))
        BY <4>1, StopsFits
      <4> QED BY <4>2 DEF StepsOf, WantedStarters, WantedReserve, p, d, i
    <3>2. S # AlignedStarters(seats) /\ R # ReserveOf(seats) /\ seats[p] = IR
      BY <2>4, <3>1, OrderTells
    <3> DEFINE B == DesiredStarters(seats, p, "bench", NoIndex)
               C == DesiredReserve(seats, p, "bench")
    <3>3. /\ Legal(seats, p, "bench", NoIndex) /\ Moved(seats, B, C) \cap board = {}
          /\ B = AlignedStarters(seats) /\ C = R
      BY <2>2, <2>4, <3>2, HalfIsAMove
    <3>4. Placement(entries, B, C) \in OneWrite
      BY <2>4, <3>3, MoveIsOneWrite DEF Destinations
    <3> QED BY <3>1, <3>3, <3>4
  <2> QED BY <2>6, <2>7 DEF SweepMoves
<1> QED BY <1>1, AlwaysSweepInv, PTL DEF ManagementSpec
=============================================================================
