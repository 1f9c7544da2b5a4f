---------------------------- MODULE SleeperWrites ----------------------------
(***************************************************************************)
(* services/sleeper_writes.py: several writers (web requests, the          *)
(* assistant's tools, the lineup-management sweep) change one manager's     *)
(* lineup and IR list on Sleeper while the manager uses the Sleeper app     *)
(* and refreshes rebuild the saved roster from Sleeper's cached public API. *)
(*                                                                         *)
(* A write reads the saved rows once, then awaits: the kickoff board, two   *)
(* pre-reads, one push and one read-back per list it sends, the public API, *)
(* the commit.  Every await is a step boundary here.                        *)
(***************************************************************************)
EXTENDS Roster

CONSTANTS
    Writers,      \* concurrent callers of move_player and set_lineup
    Weeks,        \* the weeks that can be edited
    CurrentWeek,  \* league.current_week
    TaxiSquad,    \* players Sleeper lists on the taxi squad
    InitSquad,    \* the players rostered at the start
    InitStarters, \* the lineup at the start
    InitReserve,  \* the IR list at the start
    Faults,       \* which of FaultKinds the environment may exhibit
    MaxRequests,  \* bound: requests started in a behaviour
    MaxEdits      \* bound: changes made in the Sleeper app in a behaviour

FaultKinds ==
    {"prereadFails",  \* the guard's reads fail: ProviderError
     "absent",        \* a read answers without this roster: None
     "refused",       \* a push is rejected: ProviderError
     "auth",          \* a push is rejected: ProviderAuthError
     "lost",          \* a push takes effect but its answer is lost
     "ignored",       \* a push is accepted and changes nothing
     "readbackFails", \* the read-back fails
     "crash",         \* the request is cancelled or its commit fails
     "refresh",       \* refreshes rebuild the saved rows
     "kickoff"}       \* games start

ASSUME WritesAssumption ==
    /\ CurrentWeek \in Weeks
    /\ InitSquad \subseteq Players
    /\ TaxiSquad \subseteq InitSquad
    /\ InitStarters \in Lineups /\ Injective(InitStarters)
    /\ Starting(InitStarters) \subseteq InitSquad \ (InitReserve \cup TaxiSquad)
    /\ InitReserve \subseteq InitSquad \ TaxiSquad
    /\ Cardinality(InitReserve) <= IRCapacity
    /\ Faults \subseteq FaultKinds
    /\ MaxRequests \in Nat
    /\ MaxEdits \in Nat

VARIABLES
    starters,  \* Sleeper's scoring lineup of each week
    reserve,   \* Sleeper's IR list (one list, not one per week)
    squad,     \* Sleeper's rostered players
    public,    \* the roster the public REST API still shows
    local,     \* roster_entries of the team, per week
    kicked,    \* players whose current-week game has started
    job,       \* each writer's request in progress
    known,     \* history: the lists a writer has read and nobody changed since
    requests,  \* requests started so far
    edits      \* app changes so far

vars == <<starters, reserve, squad, public, local, kicked, job, known, requests, edits>>
sleeper == <<starters, reserve, squad>>
env == <<public, kicked, edits>>

Lists == {"starters", "reserve"}
Phases == {"idle", "prereadStarters", "prereadReserve", "push", "readback", "apply"}
Plans == {<<"starters">>, <<"reserve">>, <<"starters", "reserve">>, <<"reserve", "starters">>}

NoJob == [phase |-> "idle", kind |-> "move", week |-> CurrentWeek, base |-> [p \in {} |-> Bench],
          wantS |-> [i \in Slots |-> NoPlayer], wantR |-> {}, todo |-> << >>,
          haveS |-> [i \in Slots |-> NoPlayer], haveR |-> {},
          seenS |-> [i \in Slots |-> NoPlayer], locked |-> {}]

\* The league has just been imported; next week's rows come from its matchup.
Init ==
    /\ starters = [k \in Weeks |-> InitStarters]
    /\ reserve = InitReserve
    /\ squad = InitSquad
    /\ public = [starters |-> starters, reserve |-> reserve, squad |-> squad]
    /\ local = [k \in Weeks |->
                  IF k = CurrentWeek
                  THEN MapRoster(InitStarters, InitSquad, InitReserve, TaxiSquad)
                  ELSE MapRoster(InitStarters, InitSquad, {}, {})]
    /\ kicked = {} /\ job = [w \in Writers |-> NoJob]
    /\ known = [w \in Writers |-> {}]
    /\ requests = 0 /\ edits = 0

-----------------------------------------------------------------------------
(* Requests.                                                               *)

LockedNow(week) == IF week = CurrentWeek THEN kicked ELSE {}

Begin(w, kind, week, S, R, plan) ==
    /\ requests' = requests + 1
    /\ job' = [job EXCEPT ![w] =
         [phase |-> "prereadStarters", kind |-> kind, week |-> week,
          base |-> local[week], wantS |-> S, wantR |-> R, todo |-> plan,
          haveS |-> AlignedStarters(local[week]), haveR |-> ReserveOf(local[week]),
          seenS |-> [i \in Slots |-> NoPlayer], locked |-> LockedNow(week)]]
    /\ known' = [known EXCEPT ![w] = {}]
    /\ UNCHANGED <<sleeper, env, local>>

\* The write move_player goes on with, when it accepts the move and there is
\* something to change.
Move(w, week, p, destination, target) ==
    LET r == local[week]
        S == DesiredStarters(r, p, destination, target)
        R == DesiredReserve(r, p, destination)
        plan == Steps(r, p, destination, S, R)
    IN  /\ Legal(r, p, destination, target)
        /\ Moved(r, S, R) \cap LockedNow(week) = {}
        /\ plan # << >>
        /\ Begin(w, "move", week, S, R, plan)

\* move_player up to its first call to Sleeper. A refused request, and one
\* that finds the player already there, changes nothing.
RequestMove(w) ==
    /\ job[w].phase = "idle" /\ requests < MaxRequests
    /\ \E week \in Weeks, p \in Players, destination \in Destinations,
          asked \in Slots \cup {NoIndex} :
        \E target \in Slots \cup {NoIndex} :
            /\ IF destination = "starter"
               THEN target \in TargetSlots(local[week], p, asked)
               ELSE target = NoIndex /\ asked = NoIndex
            /\ Move(w, week, p, destination, target)

\* set_lineup up to its first call to Sleeper; it never sends the IR list.
RequestLineup(w) ==
    /\ job[w].phase = "idle" /\ requests < MaxRequests
    /\ \E week \in Weeks, S \in Lineups :
        LET r == local[week] IN
        /\ Injective(S)
        /\ \A i \in Slots : S[i] # NoPlayer =>
             S[i] \in DOMAIN r /\ r[S[i]] \notin {IR, Taxi} /\ i \in Eligible[S[i]]
        /\ Moved(r, S, ReserveOf(r)) \cap LockedNow(week) = {}
        /\ Begin(w, "set", week, S, ReserveOf(r), <<"starters">>)

End(w) ==
    /\ job' = [job EXCEPT ![w] = NoJob]
    /\ known' = [known EXCEPT ![w] = {}]

-----------------------------------------------------------------------------
(* _guard_unchanged.                                                       *)

PrereadStarters(w) ==
    /\ job[w].phase = "prereadStarters"
    /\ \E answered \in IF "absent" \in Faults THEN BOOLEAN ELSE {TRUE} :
        /\ job' = [job EXCEPT ![w] = [@ EXCEPT
                     !.phase = "prereadReserve",
                     !.seenS = IF answered THEN starters[job[w].week] ELSE job[w].haveS]]
        /\ known' = [known EXCEPT ![w] = IF answered THEN {"starters"} ELSE {}]
    /\ UNCHANGED <<sleeper, env, local, requests>>

\* Mutant: only the lineup is compared, not the IR list.
GuardPassesOnLineup(w) ==
    /\ job[w].phase = "prereadReserve"
    /\ job[w].seenS = job[w].haveS
    /\ known' = [known EXCEPT ![w] = @ \cup {"reserve"}]
    /\ job' = [job EXCEPT ![w].phase = "push"]
    /\ UNCHANGED <<sleeper, env, local, requests>>

\* Mutant: only the IR list is compared, not the lineup.
GuardPassesOnReserve(w) ==
    /\ job[w].phase = "prereadReserve"
    /\ reserve = job[w].haveR
    /\ known' = [known EXCEPT ![w] = @ \cup {"reserve"}]
    /\ job' = [job EXCEPT ![w].phase = "push"]
    /\ UNCHANGED <<sleeper, env, local, requests>>

\* The second read and the comparison: nothing is awaited between them.
GuardPasses(w) ==
    /\ job[w].phase = "prereadReserve"
    /\ job[w].seenS = job[w].haveS
    /\ \E answered \in IF "absent" \in Faults THEN BOOLEAN ELSE {TRUE} :
        /\ answered => reserve = job[w].haveR
        /\ known' = [known EXCEPT ![w] = IF answered THEN @ \cup {"reserve"} ELSE @]
    /\ job' = [job EXCEPT ![w].phase = "push"]
    /\ UNCHANGED <<sleeper, env, local, requests>>

\* The lineup or the IR list differs from the saved rows: refuse, and save
\* what Sleeper has when the local roster knows every player in it.
GuardConflicts(w) ==
    /\ job[w].phase = "prereadReserve"
    /\ \E R \in {reserve} \cup (IF "absent" \in Faults THEN {job[w].haveR} ELSE {}) :
        /\ job[w].seenS # job[w].haveS \/ R # job[w].haveR
        /\ IF Placeable(job[w].base, job[w].seenS, R)
           THEN local' = [local EXCEPT ![job[w].week] =
                            Placement(job[w].base, job[w].seenS, R)]
           ELSE UNCHANGED local
    /\ End(w)
    /\ UNCHANGED <<sleeper, env, requests>>

\* A pre-read fails: the write goes on without the comparison.
PrereadFails(w) ==
    /\ "prereadFails" \in Faults
    /\ job[w].phase \in {"prereadStarters", "prereadReserve"}
    /\ job' = [job EXCEPT ![w].phase = "push"]
    /\ known' = [known EXCEPT ![w] = {}]
    /\ UNCHANGED <<sleeper, env, local, requests>>

-----------------------------------------------------------------------------
(* _push_starters and _push_reserve: Sleeper's answer, then the read-back.  *)

\* Sleeper's own rules: it takes a starter who is rostered and not on IR, and
\* an IR player who is rostered and not in the current scoring lineup.
Accepts(w) ==
    IF Head(job[w].todo) = "starters"
    THEN Starting(job[w].wantS) \subseteq squad \ reserve
    ELSE job[w].wantR \subseteq squad \ Starting(starters[CurrentWeek])

\* Who still knows what once the list changed: nobody for an IR change, for a
\* lineup change nobody who works on that week.
Forget(list, week) ==
    [v \in Writers |-> IF list = "reserve" \/ job[v].week = week
                       THEN known[v] \ {list} ELSE known[v]]

TakesEffect(w) ==
    /\ Accepts(w)
    /\ IF Head(job[w].todo) = "starters"
       THEN /\ starters' = [starters EXCEPT ![job[w].week] = job[w].wantS]
            /\ UNCHANGED <<reserve, squad>>
       ELSE /\ reserve' = job[w].wantR
            /\ UNCHANGED <<starters, squad>>

PushApplied(w) ==
    /\ job[w].phase = "push"
    /\ TakesEffect(w)
    /\ known' = Forget(Head(job[w].todo), job[w].week)
    /\ job' = [job EXCEPT ![w].phase = "readback"]
    /\ UNCHANGED <<env, local, requests>>

PushIgnored(w) ==
    /\ "ignored" \in Faults
    /\ job[w].phase = "push"
    /\ job' = [job EXCEPT ![w].phase = "readback"]
    /\ known' = [known EXCEPT ![w] = @ \ {Head(job[w].todo)}]
    /\ UNCHANGED <<sleeper, env, local, requests>>

\* The lists already confirmed by this request, saved again when a later one
\* fails with a ProviderError.
SaveConfirmed(w) ==
    IF \/ job[w].haveS # AlignedStarters(job[w].base)
       \/ job[w].haveR # ReserveOf(job[w].base)
    THEN local' = [local EXCEPT ![job[w].week] =
                     Placement(job[w].base, job[w].haveS, job[w].haveR)]
    ELSE UNCHANGED local

PushRefused(w) ==
    /\ job[w].phase = "push"
    /\ "refused" \in Faults \/ ~Accepts(w)
    /\ SaveConfirmed(w)
    /\ End(w)
    /\ UNCHANGED <<sleeper, env, requests>>

PushRefusedAuth(w) ==
    /\ "auth" \in Faults
    /\ job[w].phase = "push"
    /\ End(w)
    /\ UNCHANGED <<sleeper, env, local, requests>>

\* The push takes effect and the answer is lost: a ProviderError all the same.
PushLost(w) ==
    /\ "lost" \in Faults
    /\ job[w].phase = "push"
    /\ TakesEffect(w)
    /\ known' = [Forget(Head(job[w].todo), job[w].week) EXCEPT ![w] = {}]
    /\ job' = [job EXCEPT ![w] = NoJob]
    /\ SaveConfirmed(w)
    /\ UNCHANGED <<env, requests>>

\* Mutant: the read-back is not compared with what was sent.
ReadbackTrusted(w) ==
    /\ job[w].phase = "readback"
    /\ job' = [job EXCEPT ![w] =
         IF Head(job[w].todo) = "starters"
         THEN [@ EXCEPT !.phase = "apply", !.haveS = job[w].wantS]
         ELSE [@ EXCEPT !.phase = "apply", !.haveR = job[w].wantR]]
    /\ known' = [known EXCEPT ![w] = @ \cup {Head(job[w].todo)}]
    /\ UNCHANGED <<sleeper, env, local, requests>>

\* The read-back shows what was sent.
ReadbackMatches(w) ==
    /\ job[w].phase = "readback"
    /\ IF Head(job[w].todo) = "starters"
       THEN /\ starters[job[w].week] = job[w].wantS
            /\ job' = [job EXCEPT ![w] = [@ EXCEPT !.phase = "apply", !.haveS = job[w].wantS]]
       ELSE /\ reserve = job[w].wantR
            /\ job' = [job EXCEPT ![w] = [@ EXCEPT !.phase = "apply", !.haveR = job[w].wantR]]
    /\ known' = [known EXCEPT ![w] = @ \cup {Head(job[w].todo)}]
    /\ UNCHANGED <<sleeper, env, local, requests>>

\* ConflictError: the read-back shows something else.
ReadbackDiffers(w) ==
    /\ job[w].phase = "readback"
    /\ \/ "absent" \in Faults
       \/ Head(job[w].todo) = "starters" /\ starters[job[w].week] # job[w].wantS
       \/ Head(job[w].todo) = "reserve" /\ reserve # job[w].wantR
    /\ End(w)
    /\ UNCHANGED <<sleeper, env, local, requests>>

\* The read-back fails: set_lineup answers verified=None, move_player fails;
\* neither saves the list it could not confirm.
ReadbackFails(w) ==
    /\ "readbackFails" \in Faults
    /\ job[w].phase = "readback"
    /\ End(w)
    /\ UNCHANGED <<sleeper, env, local, requests>>

\* After the public API has been asked, the confirmed lists are saved and
\* committed; a move with a list left to send goes on to it.
Apply(w) ==
    /\ job[w].phase = "apply"
    /\ local' = [local EXCEPT ![job[w].week] =
                   IF job[w].kind = "set" THEN ApplyLocal(job[w].base, job[w].haveS)
                   ELSE Placement(job[w].base, job[w].haveS, job[w].haveR)]
    /\ IF Len(job[w].todo) = 1
       THEN End(w)
       ELSE /\ job' = [job EXCEPT ![w] = [@ EXCEPT !.phase = "push", !.todo = Tail(job[w].todo)]]
            /\ UNCHANGED known
    /\ UNCHANGED <<sleeper, env, requests>>

\* The request is cancelled, or its commit fails: nothing more is saved.
Crash(w) ==
    /\ "crash" \in Faults
    /\ job[w].phase # "idle"
    /\ End(w)
    /\ UNCHANGED <<sleeper, env, local, requests>>

WriterStep(w) ==
    \/ PrereadStarters(w) \/ GuardPasses(w) \/ GuardConflicts(w) \/ PrereadFails(w)
    \/ PushApplied(w) \/ PushIgnored(w) \/ PushRefused(w) \/ PushRefusedAuth(w)
    \/ PushLost(w) \/ ReadbackMatches(w) \/ ReadbackDiffers(w) \/ ReadbackFails(w)
    \/ Apply(w) \/ Crash(w)

-----------------------------------------------------------------------------
(* The Sleeper app, the public cache, refreshes and kickoffs.              *)

AppEdit == edits < MaxEdits /\ edits' = edits + 1

AppSetsLineup ==
    /\ AppEdit
    /\ \E week \in Weeks, S \in Lineups :
        /\ Injective(S) /\ Starting(S) \subseteq squad \ (reserve \cup TaxiSquad)
        /\ \A i \in Slots : S[i] # NoPlayer => i \in Eligible[S[i]]
        /\ S # starters[week]
        /\ starters' = [starters EXCEPT ![week] = S]
        /\ known' = Forget("starters", week)
    /\ UNCHANGED <<reserve, squad, public, local, kicked, job, requests>>

AppSetsReserve ==
    /\ AppEdit
    /\ \E R \in SUBSET (squad \ (Starting(starters[CurrentWeek]) \cup TaxiSquad)) :
        /\ R # reserve /\ Cardinality(R) <= IRCapacity
        /\ reserve' = R
    /\ known' = Forget("reserve", CurrentWeek)
    /\ UNCHANGED <<starters, squad, public, local, kicked, job, requests>>

\* A player leaves the roster (dropped or traded), another may join it.
AppSwapsPlayer ==
    /\ AppEdit
    /\ \E out \in squad, in \in SUBSET (Players \ squad) :
        /\ Cardinality(in) <= 1
        /\ squad' = (squad \ {out}) \cup in
        /\ starters' = [k \in Weeks |-> Without(starters[k], out)]
        /\ reserve' = reserve \ {out}
    /\ known' = [w \in Writers |-> {}]
    /\ UNCHANGED <<public, local, kicked, job, requests>>

PublicCatchesUp ==
    /\ "refresh" \in Faults
    /\ public' = [starters |-> starters, reserve |-> reserve, squad |-> squad]
    /\ UNCHANGED <<sleeper, local, kicked, job, known, requests, edits>>

\* refresh_live commits: the current week from /rosters, any other week from
\* its matchup, which has no IR or taxi list and is skipped when empty.
RefreshCommits ==
    /\ "refresh" \in Faults
    /\ local' = [k \in Weeks |->
          IF k = CurrentWeek
          THEN MapRoster(public.starters[k], public.squad, public.reserve, TaxiSquad)
          ELSE IF public.squad = {} THEN local[k]
          ELSE MapRoster(public.starters[k], public.squad, {}, {})]
    /\ UNCHANGED <<sleeper, env, job, known, requests>>

Kickoff ==
    /\ "kickoff" \in Faults
    /\ \E p \in Players \ kicked : kicked' = kicked \cup {p}
    /\ UNCHANGED <<sleeper, public, local, job, known, requests, edits>>

Next ==
    \/ \E w \in Writers : RequestMove(w) \/ RequestLineup(w) \/ WriterStep(w)
    \/ AppSetsLineup \/ AppSetsReserve \/ AppSwapsPlayer
    \/ PublicCatchesUp \/ RefreshCommits \/ Kickoff

Spec == Init /\ [][Next]_vars

-----------------------------------------------------------------------------
(* Properties.                                                             *)

JobType ==
    [phase : Phases, kind : {"move", "set"}, week : Weeks, base : Rosters,
     wantS : Lineups, wantR : SUBSET Players,
     todo : Plans \cup {<< >>}, haveS : Lineups, haveR : SUBSET Players,
     seenS : Lineups, locked : SUBSET Players]

\* Every variable keeps its type; in particular saved rows never put two
\* players in one starting slot (Rosters).
TypeOK ==
    /\ starters \in [Weeks -> Lineups]
    /\ reserve \in SUBSET Players
    /\ squad \in SUBSET Players
    /\ public \in [starters : [Weeks -> Lineups], reserve : SUBSET Players,
                   squad : SUBSET Players]
    /\ local \in [Weeks -> Rosters]
    /\ kicked \in SUBSET Players
    /\ job \in [Writers -> JobType]
    /\ \A w \in Writers : job[w].phase # "idle" => job[w].todo # << >>
    /\ known \in [Writers -> SUBSET Lists]
    /\ requests \in 0..MaxRequests
    /\ edits \in 0..MaxEdits

\* What a writer has read (in the guard or in a read-back) and nobody changed
\* since is what it still believes Sleeper holds: the comparison in
\* _guard_unchanged covers both lists, whatever the order of its two reads.
SeenListsStillHold ==
    \A w \in Writers : job[w].phase \in {"push", "readback", "apply"} =>
        /\ "starters" \in known[w] => starters[job[w].week] = job[w].haveS
        /\ "reserve" \in known[w] => reserve = job[w].haveR

\* move_player's order of steps: when nothing changed behind its back, a
\* starter is never put on IR and an IR player is never written into the
\* lineup, so Sleeper has no reason to refuse a step of its own order.
StepsInSleeperOrder ==
    \A w \in Writers :
        job[w].phase = "push" /\ known[w] = Lists =>
            IF Head(job[w].todo) = "starters"
            THEN Starting(job[w].wantS) \cap reserve = {}
            ELSE job[w].wantR \cap Starting(starters[job[w].week]) = {}

Unsat(before, after) ==
    LET resat == {i \in Slots : before[i] # after[i]}
    IN  ({before[i] : i \in resat} \cup {after[i] : i \in resat}) \ {NoPlayer}

\* The players whose seat on Sleeper a step changes for one week.
MovedLive(week) ==
    Unsat(starters[week], starters'[week]) \cup (reserve \ reserve') \cup (reserve' \ reserve)

\* A push of a list known to be as the writer believes moves no player whose
\* game had started when the request was checked (_refuse_locked), and a move
\* reseats at most the player asked for and the one he displaces.
GuardedPushMovesOnlyTheRequest ==
    [][\A w \in Writers :
        (PushApplied(w) \/ PushLost(w)) /\ Head(job[w].todo) \in known[w] =>
            /\ MovedLive(job[w].week) \cap job[w].locked = {}
            /\ job[w].kind = "move" => Cardinality(MovedLive(job[w].week)) <= 2]_vars

\* When a writer saves what it confirmed and nobody changed either list since
\* it read them, the saved rows are exactly Sleeper's lineup and IR list.
CommitMatchesSleeper ==
    [][\A w \in Writers :
        Apply(w) /\ known[w] = Lists =>
            /\ AlignedStarters(local'[job[w].week]) = starters[job[w].week]
            /\ ReserveOf(local'[job[w].week]) = reserve]_vars
=============================================================================
