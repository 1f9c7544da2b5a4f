----------------------------- MODULE Assistant -----------------------------
(***************************************************************************)
(* The assistant of one league: ai/service.py runs a model that may call   *)
(* tools (ai/agent.py, ai/tools), the browser shows the moves it proposes  *)
(* and posts those the manager approves, and the notes page lists start/sit*)
(* swaps the manager may follow, while the Sleeper app, injuries and       *)
(* kickoffs change the lineup under all of them.                           *)
(*                                                                         *)
(* entries is the lineup OMAHA and Sleeper agree on; move_player and       *)
(* set_lineup are one step here, refused, applied, or applied with a       *)
(* failed answer. SleeperWrites models what happens inside them.           *)
(***************************************************************************)
EXTENDS Appraisal

CONSTANTS
    FirstRosters,   \* the rosters a behaviour starts with
    MaxRounds,      \* ai_max_tool_rounds
    MaxCalls,       \* bound: tool calls in one round
    MaxSaid,        \* bound: moves the tools of a reply propose, and swaps it names
    Kinds,          \* which of ChatKinds are asked for
    MaxChats,       \* bound: requests in a behaviour
    Injuries,       \* bound: which of Conditions befall a player
    Outside,        \* which of OutsideKinds may happen
    MaxOutside      \* bound: events in a behaviour

ChatKinds ==
    {"chat",    \* POST /chat: every tool
     "advice",  \* manager_text, suggest_waivers: no lineup or roster tools
     "schema",  \* analyze_team, analyze_trade: advice, then a structured answer
     "note"}    \* briefing, comparison, trade review and draft: one model call

OutsideKinds ==
    {"app", "health", "kickoff", "claim",
     "busy",  \* the model service asks for a retry
     "down",  \* the model service fails
     "lost"}  \* Sleeper applies a write whose answer is lost

\* Sleeper has no more of a roster on IR or taxi than the league has places.
WithinPlaces(r) ==
    /\ Cardinality(ReserveOf(r)) <= IRCapacity
    /\ Cardinality({p \in DOMAIN r : r[p] = Taxi}) <= TaxiSlots

ASSUME AssistantAssumption ==
    /\ FirstRosters \subseteq Rosters
    /\ \A r \in FirstRosters : WithinPlaces(r)
    /\ MaxRounds \in Nat \ {0} /\ MaxCalls \in Nat \ {0} /\ MaxSaid \in Nat
    /\ Kinds \subseteq ChatKinds /\ MaxChats \in Nat
    /\ Injuries \subseteq Conditions \ {"fit"}
    /\ Outside \subseteq OutsideKinds /\ MaxOutside \in Nat

VARIABLES
    entries, health, started, \* the team, as Advice's views have it
    chat,   \* the request in progress, or NoChat
    offers, \* moves shown in the chat and not decided yet
    notes,  \* start/sit swaps the notes page shows
    outside, chats \* events from outside and requests so far

assistantVars == <<entries, health, started, chat, offers, notes, outside, chats>>
team == <<entries, health, started>>

NoChat == [kind |-> "none"]
NoView == << >>

View == [seats |-> entries, health |-> health, locked |-> started]
Running == chat # NoChat

\* Proposals on a page. fresh (history): nothing has changed the lineup since
\* but what they allow for.
Shown(moves) == [offer : moves, fresh : {TRUE}]
Stale(shown) == {[s EXCEPT !.fresh = FALSE] : s \in shown}

AssistantInit ==
    /\ entries \in FirstRosters
    /\ health = [p \in Players |-> "fit"] /\ started = {}
    /\ chat = NoChat /\ offers = {} /\ notes = {}
    /\ outside = 0 /\ chats = 0

FromOutside(kind) == kind \in Outside /\ outside < MaxOutside /\ outside' = outside + 1

\* The chat in progress, once somebody else has changed the lineup.
Outdated == IF Running THEN [chat EXCEPT !.fresh = FALSE] ELSE chat

-----------------------------------------------------------------------------
(* move_player and set_lineup.                                             *)

DesiredS(m, i) == DesiredStarters(entries, m.player, m.destination, i)
DesiredR(m) == DesiredReserve(entries, m.player, m.destination)

\* The slots a move may end in; none when it is refused. kickoffs: the players
\* whose game has started on the scoreboard the request has read.
Allowed(m, kickoffs) ==
    {i \in IF m.destination = "starter" THEN TargetSlots(entries, m.player, m.slot) ELSE {NoIndex} :
        /\ Legal(entries, m.player, m.destination, i)
        /\ Moved(entries, DesiredS(m, i), DesiredR(m)) \cap kickoffs = {}}

\* The rosters a move leads to: one, or none when it is refused.
AfterMove(m, kickoffs) ==
    {Placement(entries, DesiredS(m, i), DesiredR(m)) : i \in Allowed(m, kickoffs)}

AfterLineup(S, kickoffs) ==
    {ApplyLocal(entries, S) : T \in {T \in {S} :
        /\ Injective(S) /\ Starting(S) \subseteq DOMAIN entries
        /\ \A i \in Slots : S[i] # NoPlayer => entries[S[i]] \notin {IR, Taxi} /\ i \in Eligible[S[i]]
        /\ Moved(entries, S, ReserveOf(entries)) \cap kickoffs = {}}}

-----------------------------------------------------------------------------
(* A request begins.                                                       *)

\* A context of its own, with the scoreboard it has read; the model has not been
\* asked yet. fresh (history): nothing but what ProposalsFitTheLineup allows for has
\* changed the lineup since.
NewChat(kind, stage, auto) ==
    [kind |-> kind, stage |-> stage, auto |-> auto, base |-> entries, cache |-> entries,
     board |-> started, rounds |-> 0, calls |-> 0, attempt |-> 0, tries |-> 0,
     wrote |-> FALSE, pending |-> {}, fresh |-> TRUE]

Ask(kind, stage) ==
    /\ ~Running /\ chats < MaxChats /\ kind \in Kinds
    /\ chats' = chats + 1
    /\ \E auto \in BOOLEAN :
        /\ auto => kind = "chat"
        /\ chat' = NewChat(kind, stage, auto)
    /\ UNCHANGED <<team, offers, notes, outside>>

\* chat, with the browser's auto-approval switch on or off.
StartChat == Ask("chat", "asking")
StartAdvice == Ask("advice", "asking")
StartAnalysis == Ask("schema", "asking")
StartNote == Ask("note", "closing")

\* sub_proposal: answered at once from the roster.
SubProposal ==
    /\ ~Running /\ chats < MaxChats /\ "chat" \in Kinds
    /\ chats' = chats + 1
    /\ \E p, q \in DOMAIN entries :
        offers' = offers \cup Shown(IF p = q THEN SubOne(View, p) ELSE SubPair(View, p, q))
    /\ UNCHANGED <<team, chat, notes, outside>>

\* Without a model the reply lists start/sit swaps, and its text offers them.
RuleBased ==
    /\ ~Running /\ chats < MaxChats /\ "chat" \in Kinds
    /\ chats' = chats + 1
    /\ \E told \in SUBSET StartSit(View) :
        offers' = offers \cup Shown(SwapsMentioned(View, {<<o.player, o.over>> : o \in told}))
    /\ UNCHANGED <<team, chat, notes, outside>>

-----------------------------------------------------------------------------
(* The model: LLMClient.complete and Agent.run.                            *)

Waiting == Running /\ chat.stage # "tools"

\* A rate limit or a busy service is retried, twice at most.
ModelRetries ==
    /\ Waiting /\ chat.attempt < 2 /\ FromOutside("busy")
    /\ chat' = [chat EXCEPT !.attempt = @ + 1]
    /\ UNCHANGED <<team, offers, notes, chats>>

\* The request fails, or falls back to the text the rules give.
ModelFails ==
    /\ Waiting /\ FromOutside("down")
    /\ chat' = NoChat
    /\ UNCHANGED <<team, offers, notes, chats>>

\* Mutant: a round of tool calls is not counted.
RoundsUncounted(rounds) == rounds

Counted(rounds) == rounds + 1

\* The model asks for tools; asyncio.gather runs them together.
ModelCalls ==
    /\ Running /\ chat.stage = "asking"
    /\ \E n \in 1..MaxCalls :
        chat' = [chat EXCEPT !.stage = "tools", !.calls = n, !.attempt = 0, !.rounds = Counted(@)]
    /\ UNCHANGED <<team, offers, notes, outside, chats>>

\* Mutant: swaps are read from the prose of a chat that changed the lineup.
ProseOffersAlways(said) == SwapsMentioned([View EXCEPT !.seats = chat.base], said)

\* The swaps a reply names, against the team the chat started with, unless a
\* lineup tool ran.
ProseOffers(said) ==
    IF chat.wrote THEN {} ELSE SwapsMentioned([View EXCEPT !.seats = chat.base], said)

\* A chat's reply carries what its tools proposed and what its prose names.
ChatAnswered ==
    /\ Running /\ chat.kind = "chat" /\ chat.stage # "tools"
    /\ chat' = NoChat
    /\ \E said \in SUBSET (BenchOf([seats |-> chat.base]) \X Starting(AlignedStarters(chat.base))) :
        /\ Cardinality(said) <= MaxSaid
        /\ offers' = offers \cup [offer : chat.pending \cup ProseOffers(said), fresh : {chat.fresh}]
    /\ UNCHANGED <<team, notes, outside, chats>>

AdviceAnswered ==
    /\ Running /\ chat.kind \in {"advice", "note"} /\ chat.stage # "tools"
    /\ chat' = NoChat
    /\ UNCHANGED <<team, offers, notes, outside, chats>>

\* An analysis asks once more, without tools, for the schema.
AskForSchema ==
    /\ Running /\ chat.kind = "schema" /\ chat.stage \in {"asking", "closing"}
    /\ chat' = [chat EXCEPT !.stage = "schema", !.attempt = 0]
    /\ UNCHANGED <<team, offers, notes, outside, chats>>

\* _structured: an invalid answer is sent back once; after the second the
\* request fails.
SchemaAnswered ==
    /\ Running /\ chat.stage = "schema"
    /\ \/ chat' = NoChat
       \/ chat.tries = 0 /\ chat' = [chat EXCEPT !.tries = 1, !.attempt = 0]
    /\ UNCHANGED <<team, offers, notes, outside, chats>>

-----------------------------------------------------------------------------
(* Tools. ToolRegistry.execute answers every call, with an error when the  *)
(* tool is unknown, its arguments are invalid or it raises.                *)

\* ToolContext.team_context: cached until a lineup tool invalidates it.
Context == IF chat.cache = NoView THEN entries ELSE chat.cache

\* One more call has its result; after the last the model is asked again, for
\* the last time when the rounds are spent.
Done(c) ==
    [c EXCEPT !.calls = @ - 1,
              !.stage = IF c.calls > 1 THEN "tools"
                        ELSE IF c.rounds = MaxRounds THEN "closing" ELSE "asking"]

Calling == Running /\ chat.stage = "tools"

\* Mutant: auto-approval is not asked for.
MayWriteAlways == chat.kind = "chat"

\* change_lineup writes and set_lineup runs only with auto-approval; advice
\* has neither tool.
MayWrite == chat.kind = "chat" /\ chat.auto

ToolReads ==
    /\ Calling
    /\ chat' = Done([chat EXCEPT !.cache = Context])
    /\ UNCHANGED <<team, offers, notes, outside, chats>>

\* Tools that read rows of their own: a player's stats, the free agents, other
\* teams' rosters.
ToolReadsRows ==
    /\ Calling
    /\ chat' = Done(chat)
    /\ UNCHANGED <<team, offers, notes, outside, chats>>

\* Refused before anything is sent, or raised: the model reads the error.
ToolErrs ==
    /\ Calling
    /\ chat' = Done(chat)
    /\ UNCHANGED <<team, offers, notes, outside, chats>>

\* A lineup tool that returns an error has run all the same.
ToolDeclines ==
    /\ Calling /\ chat.kind = "chat"
    /\ chat' = Done([chat EXCEPT !.cache = Context, !.wrote = TRUE])
    /\ UNCHANGED <<team, offers, notes, outside, chats>>

\* change_lineup without auto-approval.
ToolProposes ==
    /\ Calling /\ chat.kind = "chat" /\ ~MayWrite /\ Cardinality(chat.pending) < MaxSaid
    /\ \E p \in DOMAIN Context, i \in Slots, destination \in Destinations :
        /\ destination = "starter" => i \in Eligible[p]
        /\ chat' = Done([chat EXCEPT !.cache = Context, !.wrote = TRUE,
                           !.pending = @ \cup {IF destination = "starter"
                                               THEN StartOffer([seats |-> Context], p, i)
                                               ELSE MoveOffer(p, destination)}])
    /\ UNCHANGED <<team, offers, notes, outside, chats>>

\* The rosters a lineup tool's write may lead to; the writes of a chat share the
\* scoreboard read with its first context.
ToolWrites ==
    (UNION {AfterMove(MoveOffer(p, destination), chat.board) : p \in DOMAIN Context, destination \in Destinations})
    \cup (UNION {AfterMove(Offer(p, "starter", i, NoPlayer), chat.board) : p \in DOMAIN Context, i \in Slots})
    \cup (UNION {AfterLineup(S, chat.board) : S \in [Slots -> DOMAIN Context \cup {NoPlayer}]})

\* A read of the same round that is still building its context caches the team of
\* before again (agent.py gathers the calls). It is dropped here all the same: a chat
\* that writes takes from its context only who is on the roster, so the old one
\* could at most have more of its moves refused.
ToolMoves ==
    /\ Calling /\ MayWrite
    /\ chat' = Done([chat EXCEPT !.cache = NoView, !.wrote = TRUE])
    /\ entries' \in ToolWrites
    /\ offers' = Stale(offers) /\ notes' = Stale(notes)
    /\ UNCHANGED <<health, started, outside, chats>>

\* Sleeper applied the write, and the tool reports a failure: it is not among the
\* tools used, and nothing is invalidated.
ToolLosesAnswer ==
    /\ Calling /\ MayWrite /\ FromOutside("lost")
    /\ entries' \in ToolWrites
    /\ chat' = [Done(chat) EXCEPT !.fresh = FALSE]
    /\ offers' = Stale(offers) /\ notes' = Stale(notes)
    /\ UNCHANGED <<health, started, chats>>

ToolStep == ToolReads \/ ToolReadsRows \/ ToolErrs \/ ToolDeclines \/ ToolProposes \/ ToolMoves

-----------------------------------------------------------------------------
(* The manager's decisions, each a POST to /move.                          *)

\* Approved by a click, or by the browser while auto-approval is on.
Approve ==
    /\ \E s \in offers :
        /\ entries' \in AfterMove(s.offer, started)
        /\ offers' = Stale(offers \ {s})
    /\ notes' = Stale(notes) /\ chat' = Outdated
    /\ UNCHANGED <<health, started, outside, chats>>

Decline ==
    /\ \E s \in offers : offers' = offers \ {s}
    /\ UNCHANGED <<team, chat, notes, outside, chats>>

\* A claim the assistant showed goes to add_player, which counts the roster as
\* the assistant does; Sleeper counts IR and taxi places apart.
ApproveClaim ==
    /\ FromOutside("claim")
    /\ \E claim \in Claims(View) :
        LET rest   == DOMAIN entries \ {claim.drop}
            active == Active(View) \ {claim.drop}
        IN  /\ claim.add # NoPlayer => Cardinality(active) < MaxRosterSize - IRCapacity - TaxiSlots
            /\ entries' = [p \in (rest \cup {claim.add}) \ {NoPlayer} |-> IF p \in rest THEN entries[p] ELSE Bench]
    /\ offers' = Stale(offers) /\ notes' = Stale(notes) /\ chat' = Outdated
    /\ UNCHANGED <<health, started, chats>>

\* GET /recommendations.
ReadNotes ==
    /\ UNCHANGED <<team, chat, offers, outside, chats>>
    /\ notes' = Shown(StartSit(View))
    /\ notes' # notes

\* A note is followed; the others stay on the page.
FollowNote ==
    /\ \E s \in notes :
        /\ entries' \in AfterMove(s.offer, started)
        /\ notes' = notes \ {s}
    /\ offers' = Stale(offers) /\ chat' = Outdated
    /\ UNCHANGED <<health, started, outside, chats>>

-----------------------------------------------------------------------------
(* Everyone else.                                                          *)

\* Two players change seats in the Sleeper app, and a refresh saves it.
AppReseats ==
    /\ FromOutside("app")
    /\ \E p, q \in DOMAIN entries \ started :
        /\ p # q
        /\ entries[q] \in Eligible[p] /\ entries[p] \in Eligible[q] \cup {Bench}
        /\ entries' = [entries EXCEPT ![p] = entries[q], ![q] = entries[p]]
    /\ offers' = Stale(offers) /\ notes' = Stale(notes) /\ chat' = Outdated
    /\ UNCHANGED <<health, started, chats>>

HealthChanges ==
    /\ FromOutside("health")
    /\ \E p \in Players, condition \in Injuries \cup {"fit"} :
        condition # health[p] /\ health' = [health EXCEPT ![p] = condition]
    /\ UNCHANGED <<entries, started, chat, offers, notes, chats>>

PlayerLocks ==
    /\ FromOutside("kickoff")
    /\ \E p \in Players \ started : started' = started \cup {p}
    /\ UNCHANGED <<entries, health, chat, offers, notes, chats>>

ModelStep == ModelCalls \/ ChatAnswered \/ AdviceAnswered \/ AskForSchema \/ SchemaAnswered

AssistantNext ==
    \/ StartChat \/ StartAdvice \/ StartAnalysis \/ StartNote \/ SubProposal \/ RuleBased
    \/ ModelStep \/ ToolStep \/ ModelRetries \/ ModelFails \/ ToolLosesAnswer
    \/ Approve \/ Decline \/ ApproveClaim \/ ReadNotes \/ FollowNote
    \/ AppReseats \/ HealthChanges \/ PlayerLocks

AssistantSpec == AssistantInit /\ [][AssistantNext]_assistantVars

NotesRead == notes = Shown(StartSit(View))

\* Every model call ends within its timeout, and a tool call that does not
\* return ends in an error. The manager of AdviceSettles keeps reading the
\* notes and following them.
AssistantFairSpec ==
    /\ AssistantSpec
    /\ WF_assistantVars(ModelStep) /\ WF_assistantVars(ToolErrs)
    /\ []<>NotesRead /\ WF_assistantVars(FollowNote)

-----------------------------------------------------------------------------
(* Properties.                                                             *)

\* A proposal names who it replaces: until somebody else changes the lineup, a
\* write of the same chat loses its answer or another move is approved, a move
\* shown puts its player where the named starter sits, or in an empty slot; and
\* the notes of one page can be followed in any order, each bringing in a player
\* who is still on the bench. After a lost answer the code does show swaps over a
\* starter who no longer sits there (ai/tools/base.py:131, ai/service.py:163); what
\* approving such a move can do at most is in OnlyWhatWasDecided.
ProposalsFitTheLineup ==
    /\ \A s \in offers \cup notes : s.fresh /\ s.offer.destination = "starter" =>
         Occupant(View, s.offer.slot) \in {s.offer.over, s.offer.player}
    /\ \A s \in notes : s.fresh => entries[s.offer.player] = Bench

\* The move s is approved, or the note s followed.
DecidedOn(s) ==
    \/ s \in offers /\ offers' = Stale(offers \ {s})
    \/ s \in notes /\ notes' = notes \ {s}

\* Whoever else is reseated gave his slot to the move's player; the starter the
\* move names, if nothing has outdated it.
ReseatsNoMore(s) ==
    \A q \in DOMAIN entries \ {s.offer.player} : entries'[q] # entries[q] =>
        /\ entries[q] \in Slots /\ entries'[s.offer.player] = entries[q]
        /\ s.fresh => q = s.offer.over

\* "A start-over stays a proposal until the manager approves it"
\* (ai/approvals.py:1): a lineup changes by a tool only in a chat sent with
\* auto-approval, and otherwise by one decided move. Besides its own player a move
\* reseats nobody but the starter whose slot he takes, and that is the starter it
\* named unless something has changed the lineup since it was shown; the code posts
\* player and slot only, so an outdated move puts out whoever sits there by then.
OnlyWhatWasDecided ==
    [][entries' # entries =>
         \/ outside' # outside
         \/ Running /\ chat.auto /\ chat' # chat
         \/ \E s \in offers \cup notes : DecidedOn(s) /\ ReseatsNoMore(s)]_assistantVars

LessOne(view, p) == [view EXCEPT !.seats = [q \in DOMAIN view.seats \ {p} |-> view.seats[q]]]

Mirror == [ACCEPT |-> "REJECT", REJECT |-> "ACCEPT", NEGOTIATE |-> "NEGOTIATE", UNCLEAR |-> "UNCLEAR"]

\* The notes on one roster agree: "N open roster spot(s), so no drop is
\* required" (ai/fallback.py:192) and claims need no drop; "depth is Strong, so
\* losing him is affordable" (ai/fallback.py:220) and the position is not weak
\* without him; a surplus is to be traded and the player drafted for it is of a
\* strong position; a full roster's drop candidate is hurt and no grade falls
\* without him.
NotesAgree ==
    /\ OpenSpots(View) > 0 => ~Full(View)
    /\ \A p \in Active(View) : GradeOf(View, Position[p]) = "Strong" =>
         GradeOf(LessOne(View, p), Position[p]) # "Weak"
    /\ TradeIdea(View) =>
         \A q \in Players \ DOMAIN entries :
           \A p \in PickGive(View, q) : GradeOf(View, Position[p]) = "Strong"
    /\ \A p \in DropCandidates(View) : health[p] # "unsigned" =>
         GradeOf(LessOne(View, p), Position[p]) = GradeOf(View, Position[p])

\* Pages and notes agree on a starter and on a trade: a starter the notes replace because
\* he cannot play is alerted HIGH, an inactive one apart, and one so alerted is
\* among the lineup's issues, a suspended one apart; a trade between positions in
\* use, none of them thin, gets the verdict that its review gives once it is made,
\* and the other manager, or an onlooker who is told of his side, the opposite one.
VerdictsAgree ==
    /\ \A s \in StartSit(View) :
         IsUnavailable(View, s.over) /\ health[s.over] # "inactive" => Alert(View, s.over) = "HIGH"
    /\ \A p \in DOMAIN entries :
         entries[p] \in Slots /\ Alert(View, p) = "HIGH" /\ health[p] # "suspended" =>
           entries[p] \in LineupIssues(View)
    /\ \A p \in DOMAIN entries, q \in Players \ DOMAIN entries :
         LET drops == {[player |-> p, team |-> "ours"], [player |-> q, team |-> "theirs"]}
             adds  == {[player |-> q, team |-> "ours"], [player |-> p, team |-> "theirs"]}
             ours  == Reviews(adds, drops, "ours")
         IN  /\ {Position[p], Position[q]} \subseteq Listed(View) \ Weakest(View) => ours = {Assess(View, {p}, {q})}
             /\ Reviews(adds, drops, "theirs") = {Mirror[v] : v \in ours}
             /\ Reviews(adds, drops, "nobody's") = ours \cup {Mirror[v] : v \in ours}

\* What OMAHA says of one roster in different places does not contradict itself:
\* grades, open spots, drops, drafts, alerts, swaps and verdicts on trades.
AppraisalsAgree == NotesAgree /\ VerdictsAgree

\* Every request ends, whatever tools the model keeps asking for and however
\* they end.
EveryRequestIsAnswered == Running ~> ~Running

\* A manager who keeps following the start/sit notes comes to a lineup the
\* engine has nothing to say about: no swap is ever suggested back.
AdviceSettles == <>[](StartSit(View) = {})
=============================================================================
