------------------------------ MODULE Dealings ------------------------------
(***************************************************************************)
(* What a manager does with the free agents and the other managers          *)
(* (backend/app/services/sleeper_writes.py, providers/sleeper/graphql.py):  *)
(* adds and drops, trade offers and answers, direct messages, and the token  *)
(* Sleeper knows the manager by.  Every request reads what is saved, asks    *)
(* Sleeper, and saves what came of it; the other managers and the refreshes  *)
(* (services/sync_service.py) go on in between, and Sleeper's public API,    *)
(* which the refreshes read, is a cache that lags.                          *)
(***************************************************************************)
EXTENDS Integers, FiniteSets

CONSTANTS Me, Others,    \* the managers of the league
          Outsider,      \* a Sleeper user who is in none of its teams
          NoOne, Players,
          Requests,      \* requests running at the same time
          Offers,        \* ids of trade offers
          FirstOwner, FirstThreads,
          Cap,           \* max_roster_size
          Deadline,      \* the last week with trades
          WeeksBack,     \* the past weeks whose transactions a refresh reads; 3 in the code
          MaxSide,       \* bound: players on a side of an offer
          MaxEvents,     \* bound: changes at Sleeper
          LastWeek       \* bound on the weeks

Managers == Others \cup {Me}

ASSUME DealingsConstants ==
  /\ IsFiniteSet(Others) /\ Me \notin Others /\ Outsider \notin Managers /\ NoOne \notin Managers \cup Players
  /\ FirstOwner \in [Players -> Managers \cup {NoOne}]
  /\ FirstThreads \subseteq SUBSET (Managers \cup {Outsider})
  /\ Cap \in Nat /\ Deadline \in Nat /\ WeeksBack \in Nat /\ LastWeek \in Nat \ {0}

VARIABLES
  owner,    \* who has each player at Sleeper
  offers,   \* the trade offers at Sleeper: [from, to, give, get, status, leg]
  claims,   \* my waiver claims at Sleeper: [add, drop]
  week,     \* Sleeper's week
  public,   \* what the public API shows: [owner, offers, week]
  threads,  \* who is in each direct thread of Sleeper's
  had,      \* history: every [team, player] Sleeper has had
  events,   \* changes at Sleeper so far
  rows,     \* saved roster entries of the league's week: [team, player]
  book,     \* saved transactions: the status of each offer, or "none"
  leg,      \* the saved league's week
  token,    \* whose token the connected account has saved, or NoOne
  req,      \* what each request holds across its awaits
  pull      \* what the refresh under way has read

sleeper == <<owner, offers, claims, week, threads>>
omaha == <<rows, book, leg, token>>
vars == <<sleeper, public, had, events, omaha, req, pull>>

Idle == [pc |-> "idle"]
NoOffer == [status |-> "none"]
Row(t, p) == [team |-> t, player |-> p]

Statuses == {"pending", "complete", "rejected"}
OfferRecord ==
  [from : Managers, to : Managers, give : SUBSET Players, get : SUBSET Players,
   status : Statuses, leg : Nat]
Books == [Offers -> Statuses \cup {"none"}]
Ownership == [Players -> Managers \cup {NoOne}]
Market == [Offers -> OfferRecord \cup {NoOffer}]
SquadRows == [team : Managers, player : Players]
Somebody == Players \cup {NoOne}

Held ==
  {Idle}
  \cup [pc : {"add"}, add : Somebody, drop : Somebody, gone : BOOLEAN]
  \cup [pc : {"added"}, add : Somebody, drop : Somebody, gone : BOOLEAN,
        status : {"complete", "pending"}]
  \cup [pc : {"offer"}, to : Others, give : SUBSET Players, get : SUBSET Players]
  \cup [pc : {"offered"}, offer : Offers]
  \cup [pc : {"respond"}, offer : Offers, accept : BOOLEAN]
  \cup [pc : {"open", "send", "read"}, thread : SUBSET (Managers \cup {Outsider}),
        by : Managers \cup {Outsider}]

\* Every variable has a value the code can hold; a pull holds what it has read.
TypeOK ==
  /\ owner \in Ownership /\ offers \in Market
  /\ claims \subseteq [add : Somebody, drop : Somebody]
  /\ week \in Nat /\ leg \in Nat
  /\ threads \subseteq SUBSET (Managers \cup {Outsider})
  /\ public \in [owner : Ownership, offers : Market, week : Nat]
  /\ had \subseteq SquadRows /\ rows \subseteq SquadRows /\ book \in Books
  /\ token \in Managers \cup {Outsider, NoOne}
  /\ req \in [Requests -> Held]
  /\ \/ pull = Idle
     \/ /\ pull.pc = "apply" /\ pull.rows \subseteq SquadRows /\ pull.week \in Nat
        /\ DOMAIN pull.offers \subseteq Offers
        /\ \A o \in DOMAIN pull.offers : pull.offers[o] \in OfferRecord

RowsOf(own) == {Row(own[p], p) : p \in {q \in Players : own[q] # NoOne}}
Public == [owner |-> owner, offers |-> offers, week |-> week]

----------------------------------------------------------------------------
Init ==
  /\ owner = FirstOwner
  /\ offers = [o \in Offers |-> NoOffer]
  /\ claims = {} /\ week = 1
  /\ threads = FirstThreads
  /\ public = Public
  /\ had = RowsOf(owner) /\ events = 0
  /\ rows = RowsOf(owner) /\ leg = 1
  /\ book = [o \in Offers |-> "none"]
  /\ token = Me
  /\ req = [r \in Requests |-> Idle]
  /\ pull = Idle

Event == events < MaxEvents /\ events' = events + 1

\* Whatever happens at Sleeper to the players goes into the history.
Moves(own) == owner' = own /\ had' = had \cup RowsOf(own)

----------------------------------------------------------------------------
\* Sleeper's own rules.

Squad(own, t) == {p \in Players : own[p] = t}

CanAdd(add, drop) ==
  /\ add # NoOne => owner[add] = NoOne /\ Cardinality(Squad(owner, Me) \ {drop}) < Cap
  /\ drop # NoOne => owner[drop] = Me

AfterAdd(add, drop) ==
  [p \in Players |-> IF p = add THEN Me ELSE IF p = drop THEN NoOne ELSE owner[p]]

Standing(o) ==
  /\ offers[o].status = "pending"
  /\ \A p \in offers[o].give : owner[p] = offers[o].from
  /\ \A p \in offers[o].get : owner[p] = offers[o].to

Settled(o, status) ==
  /\ offers' = [offers EXCEPT ![o].status = status]
  /\ IF status = "complete"
     THEN Moves([p \in Players |-> IF p \in offers[o].give THEN offers[o].to
                                   ELSE IF p \in offers[o].get THEN offers[o].from
                                   ELSE owner[p]])
     ELSE UNCHANGED <<owner, had>>

\* The other managers, and I in the Sleeper app.
SomebodyAddsOrDrops ==
  /\ Event
  /\ \E t \in Managers, p \in Players :
       \/ owner[p] = NoOne /\ Moves([owner EXCEPT ![p] = t])
       \/ owner[p] = t /\ Moves([owner EXCEPT ![p] = NoOne])
  /\ UNCHANGED <<offers, claims, week, threads, public, omaha, req, pull>>

\* An offer comes to me; an offer is accepted, turned down or withdrawn.
OfferArrives(o) ==
  /\ Event /\ offers[o] = NoOffer
  /\ \E t \in Others : \E p \in Squad(owner, t), q \in Squad(owner, Me) :
       offers' = [offers EXCEPT ![o] =
         [from |-> t, to |-> Me, give |-> {p}, get |-> {q}, status |-> "pending", leg |-> week]]
  /\ UNCHANGED <<owner, claims, week, threads, public, had, omaha, req, pull>>

OfferSettles(o) ==
  /\ Event
  /\ \/ Standing(o) /\ Settled(o, "complete")
     \/ offers[o].status = "pending" /\ Settled(o, "rejected")
  /\ UNCHANGED <<claims, week, threads, public, omaha, req, pull>>

ClaimClears(c) ==
  /\ c \in claims /\ claims' = claims \ {c}
  /\ IF CanAdd(c.add, c.drop) THEN Moves(AfterAdd(c.add, c.drop)) ELSE UNCHANGED <<owner, had>>
  /\ UNCHANGED <<offers, week, threads, public, events, omaha, req, pull>>

WeekTurns ==
  /\ week < LastWeek /\ week' = week + 1
  /\ UNCHANGED <<owner, offers, claims, threads, public, had, events, omaha, req, pull>>

PublicCatchesUp ==
  /\ public # Public /\ public' = Public
  /\ UNCHANGED <<sleeper, had, events, omaha, req, pull>>

----------------------------------------------------------------------------
\* A refresh.  Rows a request has loaded are gone once it has replaced them.

ThisWeekOnly(w) == {w}
TransactionWeeks(w) == {x \in 1..LastWeek : w - WeeksBack <= x /\ x <= w}

RefreshReads ==
  /\ pull.pc = "idle"
  /\ pull' = [pc |-> "apply", rows |-> RowsOf(public.owner), week |-> public.week,
              offers |-> [o \in {x \in Offers : public.offers[x] # NoOffer} |-> public.offers[o]]]
  /\ UNCHANGED <<sleeper, public, had, events, omaha, req>>

\* What apply_snapshot saves of a transaction: the ones of the weeks it read.
BookAfter(snapshot) ==
  [o \in Offers |->
     IF o \in DOMAIN snapshot.offers /\ snapshot.offers[o].leg \in TransactionWeeks(snapshot.week)
     THEN snapshot.offers[o].status ELSE book[o]]

RefreshCommits ==
  /\ pull.pc = "apply"
  /\ rows' = pull.rows /\ leg' = pull.week /\ book' = BookAfter(pull)
  /\ req' = [r \in Requests |-> IF req[r].pc \in {"add", "added"}
                                THEN [req[r] EXCEPT !.gone = TRUE] ELSE req[r]]
  /\ pull' = Idle
  /\ UNCHANGED <<sleeper, public, had, events, token>>

----------------------------------------------------------------------------
\* Adding a free agent, dropping a player, or both.

Mine == {row.player : row \in {x \in rows : x.team = Me}}
Rostered == {row.player : row \in rows}

\* Without a saved token nothing is sent.
HasToken == token # NoOne

\* add_player's checks, all on what is saved.
AskAdd(r) ==
  /\ req[r].pc = "idle" /\ HasToken
  /\ \E add \in (Players \ Rostered) \cup {NoOne}, drop \in Mine \cup {NoOne} :
       /\ add # NoOne \/ drop # NoOne
       /\ drop = NoOne => Cardinality(Mine) < Cap
       /\ req' = [req EXCEPT ![r] = [pc |-> "add", add |-> add, drop |-> drop, gone |-> FALSE]]
  /\ UNCHANGED <<sleeper, public, had, events, omaha, pull>>

\* Done, or a claim waits for its waivers.
SleeperAdds(r) ==
  /\ req[r].pc = "add" /\ Event
  /\ LET add == req[r].add  drop == req[r].drop IN
     \E status \in {"complete", "pending"}, heard \in BOOLEAN :
       /\ IF status = "complete"
          THEN CanAdd(add, drop) /\ Moves(AfterAdd(add, drop)) /\ UNCHANGED claims
          ELSE claims' = claims \cup {[add |-> add, drop |-> drop]} /\ UNCHANGED <<owner, had>>
       \* Without the answer the request fails, and nothing is saved.
       /\ req' = [req EXCEPT ![r] =
            IF heard THEN [pc |-> "added", add |-> add, drop |-> drop, gone |-> @.gone,
                           status |-> status] ELSE Idle]
  /\ UNCHANGED <<offers, week, threads, public, omaha, pull>>

\* add_player's two ends: a claim that waits saves nothing; a row of the dropped
\* player is deleted, if it is still the row that was loaded; the unique key refuses
\* a row that a refresh has saved meanwhile, and with it the whole commit.
RowsIfDone(r) ==
  IF Row(Me, req[r].add) \in rows THEN rows
  ELSE (IF req[r].gone THEN rows ELSE rows \ {Row(Me, req[r].drop)})
       \cup {Row(Me, p) : p \in {req[r].add} \ {NoOne}}

RowsAfter(r) == IF req[r].status = "pending" THEN rows ELSE RowsIfDone(r)

SaveAdd(r) ==
  /\ req[r].pc = "added"
  /\ rows' = RowsAfter(r)
  /\ req' = [req EXCEPT ![r] = Idle]
  /\ UNCHANGED <<sleeper, public, had, events, book, leg, token, pull>>

----------------------------------------------------------------------------
\* The chats, and the offers on the league's board, are Sleeper's to whoever
\* has saved a token.
CanChat == HasToken

\* Offering a trade to one other team, and answering an offer.

Sides == {s \in SUBSET Players : Cardinality(s) \in 1..MaxSide}

AskTrade(r) ==
  /\ req[r].pc = "idle" /\ HasToken /\ leg <= Deadline
  /\ \E give \in Sides, get \in Sides, t \in Others :
       /\ give \cap get = {}
       /\ \A p \in give : Row(Me, p) \in rows
       /\ \A p \in get : Row(t, p) \in rows
       /\ req' = [req EXCEPT ![r] = [pc |-> "offer", to |-> t, give |-> give, get |-> get]]
  /\ UNCHANGED <<sleeper, public, had, events, omaha, pull>>

SleeperOffers(r, o) ==
  /\ req[r].pc = "offer" /\ Event /\ offers[o] = NoOffer
  /\ req[r].give \subseteq Squad(owner, Me) /\ req[r].get \subseteq Squad(owner, req[r].to)
  /\ offers' = [offers EXCEPT ![o] =
       [from |-> Me, to |-> req[r].to, give |-> req[r].give, get |-> req[r].get,
        status |-> "pending", leg |-> week]]
  /\ \E heard \in BOOLEAN :
       req' = [req EXCEPT ![r] = IF heard THEN [pc |-> "offered", offer |-> o] ELSE Idle]
  /\ UNCHANGED <<owner, claims, week, threads, public, had, omaha, pull>>

\* The answer was "pending", whatever a refresh has saved since.
SaveOffer(r) ==
  /\ req[r].pc = "offered"
  /\ book' = [book EXCEPT ![req[r].offer] = "pending"]
  /\ req' = [req EXCEPT ![r] = Idle]
  /\ UNCHANGED <<sleeper, public, had, events, rows, leg, token, pull>>

\* The card of an offer on the league's board; other people's are not shown.
Involves(o) == Me \in {offers[o].from, offers[o].to}
Shown == {o \in Offers : offers[o] # NoOffer /\ Involves(o)}

\* respond_to_trade finds the offer among the league's messages.
AskRespond(r) ==
  /\ req[r].pc = "idle" /\ CanChat
  /\ \E o \in Shown, accept \in BOOLEAN :
       /\ offers[o].status = "pending"
       /\ req' = [req EXCEPT ![r] = [pc |-> "respond", offer |-> o, accept |-> accept]]
  /\ UNCHANGED <<sleeper, public, had, events, omaha, pull>>

\* The offer may have settled since; nothing is saved either way.
SleeperSettles(r) ==
  /\ req[r].pc = "respond" /\ Event
  /\ LET o == req[r].offer IN
     /\ offers[o].status = "pending" /\ offers[o].to = Me
     /\ IF req[r].accept THEN Standing(o) /\ Settled(o, "complete") ELSE Settled(o, "rejected")
  /\ req' = [req EXCEPT ![r] = Idle]
  /\ UNCHANGED <<claims, week, threads, public, omaha, pull>>

----------------------------------------------------------------------------
\* Direct messages.

With(thread) == thread \ {Me}
MyThreads == {thread \in threads : Me \in thread}

AnyManagers(thread) == With(thread) \cap Others # {}

\* Me and one other, who has a team in the league.
LeagueThread(thread) ==
  Cardinality(With(thread)) = 1 /\ With(thread) \subseteq Others

\* The chats shown with a manager.  A group he and a stranger are in is taken
\* for one: only those in the league are counted.
Listed(m) == {thread \in MyThreads : With(thread) \cap Others = {m}}

\* A chat of the list is read or written to, once Sleeper has shown who is in it.
AskChat(r) ==
  /\ req[r].pc = "idle" /\ CanChat
  /\ \E m \in Others : \E thread \in Listed(m), pc \in {"read", "send"} :
       /\ LeagueThread(thread)
       /\ req' = [req EXCEPT ![r] = [pc |-> pc, thread |-> thread, by |-> token]]
  /\ UNCHANGED <<sleeper, public, had, events, omaha, pull>>

\* The thread with that manager, or a new one.
AskOpen(r) ==
  /\ req[r].pc = "idle" /\ CanChat
  /\ \E m \in Others :
       req' = [req EXCEPT ![r] =
         [pc |-> IF {Me, m} \in MyThreads THEN "send" ELSE "open", thread |-> {Me, m}, by |-> token]]
  /\ UNCHANGED <<sleeper, public, had, events, omaha, pull>>

SleeperOpens(r) ==
  /\ req[r].pc = "open"
  /\ threads' = threads \cup {req[r].thread}
  /\ \E heard \in BOOLEAN :
       req' = [req EXCEPT ![r] = IF heard THEN [@ EXCEPT !.pc = "send"] ELSE Idle]
  /\ UNCHANGED <<owner, offers, claims, week, public, had, events, omaha, pull>>

\* What was said comes back with the answer.
SleeperPosts(r) ==
  /\ req[r].pc = "send"
  /\ req' = [req EXCEPT ![r].pc = "read"]
  /\ UNCHANGED <<sleeper, public, had, events, omaha, pull>>

SleeperShows(r) ==
  /\ req[r].pc = "read"
  /\ req' = [req EXCEPT ![r] = Idle]
  /\ UNCHANGED <<sleeper, public, had, events, omaha, pull>>

----------------------------------------------------------------------------
\* The token, and what ends a request without a trace.

FitsTheAccount(u) == u = Me

SaveToken ==
  /\ \E u \in Managers \cup {Outsider} : FitsTheAccount(u) /\ token' = u
  /\ UNCHANGED <<sleeper, public, had, events, rows, book, leg, req, pull>>

\* A request that runs goes on with the token it read.
ClearToken ==
  /\ token' = NoOne
  /\ UNCHANGED <<sleeper, public, had, events, rows, book, leg, req, pull>>

\* Sleeper refuses, rejects the token or cannot be reached.
Refused(r) ==
  /\ req[r].pc \in {"add", "offer", "respond", "open", "send", "read"}
  /\ req' = [req EXCEPT ![r] = Idle]
  /\ UNCHANGED <<sleeper, public, had, events, omaha, pull>>

Restart ==
  /\ Event
  /\ req' = [r \in Requests |-> Idle] /\ pull' = Idle
  /\ UNCHANGED <<sleeper, public, had, omaha>>

Next ==
  \/ SomebodyAddsOrDrops \/ WeekTurns \/ PublicCatchesUp
  \/ \E o \in Offers : OfferArrives(o) \/ OfferSettles(o)
  \/ \E c \in claims : ClaimClears(c)
  \/ RefreshReads \/ RefreshCommits
  \/ \E r \in Requests :
       \/ AskAdd(r) \/ SleeperAdds(r) \/ SaveAdd(r)
       \/ AskTrade(r) \/ (\E o \in Offers : SleeperOffers(r, o)) \/ SaveOffer(r)
       \/ AskRespond(r) \/ SleeperSettles(r)
       \/ AskChat(r) \/ AskOpen(r) \/ SleeperOpens(r) \/ SleeperPosts(r) \/ SleeperShows(r)
       \/ Refused(r)
  \/ SaveToken \/ ClearToken \/ Restart

\* An open league is refreshed again and again, Sleeper's cache expires and its
\* waivers run.
Spec ==
  /\ Init /\ [][Next]_vars
  /\ WF_vars(RefreshReads) /\ WF_vars(RefreshCommits) /\ WF_vars(PublicCatchesUp)

----------------------------------------------------------------------------
(* Every saved roster entry is one that Sleeper has had: a claim that waits, *)
(* a refusal, a lost answer or a refresh that commits before the answer is   *)
(* saved never makes one up (sleeper_writes.py:704).                         *)
RowsAreSleepers == rows \subseteq had

(* A message goes out in the name of the connected account, to one manager   *)
(* of the league, and nobody else reads it, and no other conversation is      *)
(* shown: not a group chat, not a stranger's, not with another person's token *)
(* (sleeper_writes.py:519).                                                  *)
MessagesStayPrivate ==
  \A r \in Requests : req[r].pc \in {"send", "read"} =>
    req[r].by = Me /\ \E o \in Others : req[r].thread = {Me, o}

(* Once Sleeper is quiet the saved rosters are its rosters and the saved     *)
(* offers its offers, as far back as a refresh reads, whatever a request      *)
(* saved over a newer state or a lagging answer undid (sync_service.py:204). *)
BooksCatchUp ==
  <>[](/\ rows = RowsOf(owner)
       /\ \A o \in Offers :
            offers[o].status # "none" /\ offers[o].leg >= week - WeeksBack
              => book[o] = offers[o].status)
============================================================================
