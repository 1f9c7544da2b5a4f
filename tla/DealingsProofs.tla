---------------------------- MODULE DealingsProofs ----------------------------
(***************************************************************************)
(* Proofs about Dealings: types, that every saved row was once Sleeper's,  *)
(* and that a message stays between the manager and one other.             *)
(***************************************************************************)
EXTENDS Dealings, FiniteSetTheorems, TLAPS

-----------------------------------------------------------------------------
(* Rows.                                                                   *)

LEMMA RowsAreRows ==
  ASSUME NEW own \in Ownership
  PROVE  RowsOf(own) \in SUBSET SquadRows
BY DEF RowsOf, Row, SquadRows, Ownership

\* A player who has an owner has a row.
LEMMA OwnedHasRow ==
  ASSUME NEW own \in Ownership, NEW p \in Players, own[p] = Me, Me # NoOne
  PROVE  Row(Me, p) \in RowsOf(own)
BY DEF RowsOf, Ownership

LEMMA MeIsSomebody == Me \in Managers /\ Me # NoOne /\ NoOne \notin Players
BY DealingsConstants DEF Managers

\* Moves keeps types when it gives the players owners.
LEMMA MovesTyped ==
  ASSUME TypeOK, NEW own \in Ownership, Moves(own)
  PROVE  owner' \in Ownership /\ had' \subseteq SquadRows /\ had \subseteq had' /\ RowsOf(owner') \subseteq had'
BY RowsAreRows DEF Moves, TypeOK, RowsOf

LEMMA AddedTyped ==
  ASSUME TypeOK, NEW add \in Somebody, NEW drop \in Somebody
  PROVE  AfterAdd(add, drop) \in Ownership
BY MeIsSomebody DEF AfterAdd, TypeOK, Ownership

\* The answer to an offer moves its players between its two teams.
LEMMA SettledTyped ==
  ASSUME TypeOK, NEW o \in Offers, NEW status \in Statuses, offers[o].status = "pending",
         Settled(o, status)
  PROVE  /\ offers' \in Market /\ owner' \in Ownership /\ had' \subseteq SquadRows
         /\ had \subseteq had' /\ (RowsOf(owner) \subseteq had => RowsOf(owner') \subseteq had')
<1>1. offers[o] \in OfferRecord
  BY DEF TypeOK, Market, NoOffer
<1>2. offers' \in Market
  BY <1>1 DEF Settled, TypeOK, Market, OfferRecord
<1>3. CASE status = "complete"
  <2> DEFINE own == [p \in Players |-> IF p \in offers[o].give THEN offers[o].to
                                       ELSE IF p \in offers[o].get THEN offers[o].from
                                       ELSE owner[p]]
  <2>1. own \in Ownership
    BY <1>1 DEF TypeOK, Ownership, OfferRecord
  <2>2. Moves(own)
    BY <1>3 DEF Settled
  <2> QED BY <1>2, <2>1, <2>2, MovesTyped
<1>4. CASE status # "complete"
  BY <1>2, <1>4 DEF Settled, TypeOK, RowsOf
<1> QED BY <1>3, <1>4

-----------------------------------------------------------------------------
(* Types.                                                                  *)

\* What a request holds, by what it waits for.
LEMMA HeldShapes ==
  ASSUME NEW h \in Held
  PROVE  /\ h.pc = "add" => h \in [pc : {"add"}, add : Somebody, drop : Somebody, gone : BOOLEAN]
         /\ h.pc = "added" => h \in [pc : {"added"}, add : Somebody, drop : Somebody, gone : BOOLEAN,
                                     status : {"complete", "pending"}]
         /\ h.pc = "offer" => h \in [pc : {"offer"}, to : Others, give : SUBSET Players, get : SUBSET Players]
         /\ h.pc = "offered" => h \in [pc : {"offered"}, offer : Offers]
         /\ h.pc = "respond" => h \in [pc : {"respond"}, offer : Offers, accept : BOOLEAN]
         /\ h.pc \in {"open", "send", "read"} =>
              h \in [pc : {"open", "send", "read"}, thread : SUBSET (Managers \cup {Outsider}),
                     by : Managers \cup {Outsider}]
BY DEF Held, Idle

LEMMA InitTyped == Init => TypeOK
<1> SUFFICES ASSUME Init PROVE TypeOK
  OBVIOUS
<1>1. owner \in Ownership
  BY DealingsConstants DEF Init, Ownership
<1>2. rows \in SUBSET SquadRows /\ had \in SUBSET SquadRows
  BY <1>1, RowsAreRows DEF Init
<1>3. offers \in Market
  BY DEF Init, Market
<1>4. public \in [owner : Ownership, offers : Market, week : Nat]
  BY <1>1, <1>3 DEF Init, Public
<1>5. req \in [Requests -> Held]
  BY DEF Init, Held
<1>6. threads \subseteq SUBSET (Managers \cup {Outsider}) /\ token \in Managers
  BY DealingsConstants, MeIsSomebody DEF Init
<1> QED BY <1>1, <1>2, <1>3, <1>4, <1>5, <1>6 DEF Init, TypeOK, Books

LEMMA SleeperTyped ==
  ASSUME TypeOK,
         \/ SomebodyAddsOrDrops \/ WeekTurns \/ PublicCatchesUp
         \/ \E o \in Offers : OfferArrives(o) \/ OfferSettles(o)
         \/ \E c \in claims : ClaimClears(c)
  PROVE  TypeOK'
<1>1. CASE SomebodyAddsOrDrops
  <2>1. PICK t \in Managers, p \in Players :
          Moves([owner EXCEPT ![p] = t]) \/ Moves([owner EXCEPT ![p] = NoOne])
    BY <1>1 DEF SomebodyAddsOrDrops
  <2>2. [owner EXCEPT ![p] = t] \in Ownership /\ [owner EXCEPT ![p] = NoOne] \in Ownership
    BY DEF TypeOK, Ownership
  <2>3. owner' \in Ownership /\ had' \subseteq SquadRows
    BY <2>1, <2>2, MovesTyped
  <2> QED BY <1>1, <2>3 DEF SomebodyAddsOrDrops, TypeOK, omaha
<1>2. CASE WeekTurns
  BY <1>2 DEF WeekTurns, TypeOK, omaha
<1>3. CASE PublicCatchesUp
  BY <1>3 DEF PublicCatchesUp, Public, TypeOK, sleeper, omaha
<1>4. ASSUME NEW o \in Offers, OfferArrives(o) PROVE TypeOK'
  <2>1. PICK t \in Others : \E p \in Squad(owner, t), q \in Squad(owner, Me) :
          offers' = [offers EXCEPT ![o] =
            [from |-> t, to |-> Me, give |-> {p}, get |-> {q}, status |-> "pending", leg |-> week]]
    BY <1>4 DEF OfferArrives
  <2>2. offers' \in Market
    BY <2>1, MeIsSomebody DEF TypeOK, Market, OfferRecord, Statuses, Squad, Managers
  <2> QED BY <1>4, <2>2 DEF OfferArrives, TypeOK, omaha
<1>5. ASSUME NEW o \in Offers, OfferSettles(o) PROVE TypeOK'
  <2>1. offers[o].status = "pending" /\ \E s \in Statuses : Settled(o, s)
    BY <1>5 DEF OfferSettles, Standing, Statuses
  <2>2. offers' \in Market /\ owner' \in Ownership /\ had' \subseteq SquadRows
    BY <2>1, SettledTyped
  <2> QED BY <1>5, <2>2 DEF OfferSettles, TypeOK, omaha
<1>6. ASSUME NEW c \in claims, ClaimClears(c) PROVE TypeOK'
  <2>1. c.add \in Somebody /\ c.drop \in Somebody
    BY DEF TypeOK
  <2>2. owner' \in Ownership /\ had' \subseteq SquadRows
    BY <1>6, <2>1, AddedTyped, MovesTyped DEF ClaimClears, TypeOK
  <2> QED BY <1>6, <2>2 DEF ClaimClears, TypeOK, omaha
<1> QED BY <1>1, <1>2, <1>3, <1>4, <1>5, <1>6

LEMMA RefreshTyped ==
  ASSUME TypeOK, RefreshReads \/ RefreshCommits
  PROVE  TypeOK'
<1>1. CASE RefreshReads
  <2>1. /\ pull'.pc = "apply" /\ pull'.rows = RowsOf(public.owner) /\ pull'.week = public.week
        /\ pull'.offers = [o \in {x \in Offers : public.offers[x] # NoOffer} |-> public.offers[o]]
    BY <1>1 DEF RefreshReads
  <2>2. public.owner \in Ownership /\ public.offers \in Market /\ public.week \in Nat
    BY DEF TypeOK
  <2>3. \A o \in DOMAIN pull'.offers : pull'.offers[o] \in OfferRecord
    BY <2>1, <2>2 DEF Market
  <2> QED BY <1>1, <2>1, <2>2, <2>3, RowsAreRows DEF RefreshReads, TypeOK, sleeper, omaha
<1>2. CASE RefreshCommits
  <2>1. pull.pc = "apply" /\ pull # Idle
    BY <1>2 DEF RefreshCommits, Idle
  <2>2. book' \in Books
    BY <1>2, <2>1 DEF RefreshCommits, BookAfter, Books, TypeOK, OfferRecord
  <2>3. req' \in [Requests -> Held]
    <3> SUFFICES ASSUME NEW r \in Requests PROVE req'[r] \in Held
      BY <1>2 DEF RefreshCommits
    <3>1. req[r].pc \in {"add", "added"} => [req[r] EXCEPT !.gone = TRUE] \in Held
      <4>1. req[r] \in Held
        BY DEF TypeOK
      <4>2. CASE req[r].pc = "add"
        BY <4>1, <4>2, HeldShapes DEF Held
      <4>3. CASE req[r].pc = "added"
        BY <4>1, <4>3, HeldShapes DEF Held
      <4> QED BY <4>2, <4>3
    <3> QED BY <1>2, <3>1 DEF RefreshCommits, TypeOK
  <2> QED BY <1>2, <2>1, <2>2, <2>3 DEF RefreshCommits, TypeOK, sleeper
<1> QED BY <1>1, <1>2

\* The steps of a request.
LEMMA AddTyped ==
  ASSUME TypeOK, NEW r \in Requests, AskAdd(r) \/ SleeperAdds(r) \/ SaveAdd(r)
  PROVE  TypeOK'
<1>1. CASE AskAdd(r)
  <2>1. PICK add \in Somebody, drop \in Mine \cup {NoOne} :
          req' = [req EXCEPT ![r] = [pc |-> "add", add |-> add, drop |-> drop, gone |-> FALSE]]
    BY <1>1 DEF AskAdd, Somebody
  <2>2. drop \in Somebody
    BY DEF Mine, Somebody, TypeOK, SquadRows
  <2>3. req' \in [Requests -> Held]
    BY <2>1, <2>2 DEF TypeOK, Held
  <2> QED BY <1>1, <2>3 DEF AskAdd, TypeOK, sleeper, omaha
<1>2. CASE SleeperAdds(r)
  <2>1. req[r] \in [pc : {"add"}, add : Somebody, drop : Somebody, gone : BOOLEAN]
    BY <1>2, HeldShapes DEF SleeperAdds, TypeOK
  <2>2. PICK status \in {"complete", "pending"}, heard \in BOOLEAN :
          /\ IF status = "complete"
             THEN /\ CanAdd(req[r].add, req[r].drop) /\ Moves(AfterAdd(req[r].add, req[r].drop))
                  /\ UNCHANGED claims
             ELSE /\ claims' = claims \cup {[add |-> req[r].add, drop |-> req[r].drop]}
                  /\ UNCHANGED <<owner, had>>
          /\ req' = [req EXCEPT ![r] =
               IF heard THEN [pc |-> "added", add |-> req[r].add, drop |-> req[r].drop,
                              gone |-> @.gone, status |-> status] ELSE Idle]
    BY <1>2 DEF SleeperAdds
  <2>3. req' \in [Requests -> Held]
    BY <2>1, <2>2 DEF TypeOK, Held
  <2>4. owner' \in Ownership /\ had' \subseteq SquadRows
    BY <2>1, <2>2, AddedTyped, MovesTyped DEF TypeOK
  <2>5. claims' \subseteq [add : Somebody, drop : Somebody]
    BY <2>1, <2>2 DEF TypeOK
  <2> QED BY <1>2, <2>3, <2>4, <2>5 DEF SleeperAdds, TypeOK, omaha
<1>3. CASE SaveAdd(r)
  <2>1. req[r].add \in Somebody
    BY <1>3, HeldShapes DEF SaveAdd, TypeOK
  <2>2. {Row(Me, p) : p \in {req[r].add} \ {NoOne}} \subseteq SquadRows
    BY <2>1, MeIsSomebody DEF Row, SquadRows, Somebody
  <2>3. rows' \subseteq SquadRows
    BY <1>3, <2>2 DEF SaveAdd, RowsAfter, RowsIfDone, TypeOK
  <2>4. req' \in [Requests -> Held]
    BY <1>3 DEF SaveAdd, TypeOK, Held
  <2> QED BY <1>3, <2>3, <2>4 DEF SaveAdd, TypeOK, sleeper
<1> QED BY <1>1, <1>2, <1>3

LEMMA TradeTyped ==
  ASSUME TypeOK, NEW r \in Requests,
         \/ AskTrade(r) \/ (\E o \in Offers : SleeperOffers(r, o)) \/ SaveOffer(r)
         \/ AskRespond(r) \/ SleeperSettles(r)
  PROVE  TypeOK'
<1>1. CASE AskTrade(r)
  <2>1. PICK give \in Sides, get \in Sides, t \in Others :
          req' = [req EXCEPT ![r] = [pc |-> "offer", to |-> t, give |-> give, get |-> get]]
    BY <1>1 DEF AskTrade
  <2>2. req' \in [Requests -> Held]
    BY <2>1 DEF TypeOK, Held, Sides
  <2> QED BY <1>1, <2>2 DEF AskTrade, TypeOK, sleeper, omaha
<1>2. ASSUME NEW o \in Offers, SleeperOffers(r, o) PROVE TypeOK'
  <2>1. req[r] \in [pc : {"offer"}, to : Others, give : SUBSET Players, get : SUBSET Players]
    BY <1>2, HeldShapes DEF SleeperOffers, TypeOK
  <2>2. [from |-> Me, to |-> req[r].to, give |-> req[r].give, get |-> req[r].get,
         status |-> "pending", leg |-> week] \in OfferRecord
    BY <2>1 DEF TypeOK, OfferRecord, Statuses, Managers
  <2>3. offers' \in Market
    BY <1>2, <2>2 DEF SleeperOffers, TypeOK, Market
  <2>4. req' \in [Requests -> Held]
    BY <1>2 DEF SleeperOffers, TypeOK, Held
  <2> QED BY <1>2, <2>3, <2>4 DEF SleeperOffers, TypeOK, omaha
<1>3. CASE SaveOffer(r)
  <2>1. book' \in Books
    BY <1>3 DEF SaveOffer, TypeOK, Books, Statuses
  <2>2. req' \in [Requests -> Held]
    BY <1>3 DEF SaveOffer, TypeOK, Held
  <2> QED BY <1>3, <2>1, <2>2 DEF SaveOffer, TypeOK, sleeper
<1>4. CASE AskRespond(r)
  <2>1. req' \in [Requests -> Held]
    BY <1>4 DEF AskRespond, TypeOK, Held, Shown
  <2> QED BY <1>4, <2>1 DEF AskRespond, TypeOK, sleeper, omaha
<1>5. CASE SleeperSettles(r)
  <2>1. req[r].offer \in Offers
    BY <1>5, HeldShapes DEF SleeperSettles, TypeOK
  <2>2. offers[req[r].offer].status = "pending" /\ \E s \in Statuses : Settled(req[r].offer, s)
    BY <1>5 DEF SleeperSettles, Statuses
  <2>3. offers' \in Market /\ owner' \in Ownership /\ had' \subseteq SquadRows
    BY <2>1, <2>2, SettledTyped
  <2>4. req' \in [Requests -> Held]
    BY <1>5 DEF SleeperSettles, TypeOK, Held
  <2> QED BY <1>5, <2>3, <2>4 DEF SleeperSettles, TypeOK, omaha
<1> QED BY <1>1, <1>2, <1>3, <1>4, <1>5

LEMMA ChatTyped ==
  ASSUME TypeOK, NEW r \in Requests,
         \/ AskChat(r) \/ AskOpen(r) \/ SleeperOpens(r) \/ SleeperPosts(r) \/ SleeperShows(r)
         \/ Refused(r)
  PROVE  TypeOK'
<1> DEFINE Talk == [pc : {"open", "send", "read"}, thread : SUBSET (Managers \cup {Outsider}),
                    by : Managers \cup {Outsider}]
<1>t. HasToken => token \in Managers \cup {Outsider}
  BY DEF HasToken, TypeOK
<1>h. req[r].pc \in {"open", "send", "read"} => req[r] \in Talk
  BY HeldShapes DEF TypeOK
<1>1. CASE AskChat(r)
  <2>1. PICK thread \in threads, pc \in {"read", "send"} :
          req' = [req EXCEPT ![r] = [pc |-> pc, thread |-> thread, by |-> token]]
    BY <1>1 DEF AskChat, Listed, MyThreads
  <2>2. [pc |-> pc, thread |-> thread, by |-> token] \in Talk
    BY <1>1, <1>t DEF AskChat, CanChat, TypeOK
  <2>3. req' \in [Requests -> Held]
    BY <2>1, <2>2 DEF TypeOK, Held
  <2> QED BY <1>1, <2>3 DEF AskChat, TypeOK, sleeper, omaha
<1>2. CASE AskOpen(r)
  <2>1. PICK m \in Others, pc \in {"send", "open"} :
          req' = [req EXCEPT ![r] = [pc |-> pc, thread |-> {Me, m}, by |-> token]]
    BY <1>2 DEF AskOpen
  <2>2. [pc |-> pc, thread |-> {Me, m}, by |-> token] \in Talk
    BY <1>2, <1>t DEF AskOpen, CanChat, Managers
  <2>3. req' \in [Requests -> Held]
    BY <2>1, <2>2 DEF TypeOK, Held
  <2> QED BY <1>2, <2>3 DEF AskOpen, TypeOK, sleeper, omaha
<1>3. CASE SleeperOpens(r)
  <2>1. req[r] \in Talk
    BY <1>3, <1>h DEF SleeperOpens
  <2>2. [req[r] EXCEPT !.pc = "send"] \in Talk
    BY <2>1
  <2>3. req' \in [Requests -> Held]
    BY <1>3, <2>2 DEF SleeperOpens, TypeOK, Held
  <2> QED BY <1>3, <2>1, <2>3 DEF SleeperOpens, TypeOK, omaha
<1>4. CASE SleeperPosts(r)
  <2>1. [req[r] EXCEPT !.pc = "read"] \in Talk
    BY <1>4, <1>h DEF SleeperPosts
  <2>2. req' \in [Requests -> Held]
    BY <1>4, <2>1 DEF SleeperPosts, TypeOK, Held
  <2> QED BY <1>4, <2>2 DEF SleeperPosts, TypeOK, sleeper, omaha
<1>5. CASE SleeperShows(r) \/ Refused(r)
  <2>1. req' \in [Requests -> Held]
    BY <1>5 DEF SleeperShows, Refused, TypeOK, Held
  <2> QED BY <1>5, <2>1 DEF SleeperShows, Refused, TypeOK, sleeper, omaha
<1> QED BY <1>1, <1>2, <1>3, <1>4, <1>5

LEMMA RestTyped ==
  ASSUME TypeOK, SaveToken \/ ClearToken \/ Restart \/ UNCHANGED vars
  PROVE  TypeOK'
<1>1. CASE SaveToken \/ ClearToken
  BY <1>1 DEF SaveToken, ClearToken, TypeOK, sleeper
<1>2. CASE Restart
  <2>1. req' \in [Requests -> Held]
    BY <1>2 DEF Restart, Held
  <2> QED BY <1>2, <2>1 DEF Restart, TypeOK, sleeper, omaha
<1>3. CASE UNCHANGED vars
  BY <1>3 DEF vars, TypeOK, sleeper, omaha
<1> QED BY <1>1, <1>2, <1>3

(* Requests, refreshes and Sleeper leave every variable with a value the code *)
(* can hold (sleeper_writes.py:640-960, sync_service.py:110-240).             *)
THEOREM TypeCorrect == Spec => []TypeOK
<1>1. TypeOK /\ [Next]_vars => TypeOK'
  BY SleeperTyped, RefreshTyped, AddTyped, TradeTyped, ChatTyped, RestTyped DEF Next
<1> QED BY <1>1, InitTyped, PTL DEF Spec

-----------------------------------------------------------------------------
(* Rows that were Sleeper's.                                               *)

\* Wherever a saved row can come from, Sleeper has had it: its rosters, what the
\* public API still shows of them, a refresh, a completed add that is not saved yet.
Kept ==
  /\ rows \subseteq had
  /\ RowsOf(owner) \subseteq had /\ RowsOf(public.owner) \subseteq had
  /\ pull.pc = "apply" => pull.rows \subseteq had
  /\ \A r \in Requests :
       req[r].pc = "added" /\ req[r].status = "complete" /\ req[r].add # NoOne
         => Row(Me, req[r].add) \in had

\* The history forgets nothing.
LEMMA HistoryGrows ==
  ASSUME TypeOK, Kept, NEW own \in Ownership, Moves(own)
  PROVE  had \subseteq had' /\ RowsOf(owner') \subseteq had'
BY DEF Moves, RowsOf

\* A step that leaves the saved rows, the public rosters and the refresh alone, adds
\* to the history and changes requests only to ones that hold no completed add.
LEMMA KeptByGrowth ==
  ASSUME Kept, had \subseteq had', RowsOf(owner') \subseteq had',
         UNCHANGED <<rows, public, pull>>,
         \A r \in Requests : req'[r].pc = "added" => req'[r] = req[r]
  PROVE  Kept'
<1>1. RowsOf(public'.owner) = RowsOf(public.owner)
  OBVIOUS
<1>2. (RowsOf(owner))' = RowsOf(owner') /\ (RowsOf(public.owner))' = RowsOf(public'.owner)
  BY DEF RowsOf
<1>3. \A r \in Requests : (Row(Me, req[r].add))' = Row(Me, req'[r].add)
  BY DEF Row
<1> QED BY <1>1, <1>2, <1>3 DEF Kept

LEMMA KeptAtSleeper ==
  ASSUME TypeOK, Kept,
         \/ SomebodyAddsOrDrops \/ WeekTurns
         \/ \E o \in Offers : OfferArrives(o) \/ OfferSettles(o)
         \/ \E c \in claims : ClaimClears(c)
  PROVE  Kept'
<1>0. RowsOf(owner) \subseteq had
  BY DEF Kept
<1>1. CASE SomebodyAddsOrDrops
  <2>1. PICK t \in Managers, p \in Players :
          Moves([owner EXCEPT ![p] = t]) \/ Moves([owner EXCEPT ![p] = NoOne])
    BY <1>1 DEF SomebodyAddsOrDrops
  <2>2. [owner EXCEPT ![p] = t] \in Ownership /\ [owner EXCEPT ![p] = NoOne] \in Ownership
    BY DEF TypeOK, Ownership
  <2>3. had \subseteq had' /\ RowsOf(owner') \subseteq had'
    BY <2>1, <2>2, HistoryGrows
  <2> QED BY <1>1, <2>3, KeptByGrowth DEF SomebodyAddsOrDrops, omaha
<1>2. CASE WeekTurns
  <2>1. RowsOf(owner') = RowsOf(owner)
    BY <1>2 DEF WeekTurns
  <2> QED BY <1>0, <1>2, <2>1, KeptByGrowth DEF WeekTurns, omaha
<1>3. ASSUME NEW o \in Offers, OfferArrives(o) PROVE Kept'
  <2>1. RowsOf(owner') = RowsOf(owner)
    BY <1>3 DEF OfferArrives
  <2> QED BY <1>0, <1>3, <2>1, KeptByGrowth DEF OfferArrives, omaha
<1>4. ASSUME NEW o \in Offers, OfferSettles(o) PROVE Kept'
  <2>1. offers[o].status = "pending" /\ \E s \in Statuses : Settled(o, s)
    BY <1>4 DEF OfferSettles, Standing, Statuses
  <2>2. had \subseteq had' /\ RowsOf(owner') \subseteq had'
    BY <1>0, <2>1, SettledTyped
  <2> QED BY <1>4, <2>2, KeptByGrowth DEF OfferSettles, omaha
<1>5. ASSUME NEW c \in claims, ClaimClears(c) PROVE Kept'
  <2>1. AfterAdd(c.add, c.drop) \in Ownership
    BY AddedTyped DEF TypeOK
  <2>2. CASE CanAdd(c.add, c.drop)
    <3>1. had \subseteq had' /\ RowsOf(owner') \subseteq had'
      BY <1>5, <2>1, <2>2, HistoryGrows DEF ClaimClears
    <3> QED BY <1>5, <3>1, KeptByGrowth DEF ClaimClears, omaha
  <2>3. CASE ~CanAdd(c.add, c.drop)
    <3>1. had' = had /\ RowsOf(owner') = RowsOf(owner)
      BY <1>5, <2>3 DEF ClaimClears
    <3> QED BY <1>0, <1>5, <3>1, KeptByGrowth DEF ClaimClears, omaha
  <2> QED BY <2>2, <2>3
<1> QED BY <1>1, <1>2, <1>3, <1>4, <1>5

LEMMA KeptByRefresh ==
  ASSUME TypeOK, Kept, PublicCatchesUp \/ RefreshReads \/ RefreshCommits
  PROVE  Kept'
<1>1. CASE PublicCatchesUp
  <2>1. public'.owner = owner /\ UNCHANGED <<owner, had, rows, req, pull>>
    BY <1>1 DEF PublicCatchesUp, Public, sleeper, omaha
  <2> QED BY <2>1 DEF Kept, RowsOf, Row
<1>2. CASE RefreshReads
  <2>1. pull'.rows = RowsOf(public.owner) /\ UNCHANGED <<owner, public, had, rows, req>>
    BY <1>2 DEF RefreshReads, sleeper, omaha
  <2> QED BY <2>1 DEF Kept, RowsOf, Row
<1>3. CASE RefreshCommits
  <2>1. rows' = pull.rows /\ pull.pc = "apply" /\ pull'.pc = "idle" /\ UNCHANGED <<owner, public, had>>
    BY <1>3 DEF RefreshCommits, Idle, sleeper
  <2>2. ASSUME NEW r \in Requests
        PROVE  \/ req'[r].pc = req[r].pc /\ req'[r].add = req[r].add /\ req'[r].status = req[r].status
               \/ req'[r].pc # "added"
    <3>1. CASE req[r].pc = "added"
      <4>1. req[r] \in [pc : {"added"}, add : Somebody, drop : Somebody, gone : BOOLEAN,
                        status : {"complete", "pending"}]
        BY <3>1, HeldShapes DEF TypeOK
      <4>2. req'[r] = [req[r] EXCEPT !.gone = TRUE]
        BY <1>3, <3>1 DEF RefreshCommits
      <4> QED BY <4>1, <4>2
    <3>2. CASE req[r].pc = "add"
      <4>1. req[r] \in [pc : {"add"}, add : Somebody, drop : Somebody, gone : BOOLEAN]
        BY <3>2, HeldShapes DEF TypeOK
      <4>2. req'[r] = [req[r] EXCEPT !.gone = TRUE]
        BY <1>3, <3>2 DEF RefreshCommits
      <4> QED BY <4>1, <4>2
    <3>3. CASE req[r].pc \notin {"add", "added"}
      BY <1>3, <3>3 DEF RefreshCommits
    <3> QED BY <3>1, <3>2, <3>3
  <2>3. \A r \in Requests :
          req'[r].pc = "added" /\ req'[r].status = "complete" /\ req'[r].add # NoOne
            => Row(Me, req'[r].add) \in had'
    BY <2>1, <2>2 DEF Kept
  <2> QED BY <2>1, <2>3 DEF Kept, RowsOf, Row
<1> QED BY <1>1, <1>2, <1>3

LEMMA KeptByAdds ==
  ASSUME TypeOK, Kept, NEW r \in Requests, AskAdd(r) \/ SleeperAdds(r) \/ SaveAdd(r)
  PROVE  Kept'
<1>0. RowsOf(owner) \subseteq had
  BY DEF Kept
<1>1. CASE AskAdd(r)
  <2>1. UNCHANGED <<owner, had, rows, public, pull>>
        /\ \A x \in Requests : req'[x].pc = "added" => req'[x] = req[x]
    BY <1>1 DEF AskAdd, TypeOK, sleeper, omaha
  <2> QED BY <1>0, <2>1, KeptByGrowth
<1>2. CASE SleeperAdds(r)
  <2> DEFINE add == req[r].add  drop == req[r].drop
  <2>1. add \in Somebody /\ drop \in Somebody /\ AfterAdd(add, drop) \in Ownership
    BY <1>2, HeldShapes, AddedTyped DEF SleeperAdds, TypeOK
  <2>2. PICK status \in {"complete", "pending"}, heard \in BOOLEAN :
          /\ IF status = "complete"
             THEN Moves(AfterAdd(add, drop)) ELSE UNCHANGED <<owner, had>>
          /\ req' = [req EXCEPT ![r] =
               IF heard THEN [pc |-> "added", add |-> add, drop |-> drop,
                              gone |-> @.gone, status |-> status] ELSE Idle]
    BY <1>2 DEF SleeperAdds
  <2>3. had \subseteq had' /\ RowsOf(owner') \subseteq had'
    BY <1>0, <2>1, <2>2, HistoryGrows
  <2>4. status = "complete" /\ add # NoOne => Row(Me, add) \in had'
    <3> SUFFICES ASSUME status = "complete", add # NoOne PROVE Row(Me, add) \in had'
      OBVIOUS
    <3>1. owner' = AfterAdd(add, drop) /\ add \in Players
      BY <2>1, <2>2 DEF Moves, Somebody
    <3>2. owner' \in Ownership /\ owner'[add] = Me
      BY <2>1, <3>1 DEF AfterAdd
    <3> QED BY <2>3, <3>1, <3>2, OwnedHasRow, MeIsSomebody
  <2>5. ASSUME NEW x \in Requests, req'[x].pc = "added", req'[x].status = "complete", req'[x].add # NoOne
        PROVE  Row(Me, req'[x].add) \in had'
    <3>1. CASE x = r
      BY <2>2, <2>4, <2>5, <3>1 DEF TypeOK, Idle
    <3>2. CASE x # r
      BY <2>2, <2>3, <2>5, <3>2 DEF TypeOK, Kept
    <3> QED BY <3>1, <3>2
  <2>6. UNCHANGED <<rows, public, pull>>
    BY <1>2 DEF SleeperAdds, omaha
  <2>7. RowsOf(public'.owner) \subseteq had'
    BY <2>3, <2>6 DEF Kept
  <2>8. (RowsOf(owner))' = RowsOf(owner') /\ (RowsOf(public.owner))' = RowsOf(public'.owner)
    BY DEF RowsOf
  <2>9. \A x \in Requests : (Row(Me, req[x].add))' = Row(Me, req'[x].add)
    BY DEF Row
  <2> QED BY <2>3, <2>5, <2>6, <2>7, <2>8, <2>9 DEF Kept
<1>3. CASE SaveAdd(r)
  <2>1. req[r].pc = "added" /\ UNCHANGED <<owner, had, public, pull>>
        /\ \A x \in Requests : req'[x].pc = "added" => req'[x] = req[x]
    BY <1>3 DEF SaveAdd, TypeOK, Idle, sleeper
  <2>2. req[r].status \in {"complete", "pending"}
    BY <2>1, HeldShapes DEF TypeOK
  <2>3. rows' \subseteq had
    BY <1>3, <2>1, <2>2 DEF SaveAdd, RowsAfter, RowsIfDone, Kept
  <2> QED BY <2>1, <2>3 DEF Kept, RowsOf, Row
<1> QED BY <1>1, <1>2, <1>3

LEMMA KeptByTrades ==
  ASSUME TypeOK, Kept, NEW r \in Requests,
         \/ AskTrade(r) \/ (\E o \in Offers : SleeperOffers(r, o)) \/ SaveOffer(r)
         \/ AskRespond(r) \/ SleeperSettles(r)
  PROVE  Kept'
<1>0. RowsOf(owner) \subseteq had
  BY DEF Kept
<1>1. CASE AskTrade(r) \/ SaveOffer(r) \/ AskRespond(r)
  <2>1. UNCHANGED <<owner, had, rows, public, pull>>
        /\ \A x \in Requests : req'[x].pc = "added" => req'[x] = req[x]
    BY <1>1 DEF AskTrade, SaveOffer, AskRespond, TypeOK, Idle, sleeper, omaha
  <2> QED BY <1>0, <2>1, KeptByGrowth
<1>2. ASSUME NEW o \in Offers, SleeperOffers(r, o) PROVE Kept'
  <2>1. UNCHANGED <<owner, had, rows, public, pull>>
        /\ \A x \in Requests : req'[x].pc = "added" => req'[x] = req[x]
    BY <1>2 DEF SleeperOffers, TypeOK, Idle, omaha
  <2> QED BY <1>0, <2>1, KeptByGrowth
<1>3. CASE SleeperSettles(r)
  <2>1. req[r].offer \in Offers
    BY <1>3, HeldShapes DEF SleeperSettles, TypeOK
  <2>2. offers[req[r].offer].status = "pending" /\ \E s \in Statuses : Settled(req[r].offer, s)
    BY <1>3 DEF SleeperSettles, Statuses
  <2>3. had \subseteq had' /\ RowsOf(owner') \subseteq had'
    BY <1>0, <2>1, <2>2, SettledTyped
  <2>4. UNCHANGED <<rows, public, pull>>
        /\ \A x \in Requests : req'[x].pc = "added" => req'[x] = req[x]
    BY <1>3 DEF SleeperSettles, TypeOK, Idle, omaha
  <2> QED BY <2>3, <2>4, KeptByGrowth
<1> QED BY <1>1, <1>2, <1>3

LEMMA KeptByRest ==
  ASSUME TypeOK, Kept,
         \/ \E r \in Requests : \/ AskChat(r) \/ AskOpen(r) \/ SleeperOpens(r)
                               \/ SleeperPosts(r) \/ SleeperShows(r) \/ Refused(r)
         \/ SaveToken \/ ClearToken \/ Restart \/ UNCHANGED vars
  PROVE  Kept'
<1>0. RowsOf(owner) \subseteq had
  BY DEF Kept
<1>1. ASSUME NEW r \in Requests,
             \/ AskChat(r) \/ AskOpen(r) \/ SleeperOpens(r)
             \/ SleeperPosts(r) \/ SleeperShows(r) \/ Refused(r)
      PROVE  Kept'
  <2>1. CASE AskChat(r) \/ AskOpen(r) \/ SleeperShows(r) \/ Refused(r)
    <3>1. UNCHANGED <<owner, had, rows, public, pull>>
          /\ \A x \in Requests : req'[x].pc = "added" => req'[x] = req[x]
      <4>1. CASE AskChat(r)
        BY <4>1 DEF AskChat, TypeOK, sleeper, omaha
      <4>2. CASE AskOpen(r)
        BY <4>2 DEF AskOpen, TypeOK, sleeper, omaha
      <4>3. CASE SleeperShows(r) \/ Refused(r)
        BY <4>3 DEF SleeperShows, Refused, TypeOK, Idle, sleeper, omaha
      <4> QED BY <2>1, <4>1, <4>2, <4>3
    <3> QED BY <1>0, <3>1, KeptByGrowth
  <2>2. CASE SleeperOpens(r) \/ SleeperPosts(r)
    <3>1. req[r] \in [pc : {"open", "send", "read"}, thread : SUBSET (Managers \cup {Outsider}),
                     by : Managers \cup {Outsider}]
      BY <2>2, HeldShapes DEF SleeperOpens, SleeperPosts, TypeOK
    <3>2. UNCHANGED <<owner, had, rows, public, pull>>
          /\ \A x \in Requests : req'[x].pc = "added" => req'[x] = req[x]
      BY <2>2, <3>1 DEF SleeperOpens, SleeperPosts, TypeOK, Idle, sleeper, omaha
    <3> QED BY <1>0, <3>2, KeptByGrowth
  <2> QED BY <1>1, <2>1, <2>2
<1>2. CASE SaveToken \/ ClearToken \/ UNCHANGED vars
  <2>1. UNCHANGED <<owner, had, rows, public, pull, req>>
    BY <1>2 DEF SaveToken, ClearToken, vars, sleeper, omaha
  <2> QED BY <1>0, <2>1, KeptByGrowth
<1>3. CASE Restart
  <2>1. UNCHANGED <<owner, had, rows, public>> /\ pull'.pc = "idle" /\ \A r \in Requests : req'[r].pc = "idle"
    BY <1>3 DEF Restart, Idle, sleeper, omaha
  <2> QED BY <2>1 DEF Kept, RowsOf, Row
<1> QED BY <1>1, <1>2, <1>3

(* Every saved roster entry is one that Sleeper has had, whatever is lost,  *)
(* refused, restarted or committed in between (sleeper_writes.py:704).      *)
THEOREM RowsStaySleepers == Spec => []RowsAreSleepers
<1>1. Init => Kept
  <2> SUFFICES ASSUME Init PROVE Kept
    OBVIOUS
  <2>1. rows = had /\ RowsOf(owner) = had /\ public.owner = owner
    BY DEF Init, Public
  <2> QED BY <2>1 DEF Init, Kept, Idle
<1>2. TypeOK /\ Kept /\ [Next]_vars => Kept'
  BY KeptAtSleeper, KeptByRefresh, KeptByAdds, KeptByTrades, KeptByRest DEF Next
<1>3. Kept => RowsAreSleepers
  BY DEF Kept, RowsAreSleepers
<1> QED BY <1>1, <1>2, <1>3, TypeCorrect, PTL DEF Spec

-----------------------------------------------------------------------------
(* Messages.                                                               *)

\* The saved token is the account's own or none; whoever opens, writes to or reads
\* a thread does so with it, and in the thread of two.
Private ==
  /\ token \in {Me, NoOne}
  /\ \A r \in Requests : req[r].pc \in {"open", "send", "read"} =>
       req[r].by = Me /\ \E o \in Others : req[r].thread = {Me, o}

\* A thread that LeagueThread accepts is one between the manager and one other.
LEMMA LeagueThreadIsOfTwo ==
  ASSUME NEW thread \in MyThreads, LeagueThread(thread)
  PROVE  \E o \in Others : thread = {Me, o}
<1>1. With(thread) \subseteq Others /\ Cardinality(With(thread)) = 1 /\ IsFiniteSet(Others)
  BY DealingsConstants DEF LeagueThread
<1>2. IsFiniteSet(With(thread))
  BY <1>1, FS_Subset
<1>3. PICK o : With(thread) = {o}
  BY <1>1, <1>2, FS_Singleton
<1> QED BY <1>1, <1>3 DEF With, MyThreads

\* A request that goes on with the thread and the token it has, or starts.
LEMMA PrivateByRequest ==
  ASSUME TypeOK, Private, NEW r \in Requests, token' = token,
         \A x \in Requests \ {r} : req'[x] = req[x],
         req'[r].pc \in {"open", "send", "read"} =>
           req'[r].by = Me /\ \E o \in Others : req'[r].thread = {Me, o}
  PROVE  Private'
BY DEF Private

LEMMA PrivateByChats ==
  ASSUME TypeOK, Private, NEW r \in Requests,
         AskChat(r) \/ AskOpen(r) \/ SleeperOpens(r) \/ SleeperPosts(r)
  PROVE  Private'
<1>0. HasToken => token = Me
  BY DEF HasToken, Private
<1>1. CASE AskChat(r)
  <2>1. PICK m \in Others : \E thread \in Listed(m), pc \in {"read", "send"} :
          /\ LeagueThread(thread)
          /\ req' = [req EXCEPT ![r] = [pc |-> pc, thread |-> thread, by |-> token]]
    BY <1>1 DEF AskChat
  <2>2. PICK thread \in Listed(m), pc \in {"read", "send"} :
          /\ LeagueThread(thread)
          /\ req' = [req EXCEPT ![r] = [pc |-> pc, thread |-> thread, by |-> token]]
    BY <2>1
  <2>3. \E o \in Others : thread = {Me, o}
    BY <2>2, LeagueThreadIsOfTwo DEF Listed
  <2>4. req'[r].by = Me /\ req'[r].thread = thread /\ \A x \in Requests \ {r} : req'[x] = req[x]
    BY <1>0, <1>1, <2>2 DEF AskChat, CanChat, TypeOK
  <2> QED BY <1>1, <2>3, <2>4, PrivateByRequest DEF AskChat, omaha
<1>2. CASE AskOpen(r)
  <2>1. PICK m \in Others, pc \in {"send", "open"} :
          req' = [req EXCEPT ![r] = [pc |-> pc, thread |-> {Me, m}, by |-> token]]
    BY <1>2 DEF AskOpen
  <2>2. req'[r].by = Me /\ req'[r].thread = {Me, m} /\ \A x \in Requests \ {r} : req'[x] = req[x]
    BY <1>0, <1>2, <2>1 DEF AskOpen, CanChat, TypeOK
  <2> QED BY <1>2, <2>2, PrivateByRequest DEF AskOpen, omaha
<1>3. CASE SleeperOpens(r) \/ SleeperPosts(r)
  <2>1. req[r] \in [pc : {"open", "send", "read"}, thread : SUBSET (Managers \cup {Outsider}),
                   by : Managers \cup {Outsider}]
    BY <1>3, HeldShapes DEF SleeperOpens, SleeperPosts, TypeOK
  <2>a. \/ req'[r] = Idle
        \/ req'[r] = [req[r] EXCEPT !.pc = "send"] \/ req'[r] = [req[r] EXCEPT !.pc = "read"]
    BY <1>3 DEF SleeperOpens, SleeperPosts, TypeOK
  <2>b. req'[r] = Idle \/ (req'[r].by = req[r].by /\ req'[r].thread = req[r].thread)
    BY <2>1, <2>a
  <2>c. \A x \in Requests \ {r} : req'[x] = req[x]
    <3>1. CASE SleeperOpens(r)
      BY <3>1 DEF SleeperOpens, TypeOK
    <3>2. CASE SleeperPosts(r)
      BY <3>2 DEF SleeperPosts, TypeOK
    <3> QED BY <1>3, <3>1, <3>2
  <2>2. /\ req'[r] = Idle \/ (req'[r].by = req[r].by /\ req'[r].thread = req[r].thread)
        /\ \A x \in Requests \ {r} : req'[x] = req[x]
    BY <2>b, <2>c
  <2>3. token' = token
    BY <1>3 DEF SleeperOpens, SleeperPosts, omaha
  <2>4. req[r].by = Me /\ \E o \in Others : req[r].thread = {Me, o}
    BY <2>1 DEF Private
  <2> QED BY <2>2, <2>3, <2>4, PrivateByRequest DEF Idle
<1> QED BY <1>1, <1>2, <1>3

LEMMA PrivateByDeals ==
  ASSUME TypeOK, Private, NEW r \in Requests,
         \/ AskAdd(r) \/ SleeperAdds(r) \/ SaveAdd(r)
         \/ AskTrade(r) \/ (\E o \in Offers : SleeperOffers(r, o)) \/ SaveOffer(r)
         \/ AskRespond(r) \/ SleeperSettles(r) \/ SleeperShows(r) \/ Refused(r)
  PROVE  Private'
<1>1. CASE AskAdd(r) \/ SleeperAdds(r) \/ SaveAdd(r)
  <2>1. /\ token' = token /\ req'[r].pc \in {"add", "added", "idle"}
        /\ \A x \in Requests \ {r} : req'[x] = req[x]
    BY <1>1 DEF AskAdd, SleeperAdds, SaveAdd, TypeOK, Idle, omaha
  <2> QED BY <2>1, PrivateByRequest
<1>2. CASE AskTrade(r) \/ SaveOffer(r) \/ AskRespond(r) \/ SleeperSettles(r)
  <2>1. /\ token' = token /\ req'[r].pc \in {"offer", "respond", "idle"}
        /\ \A x \in Requests \ {r} : req'[x] = req[x]
    BY <1>2 DEF AskTrade, SaveOffer, AskRespond, SleeperSettles, TypeOK, Idle, omaha
  <2> QED BY <2>1, PrivateByRequest
<1>3. ASSUME NEW o \in Offers, SleeperOffers(r, o) PROVE Private'
  <2>1. /\ token' = token /\ req'[r].pc \in {"offered", "idle"}
        /\ \A x \in Requests \ {r} : req'[x] = req[x]
    BY <1>3 DEF SleeperOffers, TypeOK, Idle, omaha
  <2> QED BY <2>1, PrivateByRequest
<1>4. CASE SleeperShows(r) \/ Refused(r)
  <2>1. /\ token' = token /\ req'[r].pc = "idle"
        /\ \A x \in Requests \ {r} : req'[x] = req[x]
    BY <1>4 DEF SleeperShows, Refused, TypeOK, Idle, omaha
  <2> QED BY <2>1, PrivateByRequest
<1> QED BY <1>1, <1>2, <1>3, <1>4

LEMMA PrivateByRest ==
  ASSUME TypeOK, Private,
         \/ SomebodyAddsOrDrops \/ WeekTurns \/ PublicCatchesUp
         \/ \E o \in Offers : OfferArrives(o) \/ OfferSettles(o)
         \/ \E c \in claims : ClaimClears(c)
         \/ RefreshReads \/ RefreshCommits
         \/ SaveToken \/ ClearToken \/ Restart \/ UNCHANGED vars
  PROVE  Private'
<1>1. CASE RefreshCommits
  <2>1. ASSUME NEW r \in Requests PROVE req'[r] = req[r] \/ req'[r].pc \in {"add", "added"}
    <3>1. CASE req[r].pc = "added"
      <4>1. req[r] \in [pc : {"added"}, add : Somebody, drop : Somebody, gone : BOOLEAN,
                        status : {"complete", "pending"}]
        BY <3>1, HeldShapes DEF TypeOK
      <4> QED BY <1>1, <3>1, <4>1 DEF RefreshCommits
    <3>2. CASE req[r].pc = "add"
      <4>1. req[r] \in [pc : {"add"}, add : Somebody, drop : Somebody, gone : BOOLEAN]
        BY <3>2, HeldShapes DEF TypeOK
      <4> QED BY <1>1, <3>2, <4>1 DEF RefreshCommits
    <3>3. CASE req[r].pc \notin {"add", "added"}
      BY <1>1, <3>3 DEF RefreshCommits
    <3> QED BY <3>1, <3>2, <3>3
  <2> QED BY <1>1, <2>1 DEF RefreshCommits, Private
<1>2. CASE SaveToken \/ ClearToken
  BY <1>2 DEF SaveToken, ClearToken, FitsTheAccount, Private
<1>3. CASE Restart
  BY <1>3 DEF Restart, Private, Idle, omaha
<1>4. CASE SomebodyAddsOrDrops \/ WeekTurns \/ PublicCatchesUp \/ RefreshReads \/ UNCHANGED vars
  BY <1>4 DEF SomebodyAddsOrDrops, WeekTurns, PublicCatchesUp, RefreshReads, vars, Private, sleeper, omaha
<1>5. CASE (\E o \in Offers : OfferArrives(o) \/ OfferSettles(o)) \/ (\E c \in claims : ClaimClears(c))
  BY <1>5 DEF OfferArrives, OfferSettles, ClaimClears, Private, omaha
<1> QED BY <1>1, <1>2, <1>3, <1>4, <1>5

(* A message goes out with the account's own token, to one manager of the   *)
(* league, and no other conversation is shown (sleeper_writes.py:519).       *)
THEOREM MessagesArePrivate == Spec => []MessagesStayPrivate
<1>1. Init => Private
  BY DEF Init, Private, Idle
<1>2. TypeOK /\ Private /\ [Next]_vars => Private'
  BY PrivateByChats, PrivateByDeals, PrivateByRest DEF Next
<1>3. Private => MessagesStayPrivate
  BY DEF Private, MessagesStayPrivate
<1> QED BY <1>1, <1>2, <1>3, TypeCorrect, PTL DEF Spec
=============================================================================
