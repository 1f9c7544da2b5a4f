------------------------------ MODULE Accounts ------------------------------
(***************************************************************************)
(* How a person gets from nothing to a team on the screen (backend/app):    *)
(*   the door   registering, signing in, and the limit on how often an      *)
(*              address may try (services/auth_service.py, core/security.py, *)
(*              core/rate_limit.py);                                        *)
(*   the desk   connecting a Sleeper user, importing leagues one by one or  *)
(*              all at once, the demo league (integration_service.py,       *)
(*              demo_service.py).                                           *)
(* A request selects, awaits Sleeper or the database, and only then inserts; *)
(* the database's unique keys decide between requests that selected the     *)
(* same nothing.  Rows are sequences, a row's id being its place: a second  *)
(* row for the same thing would show.  What a sync saves is LeagueSync's;   *)
(* here a league either has data or is the bare row an import began with.   *)
(***************************************************************************)
EXTENDS Integers, Sequences, FiniteSets, SequencesExt

CONSTANTS People,    \* who share one network address
          Addresses, \* e-mail addresses as typed
          Lower,     \* lower-casing: [Addresses -> Addresses]
          Owner,     \* the person whose leagues these are
          Sleeper, Demo,  \* the providers
          AtSleeper, \* the user's leagues, in Sleeper's order
          DemoLeague,
          Requests,  \* requests running at the same time
          MaxImport, \* MAX_IMPORT_ALL
          Limit,     \* calls allowed in a window
          Window,    \* its length
          MaxKeys,   \* keys the limiter holds before it prunes
          MaxMishaps \* bound: failed calls and restarts

Leagues == ToSet(AtSleeper)
Paths == {"register", "login"}   \* the limiter's keys: both with the one address

ASSUME AccountConstants ==
  /\ Lower \in [Addresses -> Addresses] /\ \A a \in Addresses : Lower[Lower[a]] = Lower[a]
  /\ Owner \in People /\ Sleeper # Demo /\ DemoLeague \notin Leagues
  /\ {MaxImport, Limit, Window} \subseteq Nat \ {0} /\ {MaxKeys, MaxMishaps} \subseteq Nat

VARIABLES
  users,    \* rows: [email, who]; who is the one that knows the password
  accounts, \* rows: [user, provider]
  leagues,  \* rows: [account, league, data]
  session,  \* the user whose token the owner's browser holds, or 0
  req,      \* what each request holds across its awaits
  hits,     \* _hits: the ages of each key's calls, oldest first
  let,      \* history: the ages of the calls let through in the last window
  mishaps

rows == <<users, accounts, leagues>>
limiter == <<hits, let>>
vars == <<rows, session, req, limiter, mishaps>>

Idle == [pc |-> "idle"]
NoHits == [k \in Paths |-> <<>>]

Init ==
  /\ users = <<>> /\ accounts = <<>> /\ leagues = <<>>
  /\ session = 0
  /\ req = [r \in Requests |-> Idle]
  /\ hits = NoHits /\ let = NoHits
  /\ mishaps = 0

Goto(r, state) == req' = [req EXCEPT ![r] = state]
Done(r) == Goto(r, Idle)
Mishap == mishaps < MaxMishaps /\ mishaps' = mishaps + 1

\* The rows, each with its keys and what else is read of it.
UserRow(email, who) == [email |-> email, who |-> who]
AccountRow(user, provider) == [user |-> user, provider |-> provider]
LeagueRow(account, league, data) == [account |-> account, league |-> league, data |-> data]

\* The rows a select finds; a row's id is its place.
UsersWith(email) == {u \in DOMAIN users : users[u].email = email}
AccountsOf(user, provider) ==
  {a \in DOMAIN accounts : accounts[a].user = user /\ accounts[a].provider = provider}
RowsFor(account, league) ==
  {i \in DOMAIN leagues : leagues[i].account = account /\ leagues[i].league = league}

----------------------------------------------------------------------------
\* The limiter.  A clock that starts anew with every call: ages, not times.

\* The calls left when the oldest are dropped for as long as they are too old.
Recent(ages) ==
  LET young == {i \in DOMAIN ages : ages[i] <= Window}
  IN IF young = {} THEN <<>> ELSE SubSeq(ages, Min(young), Len(ages))

NothingAfterPruning(h) == NoHits

Pruned(h) == [k \in Paths |-> IF h[k] # <<>> /\ Last(h[k]) > Window THEN <<>> ELSE h[k]]

Allowed(key) == Len(Recent(hits[key])) < Limit

Hit(key) ==
  /\ Allowed(key)
  /\ LET h == [hits EXCEPT ![key] = Append(Recent(@), 0)]
     IN hits' = IF Cardinality({k \in Paths : h[k] # <<>>}) > MaxKeys THEN Pruned(h) ELSE h
  /\ let' = [let EXCEPT ![key] = Append(Recent(@), 0)]

Older(ages) == [i \in DOMAIN ages |-> IF ages[i] > Window THEN ages[i] ELSE ages[i] + 1]

Tick ==
  /\ hits' = [k \in Paths |-> Older(hits[k])]
  /\ let' = [k \in Paths |-> Recent(Older(let[k]))]
  /\ UNCHANGED <<rows, session, req, mishaps>>

----------------------------------------------------------------------------
\* The door.

\* A token that names the user goes to the owner's browser, when the owner asked.
TokenFor(who, u) == IF who = Owner THEN u ELSE session

EmailAsTyped(address) == address
StoredEmail(address) == Lower[address]

\* The answer 409 leaves nothing behind but the hit.
AskRegister(r) ==
  /\ req[r] = Idle /\ Hit("register")
  /\ \E who \in People, address \in Addresses :
       IF UsersWith(Lower[address]) # {} THEN UNCHANGED req
       ELSE Goto(r, [pc |-> "register", who |-> who, email |-> address])
  /\ UNCHANGED <<rows, session, mishaps>>

\* The insert.  The unique key on the address fails it when another
\* registration came first; else the answer carries a token.
Register(r) ==
  /\ req[r].pc = "register"
  /\ LET email == StoredEmail(req[r].email)
     IN IF UsersWith(email) # {} THEN UNCHANGED <<users, session>>
        ELSE /\ users' = Append(users, UserRow(email, req[r].who))
             /\ session' = TokenFor(req[r].who, Len(users) + 1)
  /\ Done(r)
  /\ UNCHANGED <<accounts, leagues, limiter, mishaps>>

KnowsPassword(who, u) == users[u].who = who

Login(who, address) ==
  /\ Hit("login")
  /\ LET known == {u \in UsersWith(Lower[address]) : KnowsPassword(who, u)}
     IN session' = IF known = {} THEN session ELSE TokenFor(who, CHOOSE u \in known : TRUE)
  /\ UNCHANGED <<rows, req, mishaps>>

\* jwt_expire_minutes have gone by, or the browser forgot.
SessionEnds ==
  /\ session # 0 /\ session' = 0
  /\ UNCHANGED <<rows, req, limiter, mishaps>>

\* get_current_user: a handler of the desk starts with a user.
SignedIn(r) == req[r] = Idle /\ session # 0
Desk == UNCHANGED <<users, session, limiter>>

----------------------------------------------------------------------------
\* Connecting a Sleeper user.

AskConnect(r) ==
  /\ SignedIn(r)
  /\ Goto(r, [pc |-> "connect", user |-> session])
  /\ UNCHANGED <<accounts, leagues, mishaps>> /\ Desk

\* Sleeper knows the user: the account is selected, and inserted if it is new.
Resolved(r) ==
  /\ req[r].pc = "connect"
  /\ IF AccountsOf(req[r].user, Sleeper) # {} THEN Done(r)
     ELSE Goto(r, [req[r] EXCEPT !.pc = "insert"])
  /\ UNCHANGED <<accounts, leagues, mishaps>> /\ Desk

InsertAlways(r) ==
  /\ req[r].pc = "insert"
  /\ accounts' = Append(accounts, AccountRow(req[r].user, Sleeper))
  /\ Done(r)
  /\ UNCHANGED <<leagues, mishaps>> /\ Desk

InsertAccount(r) ==
  /\ req[r].pc = "insert"
  /\ accounts' = IF AccountsOf(req[r].user, Sleeper) # {} THEN accounts
                 ELSE Append(accounts, AccountRow(req[r].user, Sleeper))
  /\ Done(r)
  /\ UNCHANGED <<leagues, mishaps>> /\ Desk

----------------------------------------------------------------------------
\* Importing.  A request works off a queue of leagues.

AskImport(r) ==
  /\ SignedIn(r)
  /\ \E account \in AccountsOf(session, Sleeper), league \in Leagues :
       Goto(r, [pc |-> "find", account |-> account, queue |-> <<league>>])
  /\ UNCHANGED <<accounts, leagues, mishaps>> /\ Desk

AskImportAll(r) ==
  /\ SignedIn(r)
  /\ \E account \in AccountsOf(session, Sleeper) :
       Goto(r, [pc |-> "list", account |-> account])
  /\ UNCHANGED <<accounts, leagues, mishaps>> /\ Desk

Start(s) == SubSeq(s, 1, IF Len(s) < MaxImport THEN Len(s) ELSE MaxImport)

\* The first leagues, those already there left out afterwards.
PendingOfTheFirst(account) ==
  SelectSeq(Start(AtSleeper), LAMBDA l : RowsFor(account, l) = {})

Pending(account) == Start(SelectSeq(AtSleeper, LAMBDA l : RowsFor(account, l) = {}))

\* On to the next league, or the end.
Work(r, account, queue) ==
  IF queue = <<>> THEN Done(r)
  ELSE Goto(r, [pc |-> "find", account |-> account, queue |-> queue])

Listed(r) ==
  /\ req[r].pc = "list"
  /\ Work(r, req[r].account, Pending(req[r].account))
  /\ UNCHANGED <<accounts, leagues, mishaps>> /\ Desk

\* A league that is there is synced again.
Find(r) ==
  /\ req[r].pc = "find"
  /\ Goto(r, [req[r] EXCEPT !.pc =
       IF RowsFor(req[r].account, Head(req[r].queue)) # {} THEN "sync" ELSE "details"])
  /\ UNCHANGED <<accounts, leagues, mishaps>> /\ Desk

\* Sleeper's details of a new league: a bare row is inserted and, before the
\* sync, committed.  The row of another import fails this one as a whole.
Details(r) ==
  /\ req[r].pc = "details"
  /\ LET account == req[r].account
         league == Head(req[r].queue)
     IN IF RowsFor(account, league) # {} THEN Done(r) /\ UNCHANGED leagues
        ELSE /\ leagues' = Append(leagues, LeagueRow(account, league, FALSE))
             /\ Goto(r, [req[r] EXCEPT !.pc = "sync"])
  /\ UNCHANGED <<accounts, mishaps>> /\ Desk

Fill(found) == leagues' = [i \in DOMAIN leagues |->
                  IF i \in found THEN [leagues[i] EXCEPT !.data = TRUE] ELSE leagues[i]]

Synced(r) ==
  /\ req[r].pc = "sync"
  /\ Fill(RowsFor(req[r].account, Head(req[r].queue)))
  /\ Work(r, req[r].account, Tail(req[r].queue))
  /\ UNCHANGED <<accounts, mishaps>> /\ Desk

\* A call to Sleeper fails and the request with it; rows committed so far stay.
CallFails(r) ==
  /\ req[r].pc \in {"connect", "list", "details", "sync"}
  /\ Mishap /\ Done(r)
  /\ UNCHANGED <<accounts, leagues>> /\ Desk

\* The join that guards every route of a league.
Owned(i) == accounts[leagues[i].account].user = session

\* The owner opens a saved league: the refresh this starts fills it.
OpenLeague(i) ==
  /\ session # 0
  /\ Owned(i)
  /\ ~leagues[i].data /\ Fill({i})
  /\ UNCHANGED <<accounts, req, mishaps>> /\ Desk

----------------------------------------------------------------------------
\* The demo league: account and league in one transaction.

DemoRows(user) ==
  UNION {RowsFor(a, DemoLeague) : a \in AccountsOf(user, Demo)}

AskDemo(r) ==
  /\ SignedIn(r)
  /\ Goto(r, [pc |-> "demo", user |-> session, found |-> DemoRows(session) # {}])
  /\ UNCHANGED <<accounts, leagues, mishaps>> /\ Desk

DemoCommits(r) ==
  /\ req[r].pc = "demo"
  /\ IF req[r].found \/ AccountsOf(req[r].user, Demo) # {} THEN UNCHANGED <<accounts, leagues>>
     ELSE /\ accounts' = Append(accounts, AccountRow(req[r].user, Demo))
          /\ leagues' = Append(leagues, LeagueRow(Len(accounts) + 1, DemoLeague, TRUE))
  /\ Done(r)
  /\ UNCHANGED mishaps /\ Desk

\* The process restarts; what was committed stays.
Restart ==
  /\ Mishap
  /\ req' = [r \in Requests |-> Idle]
  /\ hits' = NoHits /\ let' = NoHits
  /\ UNCHANGED <<rows, session>>

----------------------------------------------------------------------------
Answers(r) ==
  \/ Register(r) \/ Resolved(r) \/ InsertAccount(r) \/ Listed(r) \/ Find(r)
  \/ Details(r) \/ Synced(r) \/ DemoCommits(r)

Next ==
  \/ \E r \in Requests :
       \/ AskRegister(r) \/ AskConnect(r) \/ AskImport(r) \/ AskImportAll(r) \/ AskDemo(r)
       \/ Register(r) \/ Resolved(r) \/ InsertAccount(r) \/ Listed(r) \/ Find(r)
       \/ Details(r) \/ Synced(r) \/ DemoCommits(r)
       \/ CallFails(r)
  \/ \E who \in People, address \in Addresses : Login(who, address)
  \/ \E i \in DOMAIN leagues : OpenLeague(i)
  \/ SessionEnds
  \/ Tick
  \/ Restart

\* Calls have timeouts and time goes on.  The owner signs in again whenever
\* that is possible, goes on importing, and opens what was imported.
Spec ==
  /\ Init /\ [][Next]_vars
  /\ WF_vars(Tick) /\ \A r \in Requests : WF_vars(Answers(r))
  /\ []<><<\E r \in Requests : AskImportAll(r)>>_vars
  /\ SF_vars(\E i \in DOMAIN leagues : OpenLeague(i))

----------------------------------------------------------------------------
(* However requests interleave, nothing is saved twice: no two users whose  *)
(* addresses differ only in case, no two accounts of a user with the same   *)
(* provider, no two rows for one league of an account (repositories/        *)
(* users.py:21, accounts.py:38, integration_service.py:84).                 *)
SavedOnce ==
  /\ \A u, v \in DOMAIN users : Lower[users[u].email] = Lower[users[v].email] => u = v
  /\ \A a, b \in DOMAIN accounts : accounts[a] = accounts[b] => a = b
  /\ \A i, j \in DOMAIN leagues :
       leagues[i].account = leagues[j].account /\ leagues[i].league = leagues[j].league => i = j

(* No more calls than the limit get through in any window, pruning or not   *)
(* (core/rate_limit.py:21).                                                 *)
WindowHolds == \A k \in Paths : Len(let[k]) <= Limit

(* Importing all at once, as often as it takes, brings every league though  *)
(* a call takes only so many, calls fail half way, imports overlap and the  *)
(* process restarts; a league whose first sync failed counts as imported    *)
(* and is filled when it is opened (integration_service.py:113).            *)
EveryLeagueArrives ==
  \A l \in Leagues :
    (\E a \in DOMAIN accounts : accounts[a].provider = Sleeper)
      ~> \E i \in DOMAIN leagues : leagues[i].league = l /\ leagues[i].data
============================================================================
