---------------------------- MODULE AccountsProofs ----------------------------
(***************************************************************************)
(* Proofs about Accounts: however requests interleave, no user, account or *)
(* league is saved twice, and no key gets more calls through than its      *)
(* limit allows.                                                           *)
(***************************************************************************)
EXTENDS Accounts, SequenceTheorems, WellFoundedInduction, TLAPS

\* A sequence, whatever its elements are.
IsSeq(s) == s \in Seq({s[i] : i \in DOMAIN s})

\* A row is added at the end and disturbs no other.
LEMMA Appending ==
  ASSUME NEW s, NEW e, IsSeq(s)
  PROVE  /\ IsSeq(Append(s, e)) /\ Len(s) \in Nat /\ DOMAIN s = 1..Len(s)
         /\ DOMAIN Append(s, e) = 1..(Len(s) + 1)
         /\ \A i \in DOMAIN s : Append(s, e)[i] = s[i]
         /\ Append(s, e)[Len(s) + 1] = e
<1> DEFINE S == {s[i] : i \in DOMAIN s} \cup {e}
           T == {Append(s, e)[i] : i \in DOMAIN Append(s, e)}
<1>1. s \in Seq({s[i] : i \in DOMAIN s})
  BY DEF IsSeq
<1>e. e \in S
  OBVIOUS
<1>2. s \in Seq(S)
  BY <1>1, SeqMonotonic
<1>3. /\ Append(s, e) \in Seq(S) /\ Len(Append(s, e)) = Len(s) + 1
      /\ \A i \in 1..Len(s) : Append(s, e)[i] = s[i]
      /\ Append(s, e)[Len(s) + 1] = e
  <2> HIDE DEF S
  <2> QED BY <1>2, <1>e, AppendProperties
<1>4. DOMAIN Append(s, e) = 1..(Len(s) + 1) /\ Len(s) \in Nat /\ DOMAIN s = 1..Len(s)
  <2> HIDE DEF S
  <2> QED BY <1>2, <1>3, LenProperties
<1>5. Append(s, e) \in Seq(T)
  <2> HIDE DEF S
  <2>1. \A i \in 1..(Len(s) + 1) : Append(s, e)[i] \in T
    BY <1>4
  <2> QED BY <1>3, <1>4, <2>1, SeqDef
<1> QED BY <1>3, <1>4, <1>5 DEF IsSeq

\* What a request that has an account in hand looks like; the account is a row.
Working(x) ==
  /\ x.pc \in {"find", "details", "sync"} =>
       x = [pc |-> x.pc, account |-> x.account, queue |-> x.queue]
  /\ x.pc \in {"list", "find", "details", "sync"} => x.account \in DOMAIN accounts
  /\ x.pc = "connect" => x = [pc |-> x.pc, user |-> x.user]
  /\ x.pc = "register" => x.email \in Addresses

\* SavedOnce with what keeps it: addresses are stored in lower case, every league is
\* an account's, so a new account has none yet, and no request loses its account.
Tables ==
  /\ IsSeq(users) /\ IsSeq(accounts) /\ IsSeq(leagues)
  /\ \A u \in DOMAIN users : Lower[users[u].email] = users[u].email
  /\ \A i \in DOMAIN leagues :
       /\ leagues[i] = LeagueRow(leagues[i].account, leagues[i].league, leagues[i].data)
       /\ leagues[i].account \in DOMAIN accounts
  /\ DOMAIN req = Requests /\ \A r \in Requests : Working(req[r])
  /\ SavedOnce

\* A step that leaves the rows alone and answers one request.
LEMMA OnlyTheRequest ==
  ASSUME Tables, NEW r \in Requests, NEW x, UNCHANGED rows, Goto(r, x), Working(x)
  PROVE  Tables'
<1>1. DOMAIN req' = Requests /\ req'[r] = x /\ \A y \in Requests \ {r} : req'[y] = req[y]
  BY DEF Goto, Tables
<1>2. \A y \in Requests : Working(req'[y])
  BY <1>1 DEF Tables
<1>3. \A y \in Requests : (Working(req[y]))' <=> Working(req'[y])
  BY DEF Working, rows
<1> QED BY <1>1, <1>2, <1>3 DEF Tables, SavedOnce, IsSeq, LeagueRow, rows

LEMMA IdleWorks == Working(Idle)
BY DEF Working, Idle

\* A step that leaves rows and requests alone.
LEMMA TablesStutter ==
  ASSUME Tables, UNCHANGED <<rows, req>>
  PROVE  Tables'
<1>1. \A y \in Requests : (Working(req[y]))' <=> Working(req[y])
  BY DEF Working, rows
<1> QED BY <1>1 DEF Tables, SavedOnce, IsSeq, LeagueRow, rows

\* A step that answers a request and adds one user.
LEMMA RegisterOnce ==
  ASSUME Tables, NEW r \in Requests, Register(r)
  PROVE  Tables'
<1>1. Working(Idle) /\ Goto(r, Idle) /\ UNCHANGED <<accounts, leagues>>
  BY IdleWorks DEF Register, Done
<1>2. CASE UNCHANGED users
  BY <1>1, <1>2, OnlyTheRequest DEF rows
<1>3. CASE ~UNCHANGED users
  <2> DEFINE email == Lower[req[r].email]  row == UserRow(email, req[r].who)
  <2>1. users' = Append(users, row) /\ UsersWith(email) = {}
    BY <1>3 DEF Register, StoredEmail
  <2>2. Lower[email] = email /\ row.email = email
    <3>1. req[r].email \in Addresses
      BY DEF Register, Tables, Working
    <3> QED BY <3>1, AccountConstants DEF UserRow
  <2>3. /\ IsSeq(users') /\ DOMAIN users = 1..Len(users) /\ DOMAIN users' = 1..(Len(users) + 1)
        /\ Len(users) \in Nat /\ \A u \in DOMAIN users : users'[u] = users[u]
        /\ users'[Len(users) + 1] = row
    BY <2>1, Appending DEF Tables
  <2>4. \A u \in DOMAIN users' : Lower[users'[u].email] = users'[u].email
    BY <2>2, <2>3 DEF Tables
  <2>5. \A u, v \in DOMAIN users' : users'[u].email = users'[v].email => u = v
    BY <2>1, <2>2, <2>3 DEF Tables, SavedOnce, UsersWith
  <2>6. SavedOnce'
    BY <1>1, <2>4, <2>5 DEF Tables, SavedOnce
  <2>7. DOMAIN req' = Requests /\ \A x \in Requests : Working(req'[x])
    BY <1>1 DEF Goto, Tables
  <2>8. \A x \in Requests : (Working(req[x]))' <=> Working(req'[x])
    BY <1>1 DEF Working
  <2>9. (IsSeq(users))' /\ (IsSeq(accounts))' /\ (IsSeq(leagues))'
    BY <1>1, <2>3 DEF Tables, IsSeq
  <2> QED BY <1>1, <2>4, <2>6, <2>7, <2>8, <2>9 DEF Tables, LeagueRow
<1> QED BY <1>2, <1>3

\* What the accounts table is after a row that it did not hold has been added.
LEMMA AccountAdded ==
  ASSUME Tables, NEW user, NEW provider, AccountsOf(user, provider) = {},
         accounts' = Append(accounts, AccountRow(user, provider))
  PROVE  /\ IsSeq(accounts') /\ Len(accounts) \in Nat /\ DOMAIN accounts = 1..Len(accounts)
         /\ DOMAIN accounts' = 1..(Len(accounts) + 1)
         /\ \A a, b \in DOMAIN accounts' : accounts'[a] = accounts'[b] => a = b
<1> DEFINE row == AccountRow(user, provider)
<1>1. /\ IsSeq(accounts') /\ Len(accounts) \in Nat /\ DOMAIN accounts = 1..Len(accounts)
      /\ DOMAIN accounts' = 1..(Len(accounts) + 1)
      /\ \A a \in DOMAIN accounts : accounts'[a] = accounts[a]
      /\ accounts'[Len(accounts) + 1] = row
  BY Appending DEF Tables
<1>2. row.user = user /\ row.provider = provider
  BY DEF AccountRow
<1>3. \A a \in DOMAIN accounts : accounts[a] # row
  BY <1>2 DEF AccountsOf
<1>4. \A a, b \in DOMAIN accounts : accounts[a] = accounts[b] => a = b
  BY DEF Tables, SavedOnce
<1>5. \A a, b \in DOMAIN accounts' : accounts'[a] = accounts'[b] => a = b
  <2> HIDE DEF row
  <2> QED BY <1>1, <1>3, <1>4
<1> QED BY <1>1, <1>5

LEMMA InsertOnce ==
  ASSUME Tables, NEW r \in Requests, InsertAccount(r)
  PROVE  Tables'
<1>1. Working(Idle) /\ Goto(r, Idle) /\ UNCHANGED <<users, leagues>>
  BY IdleWorks DEF InsertAccount, Done, Desk
<1>2. CASE AccountsOf(req[r].user, Sleeper) # {}
  BY <1>1, <1>2, OnlyTheRequest DEF InsertAccount, rows
<1>3. CASE AccountsOf(req[r].user, Sleeper) = {}
  <2>1. accounts' = Append(accounts, AccountRow(req[r].user, Sleeper))
    BY <1>3 DEF InsertAccount
  <2>2. /\ IsSeq(accounts') /\ DOMAIN accounts \subseteq DOMAIN accounts'
        /\ \A a, b \in DOMAIN accounts' : accounts'[a] = accounts'[b] => a = b
    BY <1>3, <2>1, AccountAdded
  <2>3. DOMAIN req' = Requests /\ \A x \in Requests : req'[x] = req[x] \/ req'[x] = Idle
    BY <1>1 DEF Goto, Tables
  <2>4. \A x \in Requests : (Working(req[x]))'
    BY <2>2, <2>3 DEF Tables, Working, Idle
  <2>5. SavedOnce'
    BY <1>1, <2>2 DEF Tables, SavedOnce
  <2>6. (IsSeq(users))' /\ (IsSeq(accounts))' /\ (IsSeq(leagues))'
    BY <1>1, <2>2 DEF Tables, IsSeq
  <2> QED BY <1>1, <2>2, <2>3, <2>4, <2>5, <2>6 DEF Tables, LeagueRow
<1> QED BY <1>2, <1>3

\* What the leagues table is after a row has been added for an account that has none
\* for the league.
LEMMA LeagueAdded ==
  ASSUME Tables, NEW account, NEW league, NEW data, RowsFor(account, league) = {},
         leagues' = Append(leagues, LeagueRow(account, league, data))
  PROVE  /\ IsSeq(leagues') /\ DOMAIN leagues \subseteq DOMAIN leagues'
         /\ \A i \in DOMAIN leagues' :
              /\ leagues'[i] = LeagueRow(leagues'[i].account, leagues'[i].league, leagues'[i].data)
              /\ leagues'[i].account \in DOMAIN accounts \cup {account}
         /\ \A i, j \in DOMAIN leagues' :
              leagues'[i].account = leagues'[j].account /\ leagues'[i].league = leagues'[j].league
                => i = j
<1> DEFINE row == LeagueRow(account, league, data)
<1>1. /\ IsSeq(leagues') /\ Len(leagues) \in Nat /\ DOMAIN leagues = 1..Len(leagues)
      /\ DOMAIN leagues' = 1..(Len(leagues) + 1)
      /\ \A i \in DOMAIN leagues : leagues'[i] = leagues[i]
      /\ leagues'[Len(leagues) + 1] = row
  BY Appending DEF Tables
<1>2. row.account = account /\ row.league = league /\ row.data = data
  BY DEF LeagueRow
<1>3. row = LeagueRow(row.account, row.league, row.data)
  BY <1>2
<1>4. \A i \in DOMAIN leagues : ~(leagues[i].account = account /\ leagues[i].league = league)
  BY DEF RowsFor
<1> HIDE DEF row
<1>5. \A i \in DOMAIN leagues' :
        /\ leagues'[i] = LeagueRow(leagues'[i].account, leagues'[i].league, leagues'[i].data)
        /\ leagues'[i].account \in DOMAIN accounts \cup {account}
  BY <1>1, <1>2, <1>3 DEF Tables
<1>6. \A i, j \in DOMAIN leagues' :
        leagues'[i].account = leagues'[j].account /\ leagues'[i].league = leagues'[j].league => i = j
  BY <1>1, <1>2, <1>4 DEF Tables, SavedOnce
<1> QED BY <1>1, <1>5, <1>6

LEMMA DetailsOnce ==
  ASSUME Tables, NEW r \in Requests, Details(r)
  PROVE  Tables'
<1> DEFINE account == req[r].account  league == Head(req[r].queue)
<1>1. UNCHANGED <<users, accounts>> /\ account \in DOMAIN accounts
      /\ req[r] = [pc |-> req[r].pc, account |-> req[r].account, queue |-> req[r].queue]
  BY DEF Details, Desk, Tables, Working
<1>2. CASE RowsFor(account, league) # {}
  BY <1>1, <1>2, IdleWorks, OnlyTheRequest DEF Details, Done, rows
<1>3. CASE RowsFor(account, league) = {}
  <2>1. leagues' = Append(leagues, LeagueRow(account, league, FALSE)) /\ Goto(r, [req[r] EXCEPT !.pc = "sync"])
    BY <1>3 DEF Details
  <2>2. /\ IsSeq(leagues')
        /\ \A i \in DOMAIN leagues' :
             /\ leagues'[i] = LeagueRow(leagues'[i].account, leagues'[i].league, leagues'[i].data)
             /\ leagues'[i].account \in DOMAIN accounts
        /\ \A i, j \in DOMAIN leagues' :
             leagues'[i].account = leagues'[j].account /\ leagues'[i].league = leagues'[j].league
               => i = j
    <3>1. /\ IsSeq(leagues')
          /\ \A i \in DOMAIN leagues' :
               /\ leagues'[i] = LeagueRow(leagues'[i].account, leagues'[i].league, leagues'[i].data)
               /\ leagues'[i].account \in DOMAIN accounts \cup {account}
          /\ \A i, j \in DOMAIN leagues' :
               leagues'[i].account = leagues'[j].account /\ leagues'[i].league = leagues'[j].league
                 => i = j
      <4> HIDE DEF account, league
      <4> QED BY <1>3, <2>1, LeagueAdded
    <3> QED BY <1>1, <3>1
  <2>3. [req[r] EXCEPT !.pc = "sync"] = [pc |-> "sync", account |-> account, queue |-> req[r].queue]
    BY <1>1
  <2>4. Working([req[r] EXCEPT !.pc = "sync"])
    BY <1>1, <2>3 DEF Working
  <2>5. DOMAIN req' = Requests /\ \A x \in Requests : Working(req'[x])
    BY <2>1, <2>4 DEF Goto, Tables
  <2>6. \A x \in Requests : (Working(req[x]))' <=> Working(req'[x])
    BY <1>1 DEF Working
  <2>7. SavedOnce'
    BY <1>1, <2>2 DEF Tables, SavedOnce
  <2>8. (IsSeq(users))' /\ (IsSeq(accounts))' /\ (IsSeq(leagues))'
    BY <1>1, <2>2 DEF Tables, IsSeq
  <2>9. \A i \in DOMAIN leagues' :
          (leagues[i] = LeagueRow(leagues[i].account, leagues[i].league, leagues[i].data))'
    BY <2>2 DEF LeagueRow
  <2> QED BY <1>1, <2>2, <2>5, <2>6, <2>7, <2>8, <2>9 DEF Tables
<1> QED BY <1>2, <1>3

\* A sync changes what is saved of a league, never its keys.
LEMMA FillKeepsKeys ==
  ASSUME Tables, NEW found, Fill(found)
  PROVE  /\ IsSeq(leagues') /\ DOMAIN leagues' = DOMAIN leagues
         /\ \A i \in DOMAIN leagues' :
              /\ leagues'[i] = LeagueRow(leagues'[i].account, leagues'[i].league, leagues'[i].data)
              /\ leagues'[i].account = leagues[i].account /\ leagues'[i].league = leagues[i].league
<1>1. DOMAIN leagues' = DOMAIN leagues
  BY DEF Fill
<1>2. ASSUME NEW i \in DOMAIN leagues
      PROVE  /\ leagues'[i] = LeagueRow(leagues'[i].account, leagues'[i].league, leagues'[i].data)
             /\ leagues'[i].account = leagues[i].account /\ leagues'[i].league = leagues[i].league
  <2>1. leagues[i] = [account |-> leagues[i].account, league |-> leagues[i].league,
                      data |-> leagues[i].data]
    BY DEF Tables, LeagueRow
  <2>2. leagues'[i] = leagues[i] \/ leagues'[i] = [leagues[i] EXCEPT !.data = TRUE]
    BY DEF Fill
  <2> QED BY <2>1, <2>2 DEF LeagueRow
<1>3. IsSeq(leagues')
  <2>1. Len(leagues) \in Nat /\ DOMAIN leagues = 1..Len(leagues)
    BY LenProperties DEF Tables, IsSeq
  <2>2. leagues' = [i \in 1..Len(leagues) |-> leagues'[i]]
    BY <2>1 DEF Fill
  <2> DEFINE T == {leagues'[i] : i \in DOMAIN leagues'}
  <2>3. \A i \in 1..Len(leagues) : leagues'[i] \in T
    BY <1>1, <2>1
  <2>4. leagues' \in Seq(T)
    <3> HIDE DEF T
    <3> QED BY <2>1, <2>2, <2>3, SeqDef
  <2> QED BY <2>4 DEF IsSeq
<1> QED BY <1>1, <1>2, <1>3

LEMMA FilledOnce ==
  ASSUME Tables, NEW found, Fill(found), UNCHANGED <<users, accounts>>,
         DOMAIN req' = Requests, \A x \in Requests : Working(req'[x])
  PROVE  Tables'
<1>1. /\ IsSeq(leagues') /\ DOMAIN leagues' = DOMAIN leagues
      /\ \A i \in DOMAIN leagues' :
           /\ leagues'[i] = LeagueRow(leagues'[i].account, leagues'[i].league, leagues'[i].data)
           /\ leagues'[i].account = leagues[i].account /\ leagues'[i].league = leagues[i].league
  BY FillKeepsKeys
<1>2. SavedOnce'
  BY <1>1 DEF Tables, SavedOnce
<1>3. \A x \in Requests : (Working(req[x]))' <=> Working(req'[x])
  BY DEF Working
<1>4. (IsSeq(users))' /\ (IsSeq(accounts))' /\ (IsSeq(leagues))'
  BY <1>1 DEF Tables, IsSeq
<1>5. \A i \in DOMAIN leagues' :
        (leagues[i] = LeagueRow(leagues[i].account, leagues[i].league, leagues[i].data))'
  BY <1>1 DEF LeagueRow
<1> QED BY <1>1, <1>2, <1>3, <1>4, <1>5 DEF Tables

\* On to the next league of the queue, or the end.
LEMMA WorkWorks ==
  ASSUME Tables, NEW r \in Requests, NEW account \in DOMAIN accounts, NEW queue,
         Work(r, account, queue)
  PROVE  \E x : Goto(r, x) /\ Working(x)
<1>1. Working([pc |-> "find", account |-> account, queue |-> queue])
  BY DEF Working
<1> QED BY <1>1, IdleWorks DEF Work, Done

LEMMA SyncedOnce ==
  ASSUME Tables, NEW r \in Requests, Synced(r)
  PROVE  Tables'
<1>1. req[r].account \in DOMAIN accounts
  BY DEF Synced, Tables, Working
<1>2. PICK x : Goto(r, x) /\ Working(x)
  BY <1>1, WorkWorks DEF Synced
<1>3. DOMAIN req' = Requests /\ \A y \in Requests : Working(req'[y])
  BY <1>2 DEF Goto, Tables
<1> QED BY <1>3, FilledOnce DEF Synced, Desk

\* The demo league comes with its account, which no row can name yet.
LEMMA DemoOnce ==
  ASSUME Tables, NEW r \in Requests, DemoCommits(r)
  PROVE  Tables'
<1>1. Working(Idle) /\ Goto(r, Idle) /\ UNCHANGED users
  BY IdleWorks DEF DemoCommits, Done, Desk
<1>2. CASE req[r].found \/ AccountsOf(req[r].user, Demo) # {}
  BY <1>1, <1>2, OnlyTheRequest DEF DemoCommits, rows
<1>3. CASE ~(req[r].found \/ AccountsOf(req[r].user, Demo) # {})
  <2> DEFINE new == Len(accounts) + 1
  <2>1. /\ accounts' = Append(accounts, AccountRow(req[r].user, Demo))
        /\ leagues' = Append(leagues, LeagueRow(new, DemoLeague, TRUE))
    BY <1>3 DEF DemoCommits
  <2>2. /\ IsSeq(accounts') /\ Len(accounts) \in Nat /\ DOMAIN accounts = 1..Len(accounts)
        /\ DOMAIN accounts' = 1..new
        /\ \A a, b \in DOMAIN accounts' : accounts'[a] = accounts'[b] => a = b
    BY <1>3, <2>1, AccountAdded
  <2>3. RowsFor(new, DemoLeague) = {}
    BY <2>2 DEF RowsFor, Tables
  <2>4. /\ IsSeq(leagues')
        /\ \A i \in DOMAIN leagues' :
             /\ leagues'[i] = LeagueRow(leagues'[i].account, leagues'[i].league, leagues'[i].data)
             /\ leagues'[i].account \in DOMAIN accounts \cup {new}
        /\ \A i, j \in DOMAIN leagues' :
             leagues'[i].account = leagues'[j].account /\ leagues'[i].league = leagues'[j].league
               => i = j
    <3> HIDE DEF new
    <3> QED BY <2>1, <2>3, LeagueAdded
  <2>5. DOMAIN accounts \cup {new} \subseteq DOMAIN accounts'
    BY <2>2
  <2>6. DOMAIN req' = Requests /\ \A x \in Requests : req'[x] = req[x] \/ req'[x] = Idle
    BY <1>1 DEF Goto, Tables
  <2>7. \A x \in Requests : (Working(req[x]))'
    BY <2>5, <2>6 DEF Tables, Working, Idle
  <2>8. SavedOnce'
    BY <1>1, <2>2, <2>4 DEF Tables, SavedOnce
  <2>9. (IsSeq(users))' /\ (IsSeq(accounts))' /\ (IsSeq(leagues))'
    BY <1>1, <2>2, <2>4 DEF Tables, IsSeq
  <2>10. \A i \in DOMAIN leagues' :
           (leagues[i] = LeagueRow(leagues[i].account, leagues[i].league, leagues[i].data))'
    BY <2>4 DEF LeagueRow
  <2>11. \A i \in DOMAIN leagues' : leagues'[i].account \in DOMAIN accounts'
    BY <2>4, <2>5
  <2>12. \A u \in DOMAIN users' : Lower[users'[u].email] = users'[u].email
    BY <1>1 DEF Tables
  <2> QED BY <2>6, <2>7, <2>8, <2>9, <2>10, <2>11, <2>12 DEF Tables
<1> QED BY <1>2, <1>3

\* The steps of a request that read.
LEMMA AskingOnce ==
  ASSUME Tables, NEW r \in Requests,
         \/ AskRegister(r) \/ AskConnect(r) \/ AskImport(r) \/ AskImportAll(r) \/ AskDemo(r)
         \/ Resolved(r) \/ Listed(r) \/ Find(r) \/ CallFails(r)
  PROVE  Tables'
<1>0. Working(Idle)
  BY IdleWorks
<1>1. CASE AskRegister(r)
  <2>1. UNCHANGED rows
    BY <1>1 DEF AskRegister
  <2>2. CASE UNCHANGED req
    BY <2>1, <2>2, TablesStutter
  <2>3. CASE ~UNCHANGED req
    <3>1. PICK who \in People, address \in Addresses :
            Goto(r, [pc |-> "register", who |-> who, email |-> address])
      BY <1>1, <2>3 DEF AskRegister
    <3>2. Working([pc |-> "register", who |-> who, email |-> address])
      BY DEF Working
    <3> QED BY <2>1, <3>1, <3>2, OnlyTheRequest
  <2> QED BY <2>2, <2>3
<1>2. CASE AskConnect(r)
  <2>1. Working([pc |-> "connect", user |-> session])
    BY DEF Working
  <2> QED BY <1>2, <2>1, OnlyTheRequest DEF AskConnect, Desk, rows
<1>3. CASE AskImport(r) \/ AskImportAll(r)
  <2>1. PICK account \in DOMAIN accounts :
          \/ \E league \in Leagues :
               Goto(r, [pc |-> "find", account |-> account, queue |-> <<league>>])
          \/ Goto(r, [pc |-> "list", account |-> account])
    BY <1>3 DEF AskImport, AskImportAll, AccountsOf
  <2>2. \A league \in Leagues : Working([pc |-> "find", account |-> account, queue |-> <<league>>])
    BY DEF Working
  <2>3. Working([pc |-> "list", account |-> account])
    BY DEF Working
  <2> QED BY <1>3, <2>1, <2>2, <2>3, OnlyTheRequest DEF AskImport, AskImportAll, Desk, rows
<1>4. CASE AskDemo(r)
  <2>1. Working([pc |-> "demo", user |-> session, found |-> DemoRows(session) # {}])
    BY DEF Working
  <2> QED BY <1>4, <2>1, OnlyTheRequest DEF AskDemo, Desk, rows
<1>5. CASE Resolved(r)
  <2>1. req[r] = [pc |-> req[r].pc, user |-> req[r].user]
    BY <1>5 DEF Resolved, Tables, Working
  <2>2. [req[r] EXCEPT !.pc = "insert"] = [pc |-> "insert", user |-> req[r].user]
    BY <2>1
  <2>3. Working([req[r] EXCEPT !.pc = "insert"])
    BY <2>2 DEF Working
  <2> QED BY <1>0, <1>5, <2>3, OnlyTheRequest DEF Resolved, Done, Desk, rows
<1>6. CASE Listed(r)
  <2>1. req[r].account \in DOMAIN accounts
    BY <1>6 DEF Listed, Tables, Working
  <2>2. PICK x : Goto(r, x) /\ Working(x)
    BY <1>6, <2>1, WorkWorks DEF Listed
  <2> QED BY <1>6, <2>2, OnlyTheRequest DEF Listed, Desk, rows
<1>7. CASE Find(r)
  <2>1. /\ req[r].account \in DOMAIN accounts
        /\ req[r] = [pc |-> req[r].pc, account |-> req[r].account, queue |-> req[r].queue]
    BY <1>7 DEF Find, Tables, Working
  <2>2. PICK pc \in {"sync", "details"} : Goto(r, [req[r] EXCEPT !.pc = pc])
    BY <1>7 DEF Find
  <2>3. [req[r] EXCEPT !.pc = pc] = [pc |-> pc, account |-> req[r].account, queue |-> req[r].queue]
    BY <2>1
  <2>4. Working([req[r] EXCEPT !.pc = pc])
    BY <2>1, <2>3 DEF Working
  <2> QED BY <1>7, <2>2, <2>4, OnlyTheRequest DEF Find, Desk, rows
<1>8. CASE CallFails(r)
  BY <1>0, <1>8, OnlyTheRequest DEF CallFails, Done, Desk, rows
<1> QED BY <1>1, <1>2, <1>3, <1>4, <1>5, <1>6, <1>7, <1>8

LEMMA TablesStep == Tables /\ [Next]_vars => Tables'
<1> SUFFICES ASSUME Tables, [Next]_vars PROVE Tables'
  OBVIOUS
<1>1. ASSUME NEW r \in Requests,
             \/ AskRegister(r) \/ AskConnect(r) \/ AskImport(r) \/ AskImportAll(r) \/ AskDemo(r)
             \/ Resolved(r) \/ Listed(r) \/ Find(r) \/ CallFails(r)
      PROVE  Tables'
  BY <1>1, AskingOnce
<1>2. ASSUME NEW r \in Requests,
             Register(r) \/ InsertAccount(r) \/ Details(r) \/ Synced(r) \/ DemoCommits(r)
      PROVE  Tables'
  BY <1>2, RegisterOnce, InsertOnce, DetailsOnce, SyncedOnce, DemoOnce
<1>3. ASSUME NEW i \in DOMAIN leagues, OpenLeague(i) PROVE Tables'
  BY <1>3, FilledOnce DEF OpenLeague, Desk, Tables
<1>4. CASE (\E who \in People, address \in Addresses : Login(who, address)) \/ SessionEnds \/ Tick
           \/ UNCHANGED vars
  BY <1>4, TablesStutter DEF Login, SessionEnds, Tick, vars
<1>5. CASE Restart
  <2>1. DOMAIN req' = Requests /\ \A r \in Requests : Working(req'[r])
    BY <1>5, IdleWorks DEF Restart
  <2>2. UNCHANGED rows
    BY <1>5 DEF Restart
  <2>3. \A x \in Requests : (Working(req[x]))' <=> Working(req'[x])
    BY <2>2 DEF Working, rows
  <2> QED BY <2>1, <2>2, <2>3 DEF Tables, SavedOnce, IsSeq, LeagueRow, rows
<1> QED BY <1>1, <1>2, <1>3, <1>4, <1>5 DEF Next

(* However requests interleave, fail half way or are cut off by a restart,  *)
(* no user, account or league is saved twice (repositories/users.py:21,     *)
(* accounts.py:38, integration_service.py:84, demo_service.py:40).          *)
THEOREM NothingSavedTwice == Spec => []SavedOnce
<1>1. Init => Tables
  <2>1. IsSeq(<<>>) /\ DOMAIN <<>> = {}
    BY EmptySeq DEF IsSeq
  <2> QED BY <2>1, IdleWorks DEF Init, Tables, SavedOnce
<1>2. Tables => SavedOnce
  BY DEF Tables
<1> QED BY <1>1, <1>2, TablesStep, PTL DEF Spec

-----------------------------------------------------------------------------
(* The limit on how often an address may try.                              *)

\* Calls are kept in the order in which they were made.
OldestFirst(ages) == \A i, j \in DOMAIN ages : i <= j => ages[i] >= ages[j]

\* The first n calls are too old, the others are not.
Cut(ages, n) ==
  /\ n \in 0..Len(ages)
  /\ \A i \in DOMAIN ages : ages[i] > Window <=> i <= n

\* What the limiter holds of a key is, but for calls too old to count, what it let
\* through; when it drops a key it drops only such.
LimiterInv ==
  /\ hits \in [Paths -> Seq(Nat)] /\ let \in [Paths -> Seq(Nat)]
  /\ \A k \in Paths : OldestFirst(hits[k]) /\ let[k] = Recent(hits[k])
  /\ WindowHolds

LEMMA LimitShape == Window \in Nat /\ Limit \in Nat /\ 0 < Limit /\ 0 < Window
BY AccountConstants

\* A set of places has a first one.
LEMMA FirstPlace ==
  ASSUME NEW P \in SUBSET Nat, P # {}
  PROVE  /\ Min(P) \in P /\ \A i \in P : Min(P) <= i
<1> DEFINE less == OpToRel(<, Nat)
<1>1. PICK x \in P : \A y \in P : <<y, x>> \notin less
  BY NatLessThanWellFounded, WFMin
<1>2. \A y \in P : ~(y < x)
  BY <1>1 DEF OpToRel
<1>3. \A y \in P : x <= y
  BY <1>2
<1> QED BY <1>3 DEF Min

LEMMA CutExists ==
  ASSUME NEW s \in Seq(Nat), OldestFirst(s)
  PROVE  \E n : Cut(s, n)
<1> DEFINE young == {i \in DOMAIN s : s[i] <= Window}
<1>1. DOMAIN s = 1..Len(s) /\ Len(s) \in Nat /\ \A i \in DOMAIN s : s[i] \in Nat
  OBVIOUS
<1>2. CASE young = {}
  <2>1. Cut(s, Len(s))
    BY <1>1, <1>2, LimitShape DEF Cut
  <2> QED BY <2>1
<1>3. CASE young # {}
  <2>1. young \in SUBSET Nat
    BY <1>1
  <2>2. Min(young) \in young /\ \A i \in young : Min(young) <= i
    BY <1>3, <2>1, FirstPlace
  <2>3. PICK m \in DOMAIN s : s[m] <= Window /\ \A i \in DOMAIN s : s[i] <= Window => m <= i
    BY <2>2
  <2>4. \A i \in DOMAIN s : s[i] > Window <=> i <= m - 1
    BY <1>1, <2>3, LimitShape DEF OldestFirst
  <2>5. Cut(s, m - 1)
    BY <1>1, <2>3, <2>4 DEF Cut
  <2> QED BY <2>5
<1> QED BY <1>2, <1>3

\* What is left is what comes after the cut.
LEMMA CutRecent ==
  ASSUME NEW s \in Seq(Nat), NEW n, Cut(s, n)
  PROVE  /\ Recent(s) \in Seq(Nat) /\ Len(Recent(s)) = Len(s) - n
         /\ \A i \in 1..(Len(s) - n) : Recent(s)[i] = s[n + i]
<1> DEFINE young == {i \in DOMAIN s : s[i] <= Window}
<1>1. DOMAIN s = 1..Len(s) /\ Len(s) \in Nat /\ n \in 0..Len(s) /\ \A i \in DOMAIN s : s[i] \in Nat
  BY DEF Cut
<1>2. young = (n + 1)..Len(s)
  BY <1>1, LimitShape DEF Cut
<1> HIDE DEF young
<1>3. Recent(s) = IF young = {} THEN <<>> ELSE SubSeq(s, Min(young), Len(s))
  BY DEF Recent, young
<1>4. CASE n = Len(s)
  <2>1. Recent(s) = <<>>
    BY <1>1, <1>2, <1>3, <1>4
  <2> QED BY <1>1, <1>4, <2>1
<1>5. CASE n < Len(s)
  <2>1. n + 1 \in young /\ young \in SUBSET Nat
    BY <1>1, <1>2, <1>5
  <2>2. Min(young) = n + 1
    BY <1>1, <1>2, <2>1, FirstPlace
  <2>3. Recent(s) = SubSeq(s, n + 1, Len(s))
    BY <1>3, <2>1, <2>2
  <2>4. /\ SubSeq(s, n + 1, Len(s)) \in Seq(Nat) /\ Len(SubSeq(s, n + 1, Len(s))) = Len(s) - n
        /\ \A i \in 1..(Len(s) - n) : SubSeq(s, n + 1, Len(s))[i] = s[n + i]
    <3>1. n + 1 \in Int /\ Len(s) \in Int /\ \A i \in (n + 1)..Len(s) : s[i] \in Nat
      BY <1>1
    <3>2. Len(SubSeq(s, n + 1, Len(s))) = Len(s) - n
      <4>1. Len(SubSeq(s, n + 1, Len(s))) = IF n + 1 <= Len(s) THEN Len(s) - (n + 1) + 1 ELSE 0
        BY <3>1, SubSeqProperties
      <4>2. Len(s) \in Nat /\ n \in Nat
        BY DEF Cut
      <4> QED BY <1>5, <4>1, <4>2
    <3>3. \A i \in 1..(Len(s) - n) : SubSeq(s, n + 1, Len(s))[i] = s[n + i]
      BY <1>1, <1>5
    <3>4. SubSeq(s, n + 1, Len(s)) \in Seq(Nat)
      BY <3>1, SubSeqProperties
    <3> QED BY <3>2, <3>3, <3>4
  <2> QED BY <2>3, <2>4
<1>6. Len(s) \in Nat /\ n \in 0..Len(s)
  BY DEF Cut
<1>7. n = Len(s) \/ n < Len(s)
  BY <1>6
<1> QED BY <1>4, <1>5, <1>7

LEMMA SameCalls ==
  ASSUME NEW s \in Seq(Nat), NEW t \in Seq(Nat), Len(s) = Len(t), \A i \in 1..Len(s) : s[i] = t[i]
  PROVE  s = t
OBVIOUS

\* A call is let through: it counts from now on, after those that still do.
LEMMA HitCounts ==
  ASSUME NEW s \in Seq(Nat), OldestFirst(s)
  PROVE  LET t == Append(Recent(s), 0)
         IN /\ t \in Seq(Nat) /\ OldestFirst(t) /\ Recent(t) = t
            /\ Len(t) = Len(Recent(s)) + 1 /\ Recent(Recent(s)) = Recent(s)
<1>1. PICK n : Cut(s, n)
  BY CutExists
<1>2. /\ Recent(s) \in Seq(Nat) /\ Len(Recent(s)) = Len(s) - n /\ n \in 0..Len(s) /\ Len(s) \in Nat
      /\ \A i \in 1..(Len(s) - n) : Recent(s)[i] = s[n + i] /\ s[n + i] <= Window /\ n + i \in DOMAIN s
  <2>1. /\ Recent(s) \in Seq(Nat) /\ Len(Recent(s)) = Len(s) - n
        /\ \A i \in 1..(Len(s) - n) : Recent(s)[i] = s[n + i]
    BY <1>1, CutRecent
  <2>2. n \in 0..Len(s) /\ Len(s) \in Nat /\ DOMAIN s = 1..Len(s)
    BY <1>1 DEF Cut
  <2>3. ASSUME NEW i \in 1..(Len(s) - n) PROVE s[n + i] <= Window /\ n + i \in DOMAIN s
    <3>1. n + i \in DOMAIN s /\ ~(n + i <= n)
      BY <2>2
    <3>2. ~(s[n + i] > Window) /\ s[n + i] \in Nat
      BY <1>1, <3>1 DEF Cut
    <3> QED BY <3>1, <3>2, LimitShape
  <2> QED BY <2>1, <2>2, <2>3
<1> DEFINE r == Recent(s)  t == Append(r, 0)
<1>3. /\ Len(r) \in Nat /\ \A i \in 1..Len(r) : r[i] \in Nat /\ r[i] <= Window
      /\ \A i, j \in 1..Len(r) : i <= j => r[i] >= r[j]
  <2>1. Len(r) \in Nat /\ \A i \in 1..Len(r) : r[i] \in Nat /\ r[i] <= Window
    BY <1>2
  <2>2. ASSUME NEW i \in 1..Len(r), NEW j \in 1..Len(r), i <= j PROVE r[i] >= r[j]
    <3>1. r[i] = s[n + i] /\ r[j] = s[n + j] /\ n + i \in DOMAIN s /\ n + j \in DOMAIN s
      BY <1>2
    <3>2. n + i <= n + j
      BY <1>2, <2>2
    <3> QED BY <3>1, <3>2 DEF OldestFirst
  <2> QED BY <2>1, <2>2
<1> SUFFICES /\ t \in Seq(Nat) /\ OldestFirst(t) /\ Recent(t) = t
             /\ Len(t) = Len(r) + 1 /\ Recent(r) = r
  OBVIOUS
<1>4. r \in Seq(Nat)
  BY <1>2
<1> HIDE DEF r
<1>5. /\ t \in Seq(Nat) /\ Len(t) = Len(r) + 1 /\ DOMAIN t = 1..(Len(r) + 1)
      /\ \A i \in 1..Len(r) : t[i] = r[i]
      /\ t[Len(r) + 1] = 0
  BY <1>4
<1> HIDE DEF t
<1>6. OldestFirst(t) /\ \A i \in DOMAIN t : t[i] \in Nat /\ t[i] <= Window
  <2>1. ASSUME NEW i \in DOMAIN t
        PROVE  t[i] \in Nat /\ t[i] <= Window /\ (i \in 1..Len(r) \/ (i = Len(r) + 1 /\ t[i] = 0))
    BY <1>3, <1>5, LimitShape
  <2>2. ASSUME NEW i \in DOMAIN t, NEW j \in DOMAIN t, i <= j PROVE t[i] >= t[j]
    <3>1. CASE j = Len(r) + 1
      BY <2>1, <3>1, <1>5
    <3>2. CASE j \in 1..Len(r)
      <4>1. i \in 1..Len(r)
        BY <1>3, <1>5, <2>2, <3>2
      <4> QED BY <1>3, <1>5, <2>2, <3>2, <4>1
    <3> QED BY <2>1, <3>1, <3>2
  <2> QED BY <2>1, <2>2 DEF OldestFirst
<1>7. ASSUME NEW q \in Seq(Nat), \A i \in DOMAIN q : q[i] \in Nat /\ q[i] <= Window
      PROVE  Recent(q) = q
  <2>1. Cut(q, 0)
    BY <1>7, LimitShape DEF Cut
  <2>2. /\ Recent(q) \in Seq(Nat) /\ Len(Recent(q)) = Len(q) - 0
        /\ \A i \in 1..(Len(q) - 0) : Recent(q)[i] = q[0 + i]
    BY <2>1, CutRecent
  <2>3. Len(Recent(q)) = Len(q) /\ \A i \in 1..Len(Recent(q)) : Recent(q)[i] = q[i]
    BY <2>2
  <2> QED BY <2>2, <2>3, SameCalls
<1>8. Recent(t) = t
  BY <1>5, <1>6, <1>7
<1>9. Recent(r) = r
  BY <1>3, <1>4, <1>7
<1> QED BY <1>5, <1>6, <1>8, <1>9

\* A key is dropped only when none of its calls counts any more.
LEMMA PrunedCalls ==
  ASSUME NEW s \in Seq(Nat), OldestFirst(s), s # <<>>, Last(s) > Window
  PROVE  Recent(s) = <<>>
<1>1. Len(s) \in DOMAIN s /\ Len(s) \in Nat /\ DOMAIN s = 1..Len(s) /\ \A i \in DOMAIN s : s[i] \in Nat
  OBVIOUS
<1>2. Cut(s, Len(s))
  BY <1>1, LimitShape DEF Cut, OldestFirst, Last
<1> QED BY <1>1, <1>2, CutRecent, SameCalls

LEMMA OlderCalls ==
  ASSUME NEW s \in Seq(Nat)
  PROVE  /\ Older(s) \in Seq(Nat) /\ Len(Older(s)) = Len(s) /\ DOMAIN Older(s) = DOMAIN s
         /\ \A i \in DOMAIN s : Older(s)[i] = IF s[i] > Window THEN s[i] ELSE s[i] + 1
         /\ OldestFirst(s) => OldestFirst(Older(s))
<1>1. DOMAIN s = 1..Len(s) /\ Len(s) \in Nat /\ \A i \in 1..Len(s) : s[i] \in Nat
  OBVIOUS
<1>2. Older(s) = [i \in 1..Len(s) |-> IF s[i] > Window THEN s[i] ELSE s[i] + 1]
  BY <1>1 DEF Older
<1>3. \A i \in 1..Len(s) : (IF s[i] > Window THEN s[i] ELSE s[i] + 1) \in Nat
  BY <1>1
<1>4. Older(s) \in Seq(Nat) /\ Len(Older(s)) = Len(s) /\ DOMAIN Older(s) = 1..Len(s)
  BY <1>1, <1>2, <1>3
<1>5. \A i \in DOMAIN s : Older(s)[i] = IF s[i] > Window THEN s[i] ELSE s[i] + 1
  BY <1>1, <1>2
<1>6. ASSUME OldestFirst(s) PROVE OldestFirst(Older(s))
  BY <1>1, <1>4, <1>5, <1>6, LimitShape DEF OldestFirst
<1> QED BY <1>1, <1>4, <1>5, <1>6

\* Time goes on: whether the calls too old are dropped before or after, the same
\* ones are left.
LEMMA TickCounts ==
  ASSUME NEW s \in Seq(Nat), OldestFirst(s)
  PROVE  /\ Recent(Older(Recent(s))) = Recent(Older(s))
         /\ Len(Recent(Older(s))) <= Len(Recent(s))
<1> DEFINE r == Recent(s)  o == Older(s)  p == Older(r)
<1>1. PICK n : Cut(s, n)
  BY CutExists
<1>2. r \in Seq(Nat) /\ Len(r) = Len(s) - n /\ \A i \in 1..(Len(s) - n) : r[i] = s[n + i]
  BY <1>1, CutRecent
<1>3. /\ o \in Seq(Nat) /\ Len(o) = Len(s) /\ DOMAIN o = DOMAIN s /\ OldestFirst(o)
      /\ \A i \in DOMAIN s : o[i] = IF s[i] > Window THEN s[i] ELSE s[i] + 1
  BY OlderCalls
<1>4. PICK c : Cut(o, c)
  BY <1>3, CutExists
<1> HIDE DEF r, o
<1>5. /\ p \in Seq(Nat) /\ Len(p) = Len(r) /\ DOMAIN p = DOMAIN r
      /\ \A i \in DOMAIN r : p[i] = IF r[i] > Window THEN r[i] ELSE r[i] + 1
  BY <1>2, OlderCalls
<1> HIDE DEF p
<1>6. /\ DOMAIN s = 1..Len(s) /\ Len(s) \in Nat /\ \A i \in DOMAIN s : s[i] \in Nat
      /\ DOMAIN r = 1..Len(r) /\ n \in 0..Len(s) /\ c \in 0..Len(s)
  BY <1>1, <1>2, <1>3, <1>4 DEF Cut
<1>7. n <= c
  <2> SUFFICES ASSUME n > c PROVE FALSE
    BY <1>6
  <2>1. n \in DOMAIN s /\ s[n] > Window
    BY <1>1, <1>6 DEF Cut
  <2>2. o[n] > Window
    BY <1>3, <2>1
  <2> QED BY <1>3, <1>4, <1>6, <2>1, <2>2 DEF Cut
<1>8. \A i \in DOMAIN r : n + i \in DOMAIN s /\ p[i] = o[n + i]
  <2> SUFFICES ASSUME NEW i \in DOMAIN r PROVE n + i \in DOMAIN s /\ p[i] = o[n + i]
    OBVIOUS
  <2>1. i \in 1..(Len(s) - n) /\ n + i \in DOMAIN s
    BY <1>2, <1>6
  <2>2. r[i] = s[n + i]
    BY <1>2, <2>1
  <2> QED BY <1>3, <1>5, <2>1, <2>2
<1>9. Cut(p, c - n)
  <2>1. c - n \in 0..Len(p)
    BY <1>2, <1>5, <1>6, <1>7, <1>3, <1>4 DEF Cut
  <2>2. ASSUME NEW i \in DOMAIN p PROVE p[i] > Window <=> i <= c - n
    <3>1. n + i \in DOMAIN o /\ p[i] = o[n + i] /\ i \in Nat
      BY <1>3, <1>5, <1>6, <1>8
    <3>2. o[n + i] > Window <=> n + i <= c
      BY <1>4, <3>1 DEF Cut
    <3> QED BY <1>6, <3>1, <3>2
  <2> QED BY <2>1, <2>2 DEF Cut
<1>10. /\ Recent(o) \in Seq(Nat) /\ Len(Recent(o)) = Len(s) - c
       /\ \A i \in 1..(Len(s) - c) : Recent(o)[i] = o[c + i]
  BY <1>3, <1>4, CutRecent
<1>11. /\ Recent(p) \in Seq(Nat) /\ Len(Recent(p)) = Len(r) - (c - n)
       /\ \A i \in 1..(Len(r) - (c - n)) : Recent(p)[i] = p[(c - n) + i]
  BY <1>5, <1>9, CutRecent
<1>12. Len(Recent(p)) = Len(Recent(o)) /\ Len(Recent(o)) <= Len(r)
  BY <1>2, <1>6, <1>7, <1>10, <1>11
<1>13. \A i \in 1..Len(Recent(p)) : Recent(p)[i] = Recent(o)[i]
  <2> SUFFICES ASSUME NEW i \in 1..(Len(s) - c) PROVE Recent(p)[i] = Recent(o)[i]
    BY <1>10, <1>12
  <2>1. (c - n) + i \in DOMAIN r /\ n + ((c - n) + i) = c + i
    BY <1>2, <1>6, <1>7
  <2>2. p[(c - n) + i] = o[c + i]
    BY <1>8, <2>1
  <2>3. i \in 1..(Len(r) - (c - n))
    BY <1>2, <1>6, <1>7
  <2> QED BY <1>10, <1>11, <2>2, <2>3
<1>14. Recent(p) = Recent(o)
  BY <1>10, <1>11, <1>12, <1>13, SameCalls
<1> QED BY <1>12, <1>14 DEF p, o, r

\* A step that answers requests and calls nobody.
LEMMA LimiterStutter ==
  ASSUME LimiterInv, UNCHANGED limiter
  PROVE  LimiterInv'
BY DEF LimiterInv, WindowHolds, limiter

LEMMA HitLimited ==
  ASSUME LimiterInv, NEW key \in Paths, Hit(key)
  PROVE  LimiterInv'
<1> DEFINE r == Recent(hits[key])  t == Append(r, 0)  h == [hits EXCEPT ![key] = t]
<1>1. hits[key] \in Seq(Nat) /\ OldestFirst(hits[key]) /\ let[key] = r /\ Len(r) < Limit
  BY DEF LimiterInv, Hit, Allowed
<1>2. /\ t \in Seq(Nat) /\ OldestFirst(t) /\ Recent(t) = t
      /\ Len(t) = Len(r) + 1 /\ Recent(r) = r
  BY <1>1, HitCounts
<1>3. let' = [let EXCEPT ![key] = t]
  BY <1>1, <1>2 DEF Hit
<1>4. hits' = h \/ hits' = Pruned(h)
  BY DEF Hit
<1> HIDE DEF t, r
<1>5. \A k \in Paths : h[k] = IF k = key THEN t ELSE hits[k]
  BY DEF LimiterInv
<1>6. h \in [Paths -> Seq(Nat)] /\ \A k \in Paths : h[k] \in Seq(Nat) /\ OldestFirst(h[k])
  BY <1>2, <1>5 DEF LimiterInv
<1>7. let' \in [Paths -> Seq(Nat)] /\ \A k \in Paths : let'[k] = Recent(h[k])
  BY <1>2, <1>3, <1>5 DEF LimiterInv
<1>8. \A k \in Paths : Len(let'[k]) <= Limit
  <2>1. Len(t) <= Limit
    <3>1. r \in Seq(Nat)
      BY <1>1 DEF LimiterInv
    <3>2. Len(r) \in Nat
      BY <3>1
    <3> QED BY <1>1, <1>2, <3>2, LimitShape
  <2>2. \A k \in Paths : let'[k] = t \/ let'[k] = let[k]
    BY <1>3 DEF LimiterInv
  <2> QED BY <2>1, <2>2 DEF LimiterInv, WindowHolds
<1> HIDE DEF h
<1>9. <<>> \in Seq(Nat) /\ OldestFirst(<<>>) /\ Recent(<<>>) = <<>>
  <2>1. <<>> \in Seq(Nat) /\ DOMAIN <<>> = {}
    OBVIOUS
  <2> QED BY <2>1 DEF OldestFirst, Recent
<1>10. \A k \in Paths : hits'[k] = h[k] \/ (hits'[k] = <<>> /\ Recent(h[k]) = <<>>)
  <2>1. CASE hits' = Pruned(h)
    <3>1. \A k \in Paths : hits'[k] = h[k] \/ (hits'[k] = <<>> /\ h[k] # <<>> /\ Last(h[k]) > Window)
      BY <2>1 DEF Pruned
    <3> QED BY <1>6, <3>1, PrunedCalls
  <2> QED BY <1>4, <2>1
<1>11. hits' \in [Paths -> Seq(Nat)]
  <2>1. hits' = [k \in Paths |-> hits'[k]]
    BY <1>4, <1>6 DEF Pruned
  <2>2. \A k \in Paths : hits'[k] \in Seq(Nat)
    BY <1>6, <1>9, <1>10
  <2> QED BY <2>1, <2>2
<1>12. \A k \in Paths : OldestFirst(hits'[k]) /\ let'[k] = Recent(hits'[k])
  BY <1>6, <1>7, <1>9, <1>10
<1> QED BY <1>7, <1>8, <1>11, <1>12 DEF LimiterInv, WindowHolds

LEMMA TickLimited ==
  ASSUME LimiterInv, Tick
  PROVE  LimiterInv'
<1>1. hits' = [k \in Paths |-> Older(hits[k])] /\ let' = [k \in Paths |-> Recent(Older(let[k]))]
  BY DEF Tick
<1>2. ASSUME NEW k \in Paths
      PROVE  /\ hits'[k] \in Seq(Nat) /\ OldestFirst(hits'[k])
             /\ let'[k] = Recent(hits'[k]) /\ let'[k] \in Seq(Nat) /\ Len(let'[k]) <= Limit
  <2>1. hits[k] \in Seq(Nat) /\ OldestFirst(hits[k]) /\ let[k] = Recent(hits[k])
        /\ let[k] \in Seq(Nat) /\ Len(let[k]) <= Limit
    BY DEF LimiterInv, WindowHolds
  <2>2. hits'[k] = Older(hits[k]) /\ let'[k] = Recent(Older(let[k]))
    BY <1>1
  <2>3. Older(hits[k]) \in Seq(Nat) /\ OldestFirst(Older(hits[k]))
    BY <2>1, OlderCalls
  <2>4. let'[k] = Recent(Older(hits[k])) /\ Len(Recent(Older(hits[k]))) <= Len(let[k])
    BY <2>1, <2>2, TickCounts
  <2>5. Recent(Older(hits[k])) \in Seq(Nat)
    BY <2>3, CutExists, CutRecent
  <2>6. Len(let'[k]) \in Nat /\ Len(let[k]) \in Nat
    BY <2>1, <2>4, <2>5
  <2> QED BY <2>1, <2>2, <2>3, <2>4, <2>5, <2>6, LimitShape
<1>3. hits' \in [Paths -> Seq(Nat)] /\ let' \in [Paths -> Seq(Nat)]
  BY <1>1, <1>2
<1> QED BY <1>2, <1>3 DEF LimiterInv, WindowHolds

\* A limiter that holds nothing.
LEMMA NoneLimited ==
  ASSUME NEW h, h = NoHits
  PROVE  /\ h \in [Paths -> Seq(Nat)]
         /\ \A k \in Paths : OldestFirst(h[k]) /\ h[k] = Recent(h[k]) /\ Len(h[k]) <= Limit
<1>1. <<>> \in Seq(Nat) /\ DOMAIN <<>> = {} /\ Len(<<>>) = 0
  OBVIOUS
<1>2. OldestFirst(<<>>) /\ Recent(<<>>) = <<>>
  BY <1>1 DEF OldestFirst, Recent
<1> QED BY <1>1, <1>2, LimitShape DEF NoHits

LEMMA LimiterStep == LimiterInv /\ [Next]_vars => LimiterInv'
<1> SUFFICES ASSUME LimiterInv, [Next]_vars PROVE LimiterInv'
  OBVIOUS
<1>1. ASSUME NEW r \in Requests, AskRegister(r) PROVE LimiterInv'
  BY <1>1, HitLimited DEF AskRegister, Paths
<1>2. ASSUME NEW who \in People, NEW address \in Addresses, Login(who, address) PROVE LimiterInv'
  BY <1>2, HitLimited DEF Login, Paths
<1>3. CASE Tick
  BY <1>3, TickLimited
<1>4. CASE Restart
  BY <1>4, NoneLimited DEF Restart, LimiterInv, WindowHolds
<1>5. ASSUME NEW r \in Requests,
             \/ AskConnect(r) \/ AskImport(r) \/ AskImportAll(r) \/ AskDemo(r)
             \/ Register(r) \/ Resolved(r) \/ InsertAccount(r) \/ Listed(r) \/ Find(r)
             \/ Details(r) \/ Synced(r) \/ DemoCommits(r) \/ CallFails(r)
      PROVE  LimiterInv'
  BY <1>5, LimiterStutter
     DEF AskConnect, AskImport, AskImportAll, AskDemo, Register, Resolved, InsertAccount, Listed,
         Find, Details, Synced, DemoCommits, CallFails, Desk
<1>6. CASE (\E i \in DOMAIN leagues : OpenLeague(i)) \/ SessionEnds \/ UNCHANGED vars
  BY <1>6, LimiterStutter DEF OpenLeague, SessionEnds, Desk, vars
<1> QED BY <1>1, <1>2, <1>3, <1>4, <1>5, <1>6 DEF Next

(* For any limit, window and number of keys, no more calls than the limit   *)
(* get through in any window, though the limiter drops keys as it prunes    *)
(* (core/rate_limit.py:21).  A restart forgets the window: it begins anew.  *)
THEOREM LimitHolds == Spec => []WindowHolds
<1>1. Init => LimiterInv
  BY NoneLimited DEF Init, LimiterInv, WindowHolds
<1>2. LimiterInv => WindowHolds
  BY DEF LimiterInv
<1> QED BY <1>1, <1>2, LimiterStep, PTL DEF Spec
=============================================================================
