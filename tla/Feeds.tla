------------------------------- MODULE Feeds -------------------------------
(***************************************************************************)
(* The caches of published NFL data (backend/app/nfl_data):                *)
(*   "board"        ESPNScheduleClient.load, the season's eighteen weeks   *)
(*   "live"         ESPNScheduleClient.live_week, the scoreboard of a week *)
(*   "stats"        SleeperWeeklyStats.week                                *)
(*   "projections"  SleeperProjections.week                                *)
(*   "props"        EspnPropClient.lines, nine DraftKings boards           *)
(*   "injuries"     EspnInjuryClient.reports                               *)
(* They share one shape, memory before file before download, and differ in *)
(* what they do when a download fails in part or altogether, in how they   *)
(* stamp what they read, and in whether a lock keeps readers from          *)
(* downloading side by side.  A behaviour is one feed, chosen in Init, for *)
(* one season and week: keys of a cache do not touch each other, a file    *)
(* that holds several weeks being rewritten without an await.              *)
(***************************************************************************)
EXTENDS Integers, Sequences, FiniteSets, InjuryReport

CONSTANTS Teams,     \* NFL teams
          Readers,   \* requests that read the feed at the same time
          Parts,     \* the calls one download is made of: weeks, boards
          Ttl,       \* how long a copy counts as current
          PastTtl,   \* the same for the statistics of a past week
          Retry,     \* seconds before a failed injury download is repeated
          MaxTime    \* bound: the last instant of a behaviour

ASSUME FeedConstants ==
  /\ {Ttl, PastTtl, Retry, MaxTime} \subseteq Nat \ {0}
  /\ Retry <= Ttl /\ Ttl <= PastTtl
  /\ Parts \subseteq Nat \ {0}

AllFeeds == {"board", "live", "stats", "projections", "props", "injuries"}

VARIABLES feed,      \* the feed of this behaviour
          now,       \* the clock
          memory,    \* the copy the process holds
          file,      \* the copy on disk
          nextFetch, \* _next_fetch of the injury client
          queue,     \* the lock: its holder first, then those who wait
          reader,    \* what each request is doing
          failed,    \* did the last download bring nothing?
          stored,    \* when a download last put its result into memory
          answer     \* what the last step returned, if it returned anything

vars == <<feed, now, memory, file, nextFetch, queue, reader, failed, stored, answer>>

Never == -1
\* from is when the copy was downloaded, at is when its owner says it was.
Copies == [at : Nat, from : Nat, has : SUBSET Parts]
None == [at |-> Never, from |-> Never, has |-> {}]
Idle == [pc |-> "idle", since |-> 0, limit |-> Ttl, had |-> None]
NoAnswer == [how |-> "none", age |-> 0, waited |-> 0, limit |-> Ttl, has |-> {}]

HasFile == feed \in {"board", "stats", "projections", "props"}
ManyParts == feed \in {"board", "props"}

Fresh(copy, limit, at) == copy # None /\ at - copy.at < limit
Limits == IF feed = "stats" THEN {Ttl, PastTtl} ELSE {Ttl}

\* Projections read from disk are stamped with the time of the read.
StampAsRead(copy) == [copy EXCEPT !.at = now]
StampedAnew == StampAsRead(file)
FromFile == IF feed = "projections" THEN StampAsRead(file) ELSE file

AnswerAfter(waited, how, copy, limit) ==
  answer' = [how |-> how, age |-> IF copy = None THEN 0 ELSE now - copy.from,
             waited |-> waited, limit |-> limit, has |-> copy.has]
Answer(how, copy, limit) == AnswerAfter(0, how, copy, limit)

Init ==
  /\ feed \in AllFeeds
  /\ now = 0 /\ memory = None /\ file = None /\ nextFetch = 0
  /\ queue = <<>> /\ reader = [r \in Readers |-> Idle]
  /\ failed = FALSE /\ stored = Never /\ answer = NoAnswer

----------------------------------------------------------------------------
\* A read, up to its answer or to the lock.

\* May memory be handed out as it is?  The injury client goes by its own alarm.
InMemory(limit, at) ==
  IF feed = "injuries" THEN at < nextFetch ELSE Fresh(memory, limit, at)

OnDisk(limit) == HasFile /\ Fresh(file, limit, now)

ReadMemory(r, limit) ==
  /\ InMemory(limit, now)
  /\ Answer("memory", memory, limit)
  /\ UNCHANGED <<memory, queue, reader>>

ReadFile(r, limit) ==
  /\ ~InMemory(limit, now) /\ OnDisk(limit)
  /\ memory' = FromFile
  /\ Answer("file", memory', limit)
  /\ UNCHANGED <<queue, reader>>

\* live_week holds no lock: its readers download side by side.
WaitForLock(r, limit) ==
  /\ ~InMemory(limit, now) /\ ~OnDisk(limit)
  /\ reader' = [reader EXCEPT ![r] =
       [pc |-> IF feed = "live" THEN "fetching" ELSE "waiting",
        since |-> now, limit |-> limit, had |-> IF HasFile THEN file ELSE memory]]
  /\ queue' = IF feed = "live" THEN queue ELSE Append(queue, r)
  /\ answer' = NoAnswer
  /\ UNCHANGED memory

Read(r) ==
  /\ reader[r].pc = "idle"
  /\ \E limit \in Limits :
       ReadMemory(r, limit) \/ ReadFile(r, limit) \/ WaitForLock(r, limit)
  /\ UNCHANGED <<feed, now, file, nextFetch, failed, stored>>

NotRechecked(r) == FALSE

\* The look under the lock.  Props compare with the time the read began, and
\* only the board looks at its file again.
Rechecked(r) ==
  InMemory(reader[r].limit, IF feed = "props" THEN reader[r].since ELSE now)

Locked(r) ==
  /\ queue # <<>> /\ Head(queue) = r /\ reader[r].pc = "waiting"
  /\ LET again == feed = "board" /\ OnDisk(reader[r].limit)
     IN \/ /\ Rechecked(r) \/ again
           /\ memory' = IF Rechecked(r) THEN memory ELSE FromFile
           /\ AnswerAfter(now - reader[r].since, "memory", memory', reader[r].limit)
           /\ reader' = [reader EXCEPT ![r] = Idle]
           /\ queue' = Tail(queue)
        \/ /\ ~Rechecked(r) /\ ~again
           /\ reader' = [reader EXCEPT ![r].pc = "fetching"]
           /\ answer' = NoAnswer
           /\ UNCHANGED <<memory, queue>>
  /\ UNCHANGED <<feed, now, file, nextFetch, failed, stored>>

----------------------------------------------------------------------------
\* The end of a download.  A call that fails, answers 404 or sends something
\* unreadable brings nothing for its part.

Downloads == IF ManyParts THEN SUBSET Parts ELSE {{}, Parts}

Stamped(got) == [at |-> now, from |-> now, has |-> got]

Keep(copy) == memory' = copy /\ stored' = now

\* A file that cannot be written stays as it was.
Write(copy) == file' = copy \/ file' = file

\* Stored whatever came, nothing included.
StoreAll(got, limit) ==
  /\ Keep(Stamped(got)) /\ Write(Stamped(got))
  /\ Answer("fetch", memory', limit)
  /\ UNCHANGED nextFetch

StoreAllInMemory(got, limit) ==
  /\ Keep(Stamped(got))
  /\ IF got = {} THEN UNCHANGED file ELSE Write(Stamped(got))
  /\ Answer("fetch", memory', limit)
  /\ UNCHANGED nextFetch

BoardStoresNothing(got, limit) == StoreAll(got, limit)

\* An empty board falls back on the file, however old, under the file's own stamp.
BoardArrives(got, limit) ==
  IF got # {} THEN StoreAll(got, limit)
  ELSE /\ memory' = IF file = None THEN memory ELSE file
       /\ Answer("kept", file, limit)
       /\ UNCHANGED <<file, nextFetch, stored>>

InjuriesArrive(got, limit) ==
  /\ IF got # {} THEN Keep(Stamped(got)) ELSE UNCHANGED <<memory, stored>>
  /\ nextFetch' = now + (IF got # {} THEN Ttl ELSE Retry)
  /\ Answer("kept", memory', limit)
  /\ UNCHANGED file

\* A failed look at the scoreboard answers with the one seen when it began.
LiveArrives(got, had, limit) ==
  /\ IF got # {} THEN Keep(Stamped(got)) /\ Answer("fetch", memory', limit)
               ELSE UNCHANGED <<memory, stored>> /\ Answer("kept", had, limit)
  /\ UNCHANGED <<file, nextFetch>>

Arrives(got, had, limit) ==
  CASE feed = "board"             -> BoardArrives(got, limit)
    [] feed \in {"stats", "props"} -> StoreAll(got, limit)
    [] feed = "projections"       -> StoreAllInMemory(got, limit)
    [] feed = "injuries"          -> InjuriesArrive(got, limit)
    [] feed = "live"              -> LiveArrives(got, had, limit)

Leave(r) ==
  /\ reader' = [reader EXCEPT ![r] = Idle]
  /\ queue' = IF feed = "live" THEN queue ELSE Tail(queue)

Fetched(r) ==
  /\ reader[r].pc = "fetching"
  /\ \E got \in Downloads : Arrives(got, reader[r].had, reader[r].limit) /\ failed' = (got = {})
  /\ Leave(r)
  /\ UNCHANGED <<feed, now>>

\* A DraftKings answer of another shape raises out of the nine calls; lines()
\* goes back to the file it read before it waited.
FetchRaises(r) ==
  /\ feed = "props" /\ reader[r].pc = "fetching"
  /\ memory' = IF reader[r].had = None THEN memory ELSE reader[r].had
  /\ Answer("kept", reader[r].had, reader[r].limit)
  /\ failed' = TRUE
  /\ Leave(r)
  /\ UNCHANGED <<feed, now, file, nextFetch, stored>>

----------------------------------------------------------------------------
Tick ==
  /\ now < MaxTime
  /\ now' = now + 1
  /\ answer' = NoAnswer
  /\ UNCHANGED <<feed, memory, file, nextFetch, queue, reader, failed, stored>>

\* A restart keeps the file only.
Restart ==
  /\ memory' = None /\ nextFetch' = 0 /\ queue' = <<>> /\ stored' = Never
  /\ reader' = [r \in Readers |-> Idle]
  /\ failed' = FALSE /\ answer' = NoAnswer
  /\ UNCHANGED <<feed, now, file>>

Next ==
  \/ \E r \in Readers : Read(r) \/ Locked(r) \/ Fetched(r) \/ FetchRaises(r)
  \/ Tick
  \/ Restart

Spec == Init /\ [][Next]_vars

----------------------------------------------------------------------------
\* What a board says of a season's schedule: rest[t] is the week t does not
\* play, 0 if it plays in all of them.  A call that failed, or a week without
\* events, leaves no slate; a known team missing from a slate is on its bye.

Slate(rest, week) == {t \in Teams : rest[t] # week}
AllWeeks(rest, got) == Parts
Weeks(rest, got) == {w \in got : Slate(rest, w) # {}}
Seen(rest, got, week) == IF week \in got THEN Slate(rest, week) ELSE {}
Known(rest, got) == UNION {Seen(rest, got, w) : w \in Weeks(rest, got)}

ByeWeek(rest, got, t) ==
  LET off == {w \in Weeks(rest, got) : t \notin Seen(rest, got, w)}
  IN IF t \notin Known(rest, got) \/ off = {} THEN 0
     ELSE CHOOSE w \in off : \A v \in off : w <= v

----------------------------------------------------------------------------
\* Reports of up to two entries about two athletes.
Entry(dates) ==
  [athlete : {"a", "b"}, name : {"n"}, fantasy : {"Out", "-"},
   status : {Cleared, "Questionable", "Day-To-Day"}, date : dates]
Entries(dates) ==
  {<<>>} \cup {<<e>> : e \in Entry(dates)} \cup {<<e, f>> : e, f \in Entry(dates)}

(* What a read hands out as current is no older than the lifetime asked for: *)
(* for props, older by the wait for the lock, the clock having been read     *)
(* before it (props.py:371); for projections twice as old, their file being  *)
(* stamped anew by every read (sleeper_stats.py:343).  The injury report may *)
(* be older while its downloads fail (injuries.py:216).                      *)
FreshEnough ==
  answer.how \in {"memory", "file"} =>
    \/ answer.age - (IF feed = "props" THEN answer.waited ELSE 0)
         < (IF feed = "projections" THEN 2 ELSE 1) * answer.limit
    \/ feed = "injuries" /\ failed

(* A board never sends a team on a bye it does not have, whichever of its    *)
(* weekly calls failed and whatever the schedule (espn.py:4).                *)
ByesAreReal ==
  feed = "board" /\ answer.how # "none" =>
    \A rest \in [Teams -> Parts \cup {0}] :
      \A t \in Teams : ByeWeek(rest, answer.has, t) \in {0, rest[t]}

(* Of all the entries of a report that has just arrived, those about a       *)
(* player decide, the newest of them, and only against older news of         *)
(* Sleeper's; a player known by name only is left alone when two athletes    *)
(* share it (injuries.py:10).  "a" and "b" share theirs; an entry without a  *)
(* date, which replaces whatever came before it, is left out.                *)
NewestReportWins ==
  feed = "injuries" /\ answer.how = "kept" /\ nextFetch = now + Ttl /\ queue = <<>> /\ now <= 4 =>
    \A label \in {Healthy, "Questionable"}, news \in {NoDate, 1}, espn \in {"a", Nobody} :
      LET player == [espn |-> espn, name |-> "n", label |-> label, news |-> news]
      IN \A entries \in Entries(0..now) :
           LET about == IF espn = "a" THEN {"a"}
                        ELSE {x \in {"a", "b"} : SaidOf(x, entries, now, Retry) # {}}
           IN Overlay(player, Reports(entries, now, Retry)) =
                IF about = {"a"} THEN Newest("a", player, entries, now, Retry)
                ELSE IF about = {"b"} THEN Newest("b", player, entries, now, Retry)
                ELSE label

(* Readers that find the copy out of date together cause one download: the   *)
(* next one begins a lifetime after the last was stored, or never earlier    *)
(* than a retry interval (espn.py:508, sleeper_stats.py:257, props.py:370).  *)
FetchesApart ==
  [][\A r \in Readers :
       /\ reader[r].pc # "fetching" /\ reader'[r].pc = "fetching"
       /\ feed # "live" /\ stored # Never
       => now - stored >= Ttl /\ \A q \in Readers : reader[q].pc # "fetching"]_vars

(* Of the board, the projections, the injuries and the live scores, a        *)
(* download that brings nothing takes nothing from the file; and the board   *)
(* falls back on that file, the injuries on the last report and the live     *)
(* scores on what they were when the look began (espn.py:3, injuries.py:188, *)
(* espn.py:492).  A fuller board in memory whose file could not be written   *)
(* is given up for the file; projections answer with nothing; statistics and *)
(* props are saved empty (sleeper_stats.py:260, props.py:383).               *)
FailureTakesNothing ==
  [][\A r \in Readers :
       /\ feed \in {"board", "projections", "injuries", "live"}
       /\ reader[r].pc = "fetching" /\ reader'[r].pc = "idle"
       /\ failed' /\ answer'.how # "none"
       => LET had == CASE feed = "board"       -> file
                       [] feed = "projections" -> None
                       [] feed = "injuries"    -> memory
                       [] feed = "live"        -> reader[r].had
          IN had.has \subseteq answer'.has /\ file.has \subseteq file'.has]_vars
============================================================================
