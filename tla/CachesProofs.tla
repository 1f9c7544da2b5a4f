---------------------------- MODULE CachesProofs ----------------------------
(***************************************************************************)
(* Proofs about the two ways the backend keeps what it downloads: the six  *)
(* feeds of NFL data (Feeds), for any readers, weeks, lifetimes and        *)
(* failures, and the player catalogue (PlayerCatalogue), for any callers,  *)
(* time to live and waits. The first half shows of the feeds that what is  *)
(* handed out as current is fresh, that a download that brings nothing     *)
(* takes nothing away, that downloads keep apart, that a bye is a real one *)
(* and that of an injury report the newest entry decides; the second how   *)
(* old a catalogue can be and how often it is fetched.                     *)
(***************************************************************************)
EXTENDS Feeds, PlayerCatalogue, WellFoundedInduction, TLAPS

-----------------------------------------------------------------------------
(* The invariant.                                                          *)

Held == Copies \cup {None}
Reading ==
  [pc : {"idle", "waiting", "fetching"}, since : Nat, limit : {Ttl, PastTtl}, had : Held]

Types ==
  /\ feed \in AllFeeds /\ now \in Nat
  /\ memory \in Held /\ file \in Held
  /\ nextFetch \in Nat /\ queue \in Seq(Readers)
  /\ reader \in [Readers -> Reading]
  /\ failed \in BOOLEAN /\ stored \in Nat \cup {Never}
  /\ answer.has \subseteq Parts

\* A copy is what was downloaded when its stamp says.
Stamps(copy) == copy.at = copy.from /\ copy.from <= now

\* Every copy but the projections in memory is; those say when they were read, less
\* than a lifetime after the download.
Honest ==
  /\ Stamps(file)
  /\ IF feed = "projections"
     THEN memory.from <= memory.at /\ memory.at <= now /\ memory.at - memory.from < Ttl
     ELSE Stamps(memory)
  /\ \A r \in Readers :
       Stamps(reader[r].had) /\ reader[r].since <= now /\ reader[r].limit \in Limits

\* The injury client's alarm goes off a lifetime after the report it holds, unless a
\* download failed since.
Alarm ==
  feed = "injuries" /\ ~failed =>
    nextFetch <= IF memory = None THEN 0 ELSE memory.from + Ttl

\* Who downloads has the lock.
LockHeld ==
  feed # "live" =>
    \A r \in Readers : reader[r].pc = "fetching" => queue # <<>> /\ Head(queue) = r

\* A lifetime has gone by since something was stored, or what is in memory is as new.
Spent == stored = Never \/ now - stored >= Ttl
Apart ==
  feed # "live" =>
    /\ \A r \in Readers : reader[r].pc = "fetching" => Spent
    /\ Spent \/ IF feed = "injuries" THEN nextFetch >= stored + Ttl ELSE memory.at >= stored

FeedInv == Types /\ Honest /\ Alarm /\ LockHeld /\ Apart

-----------------------------------------------------------------------------
(* Copies and lifetimes.                                                   *)

LEMMA Lifetimes ==
  /\ Ttl \in Nat /\ PastTtl \in Nat /\ Retry \in Nat
  /\ 0 < Ttl /\ Ttl <= PastTtl /\ 0 < Retry /\ Retry <= Ttl
  /\ \A limit \in Limits : limit \in {Ttl, PastTtl} /\ limit \in Nat /\ Ttl <= limit
BY FeedConstants DEF Limits

LEMMA HeldShape ==
  ASSUME NEW copy \in Held
  PROVE  /\ copy.at \in Int /\ copy.from \in Int /\ copy.has \subseteq Parts
         /\ copy = None => copy.at = Never /\ copy.from = Never /\ copy.has = {}
         /\ copy # None => copy \in Copies /\ copy.at \in Nat /\ copy.from \in Nat
BY DEF Held, Copies, None, Never

LEMMA NoneHeld == None \in Held /\ None.at = Never /\ None.from = Never
BY DEF Held, None

LEMMA IdleReads == Idle \in Reading
BY FeedConstants, NoneHeld DEF Idle, Reading

LEMMA StampedHeld ==
  ASSUME Types, NEW got \in SUBSET Parts
  PROVE  /\ Stamped(got) \in Copies /\ Stamped(got) # None
         /\ Stamped(got).at = now /\ Stamped(got).from = now /\ Stamped(got).has = got
<1>1. Stamped(got) \in Copies /\ Stamped(got).at = now /\ Stamped(got).from = now /\ Stamped(got).has = got
  BY DEF Stamped, Copies, Types
<1>2. Stamped(got) # None
  BY <1>1, NoneHeld DEF Types, Never
<1> QED BY <1>1, <1>2

\* What is taken from the file is the file's, whatever its stamp becomes.
LEMMA FileTaken ==
  ASSUME Types, file # None
  PROVE  /\ FromFile \in Copies /\ FromFile.from = file.from /\ FromFile.has = file.has
         /\ FromFile.at = IF feed = "projections" THEN now ELSE file.at
BY HeldShape DEF Types, FromFile, StampAsRead, Copies

LEMMA Placed ==
  ASSUME Types, NEW r \in Readers, NEW x \in Reading, reader' = [reader EXCEPT ![r] = x]
  PROVE  /\ reader' \in [Readers -> Reading] /\ reader'[r] = x
         /\ \A q \in Readers : q # r => reader'[q] = reader[q]
BY DEF Types

\* What an answer is made of.
LEMMA Answered ==
  ASSUME NEW waited, NEW how, NEW copy, NEW limit, AnswerAfter(waited, how, copy, limit)
  PROVE  /\ answer'.how = how /\ answer'.waited = waited /\ answer'.limit = limit
         /\ answer'.has = copy.has /\ answer'.age = IF copy = None THEN 0 ELSE now - copy.from
BY DEF AnswerAfter

LEMMA NothingAnswered ==
  ASSUME answer' = NoAnswer
  PROVE  answer'.how = "none" /\ answer'.has = {}
BY DEF NoAnswer

-----------------------------------------------------------------------------
(* What a look finds.                                                      *)

\* A look that does not find memory current comes a lifetime after the last download.
LEMMA Missed ==
  ASSUME FeedInv, feed # "live", NEW limit \in Limits, NEW at \in Nat, at <= now, ~InMemory(limit, at)
  PROVE  Spent
<1> SUFFICES ASSUME stored \in Nat, now - stored < Ttl PROVE FALSE
  BY Lifetimes DEF FeedInv, Types, Spent
<1>1. now \in Nat /\ nextFetch \in Nat /\ memory \in Held
  BY DEF FeedInv, Types
<1>2. IF feed = "injuries" THEN nextFetch >= stored + Ttl ELSE memory.at >= stored
  <2>1. ~Spent
    BY <1>1, Lifetimes DEF Spent, Never
  <2> QED BY <2>1 DEF FeedInv, Apart
<1>3. CASE feed = "injuries"
  BY <1>1, <1>2, <1>3, Lifetimes DEF InMemory
<1>4. CASE feed # "injuries"
  <2>1. memory # None /\ memory.at \in Nat
    BY <1>1, <1>2, <1>4, HeldShape DEF Never
  <2>2. at - memory.at >= limit
    BY <1>4, <2>1, Lifetimes DEF InMemory, Fresh
  <2> QED BY <1>1, <1>2, <1>4, <2>1, <2>2, Lifetimes
<1> QED BY <1>3, <1>4

\* How old the copy in memory is when a look at the instant at finds it current.
Age(copy) == IF copy = None THEN 0 ELSE now - copy.from
Lifetime(limit) == (IF feed = "projections" THEN 2 ELSE 1) * limit

LEMMA Found ==
  ASSUME FeedInv, NEW limit \in Limits, NEW at \in Nat, at <= now, InMemory(limit, at)
  PROVE  \/ Age(memory) - (now - at) < Lifetime(limit)
         \/ feed = "injuries" /\ failed
<1>1. now \in Nat /\ nextFetch \in Nat /\ memory \in Held /\ failed \in BOOLEAN
  BY DEF FeedInv, Types
<1>2. CASE feed = "injuries"
  <2> SUFFICES ASSUME ~failed PROVE Age(memory) - (now - at) < Lifetime(limit)
    BY <1>2
  <2>1. at < nextFetch /\ limit = Ttl
    BY <1>2 DEF InMemory, Limits
  <2>2. nextFetch <= IF memory = None THEN 0 ELSE memory.from + Ttl
    BY <1>2 DEF FeedInv, Alarm
  <2>3. memory # None /\ memory.from \in Nat
    BY <1>1, <2>1, <2>2, HeldShape
  <2>4. Age(memory) = now - memory.from /\ Lifetime(limit) = Ttl
    BY <1>2, <2>1, <2>3, Lifetimes DEF Age, Lifetime
  <2> QED BY <1>1, <2>1, <2>2, <2>3, <2>4, Lifetimes
<1>3. CASE feed # "injuries"
  <2>1. memory # None /\ at - memory.at < limit
    BY <1>3 DEF InMemory, Fresh
  <2>2. memory.at \in Nat /\ memory.from \in Nat /\ Age(memory) = now - memory.from
    BY <1>1, <2>1, HeldShape DEF Age
  <2>3. CASE feed = "projections"
    <3>1. memory.at - memory.from < Ttl /\ Lifetime(limit) = 2 * limit
      BY <2>3 DEF FeedInv, Honest, Lifetime
    <3> QED BY <1>1, <2>1, <2>2, <3>1, Lifetimes
  <2>4. CASE feed # "projections"
    <3>1. memory.at = memory.from /\ Lifetime(limit) = limit
      BY <2>4, Lifetimes DEF FeedInv, Honest, Stamps, Lifetime
    <3> QED BY <1>1, <2>1, <2>2, <3>1, Lifetimes
  <2> QED BY <2>3, <2>4
<1> QED BY <1>2, <1>3

\* A file that is current is no older than it says.
LEMMA FoundOnDisk ==
  ASSUME FeedInv, NEW limit \in Limits, OnDisk(limit)
  PROVE  /\ file # None /\ Age(FromFile) < Lifetime(limit)
         /\ feed = "projections" => now - file.from < Ttl
         /\ HasFile
<1>1. HasFile /\ file # None /\ now - file.at < limit /\ file.at = file.from /\ file.at \in Nat /\ now \in Nat
  BY HeldShape DEF FeedInv, OnDisk, Fresh, Honest, Stamps, Types
<1>2. FromFile # None /\ FromFile.from = file.from
  BY <1>1, FileTaken, NoneHeld DEF FeedInv, Copies, Never
<1>3. Age(FromFile) = now - file.from
  BY <1>2 DEF Age
<1>4. Lifetime(limit) >= limit
  BY Lifetimes DEF Lifetime
<1>5. Lifetime(limit) \in Nat
  BY Lifetimes DEF Lifetime
<1>6. feed = "projections" => limit = Ttl
  BY DEF Limits
<1> QED BY <1>1, <1>3, <1>4, <1>5, <1>6, Lifetimes

-----------------------------------------------------------------------------
(* The invariant is kept, and what is handed out is fresh.                 *)

\* A step that leaves the clock, the copies and the downloads alone.
LEMMA CopiesStay ==
  ASSUME FeedInv, NEW r \in Readers, NEW x \in Reading,
         reader' = [reader EXCEPT ![r] = x], queue' \in Seq(Readers),
         UNCHANGED <<feed, now, file, nextFetch, failed, stored>>, memory' \in Held,
         answer'.has \subseteq Parts,
         Stamps(x.had), x.since <= now, x.limit \in Limits,
         x.pc = "fetching" /\ feed # "live" => Spent,
         memory' = memory \/ (HasFile /\ file # None /\ Spent /\ memory' = FromFile
                              /\ (feed = "projections" => now - file.from < Ttl)),
         feed # "live" =>
           \A q \in Readers : reader'[q].pc = "fetching" => queue' # <<>> /\ Head(queue') = q
  PROVE  FeedInv'
<1>1. reader' \in [Readers -> Reading] /\ reader'[r] = x /\ \A q \in Readers : q # r => reader'[q] = reader[q]
  BY Placed DEF FeedInv
<1>2. Types'
  BY <1>1 DEF FeedInv, Types
<1>3. Honest'
  <2>1. Stamps(file)' /\ Limits' = Limits
    BY DEF FeedInv, Honest, Stamps, Limits
  <2>2. \A q \in Readers : Stamps(reader[q].had)' /\ reader'[q].since <= now' /\ reader'[q].limit \in Limits'
    BY <1>1, <2>1 DEF FeedInv, Honest, Stamps
  <2>3. CASE memory' = memory
    BY <2>1, <2>2, <2>3 DEF FeedInv, Honest, Stamps
  <2>4. CASE file # None /\ memory' = FromFile /\ (feed = "projections" => now - file.from < Ttl)
    <3>1. memory'.from = file.from /\ memory'.at = IF feed = "projections" THEN now ELSE file.at
      BY <2>4, FileTaken DEF FeedInv
    <3>2. file.at = file.from /\ file.from <= now /\ now \in Nat /\ file.from \in Nat
      BY <2>4, HeldShape DEF FeedInv, Types, Honest, Stamps
    <3>3. CASE feed = "projections"
      BY <2>1, <2>2, <2>4, <3>1, <3>2, <3>3 DEF Honest
    <3>4. CASE feed # "projections"
      <4>1. Stamps(memory)'
        BY <3>1, <3>2, <3>4 DEF Stamps
      <4> QED BY <2>1, <2>2, <3>4, <4>1 DEF Honest
    <3> QED BY <3>3, <3>4
  <2> QED BY <2>3, <2>4
<1>4. Alarm'
  BY DEF FeedInv, Alarm, HasFile
<1>5. LockHeld'
  BY DEF LockHeld
<1>6. Apart'
  <2>1. Spent' = Spent
    BY DEF Spent
  <2> SUFFICES ASSUME feed # "live" PROVE Apart'
    BY DEF Apart
  <2>2. \A q \in Readers : reader'[q].pc = "fetching" => Spent
    BY <1>1 DEF FeedInv, Apart
  <2>3. Spent \/ memory' = memory
    OBVIOUS
  <2> QED BY <2>1, <2>2, <2>3 DEF FeedInv, Apart
<1> QED BY <1>2, <1>3, <1>4, <1>5, <1>6 DEF FeedInv

\* What a step hands out as current, it hands out fresh.
LEMMA HandedOut ==
  ASSUME NEW waited, NEW how, NEW copy, NEW limit, AnswerAfter(waited, how, copy, limit),
         UNCHANGED feed,
         \/ Age(copy) - (IF feed = "props" THEN waited ELSE 0) < Lifetime(limit)
         \/ feed = "injuries" /\ failed'
         \/ how \notin {"memory", "file"}
  PROVE  FreshEnough'
BY Answered DEF FreshEnough, Age, Lifetime

LEMMA NothingHandedOut ==
  ASSUME answer' = NoAnswer
  PROVE  FreshEnough' /\ answer'.has \subseteq Parts
BY NothingAnswered DEF FreshEnough

LEMMA ReadKeeps ==
  ASSUME FeedInv, NEW r \in Readers, Read(r)
  PROVE  FeedInv' /\ FreshEnough'
<1> USE DEF Read
<1>1. PICK limit \in Limits : ReadMemory(r, limit) \/ ReadFile(r, limit) \/ WaitForLock(r, limit)
  OBVIOUS
<1>2. now \in Nat /\ memory \in Held /\ file \in Held /\ queue \in Seq(Readers)
      /\ reader \in [Readers -> Reading] /\ Types
  BY DEF FeedInv, Types
<1>3. UNCHANGED <<feed, now, file, nextFetch, failed, stored>>
  OBVIOUS
<1>4. ASSUME reader' = reader, queue' = queue, memory' \in Held, answer'.has \subseteq Parts,
             memory' = memory \/ (HasFile /\ file # None /\ Spent /\ memory' = FromFile
                              /\ (feed = "projections" => now - file.from < Ttl))
      PROVE  FeedInv'
  <2>1. reader' = [reader EXCEPT ![r] = reader[r]] /\ reader[r] \in Reading
    BY <1>2, <1>4
  <2>2. Stamps(reader[r].had) /\ reader[r].since <= now /\ reader[r].limit \in Limits
    BY DEF FeedInv, Honest
  <2>3. reader[r].pc = "fetching" /\ feed # "live" => Spent
    BY DEF FeedInv, Apart
  <2>4. feed # "live" =>
          \A q \in Readers : reader'[q].pc = "fetching" => queue' # <<>> /\ Head(queue') = q
    BY <1>4 DEF FeedInv, LockHeld
  <2> HIDE DEF Read
  <2> QED BY <1>2, <1>3, <1>4, <2>1, <2>2, <2>3, <2>4, CopiesStay
<1>5. CASE ReadMemory(r, limit)
  <2>1. UNCHANGED <<memory, queue, reader>> /\ AnswerAfter(0, "memory", memory, limit) /\ InMemory(limit, now)
    BY <1>5 DEF ReadMemory, Answer
  <2>2. answer'.has \subseteq Parts
    BY <1>2, <2>1, Answered, HeldShape
  <2>3. Age(memory) - 0 < Lifetime(limit) \/ (feed = "injuries" /\ failed)
    <3>1. Age(memory) - (now - now) < Lifetime(limit) \/ (feed = "injuries" /\ failed)
      BY <1>2, <2>1, Found
    <3> QED BY <1>2, <3>1
  <2>4. FreshEnough'
    BY <1>3, <2>1, <2>3, HandedOut
  <2> QED BY <1>2, <1>4, <2>1, <2>2, <2>4
<1>6. CASE ReadFile(r, limit)
  <2>1. /\ UNCHANGED <<queue, reader>> /\ memory' = FromFile /\ ~InMemory(limit, now) /\ OnDisk(limit)
        /\ AnswerAfter(0, "file", memory', limit)
    BY <1>6 DEF ReadFile, Answer
  <2>2. file # None /\ Age(FromFile) < Lifetime(limit) /\ HasFile
        /\ (feed = "projections" => now - file.from < Ttl)
    BY <2>1, FoundOnDisk
  <2>3. memory' \in Held /\ memory'.has \subseteq Parts /\ Age(memory') \in Int /\ feed # "live"
    <3>1. FromFile \in Copies
      BY <1>2, <2>2, FileTaken
    <3>2. FromFile \in Held
      BY <3>1 DEF Held
    <3>3. Age(FromFile) \in Int
      BY <1>2, <3>2, HeldShape DEF Age
    <3> QED BY <2>1, <2>2, <3>2, <3>3, HeldShape DEF HasFile, Age
  <2>4. Spent
    BY <1>2, <2>1, <2>3, Missed
  <2>5. answer'.has \subseteq Parts
    BY <2>1, <2>3, Answered
  <2>6. FreshEnough'
    <3>1. Age(memory') - 0 < Lifetime(limit) /\ Age(memory') \in Int
      BY <2>1, <2>2, <2>3, Lifetimes DEF Age
    <3> QED BY <1>3, <2>1, <3>1, HandedOut
  <2>7. FeedInv'
    BY <1>2, <1>4, <2>1, <2>2, <2>3, <2>4, <2>5
  <2> QED BY <2>6, <2>7
<1>7. CASE WaitForLock(r, limit)
  <2> DEFINE x == [pc |-> IF feed = "live" THEN "fetching" ELSE "waiting",
                   since |-> now, limit |-> limit, had |-> IF HasFile THEN file ELSE memory]
  <2>1. /\ reader' = [reader EXCEPT ![r] = x]
        /\ queue' = IF feed = "live" THEN queue ELSE Append(queue, r)
        /\ answer' = NoAnswer /\ memory' = memory
    BY <1>7 DEF WaitForLock
  <2>2. x \in Reading
    BY <1>2, Lifetimes DEF Reading
  <2>3. Stamps(x.had)
    <3>1. Stamps(file) /\ (feed = "projections" \/ Stamps(memory))
      BY DEF FeedInv, Honest
    <3> QED BY <3>1 DEF HasFile
  <2>4. x.since <= now /\ x.limit \in Limits /\ ~(x.pc = "fetching" /\ feed # "live")
    BY <1>2
  <2>5. queue' \in Seq(Readers)
    BY <1>2, <2>1
  <2>6. ASSUME feed # "live", NEW q \in Readers, reader'[q].pc = "fetching"
        PROVE  queue' # <<>> /\ Head(queue') = q
    <3>1. q # r /\ reader'[q] = reader[q]
      BY <1>2, <2>1, <2>2, <2>4, <2>6, Placed
    <3>2. queue # <<>> /\ Head(queue) = q
      BY <2>6, <3>1 DEF FeedInv, LockHeld
    <3> QED BY <1>2, <2>1, <2>6, <3>2
  <2>7. FeedInv'
    <3> HIDE DEF x, Read
    <3> QED BY <1>2, <1>3, <2>1, <2>2, <2>3, <2>4, <2>5, <2>6, NothingHandedOut, CopiesStay
  <2> QED BY <2>1, <2>7, NothingHandedOut
<1> QED BY <1>1, <1>5, <1>6, <1>7

LEMMA LockedKeeps ==
  ASSUME FeedInv, NEW r \in Readers, Locked(r)
  PROVE  FeedInv' /\ FreshEnough'
<1> DEFINE limit == reader[r].limit
           at == IF feed = "props" THEN reader[r].since ELSE now
           again == feed = "board" /\ OnDisk(limit)
<1>1. now \in Nat /\ memory \in Held /\ file \in Held /\ queue \in Seq(Readers)
      /\ reader \in [Readers -> Reading] /\ reader[r] \in Reading /\ Types
  BY DEF FeedInv, Types
<1>2. UNCHANGED <<feed, now, file, nextFetch, failed, stored>>
  BY DEF Locked
<1>3. queue # <<>> /\ Head(queue) = r /\ reader[r].pc = "waiting"
  BY DEF Locked
<1>4. limit \in Limits /\ at \in Nat /\ at <= now /\ Stamps(reader[r].had) /\ reader[r].since \in Nat
      /\ reader[r].since <= now
  BY <1>1 DEF FeedInv, Honest, Reading
<1>5. feed # "live" =>
        \A q \in Readers : reader[q].pc = "fetching" => queue # <<>> /\ Head(queue) = q
  BY DEF FeedInv, LockHeld
<1>6. Tail(queue) \in Seq(Readers)
  BY <1>1, <1>3
<1>7. ASSUME Rechecked(r) \/ again, memory' = IF Rechecked(r) THEN memory ELSE FromFile,
             AnswerAfter(now - reader[r].since, "memory", memory', limit),
             reader' = [reader EXCEPT ![r] = Idle], queue' = Tail(queue)
      PROVE  FeedInv' /\ FreshEnough'
  <2>1. ASSUME feed # "live", NEW q \in Readers, reader'[q].pc = "fetching"
        PROVE  queue' # <<>> /\ Head(queue') = q
    <3>1. q # r /\ reader[q].pc = "fetching"
      BY <1>1, <1>7, <2>1, IdleReads, Placed DEF Idle
    <3> QED BY <1>3, <1>5, <2>1, <3>1
  <2>2. Stamps(Idle.had) /\ Idle.since <= now /\ Idle.limit \in Limits /\ Idle.pc # "fetching"
    BY <1>1, NoneHeld DEF Idle, Stamps, Never, Limits
  <2>3. ASSUME ~Rechecked(r)
        PROVE  HasFile /\ file # None /\ Spent /\ memory' = FromFile
               /\ feed = "board" /\ Age(FromFile) < Lifetime(limit)
    <3>1. again /\ memory' = FromFile
      BY <1>7, <2>3
    <3>2. ~InMemory(limit, at) /\ feed # "live"
      BY <2>3, <3>1 DEF Rechecked
    <3>3. Spent
      BY <1>1, <1>4, <3>2, Missed
    <3> QED BY <1>4, <3>1, <3>3, FoundOnDisk
  <2>4. memory' \in Held
    <3>1. CASE Rechecked(r)
      BY <1>1, <1>7, <3>1
    <3>2. CASE ~Rechecked(r)
      BY <1>1, <2>3, <3>2, FileTaken DEF Held
    <3> QED BY <3>1, <3>2
  <2>5. answer'.has \subseteq Parts
    BY <1>7, <2>4, Answered, HeldShape
  <2>6. FeedInv'
    <3>1. memory' = memory \/ (HasFile /\ file # None /\ Spent /\ memory' = FromFile
                               /\ (feed = "projections" => now - file.from < Ttl))
      BY <1>7, <2>3
    <3> HIDE DEF limit, at, again
    <3> QED BY <1>1, <1>2, <1>6, <1>7, <2>1, <2>2, <2>4, <2>5, <3>1, IdleReads, CopiesStay
  <2>7. \/ Age(memory') - (IF feed = "props" THEN now - reader[r].since ELSE 0) < Lifetime(limit)
        \/ feed = "injuries" /\ failed
    <3>1. CASE Rechecked(r)
      <4>1. InMemory(limit, at) /\ memory' = memory
        BY <1>7, <3>1 DEF Rechecked
      <4>2. Age(memory) - (now - at) < Lifetime(limit) \/ (feed = "injuries" /\ failed)
        <5> HIDE DEF limit, at
        <5> QED BY <1>4, <4>1, Found
      <4> QED BY <1>1, <4>1, <4>2
    <3>2. CASE ~Rechecked(r)
      <4>1. memory' = FromFile /\ feed = "board" /\ Age(memory') < Lifetime(limit)
        BY <2>3, <3>2
      <4>2. Age(memory') \in Int
        BY <1>1, <2>4, HeldShape DEF Age
      <4> QED BY <4>1, <4>2
    <3> QED BY <3>1, <3>2
  <2>8. FreshEnough'
    BY <1>2, <1>7, <2>7, HandedOut
  <2> QED BY <2>6, <2>8
<1>8. ASSUME ~Rechecked(r), reader' = [reader EXCEPT ![r].pc = "fetching"], answer' = NoAnswer,
             UNCHANGED <<memory, queue>>
      PROVE  FeedInv' /\ FreshEnough'
  <2> DEFINE x == [reader[r] EXCEPT !.pc = "fetching"]
  <2>1. reader' = [reader EXCEPT ![r] = x] /\ x \in Reading
    BY <1>1, <1>8 DEF Reading
  <2>2. Stamps(x.had) /\ x.since <= now /\ x.limit \in Limits
    BY <1>1, <1>4 DEF Reading
  <2>3. feed # "live" => Spent
    <3>1. ~InMemory(limit, at)
      BY <1>8 DEF Rechecked
    <3> HIDE DEF limit, at
    <3> QED BY <1>4, <3>1, Missed
  <2>4. ASSUME feed # "live", NEW q \in Readers, reader'[q].pc = "fetching"
        PROVE  queue' # <<>> /\ Head(queue') = q
    <3>1. q = r \/ reader'[q] = reader[q]
      BY <1>1, <2>1, Placed
    <3> QED BY <1>3, <1>5, <1>8, <2>4, <3>1
  <2>5. FeedInv'
    <3> HIDE DEF x, limit, at, again
    <3> QED BY <1>1, <1>2, <1>8, <2>1, <2>2, <2>3, <2>4, NothingHandedOut, CopiesStay
  <2> QED BY <1>8, <2>5, NothingHandedOut
<1> QED BY <1>7, <1>8 DEF Locked

\* The end of a download: its reader leaves the lock, which nobody else who downloads held.
LEMMA DownloadEnds ==
  ASSUME FeedInv, NEW r \in Readers, reader[r].pc = "fetching", Leave(r), UNCHANGED <<feed, now>>,
         memory' \in Held, file' \in {file} \cup Copies, nextFetch' \in Nat,
         failed' \in BOOLEAN, stored' \in {stored, now}, answer'.has \subseteq Parts,
         Stamps(file'), memory' = memory \/ Stamps(memory'),
         feed = "injuries" /\ ~failed' =>
           nextFetch' <= IF memory' = None THEN 0 ELSE memory'.from + Ttl,
         stored' # stored =>
           IF feed = "injuries" THEN nextFetch' >= now + Ttl ELSE memory'.at >= now
  PROVE  FeedInv'
<1>1. now \in Nat /\ memory \in Held /\ file \in Held /\ queue \in Seq(Readers)
      /\ reader \in [Readers -> Reading] /\ Types /\ stored \in Nat \cup {Never}
  BY DEF FeedInv, Types
<1>2. reader' \in [Readers -> Reading] /\ reader'[r] = Idle /\ \A q \in Readers : q # r => reader'[q] = reader[q]
  BY <1>1, IdleReads, Placed DEF Leave
<1>3. feed # "live" => queue # <<>> /\ Head(queue) = r
  BY DEF FeedInv, LockHeld
<1>4. \A q \in Readers : feed # "live" => reader'[q].pc # "fetching"
  BY <1>2, <1>3 DEF FeedInv, LockHeld, Idle
<1>5. Types'
  <2>1. queue' \in Seq(Readers)
    BY <1>1, <1>3 DEF Leave
  <2> QED BY <1>1, <1>2, <2>1 DEF Types, Held
<1>6. Honest'
  <2>1. Limits' = Limits
    BY DEF Limits
  <2>2. \A q \in Readers : Stamps(reader[q].had) /\ reader[q].since <= now /\ reader[q].limit \in Limits
    BY DEF FeedInv, Honest
  <2>3. Stamps(Idle.had) /\ Idle.since <= now /\ Idle.limit \in Limits
    BY <1>1, NoneHeld DEF Idle, Stamps, Never, Limits
  <2>4. \A q \in Readers : Stamps(reader[q].had)' /\ reader'[q].since <= now' /\ reader'[q].limit \in Limits'
    BY <1>2, <2>1, <2>2, <2>3 DEF Stamps
  <2>5. IF feed = "projections"
        THEN memory'.from <= memory'.at /\ memory'.at <= now /\ memory'.at - memory'.from < Ttl
        ELSE Stamps(memory')
    <3>1. CASE memory' = memory
      BY <3>1 DEF FeedInv, Honest
    <3>2. CASE Stamps(memory')
      <4>1. memory'.at \in Int /\ memory'.from \in Int
        BY HeldShape
      <4> QED BY <1>1, <3>2, <4>1, Lifetimes DEF Stamps
    <3> QED BY <3>1, <3>2
  <2>6. CASE feed = "projections"
    BY <2>4, <2>5, <2>6 DEF Honest, Stamps
  <2>7. CASE feed # "projections"
    BY <2>4, <2>5, <2>7 DEF Honest, Stamps
  <2> QED BY <2>6, <2>7
<1>7. Alarm'
  BY DEF Alarm
<1>8. LockHeld'
  BY <1>4 DEF LockHeld
<1>9. Apart'
  <2> SUFFICES ASSUME feed # "live" PROVE Apart'
    BY DEF Apart
  <2>1. CASE stored' = stored
    <3>1. Spent
      BY DEF FeedInv, Apart
    <3>2. Spent'
      BY <2>1, <3>1 DEF Spent
    <3> QED BY <1>4, <3>2 DEF Apart
  <2>2. CASE stored' = now /\ stored' # stored
    BY <1>4, <2>2 DEF Apart
  <2> QED BY <2>1, <2>2
<1> QED BY <1>5, <1>6, <1>7, <1>8, <1>9 DEF FeedInv

LEMMA FetchedKeeps ==
  ASSUME FeedInv, NEW r \in Readers, Fetched(r)
  PROVE  FeedInv' /\ FreshEnough'
<1> DEFINE had == reader[r].had
           limit == reader[r].limit
<1>1. PICK got \in Downloads : Arrives(got, had, limit) /\ failed' = (got = {})
  BY DEF Fetched
<1>2. reader[r].pc = "fetching" /\ Leave(r) /\ UNCHANGED <<feed, now>>
  BY DEF Fetched
<1>3. /\ now \in Nat /\ memory \in Held /\ file \in Held /\ Types /\ feed \in AllFeeds
      /\ had \in Held /\ nextFetch \in Nat /\ Stamps(file) /\ stored \in Nat \cup {Never}
  BY DEF FeedInv, Types, Honest, Reading
<1>4. got \subseteq Parts /\ failed' \in BOOLEAN
  BY <1>1 DEF Downloads
<1>5. /\ Stamped(got) \in Copies /\ Stamped(got) \in Held /\ Stamped(got) # None /\ Stamped(got).at = now
      /\ Stamped(got).from = now /\ Stamps(Stamped(got))
  <2>1. Stamped(got) \in Copies /\ Stamped(got) # None /\ Stamped(got).at = now /\ Stamped(got).from = now
    BY <1>3, <1>4, StampedHeld
  <2> QED BY <1>3, <2>1 DEF Held, Stamps
<1> DEFINE Kept(how, copy) == AnswerAfter(0, how, copy, limit) /\ copy \in Held /\ how \in {"fetch", "kept"}
<1>6. ASSUME NEW how, NEW copy, Kept(how, copy)
      PROVE  answer'.has \subseteq Parts /\ FreshEnough'
  BY <1>2, <1>6, Answered, HeldShape, HandedOut
<1>7. ASSUME NEW how, NEW copy, Kept(how, copy),
             memory' \in Held, file' \in {file, Stamped(got)}, nextFetch' \in Nat, stored' \in {stored, now},
             memory' = memory \/ Stamps(memory'),
             feed = "injuries" /\ ~failed' =>
               nextFetch' <= IF memory' = None THEN 0 ELSE memory'.from + Ttl,
             stored' # stored =>
               IF feed = "injuries" THEN nextFetch' >= now + Ttl ELSE memory'.at >= now
      PROVE  FeedInv' /\ FreshEnough'
  <2>1. answer'.has \subseteq Parts /\ FreshEnough'
    BY <1>6, <1>7
  <2>2. file' \in {file} \cup Copies /\ Stamps(file')
    BY <1>3, <1>5, <1>7
  <2> HIDE DEF Kept, had, limit
  <2> QED BY <1>2, <1>4, <1>7, <2>1, <2>2, DownloadEnds
<1>8. ASSUME StoreAll(got, limit) \/ StoreAllInMemory(got, limit), feed # "injuries"
      PROVE  FeedInv' /\ FreshEnough'
  <2>1. /\ memory' = Stamped(got) /\ stored' = now /\ file' \in {file, Stamped(got)}
        /\ UNCHANGED nextFetch /\ AnswerAfter(0, "fetch", memory', limit)
    BY <1>8 DEF StoreAll, StoreAllInMemory, Keep, Write, Answer
  <2>2. Kept("fetch", memory')
    BY <1>5, <2>1
  <2> HIDE DEF Kept
  <2> QED BY <1>3, <1>5, <1>7, <1>8, <2>1, <2>2
<1>9. CASE feed = "board"
  <2>1. BoardArrives(got, limit)
    BY <1>1, <1>9 DEF Arrives
  <2>2. CASE got # {}
    BY <1>8, <1>9, <2>1, <2>2 DEF BoardArrives
  <2>3. CASE got = {}
    <3>1. /\ memory' = IF file = None THEN memory ELSE file
          /\ AnswerAfter(0, "kept", file, limit) /\ UNCHANGED <<file, nextFetch, stored>>
      BY <2>1, <2>3 DEF BoardArrives, Answer
    <3>2. Kept("kept", file)
      BY <1>3, <3>1
    <3> HIDE DEF Kept
    <3> QED BY <1>3, <1>7, <1>9, <3>1, <3>2
  <2> QED BY <2>2, <2>3
<1>10. CASE feed \in {"stats", "props", "projections"}
  BY <1>1, <1>8, <1>10 DEF Arrives
<1>11. CASE feed = "injuries"
  <2>1. InjuriesArrive(got, limit)
    BY <1>1, <1>11 DEF Arrives
  <2>2. AnswerAfter(0, "kept", memory', limit) /\ UNCHANGED file
    BY <2>1 DEF InjuriesArrive, Answer
  <2>3. CASE got # {}
    <3>1. memory' = Stamped(got) /\ stored' = now /\ nextFetch' = now + Ttl
      BY <2>1, <2>3 DEF InjuriesArrive, Keep
    <3>2. Kept("kept", memory')
      BY <1>5, <2>2, <3>1
    <3> HIDE DEF Kept
    <3> QED BY <1>3, <1>5, <1>7, <1>11, <2>2, <3>1, <3>2, Lifetimes
  <2>4. CASE got = {}
    <3>1. memory' = memory /\ stored' = stored /\ nextFetch' = now + Retry /\ failed'
      BY <1>1, <2>1, <2>4 DEF InjuriesArrive
    <3>2. Kept("kept", memory')
      BY <1>3, <2>2, <3>1
    <3> HIDE DEF Kept
    <3> QED BY <1>3, <1>7, <1>11, <2>2, <3>1, <3>2, Lifetimes
  <2> QED BY <2>3, <2>4
<1>12. CASE feed = "live"
  <2>1. LiveArrives(got, had, limit)
    BY <1>1, <1>12 DEF Arrives
  <2>2. UNCHANGED <<file, nextFetch>>
    BY <2>1 DEF LiveArrives
  <2>3. CASE got # {}
    <3>1. memory' = Stamped(got) /\ stored' = now /\ AnswerAfter(0, "fetch", memory', limit)
      BY <2>1, <2>3 DEF LiveArrives, Keep, Answer
    <3>2. Kept("fetch", memory')
      BY <1>5, <3>1
    <3> HIDE DEF Kept
    <3> QED BY <1>3, <1>5, <1>7, <1>12, <2>2, <3>1, <3>2
  <2>4. CASE got = {}
    <3>1. memory' = memory /\ stored' = stored /\ AnswerAfter(0, "kept", had, limit)
      BY <2>1, <2>4 DEF LiveArrives, Answer
    <3>2. Kept("kept", had)
      BY <1>3, <3>1
    <3> HIDE DEF Kept
    <3> QED BY <1>3, <1>7, <1>12, <2>2, <3>1, <3>2
  <2> QED BY <2>3, <2>4
<1> QED BY <1>3, <1>9, <1>10, <1>11, <1>12 DEF AllFeeds

LEMMA RaisesKeeps ==
  ASSUME FeedInv, NEW r \in Readers, FetchRaises(r)
  PROVE  FeedInv' /\ FreshEnough'
<1> DEFINE had == reader[r].had
<1>1. /\ feed = "props" /\ reader[r].pc = "fetching" /\ Leave(r) /\ failed' = TRUE
      /\ memory' = (IF had = None THEN memory ELSE had)
      /\ AnswerAfter(0, "kept", had, reader[r].limit)
      /\ UNCHANGED <<feed, now, file, nextFetch, stored>>
  BY DEF FetchRaises, Answer
<1>2. /\ now \in Nat /\ memory \in Held /\ file \in Held /\ had \in Held /\ nextFetch \in Nat
      /\ Stamps(file) /\ Stamps(had)
  BY DEF FeedInv, Types, Honest, Reading
<1>3. FreshEnough' /\ answer'.has \subseteq Parts
  BY <1>1, <1>2, Answered, HeldShape, HandedOut
<1>4. FeedInv'
  <2> HIDE DEF had
  <2> QED BY <1>1, <1>2, <1>3, DownloadEnds
<1> QED BY <1>3, <1>4

LEMMA TickKeeps ==
  ASSUME FeedInv, Tick
  PROVE  FeedInv' /\ FreshEnough'
<1>1. /\ now' = now + 1 /\ answer' = NoAnswer
      /\ UNCHANGED <<feed, memory, file, nextFetch, queue, reader, failed, stored>>
  BY DEF Tick
<1>2. now \in Nat /\ memory \in Held /\ file \in Held /\ reader \in [Readers -> Reading]
      /\ stored \in Nat \cup {Never}
  BY DEF FeedInv, Types
<1>3. Types'
  BY <1>1, NothingHandedOut DEF FeedInv, Types
<1>4. \A copy \in Held : Stamps(copy) => copy.from <= now + 1
  BY <1>2, HeldShape DEF Stamps
<1>5. Honest'
  <2>1. Limits' = Limits
    BY <1>1 DEF Limits
  <2>2. \A q \in Readers : /\ Stamps(reader[q].had) /\ reader[q].had \in Held /\ reader[q].since \in Nat
                           /\ reader[q].since <= now /\ reader[q].limit \in Limits
    BY <1>2 DEF FeedInv, Honest, Reading
  <2>3. \A q \in Readers : Stamps(reader[q].had)' /\ reader'[q].since <= now' /\ reader'[q].limit \in Limits'
    BY <1>1, <1>2, <1>4, <2>1, <2>2 DEF Stamps
  <2>4. Stamps(file)'
    BY <1>1, <1>2, <1>4 DEF FeedInv, Honest, Stamps
  <2>5. CASE feed = "projections"
    <3>1. memory.from <= memory.at /\ memory.at <= now + 1 /\ memory.at - memory.from < Ttl
      BY <1>2, <2>5, HeldShape DEF FeedInv, Honest
    <3> QED BY <1>1, <2>3, <2>4, <2>5, <3>1 DEF Honest
  <2>6. CASE feed # "projections"
    <3>1. Stamps(memory)'
      BY <1>1, <1>2, <1>4, <2>6 DEF FeedInv, Honest, Stamps
    <3> QED BY <1>1, <2>3, <2>4, <2>6, <3>1 DEF Honest
  <2> QED BY <2>5, <2>6
<1>6. Alarm' /\ LockHeld'
  BY <1>1 DEF FeedInv, Alarm, LockHeld
<1>7. Apart'
  <2>1. Spent => Spent'
    BY <1>1, <1>2, Lifetimes DEF Spent, Never
  <2> QED BY <1>1, <2>1 DEF FeedInv, Apart
<1> QED BY <1>1, <1>3, <1>5, <1>6, <1>7, NothingHandedOut DEF FeedInv

\* An idle reader promises nothing.
LEMMA IdleHonest ==
  ASSUME now \in Nat
  PROVE  /\ Stamps(None) /\ None.from <= None.at /\ None.at <= now /\ None.at - None.from < Ttl
         /\ Stamps(Idle.had) /\ Idle.since <= now /\ Idle.limit \in Limits /\ Idle.pc = "idle"
BY NoneHeld, Lifetimes DEF Stamps, Idle, Never, Limits

LEMMA InitHolds == Init => FeedInv /\ FreshEnough
<1> SUFFICES ASSUME Init PROVE FeedInv /\ FreshEnough
  OBVIOUS
<1> USE DEF Init
<1>1. now \in Nat /\ \A r \in Readers : reader[r] = Idle
  OBVIOUS
<1>2. Types
  <2>1. reader \in [Readers -> Reading]
    BY IdleReads
  <2>2. queue \in Seq(Readers) /\ nextFetch \in Nat
    OBVIOUS
  <2>3. answer.has \subseteq Parts
    BY DEF NoAnswer
  <2> QED BY <2>1, <2>2, <2>3, NoneHeld DEF Types
<1>3. Honest
  BY <1>1, IdleHonest DEF Honest
<1>4. Alarm /\ LockHeld /\ Apart
  BY <1>1, IdleHonest DEF Alarm, LockHeld, Apart, Spent
<1>5. FreshEnough
  BY DEF FreshEnough, NoAnswer
<1> QED BY <1>2, <1>3, <1>4, <1>5 DEF FeedInv

LEMMA RestartKeeps ==
  ASSUME FeedInv, Restart
  PROVE  FeedInv' /\ FreshEnough'
<1> USE DEF Restart
<1>1. feed \in AllFeeds /\ now \in Nat /\ file \in Held /\ Stamps(file)
  BY DEF FeedInv, Types, Honest
<1>2. \A r \in Readers : reader'[r] = Idle
  OBVIOUS
<1>3. Types'
  <2>1. reader' \in [Readers -> Reading]
    BY IdleReads
  <2>2. queue' \in Seq(Readers) /\ nextFetch' \in Nat
    OBVIOUS
  <2>3. answer'.has \subseteq Parts
    BY NothingHandedOut
  <2>4. feed' \in AllFeeds
    BY DEF FeedInv, Types
  <2> QED BY <1>1, <2>1, <2>2, <2>3, <2>4, NoneHeld DEF Types
<1>4. Honest'
  <2>1. Limits' = Limits
    BY DEF Limits
  <2> QED BY <1>1, <1>2, <2>1, IdleHonest DEF Honest, Stamps
<1>5. Alarm' /\ LockHeld' /\ Apart'
  <2>1. \A r \in Readers : reader'[r].pc # "fetching"
    BY <1>1, <1>2, IdleHonest
  <2> QED BY <2>1 DEF Alarm, LockHeld, Apart, Spent
<1> QED BY <1>3, <1>4, <1>5, NothingHandedOut DEF FeedInv

LEMMA StepKeeps == FeedInv /\ FreshEnough /\ [Next]_vars => FeedInv' /\ FreshEnough'
<1> SUFFICES ASSUME FeedInv, FreshEnough, [Next]_vars PROVE FeedInv' /\ FreshEnough'
  OBVIOUS
<1>1. ASSUME NEW r \in Readers, Read(r) \/ Locked(r) \/ Fetched(r) \/ FetchRaises(r)
      PROVE  FeedInv' /\ FreshEnough'
  BY <1>1, ReadKeeps, LockedKeeps, FetchedKeeps, RaisesKeeps
<1>2. CASE Tick
  BY <1>2, TickKeeps
<1>3. CASE Restart
  BY <1>3, RestartKeeps
<1>4. CASE UNCHANGED vars
  BY <1>4 DEF vars, FeedInv, Types, Honest, Stamps, Limits, Alarm, LockHeld, Apart, Spent, FreshEnough
<1> QED BY <1>1, <1>2, <1>3, <1>4 DEF Next

LEMMA AlwaysFeedInv == Spec => []FeedInv
<1> QED BY InitHolds, StepKeeps, PTL DEF Spec

(* What a read hands out as current is no older than the lifetime it asked   *)
(* for, but for the wait of a prop read and the second life of a projections *)
(* file, or it is the report the injury client keeps while its downloads     *)
(* fail (espn.py, sleeper_stats.py, props.py, injuries.py).                  *)
THEOREM HandedOutIsFresh == Spec => []FreshEnough
<1> QED BY InitHolds, StepKeeps, PTL DEF Spec

-----------------------------------------------------------------------------
(* Downloads.                                                              *)

LEMMA OthersStay ==
  ASSUME FeedInv, NEW q \in Readers, Read(q) \/ Locked(q) \/ Fetched(q) \/ FetchRaises(q),
         NEW r \in Readers, r # q
  PROVE  reader'[r] = reader[r]
BY DEF FeedInv, Types, Read, ReadMemory, ReadFile, WaitForLock, Locked, Fetched, FetchRaises, Leave

\* What the acting reader does next.
LEMMA ReaderMoves ==
  ASSUME FeedInv, NEW r \in Readers
  PROVE  /\ Read(r) => reader[r].pc = "idle" /\ (feed # "live" => reader'[r].pc # "fetching")
         /\ Locked(r) => reader[r].pc = "waiting"
         /\ Fetched(r) \/ FetchRaises(r) => reader[r].pc = "fetching" /\ reader'[r].pc = "idle"
<1>1. reader \in [Readers -> Reading]
  BY DEF FeedInv, Types
<1>2. Read(r) => reader[r].pc = "idle" /\ (feed # "live" => reader'[r].pc # "fetching")
  BY <1>1 DEF Read, ReadMemory, ReadFile, WaitForLock
<1>3. Locked(r) => reader[r].pc = "waiting"
  BY DEF Locked
<1>4. Fetched(r) \/ FetchRaises(r) => reader[r].pc = "fetching" /\ reader'[r].pc = "idle"
  BY <1>1 DEF Fetched, FetchRaises, Leave, Idle
<1> QED BY <1>2, <1>3, <1>4

\* A reader that finds nothing current under the lock is the only one to download.
LEMMA LockedAlone ==
  ASSUME FeedInv, NEW r \in Readers, Locked(r), reader'[r].pc = "fetching", feed # "live"
  PROVE  Spent /\ \A q \in Readers : reader[q].pc # "fetching"
<1>1. reader \in [Readers -> Reading] /\ now \in Nat
  BY DEF FeedInv, Types
<1>2. queue # <<>> /\ Head(queue) = r /\ reader[r].pc = "waiting"
  BY DEF Locked
<1>3. \A q \in Readers : reader[q].pc # "fetching"
  BY <1>2 DEF FeedInv, LockHeld
<1>4. ~Rechecked(r)
  <2>1. reader' # [reader EXCEPT ![r] = Idle]
    BY <1>1 DEF Idle
  <2> QED BY <2>1 DEF Locked
<1> DEFINE limit == reader[r].limit
           at == IF feed = "props" THEN reader[r].since ELSE now
<1>5. limit \in Limits /\ at \in Nat /\ at <= now
  BY <1>1 DEF FeedInv, Honest, Reading
<1>6. ~InMemory(limit, at)
  BY <1>4 DEF Rechecked
<1>7. Spent
  <2> HIDE DEF limit, at
  <2> QED BY <1>5, <1>6, Missed
<1> QED BY <1>3, <1>7

(* Readers that find the copy out of date together cause one download, and   *)
(* the next begins a lifetime after the last was stored (espn.py,            *)
(* sleeper_stats.py, props.py, injuries.py).                                 *)
THEOREM OneDownloadALifetime == Spec => FetchesApart
<1> DEFINE Lone(r) ==
      /\ reader[r].pc # "fetching" /\ reader'[r].pc = "fetching"
      /\ feed # "live" /\ stored # Never
      => now - stored >= Ttl /\ \A q \in Readers : reader[q].pc # "fetching"
<1>1. FeedInv /\ [Next]_vars => [\A r \in Readers : Lone(r)]_vars
  <2> SUFFICES ASSUME FeedInv, Next, NEW r \in Readers, feed # "live", stored # Never,
                      reader[r].pc # "fetching", reader'[r].pc = "fetching"
               PROVE  now - stored >= Ttl /\ \A q \in Readers : reader[q].pc # "fetching"
    OBVIOUS
  <2>1. ASSUME NEW q \in Readers, Read(q) \/ Locked(q) \/ Fetched(q) \/ FetchRaises(q)
        PROVE  q = r /\ Locked(r)
    <3>1. q = r
      BY <2>1, OthersStay
    <3> QED BY <2>1, <3>1, ReaderMoves
  <2>2. ~Tick
    BY DEF Tick
  <2>3. ~Restart
    BY DEF Restart, Idle
  <2>4. Locked(r)
    BY <2>1, <2>2, <2>3 DEF Next
  <2> QED BY <2>4, LockedAlone DEF Spent
<1> QED BY <1>1, AlwaysFeedInv, PTL DEF Spec, FetchesApart

(* Of the board, the projections, the injuries and the live scores, a        *)
(* download that brings nothing takes nothing from the file, and the answer  *)
(* is what the board had on disk, the last injury report or the scores seen  *)
(* before the look (espn.py, injuries.py).  Nothing is said of statistics    *)
(* and props, which are saved empty, nor of a fuller board in memory.        *)
THEOREM FailedDownloadsTakeNothing == Spec => FailureTakesNothing
<1> DEFINE Had(r) == CASE feed = "board"       -> file
                       [] feed = "projections" -> None
                       [] feed = "injuries"    -> memory
                       [] feed = "live"        -> reader[r].had
           Safe(r) ==
             /\ feed \in {"board", "projections", "injuries", "live"}
             /\ reader[r].pc = "fetching" /\ reader'[r].pc = "idle"
             /\ failed' /\ answer'.how # "none"
             => Had(r).has \subseteq answer'.has /\ file.has \subseteq file'.has
<1>1. FeedInv /\ [Next]_vars => [\A r \in Readers : Safe(r)]_vars
  <2> SUFFICES ASSUME FeedInv, Next, NEW r \in Readers,
                      feed \in {"board", "projections", "injuries", "live"},
                      reader[r].pc = "fetching", reader'[r].pc = "idle",
                      failed', answer'.how # "none"
               PROVE  Had(r).has \subseteq answer'.has /\ file.has \subseteq file'.has
    OBVIOUS
  <2>1. ASSUME NEW q \in Readers, Read(q) \/ Locked(q) \/ Fetched(q) \/ FetchRaises(q)
        PROVE  Fetched(r)
    <3>1. q = r
      BY <2>1, OthersStay
    <3> QED BY <2>1, <3>1, ReaderMoves DEF FetchRaises
  <2>2. ~Tick /\ ~Restart
    BY NothingAnswered DEF Tick, Restart
  <2>3. Fetched(r)
    BY <2>1, <2>2 DEF Next
  <2>4. PICK got \in Downloads : Arrives(got, reader[r].had, reader[r].limit) /\ failed' = (got = {})
    BY <2>3 DEF Fetched
  <2>5. got = {}
    BY <2>4
  <2>6. CASE feed = "board"
    <3>1. Answer("kept", file, reader[r].limit) /\ file' = file
      BY <2>4, <2>5, <2>6 DEF Arrives, BoardArrives
    <3>2. answer'.has = file.has
      BY <3>1, Answered DEF Answer
    <3> QED BY <2>6, <3>1, <3>2
  <2>7. CASE feed = "projections"
    <3>1. file' = file
      BY <2>4, <2>5, <2>7 DEF Arrives, StoreAllInMemory
    <3>2. Had(r).has = {}
      BY <2>7 DEF None
    <3> QED BY <3>1, <3>2
  <2>8. CASE feed = "injuries"
    <3>1. Answer("kept", memory', reader[r].limit) /\ file' = file /\ memory' = memory
      BY <2>4, <2>5, <2>8 DEF Arrives, InjuriesArrive
    <3>2. answer'.has = memory.has
      BY <3>1, Answered DEF Answer
    <3> QED BY <2>8, <3>1, <3>2
  <2>9. CASE feed = "live"
    <3>1. Answer("kept", reader[r].had, reader[r].limit) /\ file' = file
      BY <2>4, <2>5, <2>9 DEF Arrives, LiveArrives
    <3>2. answer'.has = reader[r].had.has
      BY <3>1, Answered DEF Answer
    <3> QED BY <2>9, <3>1, <3>2
  <2> QED BY <2>6, <2>7, <2>8, <2>9
<1> QED BY <1>1, AlwaysFeedInv, PTL DEF Spec, FailureTakesNothing

-----------------------------------------------------------------------------
(* Byes.                                                                   *)

\* A team is missing from the slate of no week but its own.
LEMMA OffOnTheBye ==
  ASSUME NEW got \in SUBSET Parts, NEW rest \in [Teams -> Parts \cup {0}], NEW t \in Teams
  PROVE  ByeWeek(rest, got, t) \in {0, rest[t]}
<1> DEFINE off == {w \in Weeks(rest, got) : t \notin Seen(rest, got, w)}
<1> SUFFICES ASSUME off # {}
             PROVE  (CHOOSE w \in off : \A v \in off : w <= v) = rest[t]
  BY DEF ByeWeek
<1>1. \A w \in off : w = rest[t] /\ w \in Nat
  BY FeedConstants DEF Weeks, Seen, Slate
<1>2. \E w \in off : \A v \in off : w <= v
  BY <1>1
<1> HIDE DEF off
<1> QED BY <1>1, <1>2

(* Whichever of its weekly calls failed and whatever the schedule, the board *)
(* sends no team on a bye it does not have (espn.py).                        *)
THEOREM NoInventedByes == Spec => []ByesAreReal
<1>1. FeedInv => ByesAreReal
  BY OffOnTheBye DEF FeedInv, Types, ByesAreReal
<1> QED BY <1>1, AlwaysFeedInv, PTL

-----------------------------------------------------------------------------
(* What parse_injuries keeps of a report, entry by entry.                  *)

\* A set of naturals that is not empty has a least element.
LEMMA LeastOf ==
    ASSUME NEW P \in SUBSET Nat, P # {}
    PROVE  \E x \in P : \A y \in P : x <= y
<1> DEFINE less == OpToRel(<, Nat)
<1>1. PICK x \in P : \A y \in P : <<y, x>> \notin less
  BY NatLessThanWellFounded, WFMin
<1>2. \A y \in P : ~(y < x)
  BY <1>1 DEF OpToRel
<1>3. x \in Nat /\ \A y \in P : y \in Nat
  OBVIOUS
<1> QED BY <1>2, <1>3

Dated(entries) == Len(entries) \in Nat /\ \A i \in 1..Len(entries) : entries[i].date \in Nat

\* The first n entries say something of the athlete of the i-th, and the i-th has
\* the newest of it, the first of that date.
Latest(entries, at, clearedFor, n, i) ==
  /\ Counts(entries[i], at, clearedFor)
  /\ \A j \in 1..n : entries[j].athlete = entries[i].athlete /\ Counts(entries[j], at, clearedFor) =>
       entries[j].date < entries[i].date \/ (entries[j].date = entries[i].date /\ j >= i)

LatestReports(entries, at, clearedFor, n) ==
  {ReportOf(entries[i]) : i \in {i \in 1..n : Latest(entries, at, clearedFor, n, i)}}

\* Whatever counts among the first n entries is outdone by the latest, or is it.
Outdone(entries, at, clearedFor, n) ==
  \A j \in 1..n : Counts(entries[j], at, clearedFor) =>
    \E i \in 1..n : /\ Latest(entries, at, clearedFor, n, i) /\ entries[i].athlete = entries[j].athlete
                    /\ entries[j].date <= entries[i].date

LEMMA ReportOfEntry ==
    ASSUME NEW entry
    PROVE  /\ ReportOf(entry).athlete = entry.athlete /\ ReportOf(entry).date = entry.date
           /\ ReportOf(entry).label = LabelOf(entry) /\ ReportOf(entry).name = entry.name
  BY DEF ReportOf

\* One more entry: it takes the place of the athlete's latest when it is newer.
LEMMA OneMoreEntry ==
    ASSUME NEW entries, Dated(entries), NEW at, NEW clearedFor,
           NEW n \in 1..Len(entries), Outdone(entries, at, clearedFor, n - 1)
    PROVE  /\ Outdone(entries, at, clearedFor, n)
           /\ WithEntry(LatestReports(entries, at, clearedFor, n - 1), entries[n], at, clearedFor)
                = LatestReports(entries, at, clearedFor, n)
<1> DEFINE e == entries[n]
           counts(i) == Counts(entries[i], at, clearedFor)
           before(i) == Latest(entries, at, clearedFor, n - 1, i)
           after(i) == Latest(entries, at, clearedFor, n, i)
           reports == LatestReports(entries, at, clearedFor, n - 1)
           old == {r \in reports : r.athlete = e.athlete}
<1>1. /\ n \in Nat /\ n >= 1 /\ 1..n = 1..(n - 1) \cup {n} /\ n \notin 1..(n - 1)
      /\ \A j \in 1..(n - 1) : j \in Nat /\ j < n
  BY DEF Dated
<1>2. \A i \in 1..n : entries[i].date \in Nat
  BY <1>1 DEF Dated
<1>3. ASSUME NEW i \in 1..(n - 1)
      PROVE  after(i) <=> before(i) /\ (counts(n) /\ e.athlete = entries[i].athlete => e.date <= entries[i].date)
  <2>1. i \in 1..n /\ n >= i /\ e.date \in Nat /\ entries[i].date \in Nat
    BY <1>1, <1>2
  <2>2. e.date < entries[i].date \/ (e.date = entries[i].date /\ n >= i) <=> e.date <= entries[i].date
    BY <2>1
  <2> QED BY <1>1, <2>2 DEF Latest
<1>4. after(n) <=> counts(n) /\ \A j \in 1..(n - 1) : entries[j].athlete = e.athlete /\ counts(j) => entries[j].date < e.date
  <2>1. \A j \in 1..(n - 1) : ~(j >= n)
    BY <1>1
  <2> QED BY <1>1, <2>1 DEF Latest
<1>5. \A r : r \in reports <=> \E i \in 1..(n - 1) : before(i) /\ r = ReportOf(entries[i])
  BY DEF LatestReports
<1>6. \A r : r \in LatestReports(entries, at, clearedFor, n) <=> \E i \in 1..n : after(i) /\ r = ReportOf(entries[i])
  BY DEF LatestReports
<1>7. \A j \in 1..(n - 1) : counts(j) =>
        \E i \in 1..(n - 1) : before(i) /\ entries[i].athlete = entries[j].athlete /\ entries[j].date <= entries[i].date
  BY DEF Outdone
<1>8. \A i \in 1..(n - 1) : before(i) => counts(i)
  BY DEF Latest
<1>9. \A i \in 1..n : ReportOf(entries[i]).athlete = entries[i].athlete /\ ReportOf(entries[i]).date = entries[i].date
  BY ReportOfEntry
<1>10. \A r \in old : \E i \in 1..(n - 1) : before(i) /\ r = ReportOf(entries[i]) /\ entries[i].athlete = e.athlete
  BY <1>1, <1>5, <1>9
<1>11. (\A r \in old : Replaces(r, e)) <=>
         \A i \in 1..(n - 1) : before(i) /\ entries[i].athlete = e.athlete => entries[i].date < e.date
  <2>1. \A i \in 1..(n - 1) : entries[i].date # NoDate /\ e.date # NoDate
    BY <1>1, <1>2 DEF NoDate
  <2>2. \A i \in 1..(n - 1) : Replaces(ReportOf(entries[i]), e) <=> entries[i].date < e.date
    BY <1>1, <1>9, <2>1 DEF Replaces
  <2>3. \A i \in 1..(n - 1) : before(i) /\ entries[i].athlete = e.athlete => ReportOf(entries[i]) \in old
    BY <1>1, <1>5, <1>9
  <2> QED BY <1>10, <2>2, <2>3
<1> HIDE DEF before, after, reports, counts, e
<1>12. CASE counts(n) /\ \A r \in old : Replaces(r, e)
  <2>1. after(n)
    <3> SUFFICES ASSUME NEW j \in 1..(n - 1), entries[j].athlete = e.athlete, counts(j)
                 PROVE  entries[j].date < e.date
      BY <1>4, <1>12
    <3>1. PICK i \in 1..(n - 1) : before(i) /\ entries[i].athlete = e.athlete /\ entries[j].date <= entries[i].date
      BY <1>7
    <3>2. entries[i].date < e.date
      BY <1>11, <1>12, <3>1
    <3> QED BY <1>1, <1>2, <3>1, <3>2 DEF e
  <2>2. \A i \in 1..(n - 1) : after(i) <=> before(i) /\ entries[i].athlete # e.athlete
    <3>1. \A i \in 1..(n - 1) : before(i) /\ entries[i].athlete = e.athlete => ~(e.date <= entries[i].date)
      BY <1>1, <1>2, <1>11, <1>12 DEF e
    <3> QED BY <1>3, <1>12, <3>1
  <2>3. LatestReports(entries, at, clearedFor, n) = (reports \ old) \cup {ReportOf(e)}
    <3>1. \A r \in reports \ old : \E i \in 1..n : after(i) /\ r = ReportOf(entries[i])
      BY <1>1, <1>5, <1>9, <2>2
    <3>2. \A i \in 1..(n - 1) : after(i) => ReportOf(entries[i]) \in reports \ old
      BY <1>1, <1>5, <1>9, <2>2
    <3> QED BY <1>1, <1>6, <2>1, <3>1, <3>2 DEF e
  <2>4. ASSUME NEW j \in 1..n, counts(j)
        PROVE  \E i \in 1..n : after(i) /\ entries[i].athlete = entries[j].athlete /\ entries[j].date <= entries[i].date
    <3>1. CASE entries[j].athlete = e.athlete
      <4>1. j = n \/ entries[j].date < e.date
        BY <1>1, <1>4, <2>1, <2>4, <3>1
      <4> QED BY <1>1, <1>2, <2>1, <3>1, <4>1 DEF e
    <3>2. CASE entries[j].athlete # e.athlete
      <4>1. j \in 1..(n - 1)
        BY <1>1, <3>2 DEF e
      <4> QED BY <1>1, <1>7, <2>2, <2>4, <3>2, <4>1
    <3> QED BY <3>1, <3>2
  <2> QED BY <1>12, <2>3, <2>4 DEF WithEntry, Outdone, after, counts, reports, e
<1>13. CASE counts(n) /\ ~ \A r \in old : Replaces(r, e)
  <2>1. PICK i \in 1..(n - 1) : before(i) /\ entries[i].athlete = e.athlete /\ ~(entries[i].date < e.date)
    BY <1>11, <1>13
  <2>2. counts(i) /\ entries[i].date \in Nat /\ e.date \in Nat /\ e.date <= entries[i].date
    BY <1>1, <1>2, <1>8, <2>1 DEF e
  <2>3. ~after(n)
    BY <1>4, <2>1, <2>2
  <2>4. ASSUME NEW k \in 1..(n - 1), before(k), entries[k].athlete = e.athlete PROVE e.date <= entries[k].date
    <3>1. entries[i].date < entries[k].date \/ entries[i].date = entries[k].date
      BY <2>1, <2>2, <2>4 DEF before, Latest, counts
    <3> QED BY <1>1, <1>2, <2>2, <3>1
  <2>5. \A k \in 1..(n - 1) : after(k) <=> before(k)
    BY <1>3, <2>4
  <2>6. LatestReports(entries, at, clearedFor, n) = reports
    BY <1>1, <1>5, <1>6, <2>3, <2>5
  <2>7. ASSUME NEW j \in 1..n, counts(j)
        PROVE  \E k \in 1..n : after(k) /\ entries[k].athlete = entries[j].athlete /\ entries[j].date <= entries[k].date
    <3>1. CASE j = n
      BY <1>1, <2>1, <2>2, <2>5, <3>1 DEF e
    <3>2. CASE j # n
      BY <1>1, <1>7, <2>5, <2>7, <3>2
    <3> QED BY <3>1, <3>2
  <2> QED BY <1>13, <2>6, <2>7 DEF WithEntry, Outdone, after, counts, reports, e
<1>14. CASE ~counts(n)
  <2>1. ~after(n) /\ \A k \in 1..(n - 1) : after(k) <=> before(k)
    BY <1>3, <1>4, <1>14
  <2>2. LatestReports(entries, at, clearedFor, n) = reports
    BY <1>1, <1>5, <1>6, <2>1
  <2>3. \A j \in 1..n : counts(j) =>
          \E k \in 1..n : after(k) /\ entries[k].athlete = entries[j].athlete /\ entries[j].date <= entries[k].date
    BY <1>1, <1>7, <1>14, <2>1
  <2> QED BY <1>14, <2>2, <2>3 DEF WithEntry, Outdone, after, counts, reports, e
<1> QED BY <1>12, <1>13, <1>14

\* parse_injuries, as far as the n-th entry.
ReadSoFar(entries, at, clearedFor, g, n) ==
  /\ g = [i \in 0..n |-> g[i]] /\ g[0] = {}
  /\ \A k \in 1..n : g[k] = WithEntry(g[k - 1], entries[k], at, clearedFor)

LEMMA ReadingExists ==
    ASSUME NEW entries, NEW at, NEW clearedFor, NEW n \in Nat
    PROVE  \E g : ReadSoFar(entries, at, clearedFor, g, n)
<1> DEFINE Missing == {k \in Nat : ~ \E g : ReadSoFar(entries, at, clearedFor, g, k)}
           step(reports, k) == WithEntry(reports, entries[k], at, clearedFor)
<1> SUFFICES ASSUME Missing # {} PROVE FALSE
  OBVIOUS
<1>1. PICK k \in Missing : \A l \in Missing : k <= l
  BY LeastOf
<1>2. CASE k = 0
  <2> DEFINE g == [i \in 0..0 |-> {}]
  <2>1. ReadSoFar(entries, at, clearedFor, g, 0)
    BY DEF ReadSoFar
  <2> QED BY <1>1, <1>2, <2>1
<1>3. CASE k # 0
  <2>1. k - 1 \in Nat /\ k \in Nat /\ k \in 1..k /\ ~(k <= k - 1)
    BY <1>1, <1>3
  <2>2. k - 1 \notin Missing
    BY <1>1, <2>1
  <2>3. PICK g : ReadSoFar(entries, at, clearedFor, g, k - 1)
    BY <2>1, <2>2
  <2> DEFINE h == [i \in 0..k |-> IF i = k THEN step(g[k - 1], k) ELSE g[i]]
  <2>4. \A i \in 0..k : h[i] = IF i = k THEN step(g[k - 1], k) ELSE g[i]
    OBVIOUS
  <2>5. h = [i \in 0..k |-> h[i]]
    OBVIOUS
  <2> HIDE DEF h
  <2>6. 0 \in 0..k /\ 0 # k /\ \A i \in 1..k : i \in 0..k /\ i - 1 \in 0..k /\ i - 1 # k
    BY <2>1, <1>3
  <2>7. \A i \in 1..k : i # k => i \in 1..(k - 1)
    BY <2>1
  <2>8. g[0] = {} /\ \A i \in 1..(k - 1) : g[i] = step(g[i - 1], i)
    BY <2>3 DEF ReadSoFar
  <2> HIDE DEF step
  <2>9. h[0] = {}
    BY <2>4, <2>6, <2>8
  <2>10. ASSUME NEW i \in 1..k PROVE h[i] = step(h[i - 1], i)
    <3>1. h[i - 1] = g[i - 1]
      BY <2>4, <2>6
    <3>2. i = k => h[i] = step(g[i - 1], i)
      BY <2>4, <2>6
    <3>3. i # k => h[i] = step(g[i - 1], i)
      BY <2>4, <2>6, <2>7, <2>8
    <3> QED BY <3>1, <3>2, <3>3
  <2>11. ReadSoFar(entries, at, clearedFor, h, k)
    BY <2>5, <2>9, <2>10 DEF ReadSoFar, step
  <2> QED BY <1>1, <2>11
<1> QED BY <1>2, <1>3

LEMMA ReportsAreRead ==
    ASSUME NEW entries, Len(entries) \in Nat, NEW at, NEW clearedFor
    PROVE  \E g : /\ ReadSoFar(entries, at, clearedFor, g, Len(entries))
                  /\ Reports(entries, at, clearedFor) = g[Len(entries)]
<1> DEFINE last == Len(entries)
           step(reports, k) == WithEntry(reports, entries[k], at, clearedFor)
           Listed(g) == [n \in 0..last |-> IF n = 0 THEN {} ELSE step(g[n - 1], n)]
           read == CHOOSE g : g = Listed(g)
<1>1. last \in Nat
  OBVIOUS
<1>2. Reports(entries, at, clearedFor) = read[last]
  BY DEF Reports
<1> HIDE DEF last
<1>3. PICK g : ReadSoFar(entries, at, clearedFor, g, last)
  BY <1>1, ReadingExists
<1>4. g = Listed(g)
  <2>1. \A n \in 0..last : n = 0 \/ n \in 1..last
    BY <1>1
  <2>2. \A n \in 0..last : g[n] = IF n = 0 THEN {} ELSE step(g[n - 1], n)
    BY <1>3, <2>1 DEF ReadSoFar
  <2>3. g = [n \in 0..last |-> g[n]]
    BY <1>3 DEF ReadSoFar
  <2> QED BY <2>2, <2>3
<1>5. read = Listed(read)
  BY <1>4
<1> HIDE DEF read, step
<1>6. \A n \in 0..last : read[n] = IF n = 0 THEN {} ELSE step(read[n - 1], n)
  BY <1>5
<1>7. 0 \in 0..last /\ \A n \in 1..last : n \in 0..last /\ n # 0
  BY <1>1
<1>8. read[0] = {} /\ \A n \in 1..last : read[n] = step(read[n - 1], n)
  BY <1>6, <1>7
<1>9. read = [n \in 0..last |-> read[n]]
  BY <1>5
<1>10. ReadSoFar(entries, at, clearedFor, read, last)
  BY <1>8, <1>9 DEF ReadSoFar, step
<1> QED BY <1>2, <1>10 DEF last

\* The reports are those of the latest entries.
LEMMA ReportsAreLatest ==
    ASSUME NEW entries, Dated(entries), NEW at, NEW clearedFor
    PROVE  /\ Reports(entries, at, clearedFor) = LatestReports(entries, at, clearedFor, Len(entries))
           /\ Outdone(entries, at, clearedFor, Len(entries))
<1> DEFINE last == Len(entries)
<1>1. last \in Nat
  BY DEF Dated
<1>2. PICK g : /\ ReadSoFar(entries, at, clearedFor, g, last)
               /\ Reports(entries, at, clearedFor) = g[last]
  BY <1>1, ReportsAreRead
<1> DEFINE Good(n) == /\ g[n] = LatestReports(entries, at, clearedFor, n)
                      /\ Outdone(entries, at, clearedFor, n)
           Bad == {n \in 0..last : ~Good(n)}
<1>3. Good(0)
  <2>1. 1..0 = {}
    OBVIOUS
  <2> QED BY <1>2, <2>1 DEF ReadSoFar, LatestReports, Outdone
<1>4. ASSUME NEW n \in 1..last, Good(n - 1) PROVE Good(n)
  <2>1. g[n] = WithEntry(g[n - 1], entries[n], at, clearedFor)
    BY <1>2 DEF ReadSoFar
  <2> QED BY <1>4, <2>1, OneMoreEntry
<1> HIDE DEF Good, last
<1>5. Bad = {}
  <2> SUFFICES ASSUME Bad # {} PROVE FALSE
    OBVIOUS
  <2>1. Bad \in SUBSET Nat
    BY <1>1
  <2>2. PICK n \in Bad : \A k \in Bad : n <= k
    BY <2>1, LeastOf
  <2>3. n # 0 /\ n \in 1..last /\ n - 1 \in 0..last /\ ~(n <= n - 1)
    BY <1>1, <1>3, <2>2
  <2> QED BY <1>4, <2>2, <2>3
<1>6. Good(last)
  BY <1>1, <1>5
<1> QED BY <1>2, <1>6 DEF Good, last

\* What apply_injury_reports saves for a player who matches the reports of one
\* athlete.
LEMMA NewestOfAthlete ==
    ASSUME NEW entries, Dated(entries), NEW at, NEW clearedFor, NEW x,
           NEW player, player.news \in Nat \cup {NoDate},
           Matching(player, Reports(entries, at, clearedFor))
             = {r \in Reports(entries, at, clearedFor) : r.athlete = x}
    PROVE  Overlay(player, Reports(entries, at, clearedFor)) = Newest(x, player, entries, at, clearedFor)
<1> DEFINE size == Len(entries)
           reports == Reports(entries, at, clearedFor)
           latest(i) == Latest(entries, at, clearedFor, size, i)
           said == SaidOf(x, entries, at, clearedFor)
           last == {i \in said : \A j \in said :
                      \/ entries[j].date < entries[i].date
                      \/ entries[j].date = entries[i].date /\ j >= i}
           newer == {i \in last : entries[i].date > player.news}
           over == {r \in Matching(player, reports) : NewerThanSleeper(r, player)}
<1>1. /\ size \in Nat /\ \A i \in 1..size : entries[i].date \in Nat /\ i \in Nat
      /\ \A i \in 1..size : entries[i].date # NoDate /\ (player.news = NoDate => entries[i].date > player.news)
  BY DEF Dated, NoDate
<1>2. said = {i \in 1..size : entries[i].athlete = x /\ Counts(entries[i], at, clearedFor)}
  BY DEF SaidOf
<1>3. \A i : i \in last <=> i \in 1..size /\ entries[i].athlete = x /\ latest(i)
  BY <1>2 DEF Latest
<1>4. \A i, j \in last : i = j
  BY <1>1, <1>2
<1>5. \A r : r \in reports <=> \E i \in 1..size : latest(i) /\ r = ReportOf(entries[i])
  BY ReportsAreLatest DEF LatestReports
<1>6. \A i \in 1..size : /\ ReportOf(entries[i]).athlete = entries[i].athlete
                         /\ ReportOf(entries[i]).date = entries[i].date
                         /\ ReportOf(entries[i]).label = LabelOf(entries[i])
  BY ReportOfEntry
<1>7. \A i \in 1..size : NewerThanSleeper(ReportOf(entries[i]), player) <=> entries[i].date > player.news
  BY <1>1, <1>6 DEF NewerThanSleeper
<1> HIDE DEF latest, said, last, reports, size
<1>8. Matching(player, reports) = {r \in reports : r.athlete = x}
  BY DEF reports
<1>9. \A r : r \in over <=> \E i \in newer : r = ReportOf(entries[i])
  BY <1>3, <1>5, <1>6, <1>7, <1>8
<1>10. Overlay(player, reports) = IF over = {} THEN player.label ELSE (CHOOSE r \in over : TRUE).label
  BY DEF Overlay
<1>11. Newest(x, player, entries, at, clearedFor)
         = IF newer = {} THEN player.label ELSE LabelOf(entries[CHOOSE i \in newer : TRUE])
  BY DEF Newest, last, said
<1>12. newer \subseteq last /\ newer \subseteq 1..size
  BY <1>3
<1> HIDE DEF newer, over
<1>13. CASE newer = {}
  BY <1>9, <1>10, <1>11, <1>13 DEF reports
<1>14. CASE newer # {}
  <2>1. PICK i \in newer : TRUE
    BY <1>14
  <2>2. newer = {i}
    BY <1>4, <1>12, <2>1
  <2>3. over = {ReportOf(entries[i])}
    BY <1>9, <2>2
  <2>4. ReportOf(entries[i]).label = LabelOf(entries[i])
    BY <1>6, <1>12, <2>1
  <2>5. (CHOOSE k \in newer : TRUE) = i /\ (CHOOSE r \in over : TRUE) = ReportOf(entries[i])
    BY <2>2, <2>3
  <2>6. over # {}
    BY <2>3
  <2> QED BY <1>10, <1>11, <1>14, <2>4, <2>5, <2>6 DEF reports
<1> QED BY <1>13, <1>14

\* An athlete has one report.
LEMMA OneReportEach ==
    ASSUME NEW entries, Dated(entries), NEW at, NEW clearedFor,
           NEW r \in Reports(entries, at, clearedFor), NEW s \in Reports(entries, at, clearedFor),
           r.athlete = s.athlete
    PROVE  r = s
<1> DEFINE size == Len(entries)
<1>1. PICK i \in 1..size : Latest(entries, at, clearedFor, size, i) /\ r = ReportOf(entries[i])
  BY ReportsAreLatest DEF LatestReports
<1>2. PICK j \in 1..size : Latest(entries, at, clearedFor, size, j) /\ s = ReportOf(entries[j])
  BY ReportsAreLatest DEF LatestReports
<1>3. entries[i].athlete = entries[j].athlete
  BY <1>1, <1>2, ReportOfEntry
<1>4. i \in Nat /\ j \in Nat /\ entries[i].date \in Nat /\ entries[j].date \in Nat
  BY DEF Dated
<1>5. i = j
  BY <1>1, <1>2, <1>3, <1>4 DEF Latest
<1> QED BY <1>1, <1>2, <1>5

\* The athletes whose newest entry has a name.
NamedSo(name, entries, at, clearedFor) ==
  {entries[i].athlete : i \in {i \in 1..Len(entries) :
     Latest(entries, at, clearedFor, Len(entries), i) /\ entries[i].name = name}}

\* They are the athletes whose report has it.
LEMMA NamesOfReports ==
    ASSUME NEW entries, Dated(entries), NEW at, NEW clearedFor, NEW name
    PROVE  NamedSo(name, entries, at, clearedFor)
             = {r.athlete : r \in {r \in Reports(entries, at, clearedFor) : r.name = name}}
<1> DEFINE reports == Reports(entries, at, clearedFor)
           called == {r \in reports : r.name = name}
           named == NamedSo(name, entries, at, clearedFor)
<1>1. \A r : r \in reports <=>
        \E i \in 1..Len(entries) : Latest(entries, at, clearedFor, Len(entries), i) /\ r = ReportOf(entries[i])
  BY ReportsAreLatest DEF LatestReports
<1>2. \A i \in 1..Len(entries) : /\ ReportOf(entries[i]).athlete = entries[i].athlete
                                /\ ReportOf(entries[i]).name = entries[i].name
  BY ReportOfEntry
<1>3. \A r \in called : r.athlete \in named
  BY <1>1, <1>2 DEF NamedSo
<1>4. \A x \in named : \E r \in called : x = r.athlete
  BY <1>1, <1>2 DEF NamedSo
<1> QED BY <1>3, <1>4

\* A player known by his name only, when exactly one athlete goes by it.
LEMMA NewestByName ==
    ASSUME NEW entries, Dated(entries), NEW at, NEW clearedFor,
           NEW player, player.news \in Nat \cup {NoDate}, player.espn = Nobody,
           NEW x, NamedSo(player.name, entries, at, clearedFor) = {x}
    PROVE  Overlay(player, Reports(entries, at, clearedFor)) = Newest(x, player, entries, at, clearedFor)
<1> DEFINE reports == Reports(entries, at, clearedFor)
           called == {r \in reports : r.name = player.name}
<1>1. Matching(player, reports) = {r \in called : \A s \in called : s = r}
  BY DEF Matching
<1>2. NamedSo(player.name, entries, at, clearedFor) = {r.athlete : r \in called}
  BY NamesOfReports
<1>3. \A r, s \in reports : r.athlete = s.athlete => r = s
  BY OneReportEach
<1> HIDE DEF reports
<1>4. PICK r \in called : r.athlete = x
  BY <1>2
<1>5. \A s \in called : s.athlete = x
  BY <1>2
<1>6. Matching(player, reports) = {s \in reports : s.athlete = x}
  BY <1>1, <1>3, <1>4, <1>5
<1> QED BY <1>6, NewestOfAthlete DEF reports

\* Nobody, or more than one, goes by the name.
NoOneSo(name, entries, at, clearedFor) == \A x : NamedSo(name, entries, at, clearedFor) # {x}

\* Then Sleeper's label stands.
LEMMA NobodyByName ==
    ASSUME NEW entries, Dated(entries), NEW at, NEW clearedFor, NEW player, player.espn = Nobody,
           NoOneSo(player.name, entries, at, clearedFor)
    PROVE  Overlay(player, Reports(entries, at, clearedFor)) = player.label
<1> DEFINE reports == Reports(entries, at, clearedFor)
           called == {r \in reports : r.name = player.name}
<1>1. Matching(player, reports) = {r \in called : \A s \in called : s = r}
  BY DEF Matching
<1>2. NamedSo(player.name, entries, at, clearedFor) = {r.athlete : r \in called}
  BY NamesOfReports
<1> HIDE DEF reports
<1>3. ASSUME NEW r \in called, \A s \in called : s = r PROVE FALSE
  <2>1. called = {r}
    BY <1>3
  <2>2. {s.athlete : s \in called} = {r.athlete}
    BY <2>1
  <2> QED BY <1>2, <2>2 DEF NoOneSo
<1>4. Matching(player, reports) = {}
  BY <1>1, <1>3
<1> QED BY <1>4 DEF Overlay, reports

\* parse_injuries and apply_injury_reports: for a report of any length, in any
\* order, about any athletes, the newest dated entry about a player decides what he
\* is saved with, if it is newer than Sleeper's news of him; a player known by his
\* name only keeps Sleeper's label unless exactly one athlete goes by that name.
THEOREM NewestEntryDecides ==
    ASSUME NEW entries, Dated(entries), NEW at, NEW clearedFor,
           NEW player, player.news \in Nat \cup {NoDate}
    PROVE  LET label == Overlay(player, Reports(entries, at, clearedFor))
               named == NamedSo(player.name, entries, at, clearedFor)
           IN  /\ player.espn # Nobody => label = Newest(player.espn, player, entries, at, clearedFor)
               /\ player.espn = Nobody =>
                    /\ \A x : named = {x} => label = Newest(x, player, entries, at, clearedFor)
                    /\ (\A x : named # {x}) => label = player.label
<1>1. ASSUME player.espn # Nobody
      PROVE  Overlay(player, Reports(entries, at, clearedFor)) = Newest(player.espn, player, entries, at, clearedFor)
  <2>1. Matching(player, Reports(entries, at, clearedFor))
          = {r \in Reports(entries, at, clearedFor) : r.athlete = player.espn}
    BY <1>1 DEF Matching
  <2> QED BY <2>1, NewestOfAthlete
<1>2. ASSUME player.espn = Nobody, NEW x, NamedSo(player.name, entries, at, clearedFor) = {x}
      PROVE  Overlay(player, Reports(entries, at, clearedFor)) = Newest(x, player, entries, at, clearedFor)
  BY <1>2, NewestByName
<1>3. ASSUME player.espn = Nobody, \A x : NamedSo(player.name, entries, at, clearedFor) # {x}
      PROVE  Overlay(player, Reports(entries, at, clearedFor)) = player.label
  BY <1>3, NobodyByName DEF NoOneSo
<1> QED BY <1>1, <1>2, <1>3

\* The same of the injury reports a feed has just brought, whatever else its readers,
\* its files and its failures have done (injuries.py:10).
THEOREM NewsOfInjuriesWins == Spec => []NewestReportWins
<1>1. ASSUME FeedInv PROVE NewestReportWins
  <2> SUFFICES ASSUME NEW label \in {Healthy, "Questionable"}, NEW news \in {NoDate, 1},
                      NEW espn \in {"a", Nobody}, NEW entries \in Entries(0..now)
               PROVE  LET player == [espn |-> espn, name |-> "n", label |-> label, news |-> news]
                          about == IF espn = "a" THEN {"a"}
                                   ELSE {x \in {"a", "b"} : SaidOf(x, entries, now, Retry) # {}}
                      IN  Overlay(player, Reports(entries, now, Retry)) =
                            IF about = {"a"} THEN Newest("a", player, entries, now, Retry)
                            ELSE IF about = {"b"} THEN Newest("b", player, entries, now, Retry)
                            ELSE label
    BY DEF NewestReportWins
  <2> DEFINE player == [espn |-> espn, name |-> "n", label |-> label, news |-> news]
             spoken == {x \in {"a", "b"} : SaidOf(x, entries, now, Retry) # {}}
             named == NamedSo("n", entries, now, Retry)
  <2>1. /\ Len(entries) \in Nat
        /\ \A i \in 1..Len(entries) : entries[i] \in Entry(0..now)
    <3>1. CASE entries = <<>>
      BY <3>1
    <3>2. CASE \E e \in Entry(0..now) : entries = <<e>>
      BY <3>2
    <3>3. CASE \E e, f \in Entry(0..now) : entries = <<e, f>>
      BY <3>3
    <3> QED BY <3>1, <3>2, <3>3 DEF Entries
  <2>2. \A i \in 1..Len(entries) : /\ entries[i].athlete \in {"a", "b"} /\ entries[i].name = "n"
                                  /\ entries[i].date \in 0..now
    BY <2>1 DEF Entry
  <2>3. Dated(entries)
    BY <1>1, <2>1, <2>2 DEF Dated, FeedInv, Types
  <2>4. player.news \in Nat \cup {NoDate}
    OBVIOUS
  <2>5. named = spoken
    <3>1. \A i \in 1..Len(entries) : Latest(entries, now, Retry, Len(entries), i) => Counts(entries[i], now, Retry)
      BY DEF Latest
    <3>2. named \subseteq spoken
      BY <2>2, <3>1 DEF NamedSo, SaidOf
    <3>3. Outdone(entries, now, Retry, Len(entries))
      BY <2>3, ReportsAreLatest
    <3>4. spoken \subseteq named
      BY <2>2, <3>3 DEF NamedSo, SaidOf, Outdone
    <3> QED BY <3>2, <3>4
  <2>6. player.espn = espn /\ player.name = "n" /\ player.label = label
    OBVIOUS
  <2> HIDE DEF named, spoken, player
  <2>7. CASE espn = "a"
    <3>1. player.espn # Nobody /\ player.espn = "a"
      BY <2>6, <2>7 DEF Nobody
    <3> QED BY <2>3, <2>4, <2>7, <3>1, NewestEntryDecides
  <2>8. CASE espn = Nobody
    <3>1. espn # "a" /\ player.espn = Nobody /\ player.name = "n" /\ player.label = label
      BY <2>6, <2>8 DEF Nobody
    <3> DEFINE saved == Overlay(player, Reports(entries, now, Retry))
               called == NamedSo(player.name, entries, now, Retry)
    <3>1a. ASSUME NEW x, called = {x} PROVE saved = Newest(x, player, entries, now, Retry)
      BY <2>3, <2>4, <3>1, <3>1a, NewestByName
    <3>1b. ASSUME \A x : called # {x} PROVE saved = player.label
      <4>1. player.espn = Nobody /\ NoOneSo(player.name, entries, now, Retry)
        BY <3>1, <3>1b DEF NoOneSo
      <4> HIDE DEF called
      <4> QED BY <2>3, <4>1, NobodyByName
    <3>2. /\ \A x : called = {x} => saved = Newest(x, player, entries, now, Retry)
          /\ (\A x : called # {x}) => saved = player.label
      BY <3>1a, <3>1b
    <3>3. called = spoken
      BY <2>5, <3>1 DEF named
    <3> HIDE DEF called, saved
    <3>4. spoken \subseteq {"a", "b"}
      BY DEF spoken
    <3>5. saved = IF spoken = {"a"} THEN Newest("a", player, entries, now, Retry)
                  ELSE IF spoken = {"b"} THEN Newest("b", player, entries, now, Retry)
                  ELSE label
      <4>1. CASE spoken = {"a"}
        BY <3>2, <3>3, <4>1
      <4>2. CASE spoken = {"b"}
        <5>1. {"a"} # {"b"}
          OBVIOUS
        <5> QED BY <3>2, <3>3, <4>2, <5>1
      <4>3. CASE spoken # {"a"} /\ spoken # {"b"}
        <5>1. \A x : spoken # {x}
          BY <3>4, <4>3
        <5> QED BY <3>1, <3>2, <3>3, <4>3, <5>1
      <4> QED BY <4>1, <4>2, <4>3
    <3>6. (IF espn = "a" THEN {"a"} ELSE spoken) = spoken
      BY <3>1
    <3> QED BY <3>5, <3>6 DEF saved, spoken, player
  <2> QED BY <2>7, <2>8 DEF player, spoken
<1> QED BY <1>1, AlwaysFeedInv, PTL

-----------------------------------------------------------------------------
(* The player catalogue.                                                   *)

\* A stamp in memory is less than a time to live ahead of the download, the
\* file's is the download, and no call takes longer than MaxWait.
StampsInv ==
    /\ memo # NoCopy => memo.at - memo.born <= TTL
    /\ disk # NoCopy => disk.at = disk.born
    /\ \A r \in Callers : pc[r] # "idle" => time - entered[r] <= MaxWait

Inv == TypeOK /\ StampsInv /\ AgeBelowTwice

\* A copy that was downloaded by now and less than twice TTL ago may be
\* returned to anyone.
LEMMA ReturnKeepsAges ==
    ASSUME TypeOK, AgeBelowTwice, NEW r \in Callers, NEW copy \in Catalogues,
           copy.born <= time, time - copy.born < 2 * TTL, Return(r, copy)
    PROVE  /\ pc' \in [Callers -> {"idle", "waiting", "downloading"}]
           /\ pc'[r] = "idle" /\ \A s \in Callers : s # r => pc'[s] = pc[s]
           /\ age' \in [Callers -> Nat]
           /\ \A s \in Callers : age'[s] < 2 * TTL
<1>1. time - copy.born \in Nat
  BY DEF TypeOK, Catalogues
<1> QED
  BY <1>1 DEF Return, TypeOK, AgeBelowTwice

LEMMA InitInv == CatalogueInit => Inv
  BY PlayerCatalogueAssumption DEF CatalogueInit, Inv, TypeOK, StampsInv, AgeBelowTwice

LEMMA CallInv ==
    ASSUME Inv, NEW r \in Callers, Call(r)
    PROVE  Inv'
<1> USE PlayerCatalogueAssumption DEF Inv
<1>1. /\ entered' \in [Callers -> Nat] /\ \A s \in Callers : entered'[s] <= time
      /\ entered'[r] = time /\ \A s \in Callers : s # r => entered'[s] = entered[s]
  BY DEF Call, TypeOK
<1>2. UNCHANGED <<time, memo, disk>>
  BY DEF Call
<1>3. CASE MemoIsFresh
  <2>1. memo \in Catalogues /\ memo.born <= time /\ time - memo.born < 2 * TTL
    BY <1>3 DEF MemoIsFresh, TypeOK, StampsInv, Catalogues
  <2>2. Return(r, memo)
    BY <1>3 DEF Call
  <2> QED
    BY <1>1, <1>2, <2>1, <2>2, ReturnKeepsAges DEF TypeOK, StampsInv, AgeBelowTwice
<1>4. CASE ~MemoIsFresh
  <2>1. pc' = [pc EXCEPT ![r] = "waiting"] /\ UNCHANGED age
    BY <1>4 DEF Call
  <2>2. pc' \in [Callers -> {"idle", "waiting", "downloading"}]
    BY <2>1 DEF TypeOK
  <2>3. \A s \in Callers : pc'[s] # "idle" => time - entered'[s] <= MaxWait
    <3> TAKE s \in Callers
    <3>1. CASE s = r
      BY <1>1, <3>1 DEF TypeOK
    <3>2. CASE s # r
      BY <1>1, <2>1, <3>2 DEF TypeOK, StampsInv
    <3> QED BY <3>1, <3>2
  <2> QED
    BY <1>1, <1>2, <2>1, <2>2, <2>3 DEF TypeOK, StampsInv, AgeBelowTwice
<1> QED BY <1>3, <1>4

LEMMA LockedInv ==
    ASSUME Inv, NEW r \in Callers, UnderLock(r)
    PROVE  Inv'
<1> USE PlayerCatalogueAssumption DEF Inv
<1>1. pc[r] = "waiting" /\ time \in Nat /\ entered[r] \in Nat /\ entered[r] <= time
  BY DEF UnderLock, TypeOK
<1>2. UNCHANGED <<time, disk, entered>>
  BY DEF UnderLock
<1>3. time - entered[r] <= MaxWait
  BY <1>1 DEF StampsInv
<1>4. CASE MemoIsFresh
  <2>1. memo \in Catalogues /\ memo.born <= time /\ time - memo.born < 2 * TTL
    BY <1>4 DEF MemoIsFresh, TypeOK, StampsInv, Catalogues
  <2>2. Return(r, memo) /\ UNCHANGED memo
    BY <1>4 DEF UnderLock
  <2> QED
    BY <1>2, <2>1, <2>2, ReturnKeepsAges DEF TypeOK, StampsInv, AgeBelowTwice
<1>5. CASE ~MemoIsFresh /\ DiskIsFresh(r)
  <2> DEFINE copy == [at |-> entered[r], born |-> disk.born]
  <2>1. memo' = copy /\ Return(r, copy)
    BY <1>5 DEF UnderLock
  <2>2. disk # NoCopy /\ disk \in Catalogues /\ disk.at = disk.born /\ entered[r] - disk.at <= TTL
    BY <1>5 DEF DiskIsFresh, TypeOK, StampsInv
  <2>3. copy \in Catalogues /\ copy.at <= time /\ copy.born <= time /\ copy.at - copy.born <= TTL
    BY <1>1, <2>2 DEF Catalogues, TypeOK
  <2>4. time - copy.born < 2 * TTL
    BY <1>1, <1>3, <2>2 DEF Catalogues
  <2>5. copy # NoCopy
    BY <2>3 DEF Catalogues
  <2> HIDE DEF copy
  <2> QED
    BY <1>2, <2>1, <2>3, <2>4, <2>5, ReturnKeepsAges DEF TypeOK, StampsInv, AgeBelowTwice
<1>6. CASE ~MemoIsFresh /\ ~DiskIsFresh(r)
  <2>1. pc' = [pc EXCEPT ![r] = "downloading"] /\ UNCHANGED <<memo, age>>
    BY <1>6 DEF UnderLock
  <2> QED
    BY <1>1, <1>2, <1>3, <2>1 DEF TypeOK, StampsInv, AgeBelowTwice
<1> QED BY <1>4, <1>5, <1>6

LEMMA DownloadedInv ==
    ASSUME Inv, NEW r \in Callers, Downloaded(r)
    PROVE  Inv'
<1> USE PlayerCatalogueAssumption DEF Inv
<1> DEFINE copy == [at |-> entered[r], born |-> time]
           new == [at |-> time, born |-> time]
<1>1. memo' = copy /\ Return(r, copy) /\ UNCHANGED <<time, entered>>
  BY DEF Downloaded
<1>2. time \in Nat /\ entered[r] \in Nat /\ entered[r] <= time
  BY DEF TypeOK
<1>3. /\ copy \in Catalogues /\ copy.at <= time /\ copy.born <= time
      /\ copy.at - copy.born <= TTL /\ time - copy.born < 2 * TTL
  BY <1>2 DEF Catalogues
<1>4. new \in Catalogues /\ new.at = new.born /\ new.at <= time /\ new.born <= time
  BY <1>2 DEF Catalogues
<1>5. disk' = new \/ disk' = disk \/ disk' = NoCopy
  BY DEF Downloaded
<1> HIDE DEF copy, new
<1>6. /\ disk' \in Catalogues \cup {NoCopy}
      /\ disk' # NoCopy => disk'.at = disk'.born /\ disk'.at <= time /\ disk'.born <= time
  BY <1>4, <1>5 DEF TypeOK, StampsInv
<1> QED
  BY <1>1, <1>3, <1>6, ReturnKeepsAges DEF TypeOK, StampsInv, AgeBelowTwice

LEMMA NextInv == Inv /\ [CatalogueNext]_catalogueVars => Inv'
<1> SUFFICES ASSUME Inv, [CatalogueNext]_catalogueVars PROVE Inv'
  OBVIOUS
<1> USE DEF Inv
<1>1. ASSUME NEW r \in Callers, Call(r) PROVE Inv'
  BY <1>1, CallInv
<1>2. ASSUME NEW r \in Callers, UnderLock(r) PROVE Inv'
  BY <1>2, LockedInv
<1>3. ASSUME NEW r \in Callers, Downloaded(r) PROVE Inv'
  BY <1>3, DownloadedInv
<1>4. ASSUME NEW r \in Callers, Fails(r) PROVE Inv'
  BY <1>4 DEF Fails, TypeOK, StampsInv, AgeBelowTwice
<1>5. CASE ProcessRestarts
  BY <1>5 DEF ProcessRestarts, TypeOK, StampsInv, AgeBelowTwice
<1>6. CASE TimePasses
  <2>1. time' = time + 1 /\ UNCHANGED <<memo, disk, pc, entered, age>>
    BY <1>6 DEF TimePasses
  <2>2. \A r \in Callers : pc[r] # "idle" => time - entered[r] < MaxWait
    BY <1>6 DEF TimePasses
  <2>3. (memo # NoCopy => memo.at \in Nat /\ memo.born \in Nat) /\ (disk # NoCopy => disk.at \in Nat /\ disk.born \in Nat)
    BY DEF TypeOK, Catalogues
  <2> QED
    BY <2>1, <2>2, <2>3, PlayerCatalogueAssumption DEF TypeOK, StampsInv, AgeBelowTwice
<1>7. CASE UNCHANGED catalogueVars
  BY <1>7 DEF catalogueVars, TypeOK, StampsInv, AgeBelowTwice
<1> QED BY <1>1, <1>2, <1>3, <1>4, <1>5, <1>6, <1>7 DEF CatalogueNext

\* get_players: nothing in memory or on disk is ever stamped or downloaded in
\* the future.
THEOREM TypeCorrect == CatalogueSpec => []TypeOK
<1>1. CatalogueInit => Inv
  BY InitInv
<1>2. Inv /\ [CatalogueNext]_catalogueVars => Inv'
  BY NextInv
<1>3. Inv => TypeOK
  BY DEF Inv
<1> QED BY <1>1, <1>2, <1>3, PTL DEF CatalogueSpec

\* get_players: for any time to live longer than the longest call, nobody is
\* handed a catalogue as old as twice the time to live.
THEOREM NeverTwiceAsOld == CatalogueSpec => []AgeBelowTwice
<1>1. CatalogueInit => Inv
  BY InitInv
<1>2. Inv /\ [CatalogueNext]_catalogueVars => Inv'
  BY NextInv
<1>3. Inv => AgeBelowTwice
  BY DEF Inv
<1> QED BY <1>1, <1>2, <1>3, PTL DEF CatalogueSpec

\* get_players: the lock admits one download at a time.
THEOREM DownloadsOneByOne == CatalogueSpec => []OneDownload
<1>1. TypeOK /\ OneDownload /\ [CatalogueNext]_catalogueVars => OneDownload'
  <2> SUFFICES ASSUME TypeOK, OneDownload, [CatalogueNext]_catalogueVars PROVE OneDownload'
    OBVIOUS
  <2>1. ASSUME NEW r \in Callers, Call(r) \/ Downloaded(r) \/ Fails(r) PROVE OneDownload'
    <3>1. \A s \in Callers : pc'[s] = "downloading" => pc[s] = "downloading"
      BY <2>1 DEF Call, Downloaded, Fails, Return, TypeOK
    <3> QED BY <3>1 DEF OneDownload
  <2>2. ASSUME NEW r \in Callers, UnderLock(r) PROVE OneDownload'
    <3>1. \A s \in Callers : pc'[s] = "downloading" => s = r
      BY <2>2 DEF UnderLock, LockFree, Return, TypeOK
    <3> QED BY <3>1 DEF OneDownload
  <2>3. CASE ProcessRestarts \/ TimePasses \/ UNCHANGED catalogueVars
    BY <2>3 DEF ProcessRestarts, TimePasses, catalogueVars, OneDownload
  <2> QED BY <2>1, <2>2, <2>3 DEF CatalogueNext
<1>2. CatalogueSpec => []TypeOK
  BY TypeCorrect
<1>3. CatalogueInit => OneDownload
  BY DEF CatalogueInit, OneDownload
<1> QED BY <1>1, <1>2, <1>3, PTL DEF CatalogueSpec

\* get_players: while the file survives, two downloads are more than the time
\* to live apart, whoever asks and however often the process is restarted.
THEOREM DownloadsKeepApart == CatalogueSpec => DownloadsApart
<1> DEFINE A == \A r \in Callers :
              pc[r] # "downloading" /\ pc'[r] = "downloading" /\ disk # NoCopy => time - disk.born > TTL
<1>1. Inv /\ [CatalogueNext]_catalogueVars => [A]_catalogueVars
  <2> SUFFICES ASSUME Inv, [CatalogueNext]_catalogueVars, NEW r \in Callers,
                      pc[r] # "downloading", pc'[r] = "downloading", disk # NoCopy
               PROVE  time - disk.born > TTL
    OBVIOUS
  <2> USE DEF Inv
  <2>1. PICK s \in Callers : UnderLock(s)
    BY DEF CatalogueNext, Call, Downloaded, Fails, ProcessRestarts, TimePasses, Return, catalogueVars, TypeOK
  <2>2. s = r /\ ~DiskIsFresh(r)
    BY <2>1 DEF UnderLock, Return, TypeOK
  <2>3. disk \in Catalogues /\ disk.at = disk.born /\ entered[r] <= time /\ entered[r] \in Nat /\ time \in Nat
    BY DEF TypeOK, StampsInv
  <2> QED
    BY <2>2, <2>3, PlayerCatalogueAssumption DEF DiskIsFresh, Catalogues
<1>2. CatalogueInit => Inv
  BY InitInv
<1>3. Inv /\ [CatalogueNext]_catalogueVars => Inv'
  BY NextInv
<1> QED BY <1>1, <1>2, <1>3, PTL DEF CatalogueSpec, DownloadsApart
=============================================================================
