-------------------------- MODULE AutoReplyProofs --------------------------
(***************************************************************************)
(* Proofs about AutoReply for any managers, messages and failures.         *)
(***************************************************************************)
EXTENDS AutoReply, WellFoundedInduction, TLAPS

-----------------------------------------------------------------------------
(* Chats.                                                                  *)

Ordered(t, at) ==
    \A i, j \in DOMAIN t : t[i].id <= at /\ (i < j => t[i].id < t[j].id)

Answered(t) ==
    \A i, j \in DOMAIN t :
        i < j /\ t[i].by = "auto" /\ t[j].by = "auto" => \E k \in i..j : t[k].by = "them"

\* Somewhere in the chat is a message of theirs that no automatic reply
\* follows.
Open(t) ==
    \E i \in DOMAIN t : t[i].by = "them" /\ \A j \in DOMAIN t : j > i => t[j].by # "auto"

LEMMA Appended ==
    ASSUME NEW t \in Seq(Messages), NEW m \in Messages
    PROVE  /\ Append(t, m) \in Seq(Messages)
           /\ Len(t) \in Nat /\ DOMAIN t = 1..Len(t)
           /\ DOMAIN Append(t, m) = 1..(Len(t) + 1)
           /\ \A i \in 1..Len(t) : Append(t, m)[i] = t[i]
           /\ Append(t, m)[Len(t) + 1] = m
  OBVIOUS

LEMMA AppendedOrdered ==
    ASSUME NEW t \in Seq(Messages), NEW m \in Messages, NEW at \in Nat,
           Ordered(t, at), m.id = at + 1
    PROVE  Ordered(Append(t, m), at + 1)
<1> DEFINE n == Append(t, m)
<1>0. \A i \in DOMAIN t : t[i] \in Messages
  OBVIOUS
<1>1. \A i \in DOMAIN t : t[i].id \in Nat
  BY <1>0 DEF Messages
<1>2. SUFFICES ASSUME NEW i \in DOMAIN n, NEW j \in DOMAIN n
               PROVE  n[i].id <= at + 1 /\ (i < j => n[i].id < n[j].id)
  BY DEF Ordered
<1>3. i \in 1..(Len(t) + 1) /\ j \in 1..(Len(t) + 1) /\ Len(t) \in Nat
  BY Appended
<1>4. CASE i \in 1..Len(t)
  <2>1. n[i] = t[i] /\ t[i].id <= at /\ t[i].id \in Nat
    BY <1>1, <1>4, Appended DEF Ordered
  <2>2. CASE j \in 1..Len(t)
    <3>1. n[j] = t[j] /\ (i < j => t[i].id < t[j].id)
      BY <1>4, <2>2, Appended DEF Ordered
    <3> QED BY <2>1, <3>1
  <2>3. CASE j = Len(t) + 1
    <3>1. n[j] = m
      BY <2>3, Appended
    <3> QED BY <2>1, <3>1
  <2> HIDE DEF n
  <2> QED BY <1>3, <2>2, <2>3
<1>5. CASE i = Len(t) + 1
  <2>1. n[i] = m
    BY <1>5, Appended
  <2> HIDE DEF n
  <2> QED BY <1>3, <1>5, <2>1
<1> HIDE DEF n
<1> QED BY <1>3, <1>4, <1>5

LEMMA AppendedAnswered ==
    ASSUME NEW t \in Seq(Messages), NEW m \in Messages, Answered(t),
           m.by = "auto" => Open(t)
    PROVE  Answered(Append(t, m))
<1> DEFINE n == Append(t, m)
<1>1. SUFFICES ASSUME NEW i \in DOMAIN n, NEW j \in DOMAIN n, i < j, n[i].by = "auto", n[j].by = "auto"
               PROVE  \E k \in i..j : n[k].by = "them"
  BY DEF Answered
<1>2. i \in 1..Len(t) /\ j \in 1..(Len(t) + 1) /\ Len(t) \in Nat /\ n[i] = t[i]
  BY <1>1, Appended
<1>3. CASE j \in 1..Len(t)
  <2>1. n[j] = t[j]
    BY <1>3, Appended
  <2>2. PICK k \in i..j : t[k].by = "them"
    BY <1>1, <1>2, <1>3, <2>1, Appended DEF Answered
  <2>3. n[k] = t[k]
    BY <1>2, <1>3, <2>2, Appended
  <2> QED BY <2>2, <2>3
<1>4. CASE j = Len(t) + 1
  <2>1. m.by = "auto"
    BY <1>1, <1>4, Appended
  <2>2. PICK k \in 1..Len(t) : t[k].by = "them" /\ \A l \in 1..Len(t) : l > k => t[l].by # "auto"
    BY <2>1, Appended DEF Open
  <2>3. i <= k
    BY <1>1, <1>2, <2>2
  <2>4. n[k] = t[k]
    BY <2>2, Appended
  <2> QED BY <1>2, <1>4, <2>2, <2>3, <2>4
<1> QED BY <1>2, <1>3, <1>4

\* Whatever anyone but the sweep writes, a message stays open.
LEMMA AppendedOpen ==
    ASSUME NEW t \in Seq(Messages), NEW m \in Messages, Open(t), m.by # "auto"
    PROVE  Open(Append(t, m))
<1> DEFINE n == Append(t, m)
<1>1. PICK k \in 1..Len(t) : t[k].by = "them" /\ \A l \in 1..Len(t) : l > k => t[l].by # "auto"
  BY Appended DEF Open
<1>2. k \in DOMAIN n /\ n[k].by = "them"
  BY <1>1, Appended
<1>3. \A l \in DOMAIN n : l > k => n[l].by # "auto"
  <2> SUFFICES ASSUME NEW l \in DOMAIN n, l > k PROVE n[l].by # "auto"
    OBVIOUS
  <2>1. l \in 1..Len(t) \/ l = Len(t) + 1
    BY Appended
  <2> QED BY <1>1, <2>1, Appended
<1> QED BY <1>2, <1>3 DEF Open

\* Among finitely many positions there is a last one.
LEMMA LastPosition ==
    ASSUME NEW n \in Nat, NEW P \in SUBSET (1..n), P # {}
    PROVE  \E i \in P : \A j \in P : j <= i
<1> DEFINE fromEnd == {n - i : i \in P}
           less == OpToRel(<, Nat)
<1>1. fromEnd \subseteq Nat /\ fromEnd # {}
  <2>1. \A i \in P : n - i \in Nat
    OBVIOUS
  <2>2. \E i \in P : n - i \in fromEnd
    OBVIOUS
  <2> QED BY <2>1, <2>2
<1>2. PICK x \in fromEnd : \A y \in fromEnd : <<y, x>> \notin less
  BY <1>1, NatLessThanWellFounded, WFMin
<1>3. \A y \in fromEnd : ~(y < x)
  BY <1>1, <1>2 DEF OpToRel
<1>4. PICK i \in P : x = n - i
  BY <1>2
<1>5. \A j \in P : j <= i
  <2> SUFFICES ASSUME NEW j \in P PROVE j <= i
    OBVIOUS
  <2>1. ~(n - j < n - i)
    BY <1>3, <1>4
  <2> QED BY <2>1
<1> QED BY <1>5

\* A chat with a message to answer is open.
LEMMA IncomingOpen ==
    ASSUME NEW t \in Seq(Messages), NEW row, Incoming(t, row) # None
    PROVE  Open(t) /\ Incoming(t, row) \in Nat
<1>1. /\ Theirs(t) # {}
      /\ \A i \in DOMAIN t : i > Latest(t) => t[i].by = "them"
  BY DEF Incoming
<1>2. Theirs(t) \in SUBSET (1..Len(t)) /\ Len(t) \in Nat
  BY DEF Theirs
<1>3. \E i \in Theirs(t) : \A j \in Theirs(t) : j <= i
  BY <1>1, <1>2, LastPosition
<1>4. Latest(t) \in Theirs(t)
  BY <1>3 DEF Latest
<1>5. Open(t)
  BY <1>1, <1>4 DEF Open, Theirs
<1>6. t[Latest(t)] \in Messages
  BY <1>4 DEF Theirs
<1>7. Incoming(t, row) = t[Latest(t)].id
  BY DEF Incoming
<1> QED BY <1>5, <1>6, <1>7 DEF Messages

-----------------------------------------------------------------------------
(* The invariant.                                                          *)

ChatsOK ==
    /\ clock \in Nat
    /\ thread \in [Managers -> Seq(Messages)]
    /\ \A m \in Managers : Ordered(thread[m], clock)

TargetSets == UNION {[checked -> TargetRows] : checked \in SUBSET Managers}

Sweeps ==
    [phase : Phases, rows : TargetSets, todo : SUBSET Managers,
     manager : Managers \cup {None}, incoming : Nat \cup {None}]

RowsOK == enabled \in BOOLEAN /\ targets \in TargetSets

SweepOK ==
    /\ sweep \in Sweeps /\ sweep.todo \subseteq DOMAIN sweep.rows
    /\ sweep.phase \in {"compose", "send", "record"} =>
         sweep.manager \in DOMAIN sweep.rows /\ sweep.incoming \in Nat

\* While a reply is composed and until it is sent, the message it answers is
\* open: nobody else writes automatic replies.
Pending == sweep.phase \in {"compose", "send"} => Open(thread[sweep.manager])

Inv ==
    /\ ChatsOK /\ RowsOK /\ SweepOK /\ Pending /\ AnsweredOnce
    /\ faults \in Nat /\ recorded \subseteq Nat

LEMMA TargetSetShape ==
    ASSUME NEW f \in TargetSets
    PROVE  DOMAIN f \subseteq Managers /\ f \in [DOMAIN f -> TargetRows]
  BY DEF TargetSets

LEMMA TargetSetMade ==
    ASSUME NEW A \in SUBSET Managers, NEW f \in [A -> TargetRows]
    PROVE  f \in TargetSets
  BY DEF TargetSets

LEMMA InvTypeOK == Inv => TypeOK
<1> SUFFICES ASSUME Inv PROVE TypeOK
  OBVIOUS
<1>1. IsTargets(targets)
  BY TargetSetShape DEF Inv, RowsOK, IsTargets
<1>2. sweep \in Sweeps /\ sweep.rows \in TargetSets
  BY DEF Inv, SweepOK, Sweeps
<1>3. IsTargets(sweep.rows)
  BY <1>2, TargetSetShape DEF IsTargets
<1>4. IsSweep(sweep)
  BY <1>2, <1>3 DEF Inv, SweepOK, IsSweep, Sweeps
<1> QED BY <1>1, <1>4 DEF Inv, TypeOK, ChatsOK, RowsOK, Ordered

LEMMA IdleOK == Idle \in Sweeps /\ Idle.todo \subseteq DOMAIN Idle.rows /\ Idle.phase = "idle"
<1>1. [m \in {} |-> Row(0)] \in [{} -> TargetRows]
  OBVIOUS
<1>2. [m \in {} |-> Row(0)] \in TargetSets
  BY <1>1, TargetSetMade
<1> QED BY <1>2 DEF Idle, Sweeps, Phases

LEMMA InitInv == Init => Inv
<1> SUFFICES ASSUME Init PROVE Inv
  OBVIOUS
<1> USE DEF Init
<1>1. << >> \in Seq(Messages) /\ DOMAIN << >> = {}
  OBVIOUS
<1>2. ChatsOK /\ AnsweredOnce
  BY <1>1 DEF ChatsOK, Ordered, AnsweredOnce
<1>3. RowsOK
  <2>1. targets \in [Managers -> TargetRows]
    BY DEF Row, TargetRows
  <2> QED BY <2>1, TargetSetMade DEF RowsOK
<1>4. SweepOK /\ Pending
  BY IdleOK DEF SweepOK, Pending
<1> QED BY <1>2, <1>3, <1>4 DEF Inv

\* A message written by anyone keeps the chats; an automatic one answers a
\* message that is open.
LEMMA Written ==
    ASSUME ChatsOK, AnsweredOnce, NEW m \in Managers, NEW msg \in Messages, msg.id = clock + 1,
           msg.by = "auto" => Open(thread[m]),
           clock' = clock + 1, thread' = [thread EXCEPT ![m] = Append(@, msg)]
    PROVE  ChatsOK' /\ AnsweredOnce'
<1>1. thread[m] \in Seq(Messages) /\ clock \in Nat /\ clock + 1 \in Nat
  BY DEF ChatsOK
<1>2. thread'[m] = Append(thread[m], msg) /\ \A o \in Managers : o # m => thread'[o] = thread[o]
  BY DEF ChatsOK
<1>3. Append(thread[m], msg) \in Seq(Messages) /\ thread' \in [Managers -> Seq(Messages)]
  BY <1>1, Appended DEF ChatsOK
<1>4. \A o \in Managers : Ordered(thread'[o], clock')
  <2> SUFFICES ASSUME NEW o \in Managers PROVE Ordered(thread'[o], clock')
    OBVIOUS
  <2>1. CASE o = m
    BY <1>1, <1>2, <2>1, AppendedOrdered DEF ChatsOK
  <2>2. CASE o # m
    <3>1. thread[o] \in Seq(Messages) /\ Ordered(thread[o], clock) /\ thread'[o] = thread[o]
      BY <1>2, <2>2 DEF ChatsOK
    <3>2. \A i \in DOMAIN thread[o] : thread[o][i] \in Messages
      BY <3>1
    <3> QED BY <1>1, <3>1, <3>2 DEF Ordered, Messages
  <2> QED BY <2>1, <2>2
<1>5. \A o \in Managers : Answered(thread'[o])
  <2> SUFFICES ASSUME NEW o \in Managers PROVE Answered(thread'[o])
    OBVIOUS
  <2>1. Answered(thread[o])
    BY DEF AnsweredOnce, Answered
  <2>2. CASE o = m
    BY <1>1, <1>2, <2>1, <2>2, AppendedAnswered
  <2>3. CASE o # m
    BY <1>2, <2>1, <2>3
  <2> QED BY <2>2, <2>3
<1> QED BY <1>1, <1>3, <1>4, <1>5 DEF ChatsOK, AnsweredOnce, Answered

\* A message nobody sent automatically leaves what is pending open.
LEMMA StillPending ==
    ASSUME ChatsOK, SweepOK, Pending, NEW m \in Managers, NEW msg \in Messages, msg.by # "auto",
           thread' = [thread EXCEPT ![m] = Append(@, msg)], sweep' = sweep
    PROVE  Pending'
<1> SUFFICES ASSUME sweep.phase \in {"compose", "send"} PROVE Open(thread'[sweep.manager])
  BY DEF Pending
<1>1. Open(thread[sweep.manager]) /\ sweep.manager \in Managers
  BY TargetSetShape DEF Pending, SweepOK, Sweeps
<1>2. thread[sweep.manager] \in Seq(Messages)
  BY <1>1 DEF ChatsOK
<1> QED BY <1>1, <1>2, AppendedOpen DEF ChatsOK

\* A sweep that goes on to nobody in particular.
LEMMA Onward ==
    ASSUME SweepOK, sweep' = [sweep EXCEPT !.phase = "next", !.manager = None, !.incoming = None]
    PROVE  SweepOK' /\ sweep'.phase = "next"
  BY DEF SweepOK, Sweeps, Phases

LEMMA IdleInv ==
    ASSUME Inv, sweep' = Idle, UNCHANGED <<clock, thread, enabled, targets>>,
           faults' \in Nat, recorded' \subseteq Nat
    PROVE  Inv'
<1>1. SweepOK' /\ Pending'
  BY IdleOK DEF SweepOK, Pending
<1> QED BY <1>1 DEF Inv, ChatsOK, Ordered, RowsOK, AnsweredOnce

LEMMA StartSweepInv == Inv /\ StartSweep => Inv'
<1> SUFFICES ASSUME Inv, StartSweep PROVE Inv'
  OBVIOUS
<1>1. targets \in TargetSets /\ DOMAIN targets \subseteq Managers
  BY TargetSetShape DEF Inv, RowsOK
<1>2. sweep' = [Idle EXCEPT !.phase = "next", !.rows = targets, !.todo = DOMAIN targets]
  BY DEF StartSweep
<1>3. SweepOK' /\ Pending'
  BY <1>1, <1>2 DEF Idle, SweepOK, Pending, Sweeps, Phases
<1> QED BY <1>3 DEF StartSweep, Inv, ChatsOK, Ordered, RowsOK, AnsweredOnce

LEMMA ReadChatInv == Inv /\ ReadChat => Inv'
<1> SUFFICES ASSUME Inv, ReadChat PROVE Inv'
  OBVIOUS
<1>1. PICK m \in sweep.todo :
        sweep' = [sweep EXCEPT !.todo = @ \ {m},
                    !.phase = IF Incoming(thread[m], sweep.rows[m]) = None THEN "next" ELSE "compose",
                    !.manager = IF Incoming(thread[m], sweep.rows[m]) = None THEN None ELSE m,
                    !.incoming = Incoming(thread[m], sweep.rows[m])]
  BY DEF ReadChat
<1>2. m \in Managers /\ m \in DOMAIN sweep.rows /\ thread[m] \in Seq(Messages)
  BY DEF Inv, SweepOK, Sweeps, ChatsOK
<1> DEFINE incoming == Incoming(thread[m], sweep.rows[m])
<1>3. incoming # None => Open(thread[m]) /\ incoming \in Nat
  BY <1>2, IncomingOpen
<1>4. sweep \in Sweeps /\ sweep.todo \subseteq DOMAIN sweep.rows
  BY DEF Inv, SweepOK
<1> HIDE DEF incoming
<1>5. sweep' = [sweep EXCEPT !.todo = sweep.todo \ {m}, !.phase = IF incoming = None THEN "next" ELSE "compose",
                    !.manager = IF incoming = None THEN None ELSE m, !.incoming = incoming]
  BY <1>1 DEF incoming
<1>6. UNCHANGED <<clock, thread, enabled, targets, faults, recorded>>
  BY DEF ReadChat
<1>7. CASE incoming = None
  <2>1. SweepOK' /\ sweep'.phase = "next"
    BY <1>4, <1>5, <1>7 DEF SweepOK, Sweeps, Phases
  <2> QED BY <1>6, <2>1 DEF Inv, Pending, ChatsOK, Ordered, RowsOK, AnsweredOnce
<1>8. CASE incoming # None
  <2>1. SweepOK' /\ sweep'.manager = m
    BY <1>2, <1>3, <1>4, <1>5, <1>8 DEF SweepOK, Sweeps, Phases
  <2>2. Pending'
    BY <1>3, <1>6, <1>8, <2>1 DEF Pending
  <2> QED BY <1>6, <2>1, <2>2 DEF Inv, ChatsOK, Ordered, RowsOK, AnsweredOnce
<1> QED BY <1>7, <1>8

LEMMA ComposedInv == Inv /\ Composed => Inv'
<1> SUFFICES ASSUME Inv, Composed PROVE Inv'
  OBVIOUS
<1>1. PICK text \in BOOLEAN : sweep' = [sweep EXCEPT !.phase = IF text THEN "send" ELSE "record"]
  BY DEF Composed
<1>2. sweep.phase = "compose" /\ UNCHANGED <<clock, thread, enabled, targets, faults, recorded>>
  BY DEF Composed
<1>3. SweepOK' /\ sweep'.manager = sweep.manager
  BY <1>1, <1>2 DEF Inv, SweepOK, Sweeps, Phases
<1>4. Pending'
  BY <1>2, <1>3 DEF Inv, Pending
<1> QED BY <1>2, <1>3, <1>4 DEF Inv, ChatsOK, Ordered, RowsOK, AnsweredOnce

\* The automatic reply answers the open message.
LEMMA AutoMessageSafe ==
    ASSUME Inv, sweep.phase = "send", AutoMessage
    PROVE  ChatsOK' /\ AnsweredOnce'
<1> DEFINE msg == [id |-> clock + 1, by |-> "auto", upto |-> sweep.incoming]
<1>1. sweep.manager \in Managers /\ sweep.incoming \in Nat /\ Open(thread[sweep.manager])
  BY TargetSetShape DEF Inv, SweepOK, Sweeps, Pending
<1>2. msg \in Messages /\ msg.id = clock + 1
  BY <1>1 DEF Inv, ChatsOK, Messages, Authors
<1>3. clock' = clock + 1 /\ thread' = [thread EXCEPT ![sweep.manager] = Append(@, msg)]
  BY DEF AutoMessage
<1> HIDE DEF msg
<1> QED BY <1>1, <1>2, <1>3, Written DEF Inv

LEMMA SendInv == Inv /\ Send => Inv'
<1> SUFFICES ASSUME Inv, Send PROVE Inv'
  OBVIOUS
<1>1. ChatsOK' /\ AnsweredOnce'
  BY AutoMessageSafe DEF Send
<1>2. SweepOK' /\ sweep'.phase = "record"
  BY DEF Send, Inv, SweepOK, Sweeps, Phases
<1> QED BY <1>1, <1>2 DEF Send, Inv, RowsOK, Pending

LEMMA FailsInv == Inv /\ Fails => Inv'
<1> SUFFICES ASSUME Inv, Fails PROVE Inv'
  OBVIOUS
<1>1. faults' \in Nat /\ recorded' = recorded /\ sweep' = Idle /\ UNCHANGED <<enabled, targets>>
  BY DEF Fails, Fault, Inv
<1>2. CASE UNCHANGED <<clock, thread>>
  BY <1>1, <1>2, IdleInv DEF Inv
<1>3. CASE sweep.phase = "send" /\ AutoMessage
  <2>1. ChatsOK' /\ AnsweredOnce'
    BY <1>3, AutoMessageSafe
  <2>2. SweepOK' /\ Pending'
    BY <1>1, IdleOK DEF SweepOK, Pending
  <2> QED BY <1>1, <2>1, <2>2 DEF Inv, RowsOK
<1> QED BY <1>2, <1>3 DEF Fails

LEMMA RecordInv == Inv /\ Record => Inv'
<1> SUFFICES ASSUME Inv, Record PROVE Inv'
  OBVIOUS
<1>1. sweep.incoming \in Nat /\ UNCHANGED <<clock, thread, enabled, faults>>
  BY DEF Record, Inv, SweepOK
<1> DEFINE m == sweep.manager
<1>2. CASE m \in DOMAIN targets /\ targets[m].row = sweep.rows[m].row
  <2>1. /\ targets' = [targets EXCEPT ![m].lastId = sweep.incoming]
        /\ recorded' = recorded \cup {sweep.incoming}
        /\ sweep' = [sweep EXCEPT !.phase = "next", !.manager = None, !.incoming = None]
    BY <1>2 DEF Record
  <2>2. targets' \in TargetSets
    <3>1. targets \in [DOMAIN targets -> TargetRows] /\ DOMAIN targets \subseteq Managers
      BY TargetSetShape DEF Inv, RowsOK
    <3>2. targets' \in [DOMAIN targets -> TargetRows]
      BY <1>1, <1>2, <2>1, <3>1 DEF TargetRows
    <3> QED BY <3>1, <3>2, TargetSetMade
  <2>3. SweepOK' /\ sweep'.phase = "next"
    BY <2>1, Onward DEF Inv
  <2> QED BY <1>1, <2>1, <2>2, <2>3 DEF Inv, ChatsOK, Ordered, RowsOK, Pending, AnsweredOnce
<1>3. CASE ~(m \in DOMAIN targets /\ targets[m].row = sweep.rows[m].row)
  <2>1. sweep' = Idle /\ UNCHANGED <<targets, recorded>>
    BY <1>3 DEF Record
  <2> QED BY <1>1, <2>1, IdleInv DEF Inv
<1> QED BY <1>2, <1>3

LEMMA WritesInv ==
    ASSUME Inv, NEW m \in Managers, TheyWrite(m) \/ UserWrites(m)
    PROVE  Inv'
<1>1. PICK by \in {"them", "me"} :
        thread' = [thread EXCEPT ![m] = Append(@, [id |-> clock + 1, by |-> by, upto |-> None])]
  BY DEF TheyWrite, UserWrites
<1> DEFINE msg == [id |-> clock + 1, by |-> by, upto |-> None]
<1>2. msg \in Messages /\ msg.id = clock + 1 /\ msg.by # "auto"
  BY DEF Inv, ChatsOK, Messages, Authors
<1>3. clock' = clock + 1 /\ UNCHANGED <<enabled, targets, sweep, faults, recorded>>
  BY DEF TheyWrite, UserWrites
<1>4. thread' = [thread EXCEPT ![m] = Append(@, msg)]
  BY <1>1
<1> HIDE DEF msg
<1>5. ChatsOK' /\ AnsweredOnce'
  BY <1>2, <1>3, <1>4, Written DEF Inv
<1>6. Pending'
  BY <1>2, <1>3, <1>4, StillPending DEF Inv
<1>7. SweepOK' /\ RowsOK'
  BY <1>3 DEF Inv, SweepOK, RowsOK
<1> QED BY <1>3, <1>5, <1>6, <1>7 DEF Inv

\* The row a save switches on again is still a row.
LEMMA Restamped ==
    ASSUME NEW r \in TargetRows, NEW stamp \in Nat
    PROVE  [r EXCEPT !.enabledAt = stamp, !.lastId = None] \in TargetRows
BY DEF TargetRows

LEMMA SaveInv ==
    ASSUME Inv, NEW on \in BOOLEAN, NEW wanted \in SUBSET Managers, Save(on, wanted)
    PROVE  Inv'
<1>1. clock \in Nat /\ clock' = clock + 1 /\ UNCHANGED <<thread, sweep, faults, recorded>>
  BY DEF Save, Inv, ChatsOK
<1>2. targets \in [DOMAIN targets -> TargetRows]
  BY TargetSetShape DEF Inv, RowsOK
<1>3. Row(clock + 1) \in TargetRows
  BY <1>1 DEF Row, TargetRows
<1>4. \A m \in DOMAIN targets :
        targets[m] \in TargetRows /\ [targets[m] EXCEPT !.enabledAt = clock + 1, !.lastId = None] \in TargetRows
  <2> SUFFICES ASSUME NEW m \in DOMAIN targets
               PROVE  targets[m] \in TargetRows /\ [targets[m] EXCEPT !.enabledAt = clock + 1, !.lastId = None] \in TargetRows
    OBVIOUS
  <2>1. targets[m] \in TargetRows
    BY <1>2
  <2>2. clock + 1 \in Nat
    BY <1>1
  <2> QED BY <2>1, <2>2, Restamped
<1>5. targets' \in [wanted -> TargetRows]
  <2>1. targets' = [m \in wanted |-> targets'[m]]
    BY DEF Save
  <2>2. \A m \in wanted : m \notin DOMAIN targets => targets'[m] = Row(clock + 1)
    BY DEF Save
  <2>3. \A m \in wanted : m \in DOMAIN targets =>
          targets'[m] \in {targets[m], [targets[m] EXCEPT !.enabledAt = clock + 1, !.lastId = None]}
    BY DEF Save
  <2>4. \A m \in wanted : targets'[m] \in TargetRows
    BY <1>3, <1>4, <2>2, <2>3
  <2> QED BY <2>1, <2>4
<1>6. RowsOK'
  BY <1>5, TargetSetMade DEF Save, RowsOK
<1>7. ChatsOK'
  <2>1. ASSUME NEW m \in Managers PROVE Ordered(thread[m], clock + 1)
    <3>1. thread[m] \in Seq(Messages) /\ Ordered(thread[m], clock)
      BY DEF Inv, ChatsOK
    <3>2. \A i \in DOMAIN thread[m] : thread[m][i] \in Messages
      BY <3>1
    <3>3. \A i \in DOMAIN thread[m] : thread[m][i].id \in Nat
      BY <3>2 DEF Messages
    <3> QED BY <1>1, <3>1, <3>3 DEF Ordered
  <2> QED BY <1>1, <2>1 DEF Inv, ChatsOK
<1> QED BY <1>1, <1>6, <1>7 DEF Inv, SweepOK, Pending, AnsweredOnce

LEMMA NextInv == Inv /\ [Next]_vars => Inv'
<1> SUFFICES ASSUME Inv, [Next]_vars PROVE Inv'
  OBVIOUS
<1>1. CASE EndSweep
  BY <1>1, IdleInv DEF EndSweep, Inv
<1>2. CASE Crash
  BY <1>2, IdleInv DEF Crash, Fault, Inv
<1>3. CASE UNCHANGED vars
  BY <1>3 DEF vars, Inv, ChatsOK, Ordered, RowsOK, SweepOK, Pending, AnsweredOnce
<1> QED
  BY <1>1, <1>2, <1>3, StartSweepInv, ReadChatInv, ComposedInv, SendInv, FailsInv, RecordInv,
     WritesInv, SaveInv DEF Next

\* auto_reply: chats, settings and the sweep keep their types, ids grow along a
\* chat, and a sweep works on rows it loaded.
THEOREM TypeCorrect == Spec => []TypeOK
  BY InitInv, NextInv, InvTypeOK, PTL DEF Spec

\* sweep_auto_replies: with any number of managers, whatever is lost, refused,
\* saved or restarted, nobody gets two automatic replies in a row without
\* having written in between.
THEOREM NobodyAnsweredTwice == Spec => []AnsweredOnce
<1>1. Inv => AnsweredOnce
  BY DEF Inv
<1> QED BY <1>1, InitInv, NextInv, PTL DEF Spec

-----------------------------------------------------------------------------
(* What was handled is not taken up again.                                 *)

\* The last message of theirs in a chat, when its handling was committed, is
\* the one the row names, or was written before the row was switched on.
Covered(t, row, done) ==
    \A i \in Theirs(t) :
        (\A j \in Theirs(t) : j <= i) /\ t[i].id \in done =>
            row.lastId = t[i].id \/ row.enabledAt >= t[i].id

\* A message is in one chat.
ChatsApart ==
    \A m, o \in Managers : m # o =>
        \A i \in DOMAIN thread[m], j \in DOMAIN thread[o] : thread[m][i].id # thread[o][j].id

\* A message of theirs, later than all that were handled in its chat.
Ahead(t, id, done) ==
    /\ \E i \in Theirs(t) : t[i].id = id
    /\ \A i \in Theirs(t) : t[i].id \in done => t[i].id < id

\* The message a sweep works on is ahead of what was handled in that chat, and
\* the sweep does not come back to the chat.
AheadOfRecorded ==
    sweep.phase \in {"compose", "send", "record"} =>
        /\ sweep.manager \notin sweep.todo
        /\ Ahead(thread[sweep.manager], sweep.incoming, recorded)

\* The rows saved and the rows a sweep has yet to go through know what was
\* handled.
HandledInv ==
    /\ \A id \in recorded : id <= clock
    /\ ChatsApart /\ AheadOfRecorded
    /\ \A m \in DOMAIN targets : Covered(thread[m], targets[m], recorded)
    /\ \A m \in sweep.todo : Covered(thread[m], sweep.rows[m], recorded)

LEMMA CoveredAppend ==
    ASSUME NEW t \in Seq(Messages), NEW msg \in Messages, NEW at \in Nat, msg.id = at + 1,
           NEW done, \A id \in done : id <= at
    PROVE  /\ \A row : Covered(t, row, done) => Covered(Append(t, msg), row, done)
           /\ \A id : Ahead(t, id, done) => Ahead(Append(t, msg), id, done)
<1> DEFINE n == Append(t, msg)
<1>1. /\ DOMAIN t = 1..Len(t) /\ DOMAIN n = 1..(Len(t) + 1) /\ Len(t) \in Nat
      /\ \A i \in 1..Len(t) : n[i] = t[i]
      /\ n[Len(t) + 1] = msg
  BY Appended
<1> HIDE DEF n
<1>2. Theirs(t) \subseteq Theirs(n) /\ \A i \in Theirs(t) : n[i] = t[i]
  BY <1>1 DEF Theirs
<1>3. msg.id \notin done
  BY DEF Messages
<1>4. \A i \in Theirs(n) : n[i].id \in done => i \in Theirs(t)
  BY <1>1, <1>3 DEF Theirs
<1>5. ASSUME NEW row, Covered(t, row, done) PROVE Covered(n, row, done)
  BY <1>2, <1>4, <1>5 DEF Covered
<1>6. ASSUME NEW id, Ahead(t, id, done) PROVE Ahead(n, id, done)
  BY <1>2, <1>4, <1>6 DEF Ahead
<1> QED BY <1>5, <1>6 DEF n

\* A message anyone writes is a new one: chats stay apart, and what the rows
\* know stays enough.
LEMMA WrittenApart ==
    ASSUME ChatsOK, ChatsApart, NEW m \in Managers, NEW msg \in Messages, msg.id = clock + 1,
           recorded \subseteq Nat, \A id \in recorded : id <= clock,
           clock' = clock + 1, thread' = [thread EXCEPT ![m] = Append(@, msg)]
    PROVE  /\ ChatsApart' /\ \A id \in recorded : id <= clock'
           /\ \A o \in Managers : \A row : Covered(thread[o], row, recorded) => Covered(thread'[o], row, recorded)
           /\ \A o \in Managers : \A id : Ahead(thread[o], id, recorded) => Ahead(thread'[o], id, recorded)
<1>1. thread[m] \in Seq(Messages) /\ clock \in Nat
  BY DEF ChatsOK
<1>2. thread'[m] = Append(thread[m], msg) /\ \A o \in Managers : o # m => thread'[o] = thread[o]
  BY DEF ChatsOK
<1>3. \A id \in recorded : id <= clock'
  <2> SUFFICES ASSUME NEW id \in recorded PROVE id <= clock + 1
    OBVIOUS
  <2>1. id <= clock /\ id \in Nat
    OBVIOUS
  <2> QED BY <1>1, <2>1
<1>4. \A o \in Managers : \A row : Covered(thread[o], row, recorded) => Covered(thread'[o], row, recorded)
  BY <1>1, <1>2, CoveredAppend
<1>5. \A o \in Managers : \A id : Ahead(thread[o], id, recorded) => Ahead(thread'[o], id, recorded)
  BY <1>1, <1>2, CoveredAppend
<1>6. \A o \in Managers : \A i \in DOMAIN thread[o] : thread[o][i].id # msg.id
  <2> SUFFICES ASSUME NEW o \in Managers, NEW i \in DOMAIN thread[o] PROVE thread[o][i].id # msg.id
    OBVIOUS
  <2>1. thread[o] \in Seq(Messages) /\ thread[o][i].id <= clock
    BY DEF ChatsOK, Ordered
  <2>2. thread[o][i] \in Messages
    BY <2>1
  <2> QED BY <1>1, <2>1, <2>2 DEF Messages
<1>7. \A o \in Managers : \A i \in DOMAIN thread'[o] :
        \/ i \in DOMAIN thread[o] /\ thread'[o][i] = thread[o][i]
        \/ o = m /\ thread'[o][i] = msg
  <2> SUFFICES ASSUME NEW i \in DOMAIN thread'[m]
               PROVE  \/ i \in DOMAIN thread[m] /\ thread'[m][i] = thread[m][i]
                      \/ thread'[m][i] = msg
    BY <1>2
  <2> QED BY <1>1, <1>2, Appended
<1>8. ChatsApart'
  <2> SUFFICES ASSUME NEW o \in Managers, NEW q \in Managers, o # q,
                      NEW i \in DOMAIN thread'[o], NEW j \in DOMAIN thread'[q]
               PROVE  thread'[o][i].id # thread'[q][j].id
    BY DEF ChatsApart
  <2> QED BY <1>6, <1>7 DEF ChatsApart
<1> QED BY <1>3, <1>4, <1>5, <1>8

\* The message a chat waits for an answer to is its last one of theirs, and
\* nobody has handled it.
LEMMA IncomingIsNew ==
    ASSUME NEW t \in Seq(Messages), NEW at \in Nat, Ordered(t, at), NEW row \in TargetRows, NEW done,
           Covered(t, row, done), Incoming(t, row) # None
    PROVE  /\ Incoming(t, row) \notin done
           /\ Ahead(t, Incoming(t, row), done)
<1> DEFINE l == Latest(t)
<1>1. /\ Theirs(t) # {} /\ t[l].id # row.lastId /\ t[l].id > row.enabledAt
      /\ Incoming(t, row) = t[l].id
  BY DEF Incoming
<1>2. Theirs(t) \in SUBSET (1..Len(t)) /\ Len(t) \in Nat
  BY DEF Theirs
<1>3. \E i \in Theirs(t) : \A j \in Theirs(t) : j <= i
  BY <1>1, <1>2, LastPosition
<1>4. l \in Theirs(t) /\ \A j \in Theirs(t) : j <= l
  BY <1>3 DEF Latest
<1> HIDE DEF l
<1>5. \A i \in Theirs(t) : i \in DOMAIN t /\ i \in Nat /\ t[i] \in Messages
  BY <1>2 DEF Theirs
<1>6. t[l].id \in Nat /\ row.enabledAt \in Nat
  BY <1>4, <1>5 DEF Messages, TargetRows
<1>7. t[l].id \notin done
  BY <1>1, <1>4, <1>6 DEF Covered
<1>8. \A i \in Theirs(t) : t[i].id \in done => t[i].id < t[l].id
  <2> SUFFICES ASSUME NEW i \in Theirs(t), t[i].id \in done PROVE t[i].id < t[l].id
    OBVIOUS
  <2>1. i < l
    BY <1>4, <1>5, <1>7
  <2> QED BY <1>4, <1>5, <2>1 DEF Ordered
<1> QED BY <1>1, <1>4, <1>7, <1>8 DEF Ahead

\* A step that writes no message and records nothing.
LEMMA HandledKept ==
    ASSUME HandledInv, UNCHANGED <<clock, thread, recorded>>,
           \A m \in DOMAIN targets' : Covered(thread[m], targets'[m], recorded),
           \A m \in sweep'.todo : Covered(thread[m], sweep'.rows[m], recorded),
           sweep'.phase \in {"compose", "send", "record"} =>
             /\ sweep'.manager \notin sweep'.todo
             /\ Ahead(thread[sweep'.manager], sweep'.incoming, recorded)
    PROVE  HandledInv'
  BY DEF HandledInv, ChatsApart, AheadOfRecorded

\* A step of the sweep that ends it.
LEMMA IdleHandled ==
    ASSUME HandledInv, UNCHANGED <<clock, thread, targets, recorded>>, sweep' = Idle
    PROVE  HandledInv'
<1>1. Idle.phase = "idle" /\ Idle.todo = {}
  BY DEF Idle
<1> QED BY <1>1, HandledKept DEF HandledInv

\* A message is written; what the sweep has to go through and works on stays.
LEMMA WrittenHandled ==
    ASSUME Inv, HandledInv, NEW m \in Managers, NEW msg \in Messages, msg.id = clock + 1,
           clock' = clock + 1, thread' = [thread EXCEPT ![m] = Append(@, msg)],
           UNCHANGED <<targets, recorded>>,
           sweep'.todo = {} \/ (sweep'.todo = sweep.todo /\ sweep'.rows = sweep.rows),
           sweep'.phase \in {"compose", "send", "record"} =>
             /\ sweep.phase \in {"compose", "send", "record"} /\ sweep'.todo = sweep.todo
             /\ sweep'.manager = sweep.manager /\ sweep'.incoming = sweep.incoming
    PROVE  HandledInv'
<1>1. /\ ChatsApart' /\ \A id \in recorded : id <= clock'
      /\ \A o \in Managers : \A row : Covered(thread[o], row, recorded) => Covered(thread'[o], row, recorded)
      /\ \A o \in Managers : \A id : Ahead(thread[o], id, recorded) => Ahead(thread'[o], id, recorded)
  BY WrittenApart DEF Inv, HandledInv
<1>2. DOMAIN targets \subseteq Managers /\ sweep.todo \subseteq Managers
  BY TargetSetShape DEF Inv, RowsOK, SweepOK, Sweeps
<1>3. sweep.phase \in {"compose", "send", "record"} => sweep.manager \in Managers
  BY TargetSetShape DEF Inv, SweepOK, Sweeps
<1>4. \A o \in DOMAIN targets' : Covered(thread'[o], targets'[o], recorded')
  BY <1>1, <1>2 DEF HandledInv
<1>5. \A o \in sweep'.todo : Covered(thread'[o], sweep'.rows[o], recorded')
  BY <1>1, <1>2 DEF HandledInv
<1>6. AheadOfRecorded'
  BY <1>1, <1>3 DEF HandledInv, AheadOfRecorded
<1> QED BY <1>1, <1>4, <1>5, <1>6 DEF HandledInv

LEMMA ReadChatHandled ==
    ASSUME Inv, HandledInv, ReadChat
    PROVE  /\ HandledInv'
           /\ sweep'.phase = "compose" => sweep'.incoming \notin recorded
<1>1. PICK m \in sweep.todo :
        sweep' = [sweep EXCEPT !.todo = @ \ {m},
                    !.phase = IF Incoming(thread[m], sweep.rows[m]) = None THEN "next" ELSE "compose",
                    !.manager = IF Incoming(thread[m], sweep.rows[m]) = None THEN None ELSE m,
                    !.incoming = Incoming(thread[m], sweep.rows[m])]
  BY DEF ReadChat
<1>2. sweep \in Sweeps /\ sweep.todo \subseteq DOMAIN sweep.rows /\ m \in Managers
  BY DEF Inv, SweepOK, Sweeps
<1>3. /\ sweep'.todo = sweep.todo \ {m} /\ sweep'.rows = sweep.rows
      /\ sweep'.phase = IF Incoming(thread[m], sweep.rows[m]) = None THEN "next" ELSE "compose"
      /\ sweep'.manager = IF Incoming(thread[m], sweep.rows[m]) = None THEN None ELSE m
      /\ sweep'.incoming = Incoming(thread[m], sweep.rows[m])
  BY <1>1, <1>2 DEF Sweeps
<1>4. thread[m] \in Seq(Messages) /\ clock \in Nat /\ Ordered(thread[m], clock)
  BY <1>2 DEF Inv, ChatsOK
<1>5. sweep.rows[m] \in TargetRows
  BY <1>2, TargetSetShape DEF Sweeps
<1>6. Covered(thread[m], sweep.rows[m], recorded)
  BY DEF HandledInv
<1>7. Incoming(thread[m], sweep.rows[m]) # None =>
        /\ Incoming(thread[m], sweep.rows[m]) \notin recorded
        /\ Ahead(thread[m], Incoming(thread[m], sweep.rows[m]), recorded)
  BY <1>4, <1>5, <1>6, IncomingIsNew
<1>8. UNCHANGED <<clock, thread, targets, recorded>>
  BY DEF ReadChat
<1>9. /\ \A o \in DOMAIN targets' : Covered(thread[o], targets'[o], recorded)
      /\ \A o \in sweep'.todo : Covered(thread[o], sweep'.rows[o], recorded)
  BY <1>3, <1>8 DEF HandledInv
<1>10. sweep'.phase \in {"compose", "send", "record"} =>
         /\ sweep'.manager \notin sweep'.todo
         /\ Ahead(thread[sweep'.manager], sweep'.incoming, recorded)
  BY <1>3, <1>7
<1>11. HandledInv'
  BY <1>8, <1>9, <1>10, HandledKept
<1> QED BY <1>3, <1>7, <1>11

\* Recording a message makes it the one its row names: it is the last one
\* handled in its chat, and of no other chat.
LEMMA RecordHandled ==
    ASSUME Inv, HandledInv, Record
    PROVE  HandledInv'
<1> DEFINE m == sweep.manager
           id == sweep.incoming
<1>1. m \in Managers /\ id \in Nat /\ UNCHANGED <<clock, thread>> /\ sweep \in Sweeps
  BY TargetSetShape DEF Record, Inv, SweepOK, Sweeps
<1>2. CASE ~(m \in DOMAIN targets /\ targets[m].row = sweep.rows[m].row)
  BY <1>1, <1>2, IdleHandled DEF Record
<1>3. CASE m \in DOMAIN targets /\ targets[m].row = sweep.rows[m].row
  <2>1. /\ targets' = [targets EXCEPT ![m].lastId = id]
        /\ recorded' = recorded \cup {id}
        /\ sweep' = [sweep EXCEPT !.phase = "next", !.manager = None, !.incoming = None]
    BY <1>3 DEF Record
  <2>2. sweep'.phase = "next" /\ sweep'.todo = sweep.todo /\ sweep'.rows = sweep.rows
    BY <1>1, <2>1 DEF Sweeps
  <2>3. m \notin sweep.todo /\ Ahead(thread[m], id, recorded)
    BY DEF Record, HandledInv, AheadOfRecorded
  <2>4. targets \in [DOMAIN targets -> TargetRows] /\ DOMAIN targets \subseteq Managers
    BY TargetSetShape DEF Inv, RowsOK
  <2>5. /\ DOMAIN targets' = DOMAIN targets /\ targets'[m].lastId = id
        /\ \A o \in DOMAIN targets : o # m => targets'[o] = targets[o]
    BY <1>3, <2>1, <2>4 DEF TargetRows
  <2> HIDE DEF m, id
  <2>6. PICK k \in Theirs(thread[m]) : thread[m][k].id = id
    BY <2>3 DEF Ahead
  <2>7. k \in DOMAIN thread[m]
    BY DEF Theirs
  <2>8. \A o \in Managers : o # m => \A i \in Theirs(thread[o]) : thread[o][i].id # id
    BY <1>1, <2>6, <2>7 DEF HandledInv, ChatsApart, Theirs
  <2>9. \A o \in Managers : \A row : o # m /\ Covered(thread[o], row, recorded) => Covered(thread[o], row, recorded \cup {id})
    BY <2>8 DEF Covered
  <2>10. \A o \in sweep.todo : Covered(thread[o], sweep.rows[o], recorded \cup {id})
    BY <1>1, <2>3, <2>9 DEF HandledInv, Sweeps
  <2>11. Covered(thread[m], targets'[m], recorded \cup {id})
    <3> SUFFICES ASSUME NEW i \in Theirs(thread[m]), \A j \in Theirs(thread[m]) : j <= i,
                        thread[m][i].id \in recorded \cup {id}
                 PROVE  thread[m][i].id = id
      BY <2>5 DEF Covered
    <3>1. i \in DOMAIN thread[m] /\ i \in Nat /\ k \in Nat /\ thread[m] \in Seq(Messages)
      BY <1>1, <2>7 DEF Theirs, Inv, ChatsOK
    <3>2. thread[m][i] \in Messages
      BY <3>1
    <3>3. k <= i /\ (k < i => id < thread[m][i].id)
      BY <1>1, <2>6, <2>7, <3>1 DEF Inv, ChatsOK, Ordered
    <3>4. CASE thread[m][i].id \in recorded
      BY <1>1, <2>3, <2>6, <3>1, <3>2, <3>3, <3>4 DEF Ahead, Messages
    <3> QED BY <3>4
  <2>12. \A o \in DOMAIN targets : Covered(thread[o], targets'[o], recorded \cup {id})
    BY <2>4, <2>5, <2>9, <2>11 DEF HandledInv
  <2>13. id <= clock
    BY <1>1, <2>6, <2>7 DEF Inv, ChatsOK, Ordered
  <2> QED BY <1>1, <2>1, <2>2, <2>5, <2>10, <2>12, <2>13 DEF HandledInv, ChatsApart, AheadOfRecorded
<1> QED BY <1>2, <1>3

\* A row saved anew starts after everything written so far.
LEMMA SaveHandled ==
    ASSUME Inv, HandledInv, NEW on \in BOOLEAN, NEW wanted \in SUBSET Managers, Save(on, wanted)
    PROVE  HandledInv'
<1>1. clock \in Nat /\ clock' = clock + 1 /\ UNCHANGED <<thread, sweep, faults, recorded>>
  BY DEF Save, Inv, ChatsOK
<1>2. targets \in [DOMAIN targets -> TargetRows] /\ recorded \subseteq Nat
  BY TargetSetShape DEF Inv, RowsOK
<1>3. \A m \in Managers : \A row : row.enabledAt = clock + 1 => Covered(thread[m], row, recorded)
  <2> SUFFICES ASSUME NEW m \in Managers, NEW row, row.enabledAt = clock + 1, NEW i \in Theirs(thread[m])
               PROVE  row.enabledAt >= thread[m][i].id
    BY DEF Covered
  <2>1. thread[m] \in Seq(Messages) /\ i \in DOMAIN thread[m] /\ thread[m][i].id <= clock
    BY DEF Inv, ChatsOK, Ordered, Theirs
  <2>2. thread[m][i] \in Messages
    BY <2>1
  <2> QED BY <1>1, <2>1, <2>2 DEF Messages
<1>4. DOMAIN targets' = wanted
  BY DEF Save
<1>5. ASSUME NEW m \in wanted PROVE Covered(thread[m], targets'[m], recorded)
  <2>1. CASE m \notin DOMAIN targets
    <3>1. targets'[m].enabledAt = clock + 1
      BY <1>5, <2>1 DEF Save, Row
    <3> QED BY <1>3, <3>1
  <2>2. CASE m \in DOMAIN targets
    <3>1. targets[m] \in TargetRows
      BY <1>2, <2>2
    <3>2. targets'[m] = targets[m] \/ targets'[m] = [targets[m] EXCEPT !.enabledAt = clock + 1, !.lastId = None]
      BY <1>5, <2>2 DEF Save
    <3>3. targets'[m] = targets[m] \/ targets'[m].enabledAt = clock + 1
      BY <3>1, <3>2 DEF TargetRows
    <3> QED BY <1>3, <2>2, <3>3 DEF HandledInv
  <2> QED BY <2>1, <2>2
<1>6. \A id \in recorded : id <= clock'
  <2> SUFFICES ASSUME NEW id \in recorded PROVE id <= clock + 1
    BY <1>1
  <2>1. id \in Nat /\ id <= clock
    BY <1>2 DEF HandledInv
  <2> QED BY <1>1, <2>1
<1> QED BY <1>1, <1>4, <1>5, <1>6 DEF HandledInv, ChatsApart, AheadOfRecorded

LEMMA NextHandled ==
    ASSUME Inv, HandledInv, [Next]_vars
    PROVE  /\ HandledInv'
           /\ sweep.phase = "next" /\ sweep'.phase = "compose" => sweep'.incoming \notin recorded
<1>0. sweep \in Sweeps
  BY DEF Inv, SweepOK
<1>1. CASE StartSweep
  <2>1. sweep' = [Idle EXCEPT !.phase = "next", !.rows = targets, !.todo = DOMAIN targets]
    BY <1>1 DEF StartSweep
  <2>2. sweep'.phase = "next" /\ sweep'.rows = targets /\ sweep'.todo = DOMAIN targets
    BY <2>1 DEF Idle
  <2> QED BY <1>1, <2>2, HandledKept DEF StartSweep, HandledInv
<1>2. CASE ReadChat
  BY <1>2, ReadChatHandled
<1>3. CASE EndSweep \/ Crash
  BY <1>3, IdleHandled DEF EndSweep, Crash, Idle
<1>4. CASE Composed
  <2>1. /\ sweep.phase = "compose" /\ sweep'.phase \in {"send", "record"} /\ sweep'.todo = sweep.todo
        /\ sweep'.rows = sweep.rows /\ sweep'.manager = sweep.manager /\ sweep'.incoming = sweep.incoming
    BY <1>0, <1>4 DEF Composed, Sweeps
  <2>2. UNCHANGED <<clock, thread, targets, recorded>>
    BY <1>4 DEF Composed
  <2>3. HandledInv'
    BY <2>1, <2>2, HandledKept DEF HandledInv, AheadOfRecorded
  <2> QED BY <2>1, <2>3
<1>5. ASSUME sweep.phase = "send", AutoMessage, UNCHANGED <<targets, recorded>>,
             sweep' = Idle \/ sweep' = [sweep EXCEPT !.phase = "record"]
      PROVE  HandledInv'
  <2> DEFINE msg == [id |-> clock + 1, by |-> "auto", upto |-> sweep.incoming]
  <2>1. sweep.manager \in Managers /\ sweep.incoming \in Nat
    BY <1>5, TargetSetShape DEF Inv, SweepOK, Sweeps
  <2>2. msg \in Messages /\ msg.id = clock + 1
    BY <2>1 DEF Inv, ChatsOK, Messages, Authors
  <2>3. clock' = clock + 1 /\ thread' = [thread EXCEPT ![sweep.manager] = Append(@, msg)]
    BY <1>5 DEF AutoMessage
  <2> HIDE DEF msg
  <2>4. \/ sweep'.todo = {} /\ sweep'.phase = "idle"
        \/ /\ sweep'.todo = sweep.todo /\ sweep'.rows = sweep.rows /\ sweep'.manager = sweep.manager
           /\ sweep'.incoming = sweep.incoming
    BY <1>0, <1>5 DEF Idle, Sweeps
  <2>5. sweep'.todo = {} \/ (sweep'.todo = sweep.todo /\ sweep'.rows = sweep.rows)
    BY <2>4
  <2>6. sweep'.phase \in {"compose", "send", "record"} =>
          /\ sweep.phase \in {"compose", "send", "record"} /\ sweep'.todo = sweep.todo
          /\ sweep'.manager = sweep.manager /\ sweep'.incoming = sweep.incoming
    BY <1>5, <2>4
  <2>7. UNCHANGED <<targets, recorded>>
    BY <1>5
  <2> QED BY <2>1, <2>2, <2>3, <2>5, <2>6, <2>7, WrittenHandled
<1>6. CASE Send
  BY <1>5, <1>6 DEF Send
<1>7. CASE Fails
  <2>1. sweep' = Idle /\ UNCHANGED <<targets, recorded>>
    BY <1>7 DEF Fails
  <2>2. sweep'.phase = "idle"
    BY <2>1 DEF Idle
  <2>3. CASE UNCHANGED <<clock, thread>>
    BY <2>1, <2>2, <2>3, IdleHandled
  <2>4. CASE sweep.phase = "send" /\ AutoMessage
    BY <1>5, <2>1, <2>2, <2>4
  <2> QED BY <1>7, <2>3, <2>4 DEF Fails
<1>8. CASE Record
  <2>1. sweep' = [sweep EXCEPT !.phase = "next", !.manager = None, !.incoming = None] \/ sweep' = Idle
    BY <1>8 DEF Record
  <2>2. CASE sweep' = Idle
    BY <1>8, <2>2, RecordHandled, IdleOK
  <2>3. CASE sweep' = [sweep EXCEPT !.phase = "next", !.manager = None, !.incoming = None]
    <3>1. sweep'.phase = "next"
      BY <1>0, <2>3 DEF Sweeps
    <3> QED BY <1>8, <3>1, RecordHandled
  <2> QED BY <2>1, <2>2, <2>3
<1>9. ASSUME NEW m \in Managers, TheyWrite(m) \/ UserWrites(m)
      PROVE  HandledInv' /\ sweep' = sweep
  <2>1. PICK by \in {"them", "me"} :
          thread' = [thread EXCEPT ![m] = Append(@, [id |-> clock + 1, by |-> by, upto |-> None])]
    BY <1>9 DEF TheyWrite, UserWrites
  <2> DEFINE msg == [id |-> clock + 1, by |-> by, upto |-> None]
  <2>2. msg \in Messages /\ msg.id = clock + 1
    BY DEF Inv, ChatsOK, Messages, Authors
  <2>3. clock' = clock + 1 /\ UNCHANGED <<targets, sweep, recorded>>
    BY <1>9 DEF TheyWrite, UserWrites
  <2>4. thread' = [thread EXCEPT ![m] = Append(@, msg)]
    BY <2>1
  <2> HIDE DEF msg
  <2> QED BY <2>2, <2>3, <2>4, WrittenHandled
<1>10. ASSUME NEW on \in BOOLEAN, NEW wanted \in SUBSET Managers, Save(on, wanted)
       PROVE  HandledInv' /\ sweep' = sweep
  BY <1>10, SaveHandled DEF Save
<1>11. CASE UNCHANGED vars
  BY <1>11, HandledKept DEF vars, HandledInv, AheadOfRecorded
<1> QED
  BY <1>1, <1>2, <1>3, <1>4, <1>6, <1>7, <1>8, <1>9, <1>10, <1>11 DEF Next, Send, Fails, Idle

LEMMA InitHandled == Init => HandledInv
<1> SUFFICES ASSUME Init PROVE HandledInv
  OBVIOUS
<1>1. Idle.phase = "idle" /\ Idle.todo = {}
  BY DEF Idle
<1>2. DOMAIN << >> = {}
  OBVIOUS
<1>3. \A m \in Managers : DOMAIN thread[m] = {} /\ Theirs(thread[m]) = {}
  BY <1>2 DEF Init, Theirs
<1> QED BY <1>1, <1>3 DEF Init, HandledInv, ChatsApart, AheadOfRecorded, Covered

\* sweep_auto_replies: a message whose handling was committed is not taken up
\* again, for any managers and messages, though the sweep reads rows it loaded
\* before the settings were saved, rows are switched off and on or deleted and
\* made again, and sweeps fail or restart at any step.
THEOREM HandledMessagesStayHandled == Spec => HandledOnce
<1>1. Inv /\ HandledInv /\ [Next]_vars => HandledInv'
  BY NextHandled
<1>2. Inv /\ HandledInv /\ [Next]_vars =>
        [sweep.phase = "next" /\ sweep'.phase = "compose" => sweep'.incoming \notin recorded]_vars
  BY NextHandled
<1> QED BY <1>1, <1>2, InitInv, NextInv, InitHandled, PTL DEF Spec, HandledOnce
=============================================================================
