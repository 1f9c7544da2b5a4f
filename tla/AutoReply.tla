------------------------------ MODULE AutoReply ------------------------------
(***************************************************************************)
(* services/auto_reply.py for one league: the sweep answers the managers   *)
(* the user checked in their direct chats, while they write, the user      *)
(* writes, and the settings are saved.                                     *)
(*                                                                         *)
(* The sweep loads the setting and its targets once, then awaits for each  *)
(* target: the messages, the model's reply, the send and the commit.       *)
(* Message ids are instants, so an id is also the message's created_at.    *)
(***************************************************************************)
EXTENDS Integers, Sequences

CONSTANTS
    Managers,    \* the other managers of the league
    None,        \* no message id
    Faults,      \* which of FaultKinds may happen
    MaxMessages, \* bound: messages and saves in a behaviour
    MaxFaults    \* bound: failures in a behaviour

FaultKinds ==
    {"composeFails", \* the model or a read raises AppError
     "sendFails",    \* the send is refused
     "sendLost",     \* the message is sent and the call raises all the same
     "crash",        \* the process stops
     "manual",       \* the user writes in the chat
     "saves"}        \* the user saves other settings

ASSUME AutoReplyAssumption ==
    /\ None \notin Nat /\ None \notin Managers
    /\ Faults \subseteq FaultKinds
    /\ MaxMessages \in Nat /\ MaxFaults \in Nat

VARIABLES
    clock,    \* the last instant something was written or saved
    thread,   \* each manager's direct chat with the user, oldest first
    enabled,  \* auto_reply_settings.enabled
    targets,  \* auto_reply_targets: the checked managers' rows
    sweep,    \* the sweep in progress
    faults,   \* failures so far
    recorded  \* history: the messages whose handling was committed

vars == <<clock, thread, enabled, targets, sweep, faults, recorded>>

Authors == {"them", "me", "auto"}
Phases == {"idle", "next", "read", "compose", "send", "record"}

\* id identifies the row: unchecking and checking a manager makes a new one.
Row(at) == [row |-> at, enabledAt |-> at, lastId |-> None]

Idle == [phase |-> "idle", rows |-> [m \in {} |-> Row(0)], todo |-> {}, manager |-> None, incoming |-> None]

\* Auto replies are on for everyone since instant 0.
Init ==
    /\ clock = 0
    /\ thread = [m \in Managers |-> << >>]
    /\ enabled = TRUE /\ targets = [m \in Managers |-> Row(0)]
    /\ sweep = Idle /\ faults = 0 /\ recorded = {}

Fault(kind) == kind \in Faults /\ faults < MaxFaults /\ faults' = faults + 1

-----------------------------------------------------------------------------
(* incoming_to_answer.                                                     *)

Theirs(t) == {i \in DOMAIN t : t[i].by = "them"}
Latest(t) == CHOOSE i \in Theirs(t) : \A j \in Theirs(t) : j <= i

\* Mutant: only the stored id tells an answered message.
IncomingByIdOnly(t, row) ==
    IF /\ Theirs(t) # {}
       /\ t[Latest(t)].id # row.lastId
       /\ t[Latest(t)].id > row.enabledAt
    THEN t[Latest(t)].id
    ELSE None

\* The latest message from them, unless one of ours follows it, it is the one
\* handled last, or it was written before the manager was checked.
Incoming(t, row) ==
    IF /\ Theirs(t) # {}
       /\ \A i \in DOMAIN t : i > Latest(t) => t[i].by = "them"
       /\ t[Latest(t)].id # row.lastId
       /\ t[Latest(t)].id > row.enabledAt
    THEN t[Latest(t)].id
    ELSE None

-----------------------------------------------------------------------------
(* sweep_auto_replies and _sweep_league.                                   *)

\* The setting is loaded with its targets; the chats are listed.
StartSweep ==
    /\ sweep.phase = "idle"
    /\ enabled /\ DOMAIN targets # {}
    /\ sweep' = [Idle EXCEPT !.phase = "next", !.rows = targets, !.todo = DOMAIN targets]
    /\ UNCHANGED <<clock, thread, enabled, targets, faults, recorded>>

\* The next target's messages are read; nothing is awaited before the model
\* is called.
ReadChat ==
    /\ sweep.phase = "next"
    /\ \E m \in sweep.todo :
        LET incoming == Incoming(thread[m], sweep.rows[m]) IN
        sweep' = [sweep EXCEPT !.todo = @ \ {m},
                               !.phase = IF incoming = None THEN "next" ELSE "compose",
                               !.manager = IF incoming = None THEN None ELSE m,
                               !.incoming = incoming]
    /\ UNCHANGED <<clock, thread, enabled, targets, faults, recorded>>

EndSweep ==
    /\ sweep.phase = "next" /\ sweep.todo = {}
    /\ sweep' = Idle
    /\ UNCHANGED <<clock, thread, enabled, targets, faults, recorded>>

\* The model answers with a text to send, or with nothing.
Composed ==
    /\ sweep.phase = "compose"
    /\ \E text \in BOOLEAN :
        sweep' = [sweep EXCEPT !.phase = IF text THEN "send" ELSE "record"]
    /\ UNCHANGED <<clock, thread, enabled, targets, faults, recorded>>

AutoMessage ==
    /\ clock' = clock + 1
    /\ thread' = [thread EXCEPT ![sweep.manager] =
         Append(@, [id |-> clock + 1, by |-> "auto", upto |-> sweep.incoming])]

Send ==
    /\ sweep.phase = "send"
    /\ AutoMessage
    /\ sweep' = [sweep EXCEPT !.phase = "record"]
    /\ UNCHANGED <<enabled, targets, faults, recorded>>

\* AppError: the session is rolled back and the sweep leaves the league.
Fails ==
    /\ \/ /\ sweep.phase = "compose" \/ (sweep.phase = "next" /\ sweep.todo # {})
          /\ Fault("composeFails") /\ UNCHANGED <<clock, thread>>
       \/ sweep.phase = "send" /\ Fault("sendFails") /\ UNCHANGED <<clock, thread>>
       \/ sweep.phase = "send" /\ Fault("sendLost") /\ AutoMessage
    /\ sweep' = Idle
    /\ UNCHANGED <<enabled, targets, recorded>>

\* Mutant: a message the model has no text for is not recorded.
RecordOnlySent ==
    /\ sweep.phase = "record"
    /\ LET m == sweep.manager
           sent == \E i \in DOMAIN thread[m] : thread[m][i].upto = sweep.incoming
       IN  /\ targets' = IF m \in DOMAIN targets /\ sent
                         THEN [targets EXCEPT ![m].lastId = sweep.incoming] ELSE targets
           /\ recorded' = recorded \cup {sweep.incoming}
           /\ sweep' = [sweep EXCEPT !.phase = "next", !.manager = None, !.incoming = None]
    /\ UNCHANGED <<clock, thread, enabled, faults>>

\* last_message_id is set and committed. When a save deleted the row, the
\* update matches nothing, raises, and ends the sweep.
Record ==
    /\ sweep.phase = "record"
    /\ LET m == sweep.manager IN
       IF m \in DOMAIN targets /\ targets[m].row = sweep.rows[m].row
       THEN /\ targets' = [targets EXCEPT ![m].lastId = sweep.incoming]
            /\ recorded' = recorded \cup {sweep.incoming}
            /\ sweep' = [sweep EXCEPT !.phase = "next", !.manager = None, !.incoming = None]
       ELSE sweep' = Idle /\ UNCHANGED <<targets, recorded>>
    /\ UNCHANGED <<clock, thread, enabled, faults>>

\* The process is restarted: auto_reply_loop starts over.
Crash ==
    /\ sweep.phase # "idle"
    /\ Fault("crash")
    /\ sweep' = Idle
    /\ UNCHANGED <<clock, thread, enabled, targets, recorded>>

SweepStep == StartSweep \/ ReadChat \/ EndSweep \/ Composed \/ Send \/ Record

-----------------------------------------------------------------------------
(* The chats and the settings.                                             *)

TheyWrite(m) ==
    /\ clock < MaxMessages
    /\ clock' = clock + 1
    /\ thread' = [thread EXCEPT ![m] = Append(@, [id |-> clock + 1, by |-> "them", upto |-> None])]
    /\ UNCHANGED <<enabled, targets, sweep, faults, recorded>>

\* The user writes, in the Sleeper app or through send_direct.
UserWrites(m) ==
    /\ "manual" \in Faults /\ clock < MaxMessages
    /\ clock' = clock + 1
    /\ thread' = [thread EXCEPT ![m] = Append(@, [id |-> clock + 1, by |-> "me", upto |-> None])]
    /\ UNCHANGED <<enabled, targets, sweep, faults, recorded>>

\* Mutant: turning on again forgets what was handled, not when.
SaveForgetsOnly(on, wanted) ==
    /\ "saves" \in Faults /\ clock < MaxMessages
    /\ clock' = clock + 1
    /\ enabled' = on
    /\ targets' = [m \in wanted |->
         IF m \notin DOMAIN targets THEN Row(clock + 1)
         ELSE IF on /\ ~enabled THEN [targets[m] EXCEPT !.lastId = None]
         ELSE targets[m]]
    /\ UNCHANGED <<thread, sweep, faults, recorded>>

\* save_auto_reply: rows of managers who stay checked are kept, and start
\* afresh when auto replies are turned on.
Save(on, wanted) ==
    /\ "saves" \in Faults /\ clock < MaxMessages
    /\ clock' = clock + 1
    /\ enabled' = on
    /\ targets' = [m \in wanted |->
         IF m \notin DOMAIN targets THEN Row(clock + 1)
         ELSE IF on /\ ~enabled
              THEN [targets[m] EXCEPT !.enabledAt = clock + 1, !.lastId = None]
         ELSE targets[m]]
    /\ UNCHANGED <<thread, sweep, faults, recorded>>

Next ==
    \/ StartSweep \/ ReadChat \/ EndSweep \/ Composed \/ Send \/ Record \/ Fails \/ Crash
    \/ \E m \in Managers : TheyWrite(m) \/ UserWrites(m)
    \/ \E on \in BOOLEAN, wanted \in SUBSET Managers : Save(on, wanted)

Spec == Init /\ [][Next]_vars

\* auto_reply_loop sweeps again and again, and each call a sweep makes ends.
FairSpec == Spec /\ WF_vars(SweepStep)

-----------------------------------------------------------------------------
(* Properties.                                                             *)

Messages == [id : Nat, by : Authors, upto : Nat \cup {None}]
TargetRows == [row : Nat, enabledAt : Nat, lastId : Nat \cup {None}]
IsTargets(f) == DOMAIN f \subseteq Managers /\ f \in [DOMAIN f -> TargetRows]
IsSweep(s) ==
    /\ s \in [phase : Phases, rows : {s.rows}, todo : SUBSET Managers,
              manager : Managers \cup {None}, incoming : Nat \cup {None}]
    /\ IsTargets(s.rows) /\ s.todo \subseteq DOMAIN s.rows
    /\ s.phase \in {"compose", "send", "record"} => s.manager \in DOMAIN s.rows /\ s.incoming \in Nat

\* Ids grow along a chat and none is ahead of the clock; a sweep works on
\* rows it loaded.
TypeOK ==
    /\ clock \in Nat
    /\ thread \in [Managers -> Seq(Messages)]
    /\ \A m \in Managers : \A i, j \in DOMAIN thread[m] :
         /\ thread[m][i].id <= clock
         /\ i < j => thread[m][i].id < thread[m][j].id
    /\ enabled \in BOOLEAN
    /\ IsTargets(targets) /\ IsSweep(sweep)
    /\ faults \in Nat /\ recorded \subseteq Nat

\* Whatever is lost, refused or restarted, two automatic replies in one chat
\* always have a message of theirs between them: nobody is answered twice.
AnsweredOnce ==
    \A m \in Managers : \A i, j \in DOMAIN thread[m] :
        i < j /\ thread[m][i].by = "auto" /\ thread[m][j].by = "auto" =>
            \E k \in i..j : thread[m][k].by = "them"

\* A message whose handling was committed, by a reply or by the model having
\* none, is not taken up again, also when auto replies were turned off and on
\* or the manager unchecked and checked in between.
HandledOnce ==
    [][sweep.phase = "next" /\ sweep'.phase = "compose" => sweep'.incoming \notin recorded]_vars

\* A chat that waits for an answer of a checked manager is handled: answered,
\* recorded, answered by the user, or unchecked.
Waiting(m) == enabled /\ m \in DOMAIN targets /\ Incoming(thread[m], targets[m]) # None
WaitingIsHandled == \A m \in Managers : Waiting(m) ~> ~Waiting(m)
=============================================================================
