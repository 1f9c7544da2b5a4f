----------------------------- MODULE SharedPull -----------------------------
(***************************************************************************)
(* What services/live_league.py promises ("Parallel requests for the same  *)
(* league share one pull"): one pull of a league from Sleeper at a time,   *)
(* never within FreshSeconds of the last, and the saved league moves only  *)
(* by a pull's commit, to what that pull read.                             *)
(***************************************************************************)
EXTENDS Integers

CONSTANT FreshSeconds

VARIABLES
    now,     \* time.monotonic()
    fresh,   \* _fresh[league], 0 when absent
    pulling, \* a pull is in progress
    read,    \* the version of the league the pull has read, 0 before it has
    sleeper, \* Sleeper's version of the league
    saved    \* the version of the saved league

shared == <<now, fresh, pulling, read, sleeper, saved>>

Start ==
    /\ ~pulling /\ now - fresh >= FreshSeconds
    /\ pulling' = TRUE /\ read' = 0
    /\ UNCHANGED <<now, fresh, sleeper, saved>>

Read ==
    /\ pulling
    /\ read' = sleeper
    /\ UNCHANGED <<now, fresh, pulling, sleeper, saved>>

Commit ==
    /\ pulling /\ read # 0
    /\ saved' = read
    /\ UNCHANGED <<now, fresh, pulling, read, sleeper>>

\* A pull ends, and counts as done whether or not it committed, unless its
\* caller was cancelled.
End ==
    /\ pulling
    /\ pulling' = FALSE /\ read' = 0
    /\ fresh' \in {fresh, now}
    /\ UNCHANGED <<now, sleeper, saved>>

\* The process is restarted.
Restart ==
    /\ pulling' = FALSE /\ read' = 0 /\ fresh' = 0
    /\ UNCHANGED <<now, sleeper, saved>>

Elapse ==
    /\ now' > now
    /\ UNCHANGED <<fresh, pulling, read, sleeper, saved>>

SleeperMoves ==
    /\ sleeper' = sleeper + 1
    /\ UNCHANGED <<now, fresh, pulling, read, saved>>

SharedInit ==
    /\ now \in Nat /\ fresh = 0 /\ ~pulling /\ read = 0 /\ sleeper = 1 /\ saved = 0

SharedNext == Start \/ Read \/ Commit \/ End \/ Restart \/ Elapse \/ SleeperMoves

SharedSpec == SharedInit /\ [][SharedNext]_shared
=============================================================================
