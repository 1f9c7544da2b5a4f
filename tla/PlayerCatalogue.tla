-------------------------- MODULE PlayerCatalogue --------------------------
(***************************************************************************)
(* SleeperClient.get_players (providers/sleeper/client.py): the player     *)
(* catalogue, kept in memory and on disk, downloaded by one caller at a    *)
(* time while the others wait for it.                                      *)
(*                                                                         *)
(* A copy is stamped with the time its age is counted from, which is not   *)
(* always the time it was downloaded: a caller takes the time when it      *)
(* enters, and the copy it reads from disk or downloads is stamped with    *)
(* that in memory. born keeps the download time.                           *)
(***************************************************************************)
EXTENDS Integers

CONSTANTS
    Callers,  \* concurrent callers of get_players
    TTL,      \* player_cache_ttl_seconds
    MaxWait,  \* the longest a call takes: its wait for the lock and its download
    NoCopy,   \* nothing in memory, or nothing on disk
    LastTime, \* bound: the last instant of a behaviour
    Faults    \* which of FaultKinds may happen

FaultKinds ==
    {"downloadFails", \* _get raises after its retries, or the payload is malformed
     "diskFails",     \* the disk copy cannot be written, or is damaged
     "restart"}       \* the process is restarted

ASSUME PlayerCatalogueAssumption ==
    /\ TTL \in Nat /\ LastTime \in Nat
    /\ MaxWait \in Nat /\ MaxWait < TTL
    /\ NoCopy \notin [at : Nat, born : Nat]
    /\ Faults \subseteq FaultKinds

VARIABLES
    time,    \* time.time()
    memo,    \* _players_memo
    disk,    \* the file: its mtime and content
    pc,      \* where each caller is
    entered, \* the caller's local variable now
    age      \* history: how old the copy a caller returned was

catalogueVars == <<time, memo, disk, pc, entered, age>>

Catalogues == [at : Nat, born : Nat]

CatalogueInit ==
    /\ time = 0
    /\ memo = NoCopy /\ disk = NoCopy
    /\ pc = [r \in Callers |-> "idle"] /\ entered = [r \in Callers |-> 0]
    /\ age = [r \in Callers |-> 0]

MemoIsFresh == memo # NoCopy /\ time - memo.at < TTL

\* Mutant: the file is used however old it is.
DiskAtAnyAge(r) == disk # NoCopy

\* _read_disk_cache(now), with the time the caller entered at.
DiskIsFresh(r) == disk # NoCopy /\ entered[r] - disk.at <= TTL

-----------------------------------------------------------------------------
Return(r, copy) ==
    /\ pc' = [pc EXCEPT ![r] = "idle"]
    /\ age' = [age EXCEPT ![r] = time - copy.born]

\* A caller whose catalogue is not in memory goes for _players_lock.
Call(r) ==
    /\ pc[r] = "idle"
    /\ entered' = [entered EXCEPT ![r] = time]
    /\ IF MemoIsFresh
       THEN Return(r, memo)
       ELSE pc' = [pc EXCEPT ![r] = "waiting"] /\ UNCHANGED age
    /\ UNCHANGED <<time, memo, disk>>

LockFree == \A r \in Callers : pc[r] # "downloading"

\* Mutant: the file is not looked at again under the lock.
UnderLockMemoryOnly(r) ==
    /\ pc[r] = "waiting" /\ LockFree
    /\ IF MemoIsFresh
       THEN Return(r, memo)
       ELSE pc' = [pc EXCEPT ![r] = "downloading"] /\ UNCHANGED age
    /\ UNCHANGED <<time, memo, disk, entered>>

\* Under the lock: memory again, then the file, then a download.
UnderLock(r) ==
    /\ pc[r] = "waiting" /\ LockFree
    /\ IF MemoIsFresh
       THEN Return(r, memo) /\ UNCHANGED memo
       ELSE IF DiskIsFresh(r)
       THEN /\ memo' = [at |-> entered[r], born |-> disk.born]
            /\ Return(r, memo')
       ELSE pc' = [pc EXCEPT ![r] = "downloading"] /\ UNCHANGED <<memo, age>>
    /\ UNCHANGED <<time, disk, entered>>

\* The catalogue arrives; it is kept in memory and written to disk.
Downloaded(r) ==
    /\ pc[r] = "downloading"
    /\ memo' = [at |-> entered[r], born |-> time]
    /\ \/ disk' = [at |-> time, born |-> time]
       \/ "diskFails" \in Faults /\ disk' \in {disk, NoCopy}
    /\ Return(r, memo')
    /\ UNCHANGED <<time, entered>>

\* The error reaches the caller; the next one in line downloads again.
Fails(r) ==
    /\ "downloadFails" \in Faults
    /\ pc[r] = "downloading"
    /\ pc' = [pc EXCEPT ![r] = "idle"]
    /\ UNCHANGED <<time, memo, disk, entered, age>>

ProcessRestarts ==
    /\ "restart" \in Faults
    /\ memo' = NoCopy
    /\ pc' = [r \in Callers |-> "idle"]
    /\ UNCHANGED <<time, disk, entered, age>>

\* Time passes: nobody waits for a lock that is free, and no call is in
\* progress for longer than MaxWait.
TimePasses ==
    /\ time < LastTime
    /\ LockFree => \A r \in Callers : pc[r] # "waiting"
    /\ \A r \in Callers : pc[r] # "idle" => time - entered[r] < MaxWait
    /\ time' = time + 1
    /\ UNCHANGED <<memo, disk, pc, entered, age>>

CatalogueNext ==
    \/ \E r \in Callers : Call(r) \/ UnderLock(r) \/ Downloaded(r) \/ Fails(r)
    \/ ProcessRestarts \/ TimePasses

CatalogueSpec == CatalogueInit /\ [][CatalogueNext]_catalogueVars

-----------------------------------------------------------------------------
(* Properties.                                                             *)

\* Nothing is stamped or downloaded later than now.
TypeOK ==
    /\ time \in Nat
    /\ memo \in Catalogues \cup {NoCopy} /\ (memo # NoCopy => memo.at <= time /\ memo.born <= time)
    /\ disk \in Catalogues \cup {NoCopy} /\ (disk # NoCopy => disk.at <= time /\ disk.born <= time)
    /\ pc \in [Callers -> {"idle", "waiting", "downloading"}]
    /\ entered \in [Callers -> Nat] /\ \A r \in Callers : entered[r] <= time
    /\ age \in [Callers -> Nat]

\* "Parallel league refreshes share one download instead of each pulling
\* ~5MB": one download is in progress at a time.
OneDownload ==
    \A r, s \in Callers : pc[r] = "downloading" /\ pc[s] = "downloading" => r = s

\* Whoever returned it and from wherever, a catalogue was downloaded less than
\* twice the time to live before, or this instant.
AgeBelowTwice == \A r \in Callers : age[r] < 2 * TTL

\* "Sleeper's player catalogue is meant to be fetched at most once a day"
\* (nfl_data/injuries.py:3): with the file intact, a download starts only when
\* the last one is more than the time to live ago, also after a restart.
DownloadsApart ==
    [][\A r \in Callers :
         pc[r] # "downloading" /\ pc'[r] = "downloading" /\ disk # NoCopy => time - disk.born > TTL]_catalogueVars
=============================================================================
