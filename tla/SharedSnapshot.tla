--------------------------- MODULE SharedSnapshot ---------------------------
(***************************************************************************)
(* The shared memory object /radar_shared_mem and the named semaphore      *)
(* /radar_shm_sem: the Radar writes snapshots field by field, Computer     *)
(* System and Display read them field by field.                            *)
(*                                                                         *)
(* The Radar's constructor, writes and destructor follow each other in one *)
(* process; that process may be killed at any step and started again.  The *)
(* object and the semaphore's name outlive it, and what a reader opened    *)
(* before stays open: a restarted Radar has a semaphore of its own.        *)
(*                                                                         *)
(* A snapshot is abstracted to its number: an entry of plane_data written  *)
(* for snapshot k, and the timestamp written with it, hold k.              *)
(***************************************************************************)
EXTENDS Integers

CONSTANTS Readers,      \* the processes that map the object read-only
          CountFirst,   \* those that read count before timestamp (Display)
          Slots,        \* the largest number of aircraft in a snapshot
          MaxSnapshots, \* bound: the Radar writes at most this many snapshots
          MaxRuns       \* bound: the ATC process is started at most this often

ASSUME SnapshotAssumption ==
    /\ CountFirst \subseteq Readers
    /\ Slots \in Nat
    /\ MaxSnapshots \in Nat
    /\ MaxRuns \in Nat

VARIABLES
    radar,       \* where the ATC process is
    run,         \* the number of its starts, which also names its semaphore
    radarSem,    \* the Radar's shm_sem
    closing,     \* clearSharedMemory is called by the destructor
    tick,        \* the number of the latest snapshot
    planes,      \* the size of the buffer being written
    written,     \* how many of its entries memcpy has copied
    shmName,     \* /radar_shared_mem can be opened
    semName,     \* the semaphore that /radar_shm_sem names
    semValue,    \* the value of every semaphore
    is_empty, count, timestamp, plane_data,   \* the object
    reader,      \* where each reader is
    readerSem,   \* its shm_sem
    snapshot,    \* its copy of timestamp, count and plane_data
    copied,      \* how many entries it has copied
    clean        \* history: it holds the Radar's semaphore, and the object
                 \* has not been cleared since it took it

processVars == <<run, radarSem, closing>>
writeVars == <<tick, planes, written>>
radarVars == <<radar, processVars, writeVars>>
nameVars == <<shmName, semName>>
objectVars == <<is_empty, count, timestamp, plane_data>>
copyVars == <<readerSem, snapshot, copied, clean>>
readerVars == <<reader, copyVars>>

vars == <<radarVars, nameVars, semValue, objectVars, readerVars>>

(* What a step of the Radar on one field, and one of a reader that copies  *)
(* a field, leave alone.                                                   *)
beyondField == <<processVars, nameVars, semValue, readerVars>>
beyondCopy == <<radarVars, nameVars, semValue, objectVars, readerSem>>

-----------------------------------------------------------------------------
(* SEM_FAILED; a semaphore is named by the start of ATC that created it.   *)
NoSem == 0
Semaphores == 1..MaxRuns

Ticks == 0..MaxSnapshots

Zeroed == [i \in 1..Slots |-> 0]

EmptyCopy == [timestamp |-> 0, count |-> 0, plane_data |-> Zeroed]

(* Every entry of the snapshot belongs to the write its timestamp names.   *)
Whole(s) == \A i \in 1..s.count : s.plane_data[i] = s.timestamp

RadarWrites == {"timestamp", "is_empty", "count", "memcpy", "post"}
RadarClears == {"clearData", "clearCount", "clearFlag", "clearTime"}
ReaderReads == {"is_empty", "timestamp", "count", "copy", "stop"}

-----------------------------------------------------------------------------
(* shm_open creates the object filled with zeros (is_empty is false) before *)
(* anyone can open it; the semaphore does not exist.                        *)
Init ==
    /\ radar = "down"
    /\ run = 0
    /\ radarSem = NoSem
    /\ closing = FALSE
    /\ tick = 0
    /\ planes = 0
    /\ written = 0
    /\ shmName = FALSE
    /\ semName = NoSem
    /\ semValue = [k \in Semaphores |-> 1]
    /\ is_empty = FALSE
    /\ count = 0
    /\ timestamp = 0
    /\ plane_data = Zeroed
    /\ reader = [r \in Readers |-> "opening"]
    /\ readerSem = [r \in Readers |-> NoSem]
    /\ snapshot = [r \in Readers |-> EmptyCopy]
    /\ copied = [r \in Readers |-> 0]
    /\ clean = [r \in Readers |-> FALSE]

(* Seeded fault: sem_trywait, whose result is not looked at.               *)
Wait_Try(sem) ==
    semValue' = IF sem = NoSem THEN semValue ELSE [semValue EXCEPT ![sem] = 0]

(* sem_wait on a handle that may be SEM_FAILED.                            *)
Wait(sem) ==
    IF sem = NoSem THEN UNCHANGED semValue
    ELSE semValue[sem] = 1 /\ semValue' = [semValue EXCEPT ![sem] = 0]

(* Seeded fault: the semaphore is not released.                            *)
Post_Forgotten(sem) == UNCHANGED semValue

(* sem_post on such a handle.                                              *)
Post(sem) ==
    semValue' = IF sem = NoSem THEN semValue ELSE [semValue EXCEPT ![sem] = 1]

(* The Radar, or a reader, goes from one location to the next.             *)
RadarGoes(from, to) == radar = from /\ radar' = to
ReaderGoes(r, from, to) == reader[r] = from /\ reader' = [reader EXCEPT ![r] = to]

-----------------------------------------------------------------------------
(* The Radar's constructor.                                                *)

(* shm_open(O_CREAT), ftruncate, mmap: what a killed run left stays.       *)
OpenObject ==
    /\ RadarGoes("down", "unlinkSem")
    /\ run < MaxRuns
    /\ run' = run + 1
    /\ shmName' = TRUE
    /\ UNCHANGED <<radarSem, closing, writeVars, semName, semValue, objectVars, readerVars>>

UnlinkSem ==
    /\ RadarGoes("unlinkSem", "openSem")
    /\ semName' = NoSem
    /\ UNCHANGED <<processVars, writeVars, shmName, semValue, objectVars, readerVars>>

(* sem_open(O_CREAT | O_EXCL, 1); when it fails the Radar goes on without. *)
OpenSem ==
    /\ RadarGoes("openSem", "clearData")
    /\ \/ semName' = run /\ radarSem' = run
       \/ UNCHANGED <<semName, radarSem>>
    /\ UNCHANGED <<run, closing, writeVars, shmName, semValue, objectVars, readerVars>>

(* clearSharedMemory, called by constructor and destructor: four writes,   *)
(* none of them under the semaphore.                                       *)
ClearData ==
    /\ RadarGoes("clearData", "clearCount")
    /\ plane_data' = Zeroed
    /\ clean' = [r \in Readers |-> FALSE]
    /\ UNCHANGED <<processVars, writeVars, nameVars, semValue, is_empty, count, timestamp>>
    /\ UNCHANGED <<reader, readerSem, snapshot, copied>>

ClearCount ==
    /\ RadarGoes("clearCount", "clearFlag")
    /\ count' = 0
    /\ UNCHANGED <<writeVars, is_empty, timestamp, plane_data, beyondField>>

(* Seeded fault: is_empty is not set when the object is cleared.           *)
ClearFlag_Forgotten ==
    /\ RadarGoes("clearFlag", "clearTime")
    /\ UNCHANGED <<writeVars, objectVars, beyondField>>

ClearFlag ==
    /\ RadarGoes("clearFlag", "clearTime")
    /\ is_empty' = TRUE
    /\ UNCHANGED <<writeVars, count, timestamp, plane_data, beyondField>>

ClearTime ==
    /\ RadarGoes("clearTime", IF closing THEN "unlink" ELSE "idle")
    /\ timestamp' = 0
    /\ UNCHANGED <<writeVars, is_empty, count, plane_data, beyondField>>

-----------------------------------------------------------------------------
(* writeToSharedMemory.                                                    *)

(* Seeded fault: the timestamp is written before sem_wait.                 *)
BeginWrite_EarlyTimestamp ==
    /\ RadarGoes("idle", "wait")
    /\ tick < MaxSnapshots /\ tick' = tick + 1 /\ timestamp' = tick + 1
    /\ planes' \in 0..Slots /\ written' = 0
    /\ UNCHANGED <<is_empty, count, plane_data, beyondField>>

(* The poller has a buffer of some reports to write.                       *)
BeginWrite ==
    /\ RadarGoes("idle", "wait")
    /\ tick < MaxSnapshots /\ tick' = tick + 1
    /\ planes' \in 0..Slots /\ written' = 0
    /\ UNCHANGED <<objectVars, beyondField>>

SemWait ==
    /\ RadarGoes("wait", "timestamp")
    /\ Wait(radarSem)
    /\ UNCHANGED <<processVars, writeVars, nameVars, objectVars, readerVars>>

WriteTimestamp ==
    /\ RadarGoes("timestamp", "is_empty")
    /\ timestamp' = tick
    /\ UNCHANGED <<writeVars, is_empty, count, plane_data, beyondField>>

WriteIsEmpty ==
    /\ RadarGoes("is_empty", "count")
    /\ is_empty' = (planes = 0)
    /\ UNCHANGED <<writeVars, count, timestamp, plane_data, beyondField>>

WriteCount ==
    /\ RadarGoes("count", IF planes = 0 THEN "post" ELSE "memcpy")
    /\ count' = planes
    /\ UNCHANGED <<writeVars, is_empty, timestamp, plane_data, beyondField>>

(* Seeded fault: one entry too many is copied.                             *)
LastPlane_OneMore == written = planes

(* The entry being copied is the buffer's last.                            *)
LastPlane == written + 1 = planes

(* One entry of the memcpy.                                                *)
WritePlane ==
    /\ RadarGoes("memcpy", IF LastPlane THEN "post" ELSE "memcpy")
    /\ plane_data' = [plane_data EXCEPT ![written + 1] = tick]
    /\ written' = written + 1
    /\ UNCHANGED <<tick, planes, is_empty, count, timestamp, beyondField>>

SemPost ==
    /\ RadarGoes("post", "idle")
    /\ Post(radarSem)
    /\ planes' = 0 /\ written' = 0
    /\ UNCHANGED <<processVars, tick, nameVars, objectVars, readerVars>>

-----------------------------------------------------------------------------
(* The Radar's destructor, after its threads have been joined.             *)
Shutdown ==
    /\ RadarGoes("idle", "clearData")
    /\ closing' = TRUE
    /\ UNCHANGED <<run, radarSem, writeVars, nameVars, semValue, objectVars, readerVars>>

(* munmap, shm_unlink, sem_close and sem_unlink.                           *)
Unlink ==
    /\ RadarGoes("unlink", "ended")
    /\ shmName' = FALSE
    /\ semName' = IF radarSem = NoSem THEN semName ELSE NoSem
    /\ UNCHANGED <<processVars, writeVars, semValue, objectVars, readerVars>>

(* The ATC process is killed: its memory is gone, while object, semaphore  *)
(* and names stay behind.                                                  *)
Crash ==
    /\ radar \notin {"down", "ended"} /\ radar' = "down"
    /\ run < MaxRuns
    /\ radarSem' = NoSem
    /\ closing' = FALSE
    /\ planes' = 0 /\ written' = 0
    /\ UNCHANGED <<run, tick, nameVars, semValue, objectVars, readerVars>>

-----------------------------------------------------------------------------
(* A reader: initializeSharedMemory.                                       *)

ReaderOpenObject(r) ==
    /\ ReaderGoes(r, "opening", "openSem")
    /\ shmName
    /\ UNCHANGED <<snapshot, copied, clean, beyondCopy>>

(* sem_open without O_CREAT: fails when there is no such name, and the     *)
(* reader "will run without sync".                                         *)
ReaderOpenSem(r) ==
    /\ ReaderGoes(r, "openSem", "noData")
    /\ readerSem' = [readerSem EXCEPT ![r] = semName]
    /\ UNCHANGED <<radarVars, nameVars, semValue, objectVars, snapshot, copied, clean>>

(* The loop before the first read: is_empty is read without the semaphore. *)
ReaderSeesData(r) ==
    /\ ReaderGoes(r, "noData", "wait")
    /\ ~is_empty
    /\ UNCHANGED <<snapshot, copied, clean, beyondCopy>>

-----------------------------------------------------------------------------
(* A reader: one turn of monitorAirspace or displayLoop.                   *)

ReaderSemWait(r) ==
    /\ ReaderGoes(r, "wait", "is_empty")
    /\ Wait(readerSem[r])
    /\ clean' = [clean EXCEPT ![r] = /\ readerSem[r] # NoSem
                                     /\ readerSem[r] = radarSem
                                     /\ radar \in {"idle", "wait"}]
    /\ UNCHANGED <<radarVars, nameVars, objectVars, readerSem, snapshot, copied>>

ReadIsEmpty(r) ==
    /\ ReaderGoes(r, "is_empty", IF is_empty THEN "stop"
                                 ELSE IF r \in CountFirst THEN "count" ELSE "timestamp")
    /\ UNCHANGED <<snapshot, copied, clean, beyondCopy>>

ReadTimestamp(r) ==
    /\ ReaderGoes(r, "timestamp", IF r \in CountFirst THEN "copy" ELSE "count")
    /\ snapshot' = [snapshot EXCEPT ![r].timestamp = timestamp]
    /\ UNCHANGED <<copied, clean, beyondCopy>>

ReadCount(r) ==
    /\ ReaderGoes(r, "count", IF r \in CountFirst THEN "timestamp" ELSE "copy")
    /\ snapshot' = [snapshot EXCEPT ![r].count = count]
    /\ UNCHANGED <<copied, clean, beyondCopy>>

(* One turn of the loop over plane_data[i], i < count.                     *)
ReadPlane(r) ==
    /\ ReaderGoes(r, "copy", "copy")
    /\ copied[r] < snapshot[r].count
    /\ snapshot' = [snapshot EXCEPT ![r].plane_data[copied[r] + 1] = plane_data[copied[r] + 1]]
    /\ copied' = [copied EXCEPT ![r] = @ + 1]
    /\ UNCHANGED <<clean, beyondCopy>>

(* sem_post; the copy goes to checkCollision or render.                    *)
ReaderSemPost(r) ==
    /\ ReaderGoes(r, "copy", "use")
    /\ copied[r] = snapshot[r].count
    /\ Post(readerSem[r])
    /\ UNCHANGED <<radarVars, nameVars, objectVars, copyVars>>

(* sem_post by a reader that saw is_empty: it stops for good.              *)
ReaderStop(r) ==
    /\ ReaderGoes(r, "stop", "stopped")
    /\ Post(readerSem[r])
    /\ clean' = [clean EXCEPT ![r] = FALSE]
    /\ UNCHANGED <<radarVars, nameVars, objectVars, readerSem, snapshot, copied>>

(* The copy has been used; the timer starts the next turn.                 *)
Use(r) ==
    /\ ReaderGoes(r, "use", "wait")
    /\ snapshot' = [snapshot EXCEPT ![r] = EmptyCopy]
    /\ copied' = [copied EXCEPT ![r] = 0]
    /\ clean' = [clean EXCEPT ![r] = FALSE]
    /\ UNCHANGED beyondCopy

-----------------------------------------------------------------------------
RadarStep ==
    \/ OpenObject \/ UnlinkSem \/ OpenSem \/ ClearData \/ ClearCount \/ ClearFlag \/ ClearTime
    \/ SemWait \/ WriteTimestamp \/ WriteIsEmpty \/ WriteCount \/ WritePlane \/ SemPost
    \/ Unlink

ReaderStep(r) ==
    \/ ReaderOpenObject(r) \/ ReaderOpenSem(r) \/ ReaderSeesData(r)
    \/ ReaderSemWait(r) \/ ReadIsEmpty(r) \/ ReadTimestamp(r) \/ ReadCount(r) \/ ReadPlane(r)
    \/ ReaderSemPost(r) \/ Use(r) \/ ReaderStop(r)

Next ==
    \/ RadarStep
    \/ BeginWrite
    \/ Shutdown
    \/ Crash
    \/ \E r \in Readers : ReaderStep(r)

(* The processes are scheduled, and a semaphore does not pass over a       *)
(* waiting reader for ever.                                                *)
Fairness ==
    /\ WF_vars(RadarStep)
    /\ \A r \in Readers : WF_vars(ReaderStep(r)) /\ SF_vars(ReaderSemWait(r))

Spec == Init /\ [][Next]_vars

FairSpec == Spec /\ Fairness

-----------------------------------------------------------------------------
(* Properties.                                                             *)

SnapshotType ==
    [timestamp : Ticks, count : 0..Slots, plane_data : [1..Slots -> Ticks]]

(* Every variable keeps its type: those of the Radar and the object, and   *)
(* those of the readers.                                                   *)
RadarTypeOK ==
    /\ radar \in {"down", "unlinkSem", "openSem", "idle", "wait", "unlink", "ended"}
                 \cup RadarWrites \cup RadarClears
    /\ run \in 0..MaxRuns
    /\ radarSem \in Semaphores \cup {NoSem}
    /\ closing \in BOOLEAN
    /\ tick \in Ticks
    /\ planes \in 0..Slots
    /\ written \in 0..Slots
    /\ shmName \in BOOLEAN
    /\ semName \in Semaphores \cup {NoSem}
    /\ semValue \in [Semaphores -> 0..1]
    /\ is_empty \in BOOLEAN
    /\ count \in 0..Slots
    /\ timestamp \in Ticks
    /\ plane_data \in [1..Slots -> Ticks]

ReaderTypeOK ==
    /\ reader \in [Readers -> {"opening", "openSem", "noData", "wait", "use", "stopped"}
                               \cup ReaderReads]
    /\ readerSem \in [Readers -> Semaphores \cup {NoSem}]
    /\ snapshot \in [Readers -> SnapshotType]
    /\ copied \in [Readers -> 0..Slots]
    /\ clean \in [Readers -> BOOLEAN]

TypeOK == RadarTypeOK /\ ReaderTypeOK

(* The process p holds the semaphore k.                                    *)
RadarHolds(k) == radar \in RadarWrites /\ radarSem = k
ReaderHolds(r, k) == reader[r] \in ReaderReads /\ readerSem[r] = k

(* No semaphore is held twice, whatever was killed or started again        *)
(* (Radar::writeToSharedMemory, ComputerSystem::monitorAirspace,           *)
(* Display::displayLoop).                                                  *)
SemaphoresExclude ==
    \A k \in Semaphores, r \in Readers :
        ReaderHolds(r, k) => /\ ~RadarHolds(k)
                             /\ \A q \in Readers \ {r} : ~ReaderHolds(q, k)

(* What the semaphore does guarantee: a reader that took the running       *)
(* Radar's own semaphore, outside the Radar's constructor and destructor,  *)
(* uses a snapshot of one write and one that is not empty, although the    *)
(* Radar goes on writing, and may be killed, while it copies.  That        *)
(* timestamp is above 0 says that one was written: it is the number of the *)
(* snapshot, not the tick_counter of the code, which starts at 0.          *)
CleanReadIsWhole ==
    \A r \in Readers :
        (clean[r] /\ reader[r] = "use") => /\ Whole(snapshot[r])
                                          /\ snapshot[r].count > 0
                                          /\ snapshot[r].timestamp > 0

(* A reader that waits for the semaphore gets it, in a system whose ATC    *)
(* process is not killed.                                                  *)
ReaderUnblocked ==
    \A r \in Readers : (reader[r] = "wait") ~> (reader[r] # "wait")

(* A reader that had begun to read stops after the Radar's destructor has  *)
(* run (monitorAirspace and displayLoop leave their loops on is_empty).    *)
ReadersStop ==
    \A r \in Readers :
        (radar = "ended" /\ reader[r] \notin {"opening", "openSem", "noData"})
            ~> (reader[r] = "stopped")

(* The snapshot of n entries that a timestamp and an array make.           *)
Image(k, n, entries) == [timestamp |-> k, plane_data |-> [i \in 1..n |-> entries[i]]]
NoImage == Image(0, 0, Zeroed)

(* The register's number: a write that has begun is not yet counted.       *)
LatestNumber == IF radar \in {"wait", "timestamp"} THEN tick - 1 ELSE tick

(* The register's value: the object's, from a write's first field on that  *)
(* of the write, and none while the object is made, cleared or ownerless.  *)
LatestImage ==
    CASE radar \in {"idle", "wait", "timestamp"} -> Image(timestamp, count, plane_data)
      [] radar \in RadarWrites \ {"timestamp"} -> Image(tick, planes, [i \in 1..planes |-> tick])
      [] OTHER -> NoImage

(* What a clean reader reads: the object's, and then its copy's.           *)
ReadImage(r) ==
    CASE clean[r] /\ reader[r] \in ReaderReads -> Image(timestamp, count, plane_data)
      [] clean[r] /\ reader[r] = "use" ->
             Image(snapshot[r].timestamp, snapshot[r].count, snapshot[r].plane_data)
      [] OTHER -> NoImage

Register == INSTANCE SnapshotRegister WITH
    number <- LatestNumber,
    latest <- LatestImage,
    got <- [r \in Readers |-> ReadImage(r)]

(* Although the object is written and read field by field, by processes    *)
(* that are killed and started again, a clean reader reads as from an      *)
(* atomic register: a snapshot that was, at one moment of its reading, the *)
(* latest one, and so never an older one than the time before              *)
(* (Radar::writeToSharedMemory, ComputerSystem::monitorAirspace,           *)
(* Display::displayLoop).                                                  *)
ReadsAreAtomic == Register!Spec

(* README.md:126, "preventing the ComputerSystem or Display from reading a *)
(* partially written snapshot": whole snapshots while the Radar runs and   *)
(* has its semaphore.  The code does not keep this: a reader that finds    *)
(* the object before the semaphore exists runs without it.                 *)
SnapshotsAreWhole ==
    \A r \in Readers :
        (reader[r] = "use" /\ radarSem # NoSem /\ ~closing) => Whole(snapshot[r])

=============================================================================
