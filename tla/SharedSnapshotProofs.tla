------------------------ MODULE SharedSnapshotProofs ------------------------
(***************************************************************************)
(* What the semaphore of module SharedSnapshot guarantees, for any number  *)
(* of readers, aircraft, snapshots and restarts of the ATC process.        *)
(***************************************************************************)
EXTENDS SharedSnapshot, TLAPS

(* The object holds one snapshot, and its is_empty agrees with its count.  *)
ObjectWhole ==
    /\ \A i \in 1..count : plane_data[i] = timestamp
    /\ is_empty <=> count = 0
    /\ ~is_empty => timestamp > 0

(* A semaphore whose value is 1 is held by nobody.                         *)
SemFree ==
    \A k \in Semaphores :
        semValue[k] = 1 => ~RadarHolds(k) /\ \A r \in Readers : ~ReaderHolds(r, k)

(* How far a write or a clear has come.                                    *)
WriteProgress ==
    /\ radar \in {"idle", "wait", "post"} => ObjectWhole
    /\ radar \in RadarWrites \cup {"wait"} => tick > 0
    /\ radar \in RadarWrites \ {"timestamp"} => timestamp = tick
    /\ radar \in {"count", "memcpy"} => (is_empty <=> planes = 0)
    /\ radar \in {"wait", "timestamp", "is_empty", "count"} => written = 0
    /\ radar = "memcpy" => /\ count = planes
                           /\ written < planes
                           /\ \A i \in 1..written : plane_data[i] = tick
    /\ radar = "post" => count = planes
    /\ radar \in {"clearFlag", "clearTime"} => count = 0
    /\ radar = "clearTime" => is_empty

(* How far a reader's copy has come.                                       *)
CopyProgress ==
    \A r \in Readers :
        /\ reader[r] \notin {"copy", "use"} => copied[r] = 0
        /\ copied[r] <= snapshot[r].count \/ copied[r] = 0

(* While a clean reader holds the semaphore the object stays whole: the    *)
(* Radar waits, or has been killed and has not cleared it yet.             *)
CleanObject ==
    \A r \in Readers :
        clean[r] /\ reader[r] \in ReaderReads =>
            /\ ObjectWhole
            /\ readerSem[r] # NoSem
            /\ \/ radar \in {"idle", "wait"} /\ radarSem = readerSem[r]
               \/ radar \in {"down", "unlinkSem", "openSem", "clearData"}

(* What a clean reader has copied is what the object holds.                *)
CleanCopy ==
    \A r \in Readers :
        clean[r] =>
            /\ reader[r] \in ReaderReads \cup {"use", "stopped"}
            /\ reader[r] \in {"timestamp", "count", "copy"} => ~is_empty
            /\ (reader[r] = "count" /\ r \notin CountFirst) \/ reader[r] = "copy"
                   => snapshot[r].timestamp = timestamp
            /\ (reader[r] = "timestamp" /\ r \in CountFirst) \/ reader[r] = "copy"
                   => snapshot[r].count = count
            /\ reader[r] = "copy" =>
                   \A i \in 1..copied[r] : snapshot[r].plane_data[i] = plane_data[i]

IInv ==
    /\ TypeOK
    /\ SemFree
    /\ SemaphoresExclude
    /\ WriteProgress
    /\ CopyProgress
    /\ CleanObject
    /\ CleanCopy
    /\ CleanReadIsWhole

-----------------------------------------------------------------------------
USE SnapshotAssumption DEF processVars, writeVars, radarVars, nameVars, objectVars, copyVars,
    readerVars, vars, beyondField, beyondCopy, RadarGoes, ReaderGoes, LastPlane, NoSem

(* A step of the ATC process.                                              *)
ATCStep == RadarStep \/ BeginWrite \/ Shutdown \/ Crash

(* The ATC process changes nothing of a reader, but may make it unclean.   *)
LEMMA ATCFrame ==
  ASSUME ATCStep
  PROVE  /\ UNCHANGED <<reader, readerSem, snapshot, copied>>
         /\ clean' = clean \/ clean' = [r \in Readers |-> FALSE]
BY DEF ATCStep, RadarStep, OpenObject, UnlinkSem, OpenSem, ClearData, ClearCount, ClearFlag,
       ClearTime, BeginWrite, SemWait, WriteTimestamp, WriteIsEmpty, WriteCount, WritePlane,
       SemPost, Shutdown, Unlink, Crash

(* A reader changes nothing of the ATC process, the names and the object.  *)
LEMMA ReaderFrame ==
  ASSUME NEW p \in Readers, ReaderStep(p)
  PROVE  UNCHANGED <<radarVars, nameVars, objectVars>>
BY DEF ReaderStep, ReaderOpenObject, ReaderOpenSem, ReaderSeesData, ReaderSemWait, ReadIsEmpty,
       ReadTimestamp, ReadCount, ReadPlane, ReaderSemPost, Use, ReaderStop

-----------------------------------------------------------------------------
(* Types.                                                                  *)

LEMMA ATCTypes ==
  ASSUME TypeOK, WriteProgress, ATCStep
  PROVE  TypeOK'
<1> USE DEF TypeOK, RadarTypeOK
<1>1. ReaderTypeOK'
  BY ATCFrame DEF ReaderTypeOK
<1>2. CASE OpenObject \/ UnlinkSem \/ Shutdown \/ Unlink \/ Crash
  <2>1. CASE OpenObject
    BY <1>1, <2>1 DEF OpenObject
  <2>2. CASE UnlinkSem
    BY <1>1, <2>2 DEF UnlinkSem
  <2>3. CASE Shutdown
    BY <1>1, <2>3 DEF Shutdown, RadarClears
  <2>4. CASE Unlink
    BY <1>1, <2>4 DEF Unlink
  <2>5. CASE Crash
    <3>1. planes' \in 0..Slots /\ written' \in 0..Slots
      BY <2>5 DEF Crash
    <3>2. closing' \in BOOLEAN
      BY <2>5 DEF Crash
    <3> QED
      BY <1>1, <2>5, <3>1, <3>2 DEF Crash
  <2> QED
    BY <1>2, <2>1, <2>2, <2>3, <2>4, <2>5
<1>9. CASE BeginWrite
  <2>1. tick' \in Ticks
    BY <1>9 DEF BeginWrite, Ticks
  <2> QED
    BY <1>1, <1>9, <2>1 DEF BeginWrite
<1>3. CASE OpenSem
  <2>1. run \in Semaphores \cup {NoSem}
    BY DEF Semaphores
  <2>2. radar' = "clearData"
        /\ UNCHANGED <<run, closing, tick, planes, written, shmName, semValue, objectVars>>
    BY <1>3 DEF OpenSem
  <2>3. radarSem' \in Semaphores \cup {NoSem} /\ semName' \in Semaphores \cup {NoSem}
    BY <1>3, <2>1 DEF OpenSem
  <2> QED
    BY <1>1, <2>2, <2>3 DEF RadarClears
<1>4. CASE ClearData \/ ClearCount \/ ClearFlag \/ ClearTime
  <2>1. CASE ClearData
    <3>1. Zeroed \in [1..Slots -> Ticks]
      BY DEF Zeroed, Ticks
    <3> QED
      BY <1>1, <2>1, <3>1 DEF ClearData, RadarClears
  <2>2. CASE ClearCount
    BY <1>1, <2>2 DEF ClearCount, RadarClears
  <2>3. CASE ClearFlag
    BY <1>1, <2>3 DEF ClearFlag, RadarClears
  <2>4. CASE ClearTime
    BY <1>1, <2>4 DEF ClearTime, Ticks
  <2> QED
    BY <1>4, <2>1, <2>2, <2>3, <2>4
<1>5. CASE SemWait
  BY <1>1, <1>5 DEF SemWait, Wait, RadarWrites
<1>6. CASE WriteTimestamp \/ WriteIsEmpty \/ WriteCount
  BY <1>1, <1>6 DEF WriteTimestamp, WriteIsEmpty, WriteCount, RadarWrites
<1>7. CASE WritePlane
  BY <1>1, <1>7 DEF WritePlane, WriteProgress, RadarWrites
<1>8. CASE SemPost
  BY <1>1, <1>8 DEF SemPost, Post, RadarWrites
<1> QED
  BY <1>2, <1>3, <1>4, <1>5, <1>6, <1>7, <1>8, <1>9 DEF ATCStep, RadarStep

(* So do the steps of a reader.                                            *)
LEMMA ReaderTypes ==
  ASSUME TypeOK, CopyProgress, NEW p \in Readers, ReaderStep(p)
  PROVE  TypeOK'
<1> USE DEF TypeOK, ReaderTypeOK, ReaderReads
<1>1. semValue' \in [Semaphores -> 0..1] => RadarTypeOK'
  BY ReaderFrame DEF RadarTypeOK
<1>2. semValue \in [Semaphores -> 0..1]
  BY DEF RadarTypeOK
<1>3. CASE ReaderOpenObject(p) \/ ReaderOpenSem(p) \/ ReaderSeesData(p) \/ ReadIsEmpty(p)
  BY <1>1, <1>2, <1>3
  DEF ReaderOpenObject, ReaderOpenSem, ReaderSeesData, ReadIsEmpty, RadarTypeOK
<1>4. CASE ReaderSemWait(p)
  <2>1. semValue' \in [Semaphores -> 0..1]
    BY <1>2, <1>4 DEF ReaderSemWait, Wait
  <2>2. clean' \in [Readers -> BOOLEAN]
    BY <1>4 DEF ReaderSemWait
  <2> QED
    BY <1>1, <1>4, <2>1, <2>2 DEF ReaderSemWait
<1>5. CASE ReadTimestamp(p) \/ ReadCount(p)
  <2>1. /\ [snapshot[p] EXCEPT !.timestamp = timestamp] \in SnapshotType
        /\ [snapshot[p] EXCEPT !.count = count] \in SnapshotType
    <3>1. snapshot[p] \in SnapshotType /\ timestamp \in Ticks /\ count \in 0..Slots
      BY DEF RadarTypeOK
    <3> QED
      BY <3>1 DEF SnapshotType
  <2>2. snapshot' \in [Readers -> SnapshotType]
    BY <1>5, <2>1 DEF ReadTimestamp, ReadCount
  <2>3. reader' \in [Readers -> {"opening", "openSem", "noData", "wait", "use", "stopped"}
                                \cup ReaderReads]
    BY <1>5 DEF ReadTimestamp, ReadCount
  <2>4. UNCHANGED <<readerSem, copied, clean, semValue>>
    BY <1>5 DEF ReadTimestamp, ReadCount
  <2> QED
    BY <1>1, <1>2, <2>2, <2>3, <2>4
<1>6. CASE ReadPlane(p)
  <2>1. snapshot[p] \in SnapshotType /\ copied[p] + 1 \in 1..Slots
    BY <1>6 DEF ReadPlane, SnapshotType
  <2>2. plane_data[copied[p] + 1] \in Ticks
    BY <2>1 DEF RadarTypeOK
  <2>3. [snapshot[p] EXCEPT !.plane_data[copied[p] + 1] = plane_data[copied[p] + 1]]
            \in SnapshotType
    BY <2>1, <2>2 DEF SnapshotType
  <2>4. snapshot' \in [Readers -> SnapshotType]
    BY <1>6, <2>3 DEF ReadPlane
  <2>5. copied' \in [Readers -> 0..Slots]
    BY <1>6, <2>1 DEF ReadPlane
  <2> QED
    BY <1>1, <1>2, <1>6, <2>4, <2>5 DEF ReadPlane
<1>7. CASE ReaderSemPost(p)
  BY <1>1, <1>2, <1>7 DEF ReaderSemPost, Post
<1>9. CASE ReaderStop(p)
  <2>1. semValue' \in [Semaphores -> 0..1]
    BY <1>2, <1>9 DEF ReaderStop, Post
  <2>2. clean' \in [Readers -> BOOLEAN]
    BY <1>9 DEF ReaderStop
  <2> QED
    BY <1>1, <1>9, <2>1, <2>2 DEF ReaderStop
<1>8. CASE Use(p)
  <2>1. EmptyCopy \in SnapshotType
    BY DEF EmptyCopy, Zeroed, SnapshotType, Ticks
  <2> QED
    BY <1>1, <1>2, <1>8, <2>1 DEF Use
<1> QED
  BY <1>3, <1>4, <1>5, <1>6, <1>7, <1>8, <1>9 DEF ReaderStep

-----------------------------------------------------------------------------
(* Semaphores.                                                             *)

(* The ATC process takes a semaphore only when its value is 1, and a       *)
(* killed one holds none.                                                  *)
LEMMA ATCSemaphores ==
  ASSUME TypeOK, SemFree, SemaphoresExclude, ATCStep
  PROVE  SemFree' /\ SemaphoresExclude'
<1>1. \A r \in Readers, k \in Semaphores : ReaderHolds(r, k)' <=> ReaderHolds(r, k)
  BY ATCFrame DEF ReaderHolds
<1>2. CASE SemWait
  <2>1. CASE radarSem = NoSem
    BY <1>1, <1>2, <2>1
    DEF SemWait, Wait, SemFree, SemaphoresExclude, RadarHolds, Semaphores
  <2>2. CASE radarSem # NoSem
    BY <1>1, <1>2, <2>2
    DEF SemWait, Wait, SemFree, SemaphoresExclude, RadarHolds, TypeOK, RadarTypeOK
  <2> QED
    BY <2>1, <2>2
<1>3. CASE SemPost
  BY <1>1, <1>3
  DEF SemPost, Post, SemFree, SemaphoresExclude, RadarHolds, RadarWrites, TypeOK, RadarTypeOK
<1>4. CASE ~SemWait /\ ~SemPost
  <2>1. semValue' = semValue
    BY <1>4
    DEF ATCStep, RadarStep, OpenObject, UnlinkSem, OpenSem, ClearData, ClearCount, ClearFlag,
        ClearTime, BeginWrite, WriteTimestamp, WriteIsEmpty, WriteCount, WritePlane, Shutdown,
        Unlink, Crash
  <2>2. \A k \in Semaphores : RadarHolds(k)' => RadarHolds(k)
    BY <1>4
    DEF ATCStep, RadarStep, OpenObject, UnlinkSem, OpenSem, ClearData, ClearCount, ClearFlag,
        ClearTime, BeginWrite, WriteTimestamp, WriteIsEmpty, WriteCount, WritePlane, Shutdown,
        Unlink, Crash, RadarHolds, RadarWrites
  <2> QED
    BY <1>1, <2>1, <2>2 DEF SemFree, SemaphoresExclude
<1> QED
  BY <1>2, <1>3, <1>4

(* A reader takes a semaphore only when its value is 1, and sets it to 1   *)
(* only when it is the holder.                                             *)
LEMMA ReaderSemaphores ==
  ASSUME TypeOK, SemFree, SemaphoresExclude, NEW p \in Readers, ReaderStep(p)
  PROVE  SemFree' /\ SemaphoresExclude'
<1> USE DEF TypeOK, ReaderTypeOK, RadarTypeOK
<1>1. \A k \in Semaphores : RadarHolds(k)' <=> RadarHolds(k)
  BY ReaderFrame DEF RadarHolds
<1>2. CASE ReaderSemWait(p)
  <2>1. \A r \in Readers, k \in Semaphores :
            ReaderHolds(r, k)' <=> (ReaderHolds(r, k) \/ (r = p /\ k = readerSem[p]))
    BY <1>2 DEF ReaderSemWait, ReaderHolds, ReaderReads
  <2>2. CASE readerSem[p] = NoSem
    <3>1. semValue' = semValue
      BY <1>2, <2>2 DEF ReaderSemWait, Wait
    <3>2. \A r \in Readers, k \in Semaphores : ReaderHolds(r, k)' <=> ReaderHolds(r, k)
      BY <2>1, <2>2 DEF Semaphores
    <3> QED
      BY <1>1, <3>1, <3>2 DEF SemFree, SemaphoresExclude
  <2>3. CASE readerSem[p] # NoSem
    <3>1. semValue[readerSem[p]] = 1
      BY <1>2, <2>3 DEF ReaderSemWait, Wait
    <3>2. \A k \in Semaphores :
              semValue'[k] = IF k = readerSem[p] THEN 0 ELSE semValue[k]
      BY <1>2, <2>3 DEF ReaderSemWait, Wait
    <3>3. SemFree'
      BY <1>1, <2>1, <3>2 DEF SemFree
    <3>4. \A k \in Semaphores : k = readerSem[p] =>
              ~RadarHolds(k) /\ \A r \in Readers : ~ReaderHolds(r, k)
      BY <3>1 DEF SemFree
    <3>5. SemaphoresExclude'
      BY <1>1, <2>1, <3>4 DEF SemaphoresExclude
    <3> QED
      BY <3>3, <3>5
  <2> QED
    BY <2>2, <2>3
<1>3. CASE ReaderSemPost(p) \/ ReaderStop(p)
  <2>1. \A r \in Readers, k \in Semaphores :
            ReaderHolds(r, k)' <=> (ReaderHolds(r, k) /\ r # p)
    BY <1>3 DEF ReaderSemPost, ReaderStop, ReaderHolds, ReaderReads
  <2>2. \A k \in Semaphores : semValue'[k] = IF k = readerSem[p] THEN 1 ELSE semValue[k]
    BY <1>3 DEF ReaderSemPost, ReaderStop, Post, Semaphores
  <2>3. readerSem[p] \in Semaphores => ReaderHolds(p, readerSem[p])
    BY <1>3 DEF ReaderSemPost, ReaderStop, ReaderHolds, ReaderReads
  <2>4. SemaphoresExclude'
    BY <1>1, <2>1 DEF SemaphoresExclude
  <2>5. SemFree'
    <3> SUFFICES ASSUME NEW k \in Semaphores, semValue'[k] = 1
                 PROVE  ~RadarHolds(k)' /\ \A r \in Readers : ~ReaderHolds(r, k)'
      BY DEF SemFree
    <3>1. CASE k = readerSem[p]
      BY <1>1, <2>1, <2>3, <3>1 DEF SemaphoresExclude
    <3>2. CASE k # readerSem[p]
      BY <1>1, <2>1, <2>2, <3>2 DEF SemFree
    <3> QED
      BY <3>1, <3>2
  <2> QED
    BY <2>4, <2>5
<1>4. CASE ~ReaderSemWait(p) /\ ~ReaderSemPost(p) /\ ~ReaderStop(p)
  <2>1. semValue' = semValue
    BY <1>4
    DEF ReaderStep, ReaderOpenObject, ReaderOpenSem, ReaderSeesData, ReadIsEmpty, ReadTimestamp,
        ReadCount, ReadPlane, Use
  <2>2. \A r \in Readers, k \in Semaphores : ReaderHolds(r, k)' => ReaderHolds(r, k)
    BY <1>4
    DEF ReaderStep, ReaderOpenObject, ReaderOpenSem, ReaderSeesData, ReadIsEmpty, ReadTimestamp,
        ReadCount, ReadPlane, Use, ReaderHolds, ReaderReads
  <2> QED
    BY <1>1, <2>1, <2>2 DEF SemFree, SemaphoresExclude
<1> QED
  BY <1>2, <1>3, <1>4

-----------------------------------------------------------------------------
(* Writes and copies.                                                      *)

(* The fields of the object are written in an order that ends whole.       *)
LEMMA ATCWrites ==
  ASSUME TypeOK, WriteProgress, ATCStep
  PROVE  WriteProgress'
<1> USE DEF TypeOK, RadarTypeOK, WriteProgress, ObjectWhole, RadarWrites, Ticks
<1>1. CASE OpenObject \/ UnlinkSem \/ OpenSem \/ ClearData \/ Shutdown \/ Unlink \/ Crash
  BY <1>1 DEF OpenObject, UnlinkSem, OpenSem, ClearData, Shutdown, Unlink, Crash
<1>2. CASE ClearCount
  BY <1>2 DEF ClearCount
<1>3. CASE ClearFlag
  BY <1>3 DEF ClearFlag
<1>4. CASE ClearTime
  BY <1>4 DEF ClearTime
<1>5. CASE BeginWrite
  BY <1>5 DEF BeginWrite
<1>6. CASE SemWait
  BY <1>6 DEF SemWait
<1>7. CASE WriteTimestamp
  BY <1>7 DEF WriteTimestamp
<1>8. CASE WriteIsEmpty
  BY <1>8 DEF WriteIsEmpty
<1>9. CASE WriteCount
  BY <1>9 DEF WriteCount
<1>10. CASE WritePlane
  BY <1>10 DEF WritePlane
<1>11. CASE SemPost
  BY <1>11 DEF SemPost
<1> QED
  BY <1>1, <1>2, <1>3, <1>4, <1>5, <1>6, <1>7, <1>8, <1>9, <1>10, <1>11 DEF ATCStep, RadarStep

(* A reader copies entries only up to the count it has read, and starts    *)
(* from none.                                                              *)
LEMMA ReaderCopies ==
  ASSUME TypeOK, CopyProgress, NEW p \in Readers, ReaderStep(p)
  PROVE  CopyProgress'
<1> USE DEF TypeOK, ReaderTypeOK, CopyProgress, ReaderReads
<1>1. CASE ReaderOpenObject(p) \/ ReaderOpenSem(p) \/ ReaderSeesData(p) \/ ReaderSemWait(p)
           \/ ReadIsEmpty(p) \/ ReaderSemPost(p) \/ ReaderStop(p)
  BY <1>1 DEF ReaderOpenObject, ReaderOpenSem, ReaderSeesData, ReaderSemWait, ReadIsEmpty,
              ReaderSemPost, ReaderStop
<1>2. CASE ReadTimestamp(p)
  BY <1>2 DEF ReadTimestamp, SnapshotType
<1>3. CASE ReadCount(p)
  BY <1>3 DEF ReadCount, SnapshotType
<1>4. CASE ReadPlane(p)
  BY <1>4 DEF ReadPlane, SnapshotType
<1>5. CASE Use(p)
  BY <1>5 DEF Use, EmptyCopy
<1> QED
  BY <1>1, <1>2, <1>3, <1>4, <1>5 DEF ReaderStep

-----------------------------------------------------------------------------
(* Clean readers.                                                          *)

(* While a clean reader reads, the ATC process does not change the object, *)
(* unless it makes every reader unclean.                                   *)
LEMMA CleanReadersKept ==
  ASSUME IInv, ATCStep, ~ClearData
  PROVE  /\ clean' = clean
         /\ \A r \in Readers : clean[r] /\ reader[r] \in ReaderReads =>
                /\ UNCHANGED objectVars
                /\ \/ radar' \in {"idle", "wait"} /\ radarSem' = readerSem[r]
                   \/ radar' \in {"down", "unlinkSem", "openSem", "clearData"}
<1>1. clean' = clean
  BY DEF ATCStep, RadarStep, OpenObject, UnlinkSem, OpenSem, ClearCount, ClearFlag, ClearTime,
         BeginWrite, SemWait, WriteTimestamp, WriteIsEmpty, WriteCount, WritePlane, SemPost,
         Shutdown, Unlink, Crash
<1>2. ASSUME NEW r \in Readers, clean[r], reader[r] \in ReaderReads
      PROVE  /\ UNCHANGED objectVars
             /\ \/ radar' \in {"idle", "wait"} /\ radarSem' = readerSem[r]
                \/ radar' \in {"down", "unlinkSem", "openSem", "clearData"}
  <2>1. /\ readerSem[r] # NoSem
        /\ \/ radar \in {"idle", "wait"} /\ radarSem = readerSem[r]
           \/ radar \in {"down", "unlinkSem", "openSem", "clearData"}
    BY <1>2 DEF IInv, CleanObject
  <2>2. ReaderHolds(r, readerSem[r]) /\ readerSem[r] \in Semaphores
    BY <1>2, <2>1 DEF IInv, ReaderHolds, TypeOK, ReaderTypeOK
  <2>3. ~SemWait
    BY <2>1, <2>2 DEF IInv, SemWait, Wait, SemFree, TypeOK, RadarTypeOK
  <2> QED
    BY <2>1, <2>3
    DEF ATCStep, RadarStep, OpenObject, UnlinkSem, OpenSem, ClearCount, ClearFlag, ClearTime,
        BeginWrite, WriteTimestamp, WriteIsEmpty, WriteCount, WritePlane, SemPost, Shutdown,
        Unlink, Crash
<1> QED
  BY <1>1, <1>2

(* So what clean readers have read stays what the object holds.            *)
LEMMA ATCClean ==
  ASSUME IInv, ATCStep
  PROVE  CleanObject' /\ CleanCopy' /\ CleanReadIsWhole'
<1> USE DEF IInv
<1>1. UNCHANGED <<reader, readerSem, snapshot, copied>>
  BY ATCFrame
<1>2. CleanReadIsWhole'
  BY ATCFrame DEF CleanReadIsWhole, Whole
<1>3. CASE ClearData
  <2>1. \A r \in Readers : ~clean'[r]
    BY <1>3 DEF ClearData
  <2> QED
    BY <1>2, <2>1 DEF CleanObject, CleanCopy
<1>4. CASE ~ClearData
  <2>1. CleanObject'
    BY <1>1, <1>4, CleanReadersKept DEF CleanObject, ObjectWhole
  <2>2. CleanCopy'
    BY <1>1, <1>4, CleanReadersKept DEF CleanCopy, ReaderReads
  <2> QED
    BY <1>2, <2>1, <2>2
<1> QED
  BY <1>3, <1>4

(* What CleanObject, CleanCopy and CleanReadIsWhole say of one reader.     *)
CleanReader(r) ==
    clean[r] =>
        /\ reader[r] \in ReaderReads =>
               /\ ObjectWhole
               /\ readerSem[r] # NoSem
               /\ \/ radar \in {"idle", "wait"} /\ radarSem = readerSem[r]
                  \/ radar \in {"down", "unlinkSem", "openSem", "clearData"}
        /\ reader[r] \in ReaderReads \cup {"use", "stopped"}
        /\ reader[r] \in {"timestamp", "count", "copy"} => ~is_empty
        /\ (reader[r] = "count" /\ r \notin CountFirst) \/ reader[r] = "copy"
               => snapshot[r].timestamp = timestamp
        /\ (reader[r] = "timestamp" /\ r \in CountFirst) \/ reader[r] = "copy"
               => snapshot[r].count = count
        /\ reader[r] = "copy" =>
               \A i \in 1..copied[r] : snapshot[r].plane_data[i] = plane_data[i]
        /\ reader[r] = "use" => /\ Whole(snapshot[r])
                                /\ snapshot[r].count > 0
                                /\ snapshot[r].timestamp > 0

(* The invariant of clean readers, reader by reader.                       *)
LEMMA CleanReaders ==
  CleanObject /\ CleanCopy /\ CleanReadIsWhole <=> \A r \in Readers : CleanReader(r)
BY DEF CleanObject, CleanCopy, CleanReadIsWhole, CleanReader

(* A reader's own step keeps what is known of a clean reader: it copies    *)
(* one field after the other of an object that does not change.            *)
LEMMA OwnClean ==
  ASSUME IInv, NEW p \in Readers, ReaderStep(p)
  PROVE  CleanReader(p)'
<1> USE DEF ReaderReads
<1>1. TypeOK /\ CopyProgress /\ WriteProgress /\ CleanReader(p)
  BY CleanReaders DEF IInv
<1>2. UNCHANGED <<radarVars, nameVars, objectVars>>
  BY ReaderFrame
<1>3. ObjectWhole' <=> ObjectWhole
  BY <1>2 DEF ObjectWhole
<1>4. CASE ReaderOpenObject(p) \/ ReaderOpenSem(p) \/ ReaderSeesData(p)
  BY <1>1, <1>4 DEF ReaderOpenObject, ReaderOpenSem, ReaderSeesData, CleanReader
<1>5. CASE ReaderSemWait(p)
  <2>1. reader'[p] = "is_empty" /\ readerSem' = readerSem
    BY <1>1, <1>5 DEF ReaderSemWait, TypeOK, ReaderTypeOK
  <2>2. clean'[p] => readerSem[p] # NoSem /\ readerSem[p] = radarSem /\ radar \in {"idle", "wait"}
    BY <1>1, <1>5 DEF ReaderSemWait, TypeOK, ReaderTypeOK
  <2>3. clean'[p] => ObjectWhole
    BY <1>1, <2>2 DEF WriteProgress
  <2> QED
    BY <1>2, <1>3, <2>1, <2>2, <2>3 DEF CleanReader
<1>6. CASE ReadIsEmpty(p)
  <2>1. /\ reader'[p] = IF is_empty THEN "stop"
                        ELSE IF p \in CountFirst THEN "count" ELSE "timestamp"
        /\ UNCHANGED <<clean, readerSem, snapshot, copied>>
        /\ reader[p] = "is_empty"
    BY <1>1, <1>6 DEF ReadIsEmpty, TypeOK, ReaderTypeOK
  <2> QED
    BY <1>1, <1>2, <1>3, <2>1 DEF CleanReader
<1>7. CASE ReadTimestamp(p)
  <2>1. /\ reader'[p] = IF p \in CountFirst THEN "copy" ELSE "count"
        /\ UNCHANGED <<clean, readerSem, copied>>
        /\ reader[p] = "timestamp"
        /\ copied[p] = 0
    BY <1>1, <1>7 DEF ReadTimestamp, TypeOK, ReaderTypeOK, CopyProgress
  <2>2. snapshot'[p].timestamp = timestamp /\ snapshot'[p].count = snapshot[p].count
    BY <1>1, <1>7 DEF ReadTimestamp, TypeOK, ReaderTypeOK, SnapshotType
  <2> QED
    BY <1>1, <1>2, <1>3, <2>1, <2>2 DEF CleanReader
<1>8. CASE ReadCount(p)
  <2>1. /\ reader'[p] = IF p \in CountFirst THEN "timestamp" ELSE "copy"
        /\ UNCHANGED <<clean, readerSem, copied>>
        /\ reader[p] = "count"
        /\ copied[p] = 0
    BY <1>1, <1>8 DEF ReadCount, TypeOK, ReaderTypeOK, CopyProgress
  <2>2. snapshot'[p].count = count /\ snapshot'[p].timestamp = snapshot[p].timestamp
    BY <1>1, <1>8 DEF ReadCount, TypeOK, ReaderTypeOK, SnapshotType
  <2> QED
    BY <1>1, <1>2, <1>3, <2>1, <2>2 DEF CleanReader
<1>9. CASE ReadPlane(p)
  <2>1. /\ UNCHANGED <<clean, reader, readerSem>>
        /\ reader[p] = "copy"
        /\ copied'[p] = copied[p] + 1
        /\ copied[p] \in 0..Slots
    BY <1>1, <1>9 DEF ReadPlane, TypeOK, ReaderTypeOK
  <2>2. snapshot[p] \in SnapshotType /\ copied[p] + 1 \in 1..Slots
    BY <1>1, <1>9 DEF ReadPlane, TypeOK, ReaderTypeOK, SnapshotType
  <2>3. snapshot'[p] = [snapshot[p] EXCEPT !.plane_data[copied[p] + 1] = plane_data[copied[p] + 1]]
    BY <1>1, <1>9 DEF ReadPlane, TypeOK, ReaderTypeOK
  <2>4. /\ snapshot'[p].timestamp = snapshot[p].timestamp
        /\ snapshot'[p].count = snapshot[p].count
        /\ \A i \in 1..Slots : snapshot'[p].plane_data[i] =
               IF i = copied[p] + 1 THEN plane_data[i] ELSE snapshot[p].plane_data[i]
    BY <2>2, <2>3 DEF SnapshotType
  <2>5. ASSUME clean[p]
        PROVE  \A i \in 1..copied'[p] : snapshot'[p].plane_data[i] = plane_data[i]
    BY <1>1, <2>1, <2>2, <2>4, <2>5 DEF CleanReader
  <2> QED
    BY <1>1, <1>2, <1>3, <2>1, <2>4, <2>5 DEF CleanReader
<1>10. CASE ReaderSemPost(p)
  <2>1. /\ reader[p] = "copy" /\ reader'[p] = "use"
        /\ copied[p] = snapshot[p].count
        /\ UNCHANGED <<clean, readerSem, snapshot>>
    BY <1>1, <1>10 DEF ReaderSemPost, TypeOK, ReaderTypeOK
  <2>2. ASSUME clean[p]
        PROVE  Whole(snapshot[p]) /\ snapshot[p].count > 0 /\ snapshot[p].timestamp > 0
    <3>1. /\ ObjectWhole /\ ~is_empty
          /\ snapshot[p].timestamp = timestamp /\ snapshot[p].count = count
          /\ \A i \in 1..copied[p] : snapshot[p].plane_data[i] = plane_data[i]
      BY <1>1, <2>1, <2>2 DEF CleanReader
    <3> QED
      BY <1>1, <2>1, <3>1 DEF ObjectWhole, Whole, TypeOK, RadarTypeOK
  <2> QED
    BY <1>1, <2>1, <2>2 DEF CleanReader
<1>11. CASE ReaderStop(p)
  <2>1. reader'[p] = "stopped"
    BY <1>1, <1>11 DEF ReaderStop, TypeOK, ReaderTypeOK
  <2> QED
    BY <2>1 DEF CleanReader
<1>12. CASE Use(p)
  <2>1. ~clean'[p]
    BY <1>1, <1>12 DEF Use, TypeOK, ReaderTypeOK
  <2> QED
    BY <2>1 DEF CleanReader
<1> QED
  BY <1>4, <1>5, <1>6, <1>7, <1>8, <1>9, <1>10, <1>11, <1>12 DEF ReaderStep

(* It changes nothing that another reader's cleanness depends on.          *)
LEMMA OthersClean ==
  ASSUME IInv, NEW p \in Readers, ReaderStep(p), NEW r \in Readers, r # p
  PROVE  CleanReader(r)'
<1>1. TypeOK /\ CleanReader(r)
  BY CleanReaders DEF IInv
<1>2. UNCHANGED <<radarVars, nameVars, objectVars>>
  BY ReaderFrame
<1>3. /\ reader'[r] = reader[r] /\ readerSem'[r] = readerSem[r] /\ snapshot'[r] = snapshot[r]
      /\ copied'[r] = copied[r] /\ clean'[r] = clean[r]
  BY <1>1
  DEF ReaderStep, ReaderOpenObject, ReaderOpenSem, ReaderSeesData, ReaderSemWait, ReadIsEmpty,
      ReadTimestamp, ReadCount, ReadPlane, ReaderSemPost, Use, ReaderStop, TypeOK, ReaderTypeOK
<1> QED
  BY <1>1, <1>2, <1>3 DEF CleanReader, ObjectWhole, Whole

-----------------------------------------------------------------------------
(* The inductive invariant.                                                *)

(* It holds at the start.                                                  *)
LEMMA InitIInv ==
  Init => IInv
<1> SUFFICES ASSUME Init
             PROVE  IInv
  OBVIOUS
<1>1. EmptyCopy \in SnapshotType /\ Zeroed \in [1..Slots -> Ticks]
  BY DEF EmptyCopy, Zeroed, SnapshotType, Ticks
<1>2. TypeOK
  <2>1. RadarTypeOK
    <3>1. semValue \in [Semaphores -> 0..1] /\ plane_data \in [1..Slots -> Ticks]
      BY <1>1 DEF Init
    <3>2. is_empty \in BOOLEAN /\ shmName \in BOOLEAN /\ closing \in BOOLEAN
      BY DEF Init
    <3> QED
      BY <3>1, <3>2 DEF Init, RadarTypeOK, Ticks
  <2>2. ReaderTypeOK
    BY <1>1 DEF Init, ReaderTypeOK
  <2> QED
    BY <2>1, <2>2 DEF TypeOK
<1>3. SemFree /\ SemaphoresExclude
  BY DEF Init, SemFree, SemaphoresExclude, RadarHolds, ReaderHolds, RadarWrites, ReaderReads
<1>4. WriteProgress
  BY DEF Init, WriteProgress, RadarWrites
<1>5. CopyProgress
  BY DEF Init, CopyProgress, EmptyCopy
<1>6. CleanObject /\ CleanCopy /\ CleanReadIsWhole
  BY DEF Init, CleanObject, CleanCopy, CleanReadIsWhole
<1> QED
  BY <1>2, <1>3, <1>4, <1>5, <1>6 DEF IInv

(* Every step preserves it.                                                *)
LEMMA NextIInv ==
  ASSUME IInv, [Next]_vars
  PROVE  IInv'
<1>1. CASE ATCStep
  <2>1. TypeOK' /\ WriteProgress'
    BY <1>1, ATCTypes, ATCWrites DEF IInv
  <2>2. SemFree' /\ SemaphoresExclude'
    BY <1>1, ATCSemaphores DEF IInv
  <2>3. CopyProgress'
    BY <1>1, ATCFrame DEF IInv, CopyProgress
  <2>4. CleanObject' /\ CleanCopy' /\ CleanReadIsWhole'
    BY <1>1, ATCClean
  <2> QED
    BY <2>1, <2>2, <2>3, <2>4 DEF IInv
<1>2. CASE \E p \in Readers : ReaderStep(p)
  <2>1. PICK p \in Readers : ReaderStep(p)
    BY <1>2
  <2>2. TypeOK' /\ SemFree' /\ SemaphoresExclude' /\ CopyProgress'
    BY <2>1, ReaderTypes, ReaderSemaphores, ReaderCopies DEF IInv
  <2>3. WriteProgress'
    BY <2>1, ReaderFrame DEF IInv, WriteProgress, ObjectWhole
  <2>4. \A r \in Readers : CleanReader(r)'
    BY <2>1, OwnClean, OthersClean
  <2>5. CleanObject' /\ CleanCopy' /\ CleanReadIsWhole'
    BY <2>4 DEF CleanReader, CleanObject, CleanCopy, CleanReadIsWhole
  <2> QED
    BY <2>2, <2>3, <2>5 DEF IInv
<1>3. CASE UNCHANGED vars
  <2>1. TypeOK'
    BY <1>3 DEF IInv, TypeOK, RadarTypeOK, ReaderTypeOK
  <2>3. SemFree' /\ SemaphoresExclude'
    BY <1>3 DEF IInv, SemFree, SemaphoresExclude, RadarHolds, ReaderHolds
  <2>4. WriteProgress' /\ CopyProgress'
    BY <1>3 DEF IInv, WriteProgress, ObjectWhole, CopyProgress
  <2>2. CleanObject' /\ CleanCopy' /\ CleanReadIsWhole'
    BY <1>3 DEF IInv, CleanObject, CleanCopy, CleanReadIsWhole, ObjectWhole, Whole
  <2> QED
    BY <2>1, <2>2, <2>3, <2>4 DEF IInv
<1> QED
  BY <1>1, <1>2, <1>3 DEF Next, ATCStep

(* The inductive invariant holds in every reachable state.                 *)
THEOREM InductiveInvariant == Spec => []IInv
<1>1. Init => IInv
  BY InitIInv
<1>2. IInv /\ [Next]_vars => IInv'
  BY NextIInv
<1> QED
  BY <1>1, <1>2, PTL DEF Spec

(* Every variable keeps its type.                                          *)
THEOREM TypeCorrect == Spec => []TypeOK
<1>1. IInv => TypeOK
  BY DEF IInv
<1> QED
  BY <1>1, InductiveInvariant, PTL

(* No semaphore is ever held twice, for any number of readers and          *)
(* restarts.                                                               *)
THEOREM SemaphoresCorrect == Spec => []SemaphoresExclude
<1>1. IInv => SemaphoresExclude
  BY DEF IInv
<1> QED
  BY <1>1, InductiveInvariant, PTL

(* A reader that took the running Radar's semaphore uses one whole         *)
(* snapshot, for any number of readers and aircraft.                       *)
THEOREM CleanReadCorrect == Spec => []CleanReadIsWhole
<1>1. IInv => CleanReadIsWhole
  BY DEF IInv
<1> QED
  BY <1>1, InductiveInvariant, PTL

-----------------------------------------------------------------------------
(* The abstract register.                                                  *)

(* The image of no entries does not depend on the array.                   *)
LEMMA EmptyImage ==
  ASSUME NEW k, NEW f
  PROVE  Image(k, 0, f) = Register!Image(k, 0)
<1>1. 1..0 = {}
  OBVIOUS
<1> QED
  BY <1>1 DEF Image, Register!Image

(* What a reader shows that has read nothing is the register's nothing.    *)
LEMMA NoImageIsNothing == NoImage = Register!Nothing
BY EmptyImage DEF NoImage, Register!Nothing

(* A step that changes none of the register's parts is not one of its.     *)
LEMMA RegisterStutters ==
  ASSUME UNCHANGED <<LatestNumber, LatestImage>>, \A r \in Readers : ReadImage(r)' = ReadImage(r)
  PROVE  UNCHANGED Register!vars
BY DEF Register!vars

(* Each step of the ATC process writes the register, loses or resets what  *)
(* it holds, or is not seen.                                               *)
LEMMA ATCRegister ==
  ASSUME IInv, IInv', ATCStep
  PROVE  Register!Next \/ UNCHANGED Register!vars
<1> USE DEF IInv, LatestNumber, LatestImage
<1>1. RadarTypeOK
  BY DEF TypeOK
<1>2. CASE ClearData
  <2>1. \A r \in Readers : ReadImage(r)' = NoImage
    BY <1>2 DEF ClearData, ReadImage
  <2>2. LatestImage = NoImage /\ UNCHANGED <<LatestNumber, LatestImage>>
    BY <1>2 DEF ClearData, RadarWrites
  <2>3. Register!Reset
    BY <2>1, <2>2, NoImageIsNothing DEF Register!Reset, Register!AllDropped
  <2> QED
    BY <2>3 DEF Register!Next
<1>3. CASE ~ClearData
  <2>1. \A r \in Readers : ReadImage(r)' = ReadImage(r)
    BY <1>3, CleanReadersKept, ATCFrame DEF ReadImage
  <2>2. CASE OpenObject \/ UnlinkSem \/ OpenSem \/ ClearCount \/ ClearFlag \/ Unlink
    <3>1. UNCHANGED <<LatestNumber, LatestImage>>
      BY <2>2 DEF OpenObject, UnlinkSem, OpenSem, ClearCount, ClearFlag, Unlink, RadarWrites
    <3> QED
      BY <2>1, <3>1, RegisterStutters
  <2>3. CASE ClearTime
    <3>1. count = 0 /\ Image(0, count, plane_data) = NoImage
      BY <2>3, EmptyImage, NoImageIsNothing DEF ClearTime, WriteProgress, Register!Nothing
    <3>2. UNCHANGED <<LatestNumber, LatestImage>>
      BY <2>3, <3>1 DEF ClearTime, RadarWrites
    <3> QED
      BY <2>1, <3>2, RegisterStutters
  <2>4. CASE BeginWrite \/ SemWait
    <3>1. UNCHANGED LatestNumber
      BY <1>1, <2>4 DEF BeginWrite, SemWait, RadarTypeOK, RadarWrites, Ticks
    <3>2. UNCHANGED LatestImage
      BY <2>4 DEF BeginWrite, SemWait, RadarWrites
    <3> QED
      BY <2>1, <3>1, <3>2, RegisterStutters
  <2>5. CASE WriteTimestamp
    <3>1. LatestNumber' = LatestNumber + 1 /\ LatestNumber' = tick
      BY <1>1, <2>5 DEF WriteTimestamp, RadarTypeOK, Ticks
    <3>2. LatestImage' = Register!Image(tick, planes) /\ planes \in 0..Slots
      BY <1>1, <2>5 DEF WriteTimestamp, RadarTypeOK, RadarWrites, Image, Register!Image
    <3>3. Register!Write
      BY <2>1, <3>1, <3>2 DEF Register!Write
    <3> QED
      BY <3>3 DEF Register!Next
  <2>6. CASE WriteIsEmpty \/ WriteCount \/ WritePlane
    <3>1. UNCHANGED <<LatestNumber, LatestImage>>
      BY <2>6 DEF WriteIsEmpty, WriteCount, WritePlane, RadarWrites
    <3> QED
      BY <2>1, <3>1, RegisterStutters
  <2>7. CASE SemPost
    <3>1. timestamp = tick /\ count = planes /\ ObjectWhole
      BY <2>7 DEF SemPost, WriteProgress, RadarWrites
    <3>2. Image(timestamp, count, plane_data) = Image(tick, planes, [i \in 1..planes |-> tick])
      BY <3>1 DEF ObjectWhole, Image
    <3>3. UNCHANGED <<LatestNumber, LatestImage>>
      BY <2>7, <3>2 DEF SemPost, RadarWrites
    <3> QED
      BY <2>1, <3>3, RegisterStutters
  <2>8. CASE Shutdown \/ Crash
    <3>1. LatestNumber' \in {LatestNumber, LatestNumber + 1}
      BY <1>1, <2>8 DEF Shutdown, Crash, RadarTypeOK, Ticks
    <3>2. LatestImage' = NoImage
      BY <2>8 DEF Shutdown, Crash, RadarWrites
    <3>3. Register!Lose
      BY <2>1, <3>1, <3>2, NoImageIsNothing DEF Register!Lose
    <3> QED
      BY <3>3 DEF Register!Next
  <2> QED
    BY <1>3, <2>2, <2>3, <2>4, <2>5, <2>6, <2>7, <2>8 DEF ATCStep, RadarStep
<1> QED
  BY <1>2, <1>3

(* A reader's step is seen when it takes the semaphore as a clean reader,  *)
(* which is its read, and when it drops what it has read.                  *)
LEMMA ReaderRegister ==
  ASSUME IInv, IInv', NEW p \in Readers, ReaderStep(p)
  PROVE  Register!Next \/ UNCHANGED Register!vars
<1>1. TypeOK /\ CleanReader(p)
  BY CleanReaders DEF IInv
<1>2. UNCHANGED <<radarVars, nameVars, objectVars>>
  BY ReaderFrame
<1>3. UNCHANGED <<LatestNumber, LatestImage>>
  BY <1>2 DEF LatestNumber, LatestImage
<1>4. \A r \in Readers \ {p} : ReadImage(r)' = ReadImage(r)
  <2>1. \A r \in Readers \ {p} : /\ reader'[r] = reader[r] /\ clean'[r] = clean[r]
                                 /\ snapshot'[r] = snapshot[r]
    BY <1>1
    DEF ReaderStep, ReaderOpenObject, ReaderOpenSem, ReaderSeesData, ReaderSemWait, ReadIsEmpty,
        ReadTimestamp, ReadCount, ReadPlane, ReaderSemPost, Use, ReaderStop, TypeOK, ReaderTypeOK
  <2> QED
    BY <1>2, <2>1 DEF ReadImage
<1>5. ASSUME ReadImage(p)' = ReadImage(p)
      PROVE  UNCHANGED Register!vars
  BY <1>3, <1>4, <1>5, RegisterStutters
<1>6. ASSUME ReadImage(p)' = NoImage
      PROVE  Register!Next \/ UNCHANGED Register!vars
  <2>1. CASE ReadImage(p) # NoImage
    <3>1. Register!Drop(p)
      BY <1>3, <1>4, <1>6, <2>1, NoImageIsNothing DEF Register!Drop
    <3> QED
      BY <3>1 DEF Register!Next
  <2> QED
    BY <1>5, <1>6, <2>1
<1>7. ASSUME ReadImage(p) = NoImage, ReadImage(p)' = LatestImage
      PROVE  Register!Next
  <2>1. Register!Read(p)
    BY <1>3, <1>4, <1>7, NoImageIsNothing DEF Register!Read
  <2> QED
    BY <2>1 DEF Register!Next
<1>8. CASE ReaderOpenObject(p) \/ ReaderOpenSem(p) \/ ReaderSeesData(p)
  <2>1. ~clean[p] /\ clean' = clean
    BY <1>1, <1>8
    DEF ReaderOpenObject, ReaderOpenSem, ReaderSeesData, CleanReader, ReaderReads
  <2>2. ReadImage(p)' = ReadImage(p)
    BY <2>1 DEF ReadImage
  <2> QED
    BY <1>5, <2>2
<1>9. CASE ReaderSemWait(p)
  <2>1. /\ reader[p] = "wait" /\ reader'[p] = "is_empty"
        /\ clean'[p] => radar \in {"idle", "wait"}
    BY <1>1, <1>9 DEF ReaderSemWait, TypeOK, ReaderTypeOK
  <2>2. ReadImage(p) = NoImage
    BY <2>1 DEF ReadImage, ReaderReads
  <2>3. CASE clean'[p]
    <3>1. ReadImage(p)' = LatestImage
      BY <1>2, <2>1, <2>3 DEF ReadImage, LatestImage, ReaderReads, RadarWrites
    <3> QED
      BY <1>7, <2>2, <3>1
  <2>4. CASE ~clean'[p]
    BY <1>6, <2>1, <2>4 DEF ReadImage
  <2> QED
    BY <2>3, <2>4
<1>10. CASE ReadIsEmpty(p) \/ ReadTimestamp(p) \/ ReadCount(p) \/ ReadPlane(p)
  <2>1. reader[p] \in ReaderReads /\ reader'[p] \in ReaderReads /\ clean' = clean
    BY <1>1, <1>10
    DEF ReadIsEmpty, ReadTimestamp, ReadCount, ReadPlane, ReaderReads, TypeOK, ReaderTypeOK
  <2>2. ReadImage(p)' = ReadImage(p)
    BY <1>2, <2>1 DEF ReadImage, ReaderReads
  <2> QED
    BY <1>5, <2>2
<1>11. CASE ReaderSemPost(p)
  <2>1. /\ reader[p] = "copy" /\ reader'[p] = "use"
        /\ copied[p] = snapshot[p].count
        /\ UNCHANGED <<clean, snapshot>>
    BY <1>1, <1>11 DEF ReaderSemPost, TypeOK, ReaderTypeOK
  <2>2. CASE clean[p]
    <3>1. /\ snapshot[p].timestamp = timestamp /\ snapshot[p].count = count
          /\ \A i \in 1..count : snapshot[p].plane_data[i] = plane_data[i]
      BY <1>1, <2>1, <2>2 DEF CleanReader
    <3>2. Image(snapshot[p].timestamp, snapshot[p].count, snapshot[p].plane_data)
              = Image(timestamp, count, plane_data)
      BY <3>1 DEF Image
    <3>3. ReadImage(p)' = ReadImage(p)
      BY <2>1, <2>2, <3>2 DEF ReadImage, ReaderReads
    <3> QED
      BY <1>5, <3>3
  <2>3. CASE ~clean[p]
    BY <1>5, <2>1, <2>3 DEF ReadImage
  <2> QED
    BY <2>2, <2>3
<1>12. CASE ReaderStop(p) \/ Use(p)
  <2>1. reader'[p] = "stopped" \/ ~clean'[p]
    BY <1>1, <1>12 DEF ReaderStop, Use, TypeOK, ReaderTypeOK
  <2>2. ReadImage(p)' = NoImage
    BY <2>1 DEF ReadImage, ReaderReads
  <2> QED
    BY <1>6, <2>2
<1> QED
  BY <1>8, <1>9, <1>10, <1>11, <1>12 DEF ReaderStep

(* The shared object implements the atomic register, for any number of     *)
(* readers, entries and writes, and however often the Radar is killed and  *)
(* started again.                                                          *)
THEOREM ReadsAreAtomicCorrect == Spec => ReadsAreAtomic
<1>1. Init => Register!Init
  <2> SUFFICES ASSUME Init
               PROVE  Register!Init
    OBVIOUS
  <2>1. LatestNumber = 0 /\ LatestImage = NoImage
    BY DEF Init, LatestNumber, LatestImage, RadarWrites
  <2>2. \A r \in Readers : ReadImage(r) = NoImage
    BY DEF Init, ReadImage
  <2> QED
    BY <2>1, <2>2, NoImageIsNothing DEF Register!Init, Register!AllDropped
<1>2. ASSUME IInv, IInv', [Next]_vars
      PROVE  [Register!Next]_(Register!vars)
  <2>1. CASE ATCStep
    BY <1>2, <2>1, ATCRegister
  <2>2. CASE \E p \in Readers : ReaderStep(p)
    BY <1>2, <2>2, ReaderRegister
  <2>3. CASE UNCHANGED vars
    BY <2>3, RegisterStutters DEF LatestNumber, LatestImage, ReadImage
  <2> QED
    BY <1>2, <2>1, <2>2, <2>3 DEF Next, ATCStep
<1> QED
  BY <1>1, <1>2, InductiveInvariant, PTL DEF Spec, ReadsAreAtomic, Register!Spec

=============================================================================
