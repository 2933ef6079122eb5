---------------------------- MODULE DropReading ----------------------------
(***************************************************************************)
(* The read path of one DROP (src/dfms/drop.py): open, read and close by   *)
(* concurrent reader threads, and the reference count that counts the     *)
(* open descriptors under _refLock.  Writer threads write the DROP and     *)
(* then complete it; other threads may complete it too, and a write that  *)
(* passed its status check before the completion sets the status back to  *)
(* WRITING after it (write, lines 337 and 378).  The readers' status      *)
(* checks race with all of them.                                           *)
(*                                                                         *)
(* `self._refCount += 1` under the lock is a read and a write of the      *)
(* counter, two steps; the lock keeps other threads out between them.     *)
(* Descriptors are random 64-bit integers drawn until unused; each reader  *)
(* is given a fresh one, named by the reader itself.                      *)
(*                                                                         *)
(* The size, checksum and checksum type are computed by write(), or set    *)
(* once by the user (the setters) when the data was written elsewhere and  *)
(* the DROP is COMPLETED.  A checksum is the CRC32 chained over the bytes  *)
(* fed to it, from 0 or from a value the user set: <<start, bytes>>.       *)
(***************************************************************************)
EXTENDS Integers, FiniteSets

CONSTANTS
    Readers,    \* threads that open, read and close the DROP
    Writers,    \* threads that write() the DROP, then setCompleted() it
    Completers, \* other threads that call setCompleted() on it
    MaxReads,   \* bound: read() calls per reader
    NoThread,   \* the lock is free
    Setters,    \* user threads that set one metadata attribute of the DROP
    SetterAttr, \* [Setters -> {"size", "checksum", "checksumType"}]
    ChunkLen,   \* bytes a writer's write() passes and stores
    UserSize, UserChecksum, UserChecksumType, \* the values the setters set
    NoValue     \* None

VARIABLES
    status,     \* AbstractDROP._status
    wpc,        \* where each writer or completer is
    refCount,   \* AbstractDROP._refCount
    refLock,    \* holder of AbstractDROP._refLock
    rios,       \* AbstractDROP._rios: the open descriptors
    pc,         \* where each reader is
    local,      \* the counter value a reader read under the lock
    reads,      \* read() calls made per reader
    size,       \* AbstractDROP._size
    checksum,   \* AbstractDROP._checksum
    checksumType, \* AbstractDROP._checksumType
    spc         \* where each setter is

vars == <<status, wpc, refCount, refLock, rios, pc, local, reads, size, checksum, checksumType, spc>>
readerVars == <<refCount, refLock, rios, pc, local, reads>>
metaVars == <<size, checksum, checksumType, spc>>

Pcs == {"open", "incr", "incrWrite", "read", "close", "decr", "decrWrite",
        "pop", "done", "failed"}

-----------------------------------------------------------------------------

\* write(): `if self.status not in [INITIALIZED, WRITING]: raise`.
WriteCheck(w) ==
    /\ wpc[w] = "write"
    /\ wpc' = [wpc EXCEPT ![w] = IF status \in {"INITIALIZED", "WRITING"}
                                 THEN "writeIO" ELSE "done"]
    /\ UNCHANGED status /\ UNCHANGED readerVars /\ UNCHANGED metaVars

(* _updateChecksum(chunk): start from 0, recording the type, if no        *)
(* checksum is set, then chain the CRC32 over the chunk.                   *)
UpdateChecksum(n) ==
    /\ checksum' = IF checksum = NoValue THEN <<0, n>>
                   ELSE <<checksum[1], checksum[2] + n>>
    /\ checksumType' = IF checksum = NoValue THEN "crc32" ELSE checksumType

\* write(): `self._size += nbytes` (from 0 if None), then the checksum.
WriteIO(w) ==
    /\ wpc[w] = "writeIO"
    /\ size' = IF size = NoValue THEN ChunkLen ELSE size + ChunkLen
    /\ UpdateChecksum(ChunkLen)
    /\ wpc' = [wpc EXCEPT ![w] = "writeStatus"]
    /\ UNCHANGED <<status, spc>> /\ UNCHANGED readerVars

\* write(): after the I/O, `self.status = DROPStates.WRITING`.
WriteStatus(w) ==
    /\ wpc[w] = "writeStatus"
    /\ status' = "WRITING"
    /\ wpc' = [wpc EXCEPT ![w] = "complete"]
    /\ UNCHANGED readerVars /\ UNCHANGED metaVars

\* setCompleted(): raise unless INITIALIZED or WRITING, else COMPLETED.
SetCompleted(w) ==
    /\ wpc[w] = "complete"
    /\ status' = IF status \in {"INITIALIZED", "WRITING"} THEN "COMPLETED" ELSE status
    /\ wpc' = [wpc EXCEPT ![w] = "done"]
    /\ UNCHANGED readerVars /\ UNCHANGED metaVars

(* A setter: `if self._x is not None: raise`, a read of _x with no lock   *)
(* held; `if self.status in [INITIALIZED, WRITING]: raise`, a second read, *)
(* of the status; then `self._x = value`.  Other threads run between the   *)
(* three steps.                                                            *)
SetterCheckValue(s, current) ==
    /\ spc[s] = "check"
    /\ spc' = [spc EXCEPT ![s] = IF current # NoValue THEN "done" ELSE "checkStatus"]
    /\ UNCHANGED <<size, checksum, checksumType>>

SetterCheckStatus(s) ==
    /\ spc[s] = "checkStatus"
    /\ spc' = [spc EXCEPT ![s] = IF status \in {"INITIALIZED", "WRITING"}
                                 THEN "done" ELSE "set"]
    /\ UNCHANGED <<size, checksum, checksumType>>

SetterSet(s) == spc[s] = "set" /\ spc' = [spc EXCEPT ![s] = "done"]

\* The size setter.
SizeSetter(s) ==
    /\ SetterAttr[s] = "size"
    /\ \/ SetterCheckValue(s, size)
       \/ SetterCheckStatus(s)
       \/ SetterSet(s) /\ size' = UserSize /\ UNCHANGED <<checksum, checksumType>>
    /\ UNCHANGED <<status, wpc>> /\ UNCHANGED readerVars

\* The checksum setter.
ChecksumSetter(s) ==
    /\ SetterAttr[s] = "checksum"
    /\ \/ SetterCheckValue(s, checksum)
       \/ SetterCheckStatus(s)
       \/ SetterSet(s) /\ checksum' = <<UserChecksum, 0>> /\ UNCHANGED <<size, checksumType>>
    /\ UNCHANGED <<status, wpc>> /\ UNCHANGED readerVars

\* The checksumType setter.
ChecksumTypeSetter(s) ==
    /\ SetterAttr[s] = "checksumType"
    /\ \/ SetterCheckValue(s, checksumType)
       \/ SetterCheckStatus(s)
       \/ SetterSet(s) /\ checksumType' = UserChecksumType /\ UNCHANGED <<size, checksum>>
    /\ UNCHANGED <<status, wpc>> /\ UNCHANGED readerVars

(* open(): raise unless COMPLETED; open the I/O, store it under a fresh   *)
(* descriptor, then count the reference.                                   *)
Open(t) ==
    /\ pc[t] = "open"
    /\ \/ status # "COMPLETED" /\ pc' = [pc EXCEPT ![t] = "failed"]
                              /\ UNCHANGED rios
       \/ status = "COMPLETED" /\ rios' = rios \cup {t}
                              /\ pc' = [pc EXCEPT ![t] = "incr"]
    /\ UNCHANGED <<status, wpc, refCount, refLock, local, reads>> /\ UNCHANGED metaVars

\* Variant: the counter is read without taking _refLock.
LockedReadNoLock(t, from, to) ==
    /\ pc[t] = from
    /\ local' = [local EXCEPT ![t] = refCount]
    /\ pc' = [pc EXCEPT ![t] = to]
    /\ UNCHANGED <<status, wpc, refCount, refLock, rios, reads>> /\ UNCHANGED metaVars

\* `with self._refLock:` then read self._refCount.
LockedRead(t, from, to) ==
    /\ pc[t] = from
    /\ refLock = NoThread
    /\ refLock' = t
    /\ local' = [local EXCEPT ![t] = refCount]
    /\ pc' = [pc EXCEPT ![t] = to]
    /\ UNCHANGED <<status, wpc, refCount, rios, reads>> /\ UNCHANGED metaVars

\* Write the new count back and leave the lock.
LockedWrite(t, from, delta, to) ==
    /\ pc[t] = from
    /\ refCount' = local[t] + delta
    /\ refLock' = NoThread
    /\ pc' = [pc EXCEPT ![t] = to]
    /\ UNCHANGED <<status, wpc, rios, local, reads>> /\ UNCHANGED metaVars

IncrRefCount(t) == LockedRead(t, "incr", "incrWrite") \/ LockedWrite(t, "incrWrite", 1, "read")

(* read(descriptor): _checkStateAndDescriptor, then read from the I/O; or  *)
(* the reader stops reading and closes, also after a refused read (as in a *)
(* `finally`).                                                             *)
Read(t) ==
    /\ pc[t] = "read"
    /\ \/ /\ reads[t] < MaxReads
          /\ status = "COMPLETED" /\ t \in rios
          /\ reads' = [reads EXCEPT ![t] = @ + 1]
          /\ UNCHANGED pc
       \/ pc' = [pc EXCEPT ![t] = "close"] /\ UNCHANGED reads
    /\ UNCHANGED <<status, wpc, refCount, refLock, rios, local>> /\ UNCHANGED metaVars

\* Variant: close() forgets to decrement the count.
CloseCheckNoDecr(t) ==
    /\ pc[t] = "close"
    /\ t \in rios
    /\ pc' = [pc EXCEPT ![t] = IF status = "COMPLETED" THEN "pop" ELSE "failed"]
    /\ UNCHANGED <<status, wpc, refCount, refLock, rios, local, reads>> /\ UNCHANGED metaVars

(* close(descriptor): _checkStateAndDescriptor; unless the DROP is        *)
(* COMPLETED it raises, and the descriptor stays open and counted.         *)
CloseCheck(t) ==
    /\ pc[t] = "close"
    /\ t \in rios
    /\ pc' = [pc EXCEPT ![t] = IF status = "COMPLETED" THEN "decr" ELSE "failed"]
    /\ UNCHANGED <<status, wpc, refCount, refLock, rios, local, reads>> /\ UNCHANGED metaVars

DecrRefCount(t) == LockedRead(t, "decr", "decrWrite") \/ LockedWrite(t, "decrWrite", -1, "pop")

\* `io = self._rios.pop(descriptor)` and io.close().
ClosePop(t) ==
    /\ pc[t] = "pop"
    /\ rios' = rios \ {t}
    /\ pc' = [pc EXCEPT ![t] = "done"]
    /\ UNCHANGED <<status, wpc, refCount, refLock, local, reads>> /\ UNCHANGED metaVars

-----------------------------------------------------------------------------

Init ==
    /\ status = "INITIALIZED"
    \* a writer writes through the DROP, or only completes it when its data
    \* was written elsewhere
    /\ wpc \in {f \in [Writers \cup Completers -> {"write", "complete"}] :
                 \A c \in Completers : f[c] = "complete"}
    /\ refCount = 0
    /\ refLock = NoThread
    /\ rios = {}
    /\ pc = [t \in Readers |-> "open"]
    /\ local = [t \in Readers |-> 0]
    /\ reads = [t \in Readers |-> 0]
    /\ size = NoValue /\ checksum = NoValue /\ checksumType = NoValue
    /\ spc = [s \in Setters |-> "check"]

\* Every reader has returned or failed: nothing is left to do.
Terminated == /\ \A t \in Readers : pc[t] \in {"done", "failed"}
              /\ \A w \in Writers \cup Completers : wpc[w] = "done"
              /\ \A s \in Setters : spc[s] = "done"

Next ==
    \/ \E w \in Writers : WriteCheck(w)
    \/ \E w \in Writers : WriteIO(w)
    \/ \E w \in Writers : WriteStatus(w)
    \/ \E w \in Writers \cup Completers : SetCompleted(w)
    \/ \E t \in Readers : Open(t)
    \/ \E t \in Readers : IncrRefCount(t)
    \/ \E t \in Readers : Read(t)
    \/ \E t \in Readers : CloseCheck(t)
    \/ \E t \in Readers : DecrRefCount(t)
    \/ \E t \in Readers : ClosePop(t)
    \/ \E s \in Setters : SizeSetter(s)
    \/ \E s \in Setters : ChecksumSetter(s)
    \/ \E s \in Setters : ChecksumTypeSetter(s)
    \/ Terminated /\ UNCHANGED vars

\* A reader that opened the DROP runs to its close (open's docstring: the
\* matching close() must eventually be invoked).
ReaderStep(t) == IncrRefCount(t) \/ Read(t) \/ CloseCheck(t) \/ DecrRefCount(t) \/ ClosePop(t)

WriterStep(w) == WriteCheck(w) \/ WriteIO(w) \/ WriteStatus(w) \/ SetCompleted(w)

SetterStep(s) == SizeSetter(s) \/ ChecksumSetter(s) \/ ChecksumTypeSetter(s)

\* Library code keeps running on every thread.
Spec == /\ Init /\ [][Next]_vars
        /\ \A t \in Readers : WF_vars(ReaderStep(t))
        /\ \A w \in Writers \cup Completers : WF_vars(WriterStep(w))
        /\ \A s \in Setters : WF_vars(SetterStep(s))

-----------------------------------------------------------------------------
(* Properties                                                              *)

\* The count stays within 0 and the number of readers.
TypeOK ==
    /\ status \in {"INITIALIZED", "WRITING", "COMPLETED"}
    /\ wpc \in [Writers \cup Completers -> {"write", "writeIO", "writeStatus", "complete", "done"}]
    /\ refCount \in 0..Cardinality(Readers)
    /\ refLock \in Readers \cup {NoThread}
    /\ rios \subseteq Readers
    /\ pc \in [Readers -> Pcs]
    /\ local \in [Readers -> Int]
    /\ reads \in [Readers -> 0..MaxReads]
    /\ size \in Nat \cup {NoValue}
    /\ checksum \in ({0, UserChecksum} \X Nat) \cup {NoValue}
    /\ checksumType \in {"crc32", UserChecksumType, NoValue}
    /\ spc \in [Setters -> {"check", "checkStatus", "set", "done"}]

\* The readers whose reference is counted: from the write of open's
\* increment to the write of close's decrement.
Counted == {t \in Readers : pc[t] \in {"read", "close", "decr", "decrWrite"}}

\* The reference count is exactly the number of readers between open and
\* close, however their increments and decrements interleave, so
\* isBeingRead() is true while anyone reads.
CountsOpenReaders == refCount = Cardinality(Counted)

\* Once the readers that opened the DROP have closed it, the count is back
\* at 0 for good and the DROP may expire (open's docstring: a reader that
\* does not close keeps the DROP from expiring).
CountReturnsToZero == <>[](refCount = 0)

(* Size, checksum and checksum type are final once the DROP is COMPLETED:  *)
(* the setters refuse to overwrite a value ("already calculated, cannot    *)
(* overwrite") and write() refuses a COMPLETED DROP, so a value read from  *)
(* a COMPLETED DROP stays the value of its data.                           *)
MetadataFixedOnceCompleted ==
    [][status = "COMPLETED" =>
         /\ size # NoValue => size' = size
         /\ checksum # NoValue => checksum' = checksum
         /\ checksumType # NoValue => checksumType' = checksumType
      ]_<<status, size, checksum, checksumType>>

=============================================================================
