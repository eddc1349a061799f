------------------------------ MODULE DiskLog ------------------------------
(***************************************************************************)
(* DiskLogManager (wackdb_wal, lib.rs): the write-ahead log, a buffer of   *)
(* records in memory and a file they are appended to.                      *)
(*                                                                         *)
(* The LSN counters are atomics read and advanced outside of the locks;    *)
(* buffer and file have a lock each.  append_record takes its LSN before   *)
(* it locks the buffer, and flush_up_to compares with flushed_lsn before   *)
(* it locks anything, so both have two steps between which other threads   *)
(* run.  LSNs start at 1 in every process; a record is known here by its   *)
(* position in the order in which LSNs were given out since the creation   *)
(* of the database (id).  Its payload is not modelled.                     *)
(***************************************************************************)
EXTENDS Integers, Sequences, FiniteSets, SequencesExt, Subsequences

CONSTANTS
    Threads,
    MaxRecords,                 \* bound: records ever appended
    MaxTruncations,             \* bound: checkpoints
    MaxCrashes,                 \* bound: restarts
    Faults                      \* subset of {"write", "tear"}

ASSUME LogAssumption ==
    /\ MaxRecords \in Nat \ {0}
    /\ MaxTruncations \in Nat
    /\ MaxCrashes \in Nat
    /\ Faults \subseteq {"write", "tear"}

VARIABLES
    serial,                     \* one caller at a time, as in wackdb_cli?
    next_lsn, flushed_lsn,      \* the atomics
    log_buffer,                 \* records in memory, in order of arrival
    file,                       \* records in the file, Torn for part of one
    pc,                         \* thread -> step of its call
    rec,                        \* thread -> the record it appends
    upto,                       \* thread -> the LSN it flushes up to
    seen,                       \* thread -> flushed_lsn as it read it
    ids,                        \* records so far
    truncations, crashes,       \* checkpoints and restarts so far
    \* history
    acked,                      \* records of this process, append returned
    owed,                       \* thread -> records its flush answers for
    truncated,                  \* records checkpoints removed from the file
    refused                     \* records a flush reported an error for

fileVars == <<log_buffer, file>>
lsnVars == <<next_lsn, flushed_lsn>>
callVars == <<pc, rec, upto, seen, owed>>
countVars == <<serial, ids, truncations, crashes>>
vars == <<fileVars, lsnVars, callVars, countVars, acked, truncated, refused>>

Record == [lsn : 1 .. MaxRecords, id : 1 .. MaxRecords]
Torn == [lsn |-> 0, id |-> 0]
NoRecord == Torn                \* a thread that appends nothing
Lsns == 0 .. MaxRecords         \* MaxRecords serves as u64::MAX as well

TypeOK ==
    /\ serial \in BOOLEAN
    /\ next_lsn \in 1 .. MaxRecords + 1
    /\ flushed_lsn \in Lsns
    /\ log_buffer \in Seq(Record)
    /\ file \in Seq(Record \union {Torn})
    /\ pc \in [Threads -> {"idle", "append", "flush"}]
    /\ rec \in [Threads -> Record \union {NoRecord}]
    /\ upto \in [Threads -> Lsns]
    /\ seen \in [Threads -> Lsns]
    /\ ids \in 0 .. MaxRecords
    /\ truncations \in 0 .. MaxTruncations
    /\ crashes \in 0 .. MaxCrashes
    /\ acked \subseteq Record
    /\ owed \in [Threads -> SUBSET Record]
    /\ truncated \subseteq Record
    /\ refused \subseteq Record

Init ==
    /\ serial \in BOOLEAN
    /\ next_lsn = 1
    /\ flushed_lsn = 0
    /\ log_buffer = <<>>
    /\ file = <<>>
    /\ pc = [t \in Threads |-> "idle"]
    /\ rec = [t \in Threads |-> NoRecord]
    /\ upto = [t \in Threads |-> 0]
    /\ seen = [t \in Threads |-> 0]
    /\ ids = 0
    /\ truncations = 0
    /\ crashes = 0
    /\ acked = {}
    /\ owed = [t \in Threads |-> {}]
    /\ truncated = {}
    /\ refused = {}

-----------------------------------------------------------------------------

(* The caller may enter: with an outer lock, only when nobody is inside. *)
Enters(t) ==
    /\ pc[t] = "idle"
    /\ serial => \A u \in Threads : pc[u] = "idle"

Call(t, step, r, l, s, o) ==
    /\ pc' = [pc EXCEPT ![t] = step]
    /\ rec' = [rec EXCEPT ![t] = r]
    /\ upto' = [upto EXCEPT ![t] = l]
    /\ seen' = [seen EXCEPT ![t] = s]
    /\ owed' = [owed EXCEPT ![t] = o]

Return(t) == Call(t, "idle", NoRecord, 0, 0, {})

(* append_record: the LSN first ... *)
AppendBegin(t) ==
    /\ Enters(t)
    /\ ids < MaxRecords
    /\ ids' = ids + 1
    /\ next_lsn' = next_lsn + 1
    /\ Call(t, "append", [lsn |-> next_lsn, id |-> ids + 1], 0, 0, {})
    /\ UNCHANGED <<serial, flushed_lsn, fileVars, truncations, crashes, acked, truncated, refused>>

(* ... and the buffer under its lock. *)
AppendPush(t) ==
    /\ pc[t] = "append"
    /\ log_buffer' = Append(log_buffer, rec[t])
    /\ acked' = acked \union {rec[t]}
    /\ Return(t)
    /\ UNCHANGED <<lsnVars, file, countVars, truncated, refused>>

UpTo(records, lsn) == { r \in records : r.lsn <= lsn }

(* flush_up_to reads flushed_lsn before it locks.  When it is far enough   *)
(* the call returns Ok, otherwise it goes on with the value it read.       *)
FlushSkip(t, lsn) ==
    /\ Enters(t)
    /\ lsn <= flushed_lsn
    /\ UNCHANGED vars

FlushBegin(t, lsn) ==
    /\ Enters(t)
    /\ lsn > flushed_lsn
    /\ Call(t, "flush", NoRecord, lsn, flushed_lsn, UpTo(acked, lsn))
    /\ UNCHANGED <<lsnVars, fileVars, countVars, acked, truncated, refused>>

(* The records the loop takes out of the buffer.                           *)
Due(t) == { i \in DOMAIN log_buffer : log_buffer[i].lsn <= upto[t] }

(* Mutants: lsn itself is left out; the buffer is emptied; it is not. *)
DrainedBelow(t) == Picked(log_buffer, { i \in Due(t) : log_buffer[i].lsn < upto[t] })
RetainedNone(t) == <<>>
RetainedAll(t) == log_buffer

Drained(t) == Picked(log_buffer, Due(t))
Retained(t) == Picked(log_buffer, DOMAIN log_buffer \ Due(t))

(* Mutant: what was asked for counts as flushed. *)
NewFlushedAsAsked(t) == upto[t]

NewFlushed(t) == Max({seen[t]} \union { r.lsn : r \in ToSet(Drained(t)) })

(* Under both locks: drain, write, sync, store the new flushed_lsn, the    *)
(* largest of the value read before the locks and of the LSNs written.     *)
FlushWrite(t) ==
    /\ pc[t] = "flush"
    /\ log_buffer' = Retained(t)
    /\ file' = file \o Drained(t)
    /\ flushed_lsn' = IF Drained(t) = <<>> THEN flushed_lsn
                      ELSE NewFlushed(t)
    /\ Return(t)
    /\ UNCHANGED <<next_lsn, countVars, acked, truncated, refused>>

(* The write stops anywhere, also within a record, or its sync fails.      *)
PartlyWritten(t) ==
    \E n \in 0 .. Len(Drained(t)) :
        \/ file' = file \o SubSeq(Drained(t), 1, n)
        \/ n < Len(Drained(t)) /\ file' = file \o SubSeq(Drained(t), 1, n) \o <<Torn>>

FlushFails(t) ==
    /\ "write" \in Faults
    /\ pc[t] = "flush"
    /\ Drained(t) # <<>>
    /\ log_buffer' = Retained(t)
    /\ PartlyWritten(t)
    /\ refused' = refused \union ToSet(Drained(t))
    /\ Return(t)
    /\ UNCHANGED <<lsnVars, countVars, acked, truncated>>

(* checkpoint: the file is emptied; buffer and counters stay. *)
Checkpoint(t) ==
    /\ Enters(t)
    /\ truncations < MaxTruncations
    /\ truncations' = truncations + 1
    /\ truncated' = truncated \union (ToSet(file) \ {Torn})
    /\ file' = <<>>
    /\ UNCHANGED <<serial, log_buffer, lsnVars, callVars, ids, crashes, acked, refused>>

(* The process dies, maybe while it writes, and DiskLogManager::new opens  *)
(* the file again: new records go behind whatever it ends with.            *)
Crash ==
    /\ crashes < MaxCrashes
    /\ crashes' = crashes + 1
    /\ \/ UNCHANGED file
       \/ "tear" \in Faults /\ \E t \in Threads : pc[t] = "flush" /\ PartlyWritten(t)
    /\ next_lsn' = 1
    /\ flushed_lsn' = 0
    /\ log_buffer' = <<>>
    /\ pc' = [t \in Threads |-> "idle"]
    /\ rec' = [t \in Threads |-> NoRecord]
    /\ upto' = [t \in Threads |-> 0]
    /\ seen' = [t \in Threads |-> 0]
    /\ owed' = [t \in Threads |-> {}]
    /\ acked' = {}
    /\ UNCHANGED <<serial, ids, truncations, truncated, refused>>

(* read_all_logs stops at the first record it cannot read.                 *)
Readable ==
    IF Contains(file, Torn)
    THEN SubSeq(file, 1, SelectInSeq(file, LAMBDA r : r = Torn) - 1)
    ELSE file

Next ==
    \/ \E t \in Threads :
          \/ AppendBegin(t) \/ AppendPush(t)
          \/ \E lsn \in Lsns : FlushSkip(t, lsn) \/ FlushBegin(t, lsn)
          \/ FlushWrite(t) \/ FlushFails(t)
          \/ Checkpoint(t)
    \/ Crash

Spec == Init /\ [][Next]_vars

-----------------------------------------------------------------------------
(* Properties *)

(* What recovery will find, or no longer needs. *)
Safe == ToSet(Readable) \union truncated

(* A torn record hides what follows it, until the next checkpoint.         *)
Whole == ~Contains(file, Torn)

(***************************************************************************)
(* flush_up_to(lsn) that wrote and returns Ok has made durable every       *)
(* record up to lsn whose append had returned before the call: recovery    *)
(* will read it, unless a checkpoint removed it (log_manager.rs, "Forces   *)
(* the log to be flushed to disk up to the given LSN").  Excepted are      *)
(* records that an earlier flush failed with, and a file with a torn one.  *)
(***************************************************************************)
FlushedIsDurable ==
    [][\A t \in Threads :
          serial /\ Whole /\ FlushWrite(t) => owed[t] \subseteq Safe' \union refused]_vars

(***************************************************************************)
(* The short cut of flush_up_to is right: when it returns without taking a *)
(* lock because lsn <= flushed_lsn, every record up to lsn that a caller   *)
(* has appended is durable, with the same exceptions.                      *)
(***************************************************************************)
FlushedLsnIsTrue ==
    serial /\ Whole => UpTo(acked, flushed_lsn) \subseteq Safe \union refused

(***************************************************************************)
(* However appends, flushes, failures and checkpoints of several threads   *)
(* interleave, a record is in one place: none that a caller has appended   *)
(* vanishes between buffer and file unless a flush reported an error with  *)
(* it in hand, none is written twice, none comes back after a checkpoint.  *)
(***************************************************************************)
EveryRecordOnce ==
    LET records == log_buffer \o file IN
    /\ TypeOK
    /\ acked \subseteq ToSet(records) \union truncated \union refused
    /\ \A i, j \in DOMAIN records : records[i] = records[j] /\ i # j => records[i] = Torn
    /\ ToSet(records) \intersect truncated = {}

Log == INSTANCE WriteAheadLog WITH
           pending <- log_buffer, safe <- file

(***************************************************************************)
(* Called by one thread at a time, as wackdb_cli does, the log is a        *)
(* sequence: the file holds a prefix, in the order of the appends, and     *)
(* what is not yet forced follows; only a crash loses records, the last.   *)
(* This is so until a write fails or is torn.                              *)
(***************************************************************************)
ImplementsLog ==
    /\ Log!Init
    /\ [][ serial /\ refused' = {} /\ Whole /\ Whole' => [Log!Next]_(Log!walVars) ]_vars

=============================================================================
