-------------------------------- MODULE Carve --------------------------------
(***************************************************************************)
(* Searching a disk for lost NTFS volumes: CarveMFTRecordsCH and           *)
(* ProcessRecord (disk/volume/ntfs.go), then SearchFileSystemCH            *)
(* (disk/disk.go).  A producer reads the disk in chunks and sends       *)
(* 1024-byte candidates to a pool over a bounded channel; the pool parses the    *)
(* units and sends records over a second bounded channel; a closer waits   *)
(* for the pool; the caller keeps the records named $MFT, reduces them by  *)
(* log sequence number and rebuilds one table from each.                   *)
(*                                                                         *)
(* Positions and lengths are counted in sectors.  A record takes two, and  *)
(* a candidate is sent for every second sector from the start on.          *)
(***************************************************************************)
EXTENDS Integers, Sequences, FiniteSets, SequencesExt

CONSTANTS
  Disks,      \* the disks to search: what a record at each sector parses to
  Starts,     \* the values of -searchoffset, rounded down to a sector
  Chunk,      \* sectors per read (512 MiB in the code)
  ChCap,      \* capacity of ch (100)
  OutCap,     \* capacity of processedRecordsCH (10)
  Workers,    \* 2 * NumCPU goroutines
  MinOffset,  \* partition offsets up to here are rejected (64 KiB)
  Cluster     \* sectors per cluster (8, an "educated guess")

NoRun == -1                                  \* GetRunList("DATA") fails
None  == -1
Unit == [valid : BOOLEAN, mft : BOOLEAN, lsn : Nat, run : Nat \cup {NoRun}]

ASSUME CarveAssumption ==
  /\ Disks \subseteq Seq(Unit)
  /\ Starts \subseteq Nat
  /\ Chunk \in Nat \ {0} /\ Chunk % 2 = 0 /\ ChCap \in Nat \ {0} /\ OutCap \in Nat \ {0}
  /\ MinOffset \in Nat /\ Cluster \in Nat
ASSUME PoolAssumption == Workers # {} /\ IsFiniteSet(Workers)

VARIABLES
  disk, start, keepsTail,  \* keepsTail: a short read returns what there is
  off, pos, end, closed,   \* producer: next chunk, next unit, end of chunk, close(ch)
  ch, wpc, hold,           \* the pool and its input
  out, outClosed,          \* processedRecordsCH
  carved,                  \* ntfs.CarvedRecords, by position
  stage, byLSN, left, parts

inputs == <<disk, start, keepsTail>>
prodVars == <<off, pos, end, closed>>
poolVars == <<wpc, hold>>
searchVars == <<stage, byLSN, left, parts>>
vars == <<inputs, prodVars, ch, poolVars, out, outClosed, carved, searchVars>>

D == Len(disk)
At(p) == disk[p + 1]                         \* positions start at 0

Init ==
  /\ disk \in Disks /\ start \in Starts /\ keepsTail \in BOOLEAN
  /\ off = start /\ pos = start /\ end = start /\ closed = FALSE
  /\ ch = <<>> /\ wpc = [w \in Workers |-> "idle"] /\ hold = [w \in Workers |-> None]
  /\ out = <<>> /\ outClosed = FALSE /\ carved = <<>>
  /\ stage = "carve" /\ byLSN = <<>> /\ left = {} /\ parts = <<>>
-----------------------------------------------------------------------------
(* The producer goroutine.                                                 *)

(* What hD.ReadFile(offset, Chunk_size) returns, as an end position: the   *)
(* raw reader returns nothing when the chunk reaches past the end.         *)
ChunkEnd == IF off + Chunk <= D THEN off + Chunk ELSE IF keepsTail THEN D ELSE off

ReadChunk ==
  /\ pos = end /\ off < D
  /\ pos' = off /\ end' = ChunkEnd /\ off' = off + Chunk
  /\ UNCHANGED <<inputs, closed, ch, poolVars, out, outClosed, carved, searchVars>>

(* Mutation: one more candidate than the channel holds.                   *)
MutSendCandidateFull ==
  /\ pos + 2 <= end /\ Len(ch) <= ChCap
  /\ ch' = Append(ch, pos) /\ pos' = pos + 2
  /\ UNCHANGED <<inputs, off, end, closed, poolVars, out, outClosed, carved, searchVars>>

SendCandidate ==
  /\ pos + 2 <= end /\ Len(ch) < ChCap
  /\ ch' = Append(ch, pos) /\ pos' = pos + 2
  /\ UNCHANGED <<inputs, off, end, closed, poolVars, out, outClosed, carved, searchVars>>

(* data[sectorOffset:sectorOffset+1024] of an odd last sector panics, and  *)
(* the process with it.                                                    *)
SlicePanics ==
  /\ pos + 1 = end
  /\ stage' = "panic"
  /\ UNCHANGED <<inputs, prodVars, ch, poolVars, out, outClosed, carved, byLSN, left, parts>>

(* Mutation: the end of the disk is missed when chunks divide it.         *)
MutCloseCandidatesPast ==
  /\ pos = end /\ off > D /\ ~closed
  /\ closed' = TRUE
  /\ UNCHANGED <<inputs, off, pos, end, ch, poolVars, out, outClosed, carved, searchVars>>

CloseCandidates ==
  /\ pos = end /\ off >= D /\ ~closed
  /\ closed' = TRUE
  /\ UNCHANGED <<inputs, off, pos, end, ch, poolVars, out, outClosed, carved, searchVars>>
-----------------------------------------------------------------------------
(* ProcessRecord, one of the pool.                                         *)

TakeCandidate(w) ==
  /\ wpc[w] = "idle" /\ ch # <<>>
  /\ ch' = Tail(ch)
  /\ IF At(Head(ch)).valid
     THEN wpc' = [wpc EXCEPT ![w] = "send"] /\ hold' = [hold EXCEPT ![w] = Head(ch)]
     ELSE UNCHANGED poolVars
  /\ UNCHANGED <<inputs, prodVars, out, outClosed, carved, searchVars>>

SendRecord(w) ==
  /\ wpc[w] = "send" /\ Len(out) < OutCap
  /\ out' = Append(out, hold[w])
  /\ wpc' = [wpc EXCEPT ![w] = "idle"] /\ hold' = [hold EXCEPT ![w] = None]
  /\ UNCHANGED <<inputs, prodVars, ch, outClosed, carved, searchVars>>

(* Mutation: a worker leaves when the channel closes.                     *)
MutWorkerDoneEarly(w) ==
  /\ wpc[w] = "idle" /\ closed
  /\ wpc' = [wpc EXCEPT ![w] = "done"]
  /\ UNCHANGED <<inputs, prodVars, ch, hold, out, outClosed, carved, searchVars>>

(* The range over ch ends when it is closed and drained.                   *)
WorkerDone(w) ==
  /\ wpc[w] = "idle" /\ closed /\ ch = <<>>
  /\ wpc' = [wpc EXCEPT ![w] = "done"]
  /\ UNCHANGED <<inputs, prodVars, ch, hold, out, outClosed, carved, searchVars>>

(* Mutation: the first worker to end closes the channel.                  *)
MutCloseRecordsFirst ==
  /\ \E w \in Workers : wpc[w] = "done"
  /\ ~outClosed /\ outClosed' = TRUE
  /\ UNCHANGED <<inputs, prodVars, ch, poolVars, out, carved, searchVars>>

(* The closer goroutine: wg.Wait, close(processedRecordsCH).               *)
CloseRecords ==
  /\ \A w \in Workers : wpc[w] = "done"
  /\ ~outClosed /\ outClosed' = TRUE
  /\ UNCHANGED <<inputs, prodVars, ch, poolVars, out, carved, searchVars>>
-----------------------------------------------------------------------------
(* The caller.                                                             *)

Collect ==
  /\ out # <<>>
  /\ out' = Tail(out)
  /\ carved' = IF At(Head(out)).mft THEN Append(carved, Head(out)) ELSE carved
  /\ UNCHANGED <<inputs, prodVars, ch, poolVars, outClosed, searchVars>>

LSNs == {At(carved[k]).lsn : k \in 1 .. Len(carved)}

(* recordsBYLSN[lsn] = carvedRecord: the last one collected stays.         *)
LastOf(l) == LET ks == {k \in 1 .. Len(carved) : At(carved[k]).lsn = l}
             IN  carved[CHOOSE k \in ks : \A j \in ks : j <= k]

ReduceByLSN ==
  /\ stage = "carve" /\ outClosed /\ out = <<>>
  /\ stage' = "rebuild"
  /\ byLSN' = [l \in LSNs |-> LastOf(l)]
  /\ left' = LSNs
  /\ UNCHANGED <<inputs, prodVars, ch, poolVars, out, outClosed, carved, parts>>

PartitionOffset(p) == p - At(p).run * Cluster

(* The range over the map visits the keys in any order.  A record without  *)
(* a run list breaks the loop, an impossible offset skips the record.      *)
RebuildBreak(l) ==
  /\ stage = "rebuild" /\ l \in left /\ At(byLSN[l]).run = NoRun
  /\ left' = {}
  /\ UNCHANGED <<inputs, prodVars, ch, poolVars, out, outClosed, carved, stage, byLSN, parts>>

(* Mutation: an implausible offset ends the loop.                         *)
MutRebuildSkipBreaks(l) ==
  /\ stage = "rebuild" /\ l \in left /\ At(byLSN[l]).run # NoRun
  /\ PartitionOffset(byLSN[l]) <= MinOffset
  /\ left' = {}
  /\ UNCHANGED <<inputs, prodVars, ch, poolVars, out, outClosed, carved, stage, byLSN, parts>>

RebuildSkip(l) ==
  /\ stage = "rebuild" /\ l \in left /\ At(byLSN[l]).run # NoRun
  /\ PartitionOffset(byLSN[l]) <= MinOffset
  /\ left' = left \ {l}
  /\ UNCHANGED <<inputs, prodVars, ch, poolVars, out, outClosed, carved, stage, byLSN, parts>>

(* Mutation: the bound on the offset is off by one.                       *)
MutRebuildTableAtZero(l) ==
  /\ stage = "rebuild" /\ l \in left /\ At(byLSN[l]).run # NoRun
  /\ PartitionOffset(byLSN[l]) >= MinOffset
  /\ parts' = Append(parts, byLSN[l])
  /\ left' = left \ {l}
  /\ UNCHANGED <<inputs, prodVars, ch, poolVars, out, outClosed, carved, stage, byLSN>>

(* ntfs.Process on the pseudo volume (module MFTTable) cannot fail here:   *)
(* the run list it needs was just read.                                    *)
RebuildTable(l) ==
  /\ stage = "rebuild" /\ l \in left /\ At(byLSN[l]).run # NoRun
  /\ PartitionOffset(byLSN[l]) > MinOffset
  /\ parts' = Append(parts, byLSN[l])
  /\ left' = left \ {l}
  /\ UNCHANGED <<inputs, prodVars, ch, poolVars, out, outClosed, carved, stage, byLSN>>

RebuildDone ==
  /\ stage = "rebuild" /\ left = {}
  /\ stage' = "done"
  /\ UNCHANGED <<inputs, prodVars, ch, poolVars, out, outClosed, carved, byLSN, left, parts>>

Returned == stage \in {"done", "panic"} /\ UNCHANGED vars
-----------------------------------------------------------------------------
Producer == ReadChunk \/ SendCandidate \/ SlicePanics \/ CloseCandidates
ProcessRecord(w) == TakeCandidate(w) \/ SendRecord(w) \/ WorkerDone(w)
Rebuild(l) == RebuildBreak(l) \/ RebuildSkip(l) \/ RebuildTable(l)

Search ==
  \/ Producer
  \/ \E w \in Workers : ProcessRecord(w)
  \/ CloseRecords
  \/ Collect
  \/ ReduceByLSN
  \/ \E l \in left : Rebuild(l)
  \/ RebuildDone

Next == (stage # "panic" /\ Search) \/ Returned

Spec == Init /\ [][Next]_vars

FairSpec == Spec /\ WF_vars(Next)
-----------------------------------------------------------------------------
(* The candidates some read delivers: every second sector from start up to *)
(* the end of the disk, or of its last whole chunk when the reader returns *)
(* nothing for a short read.                                               *)
DeliveredEnd == IF keepsTail \/ start > D THEN D ELSE start + ((D - start) \div Chunk) * Chunk

Delivered == {p \in start .. DeliveredEnd - 2 : (p - start) % 2 = 0}

Targets == {p \in Delivered : At(p).valid /\ At(p).mft}

Abs == INSTANCE CarveAbs WITH targets <- Targets, found <- Range(carved), count <- Len(carved),
                              finished <- (stage \in {"rebuild", "done"})

TypeOK ==
  /\ off \in Nat /\ pos \in Nat /\ end \in Nat /\ pos <= end /\ closed \in BOOLEAN
  /\ ch \in Seq(Nat) /\ Len(ch) <= ChCap
  /\ wpc \in [Workers -> {"idle", "send", "done"}] /\ hold \in [Workers -> Nat \cup {None}]
  /\ out \in Seq(Nat) /\ Len(out) <= OutCap /\ outClosed \in BOOLEAN
  /\ carved \in Seq(Nat) /\ parts \in Seq(Nat)
  /\ stage \in {"carve", "rebuild", "done", "panic"}

(* Neither channel is written after it is closed (a panic in Go): when ch  *)
(* is closed the producer has sent all it read, when the record channel is *)
(* closed no worker still holds a record, and nothing is left in ch.       *)
NoSendAfterClose ==
  /\ closed => pos = end /\ off >= D
  /\ outClosed => closed /\ ch = <<>> /\ \A w \in Workers : wpc[w] = "done" /\ hold[w] = None

(* Carving with the pool and two bounded channels implements the           *)
(* specification of carving: each $MFT record of the delivered units is    *)
(* found exactly once and none is missing when the search goes on.         *)
CarvesEveryTarget == Abs!Spec

(* The search yields at most one table per log sequence number, each from  *)
(* a $MFT record it carved and at a plausible volume offset.               *)
PartsSound ==
  \A j, k \in 1 .. Len(parts) :
    /\ parts[j] \in Targets /\ PartitionOffset(parts[j]) > MinOffset
    /\ j # k => At(parts[j]).lsn # At(parts[k]).lsn

(* Unless some carved $MFT record has no run list (which ends the loop     *)
(* over the rest), every log sequence number whose records all lie at      *)
(* plausible offsets yields a table, whatever the order of the map and of  *)
(* the goroutines.                                                         *)
PartsComplete ==
  stage = "done" /\ (\A p \in Targets : At(p).run # NoRun) =>
    \A p \in Targets :
      (\A q \in Targets : At(q).lsn = At(p).lsn => PartitionOffset(q) > MinOffset)
        => \E k \in 1 .. Len(parts) : At(parts[k]).lsn = At(p).lsn

(* The search ends, or dies on an odd last sector: producer, pool, closer  *)
(* and caller never wait for each other in a circle, however small the     *)
(* channels are.                                                           *)
Termination == <>(stage \in {"done", "panic"})
=============================================================================
