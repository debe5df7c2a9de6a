------------------------------ MODULE Journal ------------------------------
(***************************************************************************)
(* The change journal: ProcessJrnl, and the two goroutines it starts for   *)
(* each $UsnJrnl (disk/disk.go, FS/NTFS/usnjrnl, MFT.LocateDataAsync).     *)
(*                                                                         *)
(* A fragment is what one run reads, by cells: [len, name, usn], the length*)
(* and the end of the name a record parsed from there on would have, and   *)
(* the record that really begins there, 0 for none.                        *)
(***************************************************************************)
EXTENDS Evidence

CONSTANTS SectorCells, Header  \* cells of a sector; cells without which Parse fails

ASSUME JournalAssumption == SectorCells \in Nat \ {0} /\ Header \in Nat \ {0}

VARIABLES
  call,    \* of ProcessJrnl: partitions left, the one taken, the journals left of it
  worker,  \* AsyncWorker: what it has not sent yet
  data,    \* the channel dataClusters
  parser,  \* AsyncProcess: the fragment, and where in it
  got      \* usnrecords, with main at the other end of recordsCH

journalVars == <<call, worker, data, parser, got>>

NoCall  == [todo |-> {}, num |-> -1, part |-> 0, queue |-> <<>>]
Idle    == [pc |-> "idle", frags |-> <<>>]
NoParse == [pc |-> "idle", frag |-> <<>>, at |-> 0]

JournalInit == call = NoCall /\ worker = Idle /\ data = <<>> /\ parser = NoParse /\ got = <<>>

Call(num) ==
  /\ call' = [NoCall EXCEPT !.todo = Loaded, !.num = num]
  /\ got' = <<>>
  /\ UNCHANGED <<worker, data, parser>>

Returned == call.todo = {} /\ call.queue = <<>> /\ worker = Idle /\ parser = NoParse

-----------------------------------------------------------------------------
(* What is read *)

\* The runs of an extent up to one that begins past the disk, without the holes; a
\* fragment that cannot be read is empty.
FragmentsOf(runs, offset, spc) ==
  LET at[n \in 0 .. Len(runs)] == IF n = 0 THEN offset ELSE at[n - 1] + runs[n].rel * spc
      past == {n \in DOMAIN runs : at[n] > job.size}
      read == IF past = {} THEN runs ELSE SubSeq(runs, 1, Min(past) - 1)
      real == Keep(read, {r \in Run : r.rel # 0})
  IN [n \in DOMAIN real |-> real[n].frag]

\* Everything AsyncWorker sends: the extents are of the record, or of its linked records.
Fragments(p, r) ==
  IF r.folder THEN <<>>
  ELSE FlattenSeq([n \in DOMAIN r.extents |->
                     FragmentsOf(r.extents[n], job.parts[p].offset, job.parts[p].spc)])

Journals(p) == Keep(job.parts[p].records, {r \in ToSet(job.parts[p].records) : r.name = "$UsnJrnl"})

-----------------------------------------------------------------------------
(* What is found in it *)

Fails(frag, q) ==
  LET rest == Len(frag) - q + 1
  IN rest < Header \/ (frag[q].len # 0 /\ frag[q].name >= rest)

Fits(frag, q, cluster) == frag[q].len \in 1 .. cluster - ((q - 1) % cluster)

\* Mutation: what does not fit ends the fragment too.
MutNextRecord(frag, from, cluster) ==
  IF from > Len(frag) \/ Fails(frag, from) \/ ~Fits(frag, from, cluster) THEN 0 ELSE from

\* The position of the next record, or 0: what does not fit is passed by cell by
\* cell, what Parse cannot take ends the fragment.
NextRecord(frag, from, cluster) ==
  LET stops == {q \in from .. Len(frag) : Fails(frag, q) \/ Fits(frag, q, cluster)}
  IN IF stops = {} \/ Fails(frag, Min(stops)) THEN 0 ELSE Min(stops)

ClusterCells(p) == job.parts[p].spc * SectorCells

-----------------------------------------------------------------------------
(* The goroutines *)

NextPartition(p) ==
  /\ p \in call.todo /\ call.queue = <<>>
  /\ IF Wanted(p, call.num) /\ p \notin DOMAIN Partitions
     THEN phase' = "panic" /\ UNCHANGED call
     ELSE /\ call' = [call EXCEPT !.todo = @ \ {p}, !.part = p,
                                  !.queue = IF Wanted(p, call.num) THEN Journals(p) ELSE <<>>]
          /\ UNCHANGED phase
  /\ UNCHANGED <<job, worker, data, parser, got>>

StartJournal ==
  /\ call.queue # <<>> /\ worker = Idle /\ parser = NoParse
  /\ worker' = [pc |-> "send", frags |-> Fragments(call.part, Head(call.queue))]
  /\ parser' = [NoParse EXCEPT !.pc = "range"]
  /\ UNCHANGED <<job, phase, call, data, got>>

\* Mutation: the channel is not bounded.
MutSend ==
  /\ worker.pc = "send" /\ worker.frags # <<>>
  /\ data' = Append(data, Head(worker.frags))
  /\ worker' = [worker EXCEPT !.frags = Tail(@)]
  /\ UNCHANGED <<job, phase, call, parser, got>>

\* The channel holds as many fragments as the record has bytes.
Send ==
  /\ worker.pc = "send" /\ worker.frags # <<>>
  /\ \/ Len(data) < Head(call.queue).lsize
     \/ parser.pc = "range" /\ data = <<>>
  /\ data' = Append(data, Head(worker.frags))
  /\ worker' = [worker EXCEPT !.frags = Tail(@)]
  /\ UNCHANGED <<job, phase, call, parser, got>>

CloseData ==
  /\ worker.pc = "send" /\ worker.frags = <<>>
  /\ worker' = [worker EXCEPT !.pc = "closed"]
  /\ UNCHANGED <<job, phase, call, data, parser, got>>

Take ==
  /\ parser.pc = "range" /\ data # <<>>
  /\ parser' = [pc |-> "scan", frag |-> Head(data), at |-> 1]
  /\ data' = Tail(data)
  /\ UNCHANGED <<job, phase, call, worker, got>>

\* Main waits for nothing else, so that a record that is found is delivered.
Scan ==
  /\ parser.pc = "scan"
  /\ LET q == NextRecord(parser.frag, parser.at, ClusterCells(call.part))
     IN IF q = 0 THEN parser' = [NoParse EXCEPT !.pc = "range"] /\ UNCHANGED got
        ELSE /\ parser' = [parser EXCEPT !.at = q + parser.frag[q].len]
             /\ got' = Append(got, parser.frag[q].usn)
  /\ UNCHANGED <<job, phase, call, worker, data>>

\* recordsCH is closed, and both goroutines are done.
JournalDone ==
  /\ parser.pc = "range" /\ data = <<>> /\ worker.pc = "closed"
  /\ call' = [call EXCEPT !.queue = Tail(@)]
  /\ worker' = Idle /\ parser' = NoParse
  /\ UNCHANGED <<job, phase, data, got>>

ProcessJrnl ==
  \/ \E p \in call.todo : NextPartition(p)
  \/ StartJournal \/ Send \/ CloseData \/ Take \/ Scan \/ JournalDone

-----------------------------------------------------------------------------
(* Correctness *)

JournalTypeOK ==
  /\ call.todo \subseteq Loaded /\ call.part \in {0} \cup Loaded
  /\ worker.pc \in {"idle", "send", "closed"} /\ parser.pc \in {"idle", "range", "scan"}
  /\ call.queue # <<>> => Len(data) <= Max({1, Head(call.queue).lsize})
  /\ parser.pc = "idle" => worker = Idle /\ data = <<>>

\* The cells of the records that begin in a fragment.
Inside(frag) == UNION {q .. q + frag[q].len - 1 : q \in {k \in DOMAIN frag : frag[k].usn # 0}}

\* A fragment of a journal: records in one piece, and between them nothing that
\* could be taken for a record.
WellFormed(frag, cluster) ==
  \A q \in DOMAIN frag :
    /\ frag[q].usn # 0 =>
         /\ Fits(frag, q, cluster) /\ frag[q].name <= frag[q].len /\ Header <= frag[q].len
         /\ q + frag[q].len - 1 \in DOMAIN frag
         /\ \A k \in q + 1 .. q + frag[q].len - 1 : frag[k].usn = 0
    /\ q \notin Inside(frag) => ~Fits(frag, q, cluster)

\* The records from a cell on, up to where Parse fails between them, or at the last one
\* if its name reaches the end of the fragment.
Tried(frag, from) == {q \in DOMAIN frag : q >= from /\ (frag[q].usn # 0 \/ q \notin Inside(frag))}
FoundFrom(frag, from) ==
  {q \in Tried(frag, from) : frag[q].usn # 0 /\ \A k \in Tried(frag, from) : k <= q => ~Fails(frag, k)}
RecordsFrom(frag, from) ==
  LET order == Keep([q \in DOMAIN frag |-> q], FoundFrom(frag, from))
  IN [n \in DOMAIN order |-> frag[order[n]].usn]

\* All fragments are those of a journal.
Formed ==
  \A p \in Loaded : \A n \in DOMAIN Journals(p) :
    \A f \in ToSet(Fragments(p, Journals(p)[n])) : WellFormed(f, ClusterCells(p))

\* What a call must find in a journal, in a partition, and in all of them, one after the
\* other.
RecordsIn(p, r) ==
  LET frags == Fragments(p, r)
  IN FlattenSeq([k \in DOMAIN frags |-> RecordsFrom(frags[k], 1)])

RecordsOf(p) == FlattenSeq([n \in DOMAIN Journals(p) |-> RecordsIn(p, Journals(p)[n])])

Found(records, num) ==
  \E order \in SetToSeqs({p \in Loaded : Wanted(p, num)}) :
    records = FlattenSeq([n \in DOMAIN order |-> RecordsOf(order[n])])
===============================================================================
