---------------------------- MODULE Unallocated ----------------------------
(***************************************************************************)
(* The unallocated space: CollectUnallocated sends what runs of free       *)
(* clusters hold to ExportUnallocated, that appends it to a file           *)
(* (disk/disk.go, exporter, MFT.GetClustersStatus, attributes.GetContent). *)
(***************************************************************************)
EXTENDS Evidence

ASSUME UnallocatedAssumption ==
  \A j \in Jobs :
    /\ j.old \in Seq(ToSet(j.old)) /\ j.short \in BOOLEAN /\ j.writable \in BOOLEAN
    /\ \A p \in DOMAIN j.parts :
         j.parts[p].volume = "ntfs" =>
           /\ j.size > 0 /\ \A s \in 0 .. j.size - 1 : j.bits[s] \in Seq(BOOLEAN)
           /\ j.parts[p].offset \in Nat /\ j.parts[p].bitmap \in Seq([rel : Int, len : Nat])

VARIABLES
  blocks,  \* CollectUnallocated: the partitions left, the one taken, its blocks left
  held,    \* the block received and not written yet
  file     \* the sectors written, after what was in the file

unallocatedVars == <<blocks, held, file>>

UnallocatedInit ==
  /\ blocks = [todo |-> [p \in DOMAIN Partitions |-> p], part |-> 0, left |-> <<>>]
  /\ held = <<>>
  /\ file = job.old

-----------------------------------------------------------------------------
(* The free clusters *)

\* The raw reader refuses a read that reaches past the disk, the others return what
\* there is.
NoLimit == -1
Limit   == IF job.short THEN NoLimit ELSE job.size
Refused(end, limit) == limit # NoLimit /\ end > limit

SectorsFrom(s, n) == [k \in 1 .. n |-> s + k - 1]
NoSectors(n)      == [k \in 1 .. n |-> -1]    \* zeros

\* flushPending: the runs that wait, side by side, are read at once.
FlushPending(part, limit, c, s) ==
  LET from == part.offset + s.at * c
  IN IF s.failed \/ s.size = 0 THEN s
     ELSE IF s.at < 0 \/ Refused(from + s.size, limit) THEN [s EXCEPT !.failed = TRUE]
     ELSE [s EXCEPT !.data = @ \o SectorsFrom(from, s.size), !.size = 0]

\* One run: a hole is zeros, a run that goes on where those that wait end joins them.
\* An error ends it, and what waits is not read any more.
GetRun(part, limit, c, s, run) ==
  LET to      == s.to + run.rel
      flushed == FlushPending(part, limit, c, s)
  IN IF s.failed \/ (s.begun /\ to < 0) THEN [s EXCEPT !.failed = TRUE]
     ELSE IF run.rel # 0 /\ s.size # 0 /\ to = s.at + s.size \div c
     THEN [s EXCEPT !.size = @ + run.len * c, !.to = to, !.begun = TRUE]
     ELSE IF flushed.failed THEN flushed
     ELSE IF run.rel = 0 THEN [flushed EXCEPT !.data = @ \o NoSectors(run.len * c), !.to = to, !.begun = TRUE]
     ELSE [flushed EXCEPT !.at = to, !.size = run.len * c, !.to = to, !.begun = TRUE]

NothingGot == [to |-> 0, begun |-> FALSE, at |-> 0, size |-> 0, data |-> <<>>, failed |-> FALSE]

\* The sectors of $Bitmap; what is not read of its length is zeros.
GetContent(part, limit, c) ==
  LET runs == part.bitmap
      got[n \in 0 .. Len(runs)] == IF n = 0 THEN NothingGot ELSE GetRun(part, limit, c, got[n - 1], runs[n])
      data == FlushPending(part, limit, c, got[Len(runs)]).data
  IN data \o NoSectors(Sums([n \in DOMAIN runs |-> runs[n].len])[Len(runs)] * c - Len(data))

\* The bits of these sectors, one by one; zeros for what is past the disk.
Bits(bits, sectors) ==
  FlattenSeq([n \in DOMAIN sectors |-> IF sectors[n] \in DOMAIN bits THEN bits[sectors[n]]
                                       ELSE [b \in DOMAIN bits[0] |-> FALSE]])

\* The clusters that are free by the bits.
FreeBy(bits) == {n - 1 : n \in {k \in DOMAIN bits : ~bits[k]}}

\* CollectUnallocated passes the size of a sector for that of a cluster.
FreeClusters(p) == IF p \in Ntfs THEN FreeBy(Bits(job.bits, GetContent(job.parts[p], Limit, 1))) ELSE {}

\* The bits are those of the seventh record.
StatusPanics(p) == p \in Ntfs /\ job.parts[p].table < 7

-----------------------------------------------------------------------------
(* The blocks *)

\* The numbers of a set, in order.
Ascending(S) == Keep([k \in 1 .. Max({0} \cup S) + 1 |-> k - 1], S)

\* Mutation: the last block is not sent.
MutBlocks(free) ==
  LET first == Ascending({a \in free : a - 1 \notin free})
  IN [n \in 1 .. Len(first) - 1 |-> <<first[n], Min({b \in free : b >= first[n] /\ b + 1 \notin free})>>]

\* First and last cluster of the maximal runs, in order.
Blocks(free) ==
  LET first == Ascending({a \in free : a - 1 \notin free})
  IN [n \in DOMAIN first |-> <<first[n], Min({b \in free : b >= first[n] /\ b + 1 \notin free})>>]

\* What the disk has of a block.
ReadBlock(part, size, limit, block) ==
  LET from == part.offset + block[1] * part.spc
      len  == (block[2] - block[1] + 1) * part.spc
  IN IF Refused(from + len, limit) THEN <<>> ELSE Keep(SectorsFrom(from, len), 0 .. size - 1)

-----------------------------------------------------------------------------
(* The goroutine and main *)

CollectNext ==
  /\ blocks.left = <<>> /\ blocks.todo # <<>>
  /\ IF StatusPanics(Head(blocks.todo))
     THEN phase' = "panic" /\ UNCHANGED blocks
     ELSE /\ blocks' = [todo |-> Tail(blocks.todo), part |-> Head(blocks.todo),
                        left |-> Blocks(FreeClusters(Head(blocks.todo)))]
          /\ UNCHANGED phase
  /\ UNCHANGED <<job, held, file>>

\* Main receives when the last block is written.
SendBlock ==
  /\ blocks.left # <<>> /\ held = <<>>
  /\ held' = <<ReadBlock(job.parts[blocks.part], job.size, Limit, Head(blocks.left))>>
  /\ blocks' = [blocks EXCEPT !.left = Tail(@)]
  /\ UNCHANGED <<job, phase, file>>

\* WriteFile appends if the file can be opened; its directory is not created.
WriteBlock ==
  /\ held # <<>>
  /\ file' = IF job.writable THEN file \o Head(held) ELSE file
  /\ held' = <<>>
  /\ UNCHANGED <<job, phase, blocks>>

Collected == blocks.todo = <<>> /\ blocks.left = <<>> /\ held = <<>>

CollectUnallocated == CollectNext \/ SendBlock \/ WriteBlock

-----------------------------------------------------------------------------
(* Correctness *)

UnallocatedTypeOK ==
  /\ blocks.part \in {0} \cup DOMAIN Partitions
  /\ Len(held) <= 1
  /\ \A n \in DOMAIN file : n > Len(job.old) => file[n] \in 0 .. job.size - 1

\* The sectors of $Bitmap if a cluster had c sectors: each run lies as far from the one
\* before it as it says.  Runs side by side are read at once, holes are zeros, and from
\* the first run on whose read is refused, or that lies before the volume, all is zeros.
BitmapBy(part, limit, c) ==
  LET runs    == part.bitmap
      lcn     == Sums([n \in DOMAIN runs |-> runs[n].rel])
      from(n) == part.offset + lcn[n] * c
      joined(m, n) == \A k \in m + 1 .. n : runs[k].rel # 0 /\ runs[k].rel = runs[k - 1].len /\ runs[k - 1].rel # 0
      bad(n)  == runs[n].rel # 0 /\ runs[n].len > 0 /\ (lcn[n] < 0 \/ Refused(from(n) + runs[n].len * c, limit))
      lost(n) == \E k \in DOMAIN runs : \/ bad(k) /\ (k <= n \/ joined(n, k))
                                        \/ k > 1 /\ lcn[k] < 0 /\ (k <= n \/ joined(n, k - 1))
  IN FlattenSeq([n \in DOMAIN runs |-> IF runs[n].rel = 0 \/ lost(n) THEN NoSectors(runs[n].len * c)
                                       ELSE SectorsFrom(from(n), runs[n].len * c)])

\* The free clusters whose block can be read: all, or those that are not in a run of free
\* clusters that reaches the last cluster of the disk.
CanBeRead(free, last, limit) ==
  IF limit = NoLimit THEN free ELSE {c \in free : c < last /\ ~(c .. last \subseteq free)}

\* The sectors on the disk of the clusters of a partition that are free by $Bitmap.  It is
\* looked for as if a cluster were a sector: for larger ones these are the bits of what
\* lies where $Bitmap would be then.
SectorsOf(part, size, limit, bits) ==
  LET free  == FreeBy(Bits(bits, BitmapBy(part, limit, 1)))
      last  == (size - part.offset) \div part.spc
  IN Ascending({s \in part.offset .. size - 1 : (s - part.offset) \div part.spc \in CanBeRead(free, last, limit)})
===============================================================================
