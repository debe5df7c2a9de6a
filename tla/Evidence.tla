----------------------------- MODULE Evidence -----------------------------
(***************************************************************************)
(* What the parts of main work on: the partitions with the records found   *)
(* in them, the arguments, and how far main has come (main.go, disk).      *)
(* Finding the records is Disk and MFTTable.  Disk sizes count sectors.    *)
(***************************************************************************)
EXTENDS Integers, Sequences, FiniteSets, SequencesExt, FiniteSetsExt, SubSequences, TLC

CONSTANT Jobs  \* [parts, size, bits, rows, args, old, short, writable]

\* A partition is [volume, offset, spc, table, bitmap, records, vss]: table is the length
\* of its $MFT, bitmap the run list of $Bitmap, [rel, len] each; bits are what a
\* sector holds if it is one of $Bitmap.  vss is [catalog, blocks, stores, size]: where
\* the catalog of shadow copies begins, its blocks by offset, [entries, next] each, the
\* stores [list, ranges, whole, name] that entries [type, store] tell, names by their
\* length in units of 256 bytes, and the last offset from which a whole block is read.
\* A record is [id, name, ext, deleted, folder, base, up, parref, lsize, extents,
\* header, log]: up is the record its Parent points to, 0 for none; header what its
\* first bytes are, by the partition from whose offset they are looked for; log what
\* is read of it, at most lsize cells, if it is a $LogFile.
\* An extent, the run list of $DATA in one record, has runs [rel, frag].
\* args is [search, partition, usnjrnl, logfile, unallocated, vss, clusters, filters,
\* exts, level, tree, showtree];
\* rows are those of signatures.csv; old is in the file of unallocated blocks, that can
\* be opened for writing if writable; short says that the reader returns what there is of
\* a read past the disk, and no error.

\* A run that is read from a journal, by cells (module Journal).
Cell == [len : Nat, name : Nat, usn : Nat]
Run  == [rel : Int, frag : Seq(Cell)]

ASSUME EvidenceAssumption ==
  \A j \in Jobs :
    /\ j.size \in Nat /\ DOMAIN j.bits = 0 .. j.size - 1
    /\ j.parts \in Seq(ToSet(j.parts))
    /\ j.args.partition \in {-1} \cup DOMAIN j.parts
    /\ j.args.showtree => j.args.tree
    /\ j.args.filters \in Seq(ToSet(j.args.filters))
    /\ \A n \in DOMAIN j.args.filters : j.args.filters[n].keys \in Seq(ToSet(j.args.filters[n].keys))
    /\ \A p \in DOMAIN j.parts :
         /\ j.parts[p].volume \in {"ntfs", "btrfs", "none"}
         /\ j.parts[p].volume # "ntfs" => j.parts[p].records = <<>>
         /\ j.parts[p].volume # "none" => /\ j.parts[p].spc \in Nat \ {0}
                                          /\ j.args.partition \in {-1, p}
         /\ j.parts[p].records \in Seq(ToSet(j.parts[p].records))
         /\ \A n \in DOMAIN j.parts[p].records :
              /\ j.parts[p].records[n].lsize \in Nat
              /\ j.parts[p].records[n].extents \in Seq(Seq(Run))
              /\ j.parts[p].records[n].up \in 0 .. Len(j.parts[p].records)
              /\ j.parts[p].records[n].name = "$LogFile" =>
                   Len(j.parts[p].records[n].log) <= j.parts[p].records[n].lsize

VARIABLES job, phase

args  == job.args
Ntfs  == {p \in DOMAIN job.parts : job.parts[p].volume = "ntfs"}

\* The keys of recordsPerPartition.
Loaded == {p \in DOMAIN job.parts : job.parts[p].volume # "none"}

\* disk.Partitions: a search leaves it empty.
Partitions == IF args.search THEN <<>> ELSE job.parts

Wanted(p, num) == num \in {-1, p}
===============================================================================
