------------------------------- MODULE Export --------------------------------
(***************************************************************************)
(* Exporting and hashing files: the partition loop of main.go,             *)
(* ExportRecords, ExportData, CreateFile and HashFiles                     *)
(* (exporter/exporter.go), the producer Worker (disk/disk.go), the         *)
(* LocateData of NTFS and BTRFS records (FS/adapter.go) and the grouping   *)
(* of BTRFS extents (FS/BTRFS/filedirentry.go).                            *)
(*                                                                         *)
(* Sizes and offsets are counted in units, the blocks of the cipher, that  *)
(* are smaller than a sector.  The disk unit at offset o has the value o,  *)
(* so a file's content says where every unit of it was read; Zero is a     *)
(* zero unit, Noise a unit that was decrypted wrongly.                     *)
(***************************************************************************)
EXTENDS Integers, Sequences, FiniteSets, SequencesExt, FiniteSetsExt, SubSequences

CONSTANTS
  Jobs,       \* what main has to export: functions from partition ids to volumes
  Options,    \* the user's choices
  DiskSize,   \* hD.GetDiskSize()
  Sector,     \* units per sector
  Cluster,    \* units per cluster
  Location    \* the export location: the names on the path to it

Zero == -1
Noise == -2
Run     == {r \in [off : Int, len : Nat, hole : BOOLEAN] : r.hole => r.off = 0}  \* in clusters, off is relative
Item    == [at : Nat, addr : Nat, off : Nat, len : Nat,   \* a BTRFS EXTENT_DATA item;
            form : {"regular", "prealloc", "other"}]      \* other: inline or compressed
DataAttr == [kind : {"none", "resident", "runs", "extents"}, runs : Seq(Run),
             bytes : Seq(Int), items : Seq(Item)]
Chunk   == [key : Nat, size : Nat, stripe : Nat]
Record  == [id : Nat, name : STRING, dir : Seq(STRING), folder : BOOLEAN, lsize : Nat,
            data : DataAttr, linked : Seq(DataAttr)]
Name    == ({"name", "id"} \X Nat \X STRING) \cup ({"partition"} \X Nat)   \* in a path
Volume  == [offset : Nat, cbc : BOOLEAN, chunks : SUBSET Chunk, records : Seq(Record)]
Option  == [id : BOOLEAN, recreate : BOOLEAN, hash : {"", "md5", "other"}, shortReads : BOOLEAN]

(* A record is of NTFS or of BTRFS: extents are not in linked records, and *)
(* IsFolder is never true of BTRFS.                                        *)
Kinds(r) ==
  /\ IF r.data.kind = "extents" THEN r.linked = <<>> /\ ~r.folder ELSE r.data.items = <<>>
  /\ \A k \in DOMAIN r.linked : r.linked[k].kind # "extents"

ASSUME ExportAssumption ==
  /\ DiskSize \in Nat /\ Sector \in Nat \ {0} /\ Cluster \in Nat \ {0} /\ Cluster % Sector = 0
  /\ Options \subseteq Option /\ Location \in Seq(Name)
  /\ \A j \in Jobs : \A p \in DOMAIN j :
       /\ p \in Nat /\ j[p] \in Volume /\ j[p].offset % Sector = 0
       /\ j[p].cbc => DOMAIN j = {p}     \* several layers are the matter of Disk
       /\ \A n \in DOMAIN j[p].records : Kinds(j[p].records[n])

VARIABLES
  job, opts,
  order,           \* partitions in the order the loop took them
  phase,
  rpos, closed,    \* Worker: next record, close(results)
  loc,             \* LocateData: extent, run or group, offset, bytes read, buffer
  results,         \* the channel, cap len(records)
  sent,            \* history: all results
  holding,         \* ExportData: the result whose file is being written
  files, dirs,     \* contents of files by path, and the directories
  hpos, hashes     \* HashFiles: next record, printed hashes

inputs == <<job, opts>>
workerVars == <<rpos, closed>>
hashVars == <<hpos, hashes>>
vars == <<inputs, order, phase, workerVars, loc, results, sent, holding, files, dirs, hashVars>>

NoResult == <<>>
NoFile == <<>>
part == Last(order)
records == job[part].records

Init ==
  /\ job \in Jobs /\ opts \in Options
  /\ order = <<>> /\ phase = "loop"
  /\ rpos = 1 /\ closed = FALSE /\ loc = NoFile
  /\ results = <<>> /\ sent = <<>> /\ holding = NoResult
  /\ files = <<>> /\ dirs = {<<>>} /\ hpos = 1 /\ hashes = {}
-----------------------------------------------------------------------------
(* Reading a file.                                                         *)

(* Go's copy(dst[at:], src), at <= len(dst).                               *)
CopyAt(dst, at, src) ==
  LET n == IF Len(src) < Len(dst) - at THEN Len(src) ELSE Len(dst) - at
  IN  SubSeq(dst, 1, at) \o SubSeq(src, 1, n) \o SubSeq(dst, at + n + 1, Len(dst))

Zeros(n) == [i \in 1 .. n |-> Zero]

(* Block i of a read at o behind an AES-CBC reader: the vector of the first*)
(* sector starts the first block of a read, and no other sector's is used; *)
(* a read that starts before the volume is not decrypted.                  *)
Deciphered(o, i) ==
  LET b == o + i - 1
      noise == IF o < job[part].offset THEN b >= job[part].offset ELSE (b % Sector = 0) # (i = 1)
  IN  IF noise THEN Noise ELSE b

(* hD.ReadFile: the raw reader returns nil for a read past the end, the    *)
(* others what there is.                                                   *)
ReadFile(o, n) ==
  LET got == IF o + n <= DiskSize THEN n ELSE IF opts.shortReads THEN DiskSize - o ELSE 0
  IN  IF o < 0 THEN <<>>
      ELSE [i \in 1 .. got |-> IF job[part].cbc THEN Deciphered(o, i) ELSE o + i - 1]

(* DATA.Parse copies into a nil slice: Content stays empty.                *)
GetResidentData(d) == CopyAt(<<>>, 0, d.bytes)

Extents(r) == IF r.linked = <<>> THEN <<r.data>> ELSE r.linked

BufferSize(r) == ((r.lsize + Sector - 1) \div Sector) * Sector

(* GetExtentsMap and its sorted keys: of two items at one file offset the  *)
(* later one stays.                                                        *)
ByFileOffset(items) ==
  LET kept == {k \in DOMAIN items : \A j \in k + 1 .. Len(items) : items[j].at # items[k].at}
  IN  [i \in 1 .. Cardinality(kept) |->
         items[CHOOSE k \in kept : Cardinality({j \in kept : items[j].at < items[k].at}) = i - 1]]

(* Mutation: the offset within the extent that is joined is not looked at. *)
MutJoined(p, c) == p.addr + p.len = c.addr /\ c.addr # 0

Joined(p, c) == p.addr + p.len = c.addr /\ c.off = 0 /\ c.addr # 0

(* An extent joins the group of the one before it, or begins one.          *)
With(groups, x) ==
  IF groups # <<>> /\ Joined(Last(Last(groups)), x)
  THEN [groups EXCEPT ![Len(groups)] = Append(@, x)] ELSE Append(groups, <<x>>)

GroupedExtents(items) ==
  LET xs == ByFileOffset(items)
      groups[n \in 0 .. Len(xs)] ==
        IF n = 0 THEN <<>> ELSE With(groups[n - 1], xs[n])
  IN  groups[Len(xs)]

(* Lengths of extents, and of a group of them.                             *)
Lengths(g)  == [i \in DOMAIN g |-> g[i].len]
GroupLen(g) == Sums(Lengths(g))[Len(g)]

(* Inline and compressed items have no ExtentDataRem.                      *)
HasOther(groups) == \E g \in Range(groups) : \E i \in DOMAIN g : g[i].form = "other"
-----------------------------------------------------------------------------
(* The loop over recordsPerPartition, a map: partitions come in any order. *)
ExportRecords ==
  /\ phase = "loop"
  /\ \E p \in DOMAIN job \ Range(order) :
       /\ order' = Append(order, p)
       /\ phase' = IF job[p].records = <<>> THEN "loop" ELSE "export"
  /\ rpos' = 1 /\ closed' = FALSE
  /\ UNCHANGED <<inputs, loc, results, sent, holding, files, dirs, hashVars>>
-----------------------------------------------------------------------------
(* disk.Worker, the producer.                                              *)

Working == phase = "export" /\ rpos <= Len(records)

SkipFolder ==
  /\ Working /\ records[rpos].folder
  /\ rpos' = rpos + 1
  /\ UNCHANGED <<inputs, order, phase, closed, loc, results, sent, holding, files, dirs, hashVars>>

OpenFile ==
  /\ Working /\ ~records[rpos].folder /\ loc = NoFile
  /\ loc' = [ext |-> 1, run |-> 1, off |-> job[part].offset, start |-> 0, read |-> 0,
             buf |-> Zeros(BufferSize(records[rpos])), groups |-> GroupedExtents(records[rpos].data.items)]
  /\ UNCHANGED <<inputs, order, phase, workerVars, results, sent, holding, files, dirs, hashVars>>

(* One record is done, or the loop over linked records breaks.             *)
AllRead == \/ loc.ext > Len(Extents(records[rpos]))
           \/ records[rpos].linked # <<>> /\ loc.start >= records[rpos].lsize

(* LocateData of the extent at hand; it fills buf[start:].                 *)
Locating == Working /\ loc # NoFile /\ ~AllRead
extent == Extents(records[rpos])[loc.ext]

offset == loc.off + extent.runs[loc.run].off * Cluster
room == Len(loc.buf) - loc.start - loc.read

NextExtent(got) ==
  [loc EXCEPT !.ext = @ + 1, !.run = 1, !.off = job[part].offset, !.start = @ + got, !.read = 0]

(* Resident data counts for nothing in the offset that is returned.        *)
LocateResident ==
  /\ Locating /\ extent.kind = "resident"
  /\ loc' = [NextExtent(0) EXCEPT !.buf = CopyAt(@, loc.start, GetResidentData(extent))]
  /\ UNCHANGED <<inputs, order, phase, workerVars, results, sent, holding, files, dirs, hashVars>>

(* No run list, the end of it, or an offset past the end of the disk.      *)
LocateEnd ==
  /\ Locating
  /\ \/ extent.kind = "none"
     \/ extent.kind = "runs" /\ (IF loc.run > Len(extent.runs) THEN TRUE ELSE offset > DiskSize)
     \/ extent.kind = "extents" /\ ~HasOther(loc.groups) /\ loc.run > Len(loc.groups)
  /\ loc' = NextExtent(loc.read)
  /\ UNCHANGED <<inputs, order, phase, workerVars, results, sent, holding, files, dirs, hashVars>>

(* Mutation: the read is not clamped to the buffer.                        *)
MutRunDataUnclamped ==
  LET run == extent.runs[loc.run]
  IN  CASE run.len = 0 -> <<>>
        [] run.len > 0 /\ run.off = 0 -> Zeros(run.len * Cluster)
        [] OTHER -> ReadFile(offset, run.len * Cluster)

(* What one run puts into the buffer: nothing, zeros, or a read clamped to *)
(* the room that is left.                                                  *)
RunData ==
  LET run == extent.runs[loc.run]
  IN  CASE run.len = 0 -> <<>>
        [] run.len > 0 /\ run.off = 0 -> Zeros(run.len * Cluster)
        [] OTHER -> ReadFile(offset, IF run.len * Cluster > room THEN room ELSE run.len * Cluster)

AtRun == Locating /\ extent.kind = "runs" /\ loc.run <= Len(extent.runs) /\ offset <= DiskSize

LocateRun ==
  /\ AtRun /\ (room >= 0 \/ extent.runs[loc.run].len = 0)
  /\ loc' = [loc EXCEPT !.run = @ + 1, !.off = offset, !.read = @ + Len(RunData),
                        !.buf = IF room >= 0 THEN CopyAt(@, loc.start + loc.read, RunData) ELSE @]
  /\ UNCHANGED <<inputs, order, phase, workerVars, results, sent, holding, files, dirs, hashVars>>

(* LocateData of a BTRFS record.                                           *)
AtGroup == Locating /\ extent.kind = "extents" /\ ~HasOther(loc.groups) /\ loc.run <= Len(loc.groups)
group == loc.groups[loc.run]

(* Where the first extent of the group starts: any chunk that holds it (the*)
(* chunks are in a map); where none does, the place of the group before.   *)
ChunksOf(v, x) == {c \in v.chunks : c.key <= x.addr /\ x.addr - c.key < c.size}

VolumeOffsets ==
  LET in == ChunksOf(job[part], group[1])
  IN  IF in = {} THEN {loc.off} ELSE {job[part].offset + c.stripe + group[1].addr - c.key : c \in in}

(* A group is read, or made of zeros, in one piece; the next one follows it*)
(* whatever its file offset is and however much was read.  LocateData ends *)
(* at an offset past the end of the disk.                                  *)
LocateGroup ==
  /\ AtGroup
  /\ \E v \in VolumeOffsets :
       LET n == GroupLen(group)
           d == IF group[1].addr = 0 THEN Zeros(n) ELSE ReadFile(v + group[1].off, n)
       IN  \/ /\ v + group[1].off > DiskSize
              /\ loc' = NextExtent(loc.read)
           \/ /\ v + group[1].off <= DiskSize /\ (room >= 0 \/ n = 0)
              /\ loc' = [loc EXCEPT !.run = @ + 1, !.off = v, !.read = @ + n,
                                    !.buf = IF n > 0 THEN CopyAt(@, loc.read, d) ELSE @]
  /\ UNCHANGED <<inputs, order, phase, workerVars, results, sent, holding, files, dirs, hashVars>>

(* Slicing past the end of the buffer, asking for a negative length, or an *)
(* item without ExtentDataRem ends the process, whatever the consumer is   *)
(* doing.                                                                  *)
LocatePanics ==
  /\ \/ AtRun /\ room < 0 /\ extent.runs[loc.run].len > 0
     \/ AtGroup /\ room < 0 /\ GroupLen(group) > 0 /\ (\E v \in VolumeOffsets : v + group[1].off <= DiskSize)
     \/ Locating /\ extent.kind = "extents" /\ HasOther(loc.groups)
  /\ phase' = "panic"
  /\ UNCHANGED <<inputs, order, workerVars, loc, results, sent, holding, files, dirs, hashVars>>

SendFile ==
  /\ Working /\ loc # NoFile /\ AllRead
  /\ Len(results) < Len(records)
  /\ LET m == [part |-> part, idx |-> rpos, rec |-> records[rpos],
               content |-> SubSeq(loc.buf, 1, records[rpos].lsize)]
     IN  results' = Append(results, m) /\ sent' = Append(sent, m)
  /\ rpos' = rpos + 1 /\ loc' = NoFile
  /\ UNCHANGED <<inputs, order, phase, closed, holding, files, dirs, hashVars>>

(* Mutation: the last record never counts as done.                         *)
MutCloseResultsLate ==
  /\ phase = "export" /\ rpos > Len(records) + 1 /\ ~closed
  /\ closed' = TRUE
  /\ UNCHANGED <<inputs, order, phase, rpos, loc, results, sent, holding, files, dirs, hashVars>>

CloseResults ==
  /\ phase = "export" /\ rpos > Len(records) /\ ~closed
  /\ closed' = TRUE
  /\ UNCHANGED <<inputs, order, phase, rpos, loc, results, sent, holding, files, dirs, hashVars>>
-----------------------------------------------------------------------------
(* ExportData, the consumer.                                               *)

(* The names on a path; Join drops the last one for "..".                  *)
Named(name)  == <<"name", 0, name>>
FileName(r)  == IF opts.id THEN <<"id", r.id, r.name>> ELSE Named(r.name)
Up(path)     == IF path = <<>> THEN path ELSE Front(path)

(* GetPath: the directories an NTFS file is in, under that of its partition*)
(* unless there are none; those of a BTRFS file, whatever the partition.   *)
DirPath(p, r) ==
  LET names == [n \in DOMAIN r.dir |-> Named(r.dir[n])]
  IN  IF ~opts.recreate \/ r.dir = <<>> THEN Location
      ELSE IF r.data.kind # "extents" THEN Location \o <<<<"partition", p>>>> \o names
      ELSE IF Head(r.dir) = ".." THEN Up(Location) \o Tail(names)
      ELSE Location \o names

(* A file in a directory; without its number its name may be no name.      *)
In(dir, r) ==
  IF opts.id \/ r.name \notin {"", ".", ".."} THEN Append(dir, FileName(r))
  ELSE IF r.name = ".." THEN Up(dir) ELSE dir

FilePath(p, r) == In(DirPath(p, r), r)

(* Mutation: Mkdir, that makes the last directory only.                    *)
MutMkdirAll(path) == IF Up(path) \in dirs /\ path \notin DOMAIN files THEN dirs \cup {path} ELSE dirs

(* MkdirAll: nothing is made if a file is in the way.                      *)
MkdirAll(path) == IF Prefixes(path) \cap DOMAIN files # {} THEN dirs ELSE dirs \cup Prefixes(path)

(* os.Remove takes a directory away if nothing is in it.                   *)
Removed(made, path) ==
  IF path # <<>> /\ \A q \in (made \cup DOMAIN files) \ {<<>>} : Up(q) # path THEN made \ {path} ELSE made

(* Mutation: an existing file is not removed.                              *)
MutRemoveOldKeeps ==
  /\ phase = "export" /\ holding = NoResult /\ results # <<>>
  /\ holding' = Head(results) /\ results' = Tail(results)
  /\ dirs' = MkdirAll(DirPath(part, Head(results).rec))
  /\ UNCHANGED <<inputs, order, phase, workerVars, loc, sent, files, hashVars>>

(* CreateFile: the directories are made, and what is at the path removed.  *)
RemoveOld ==
  /\ phase = "export" /\ holding = NoResult /\ results # <<>>
  /\ holding' = Head(results) /\ results' = Tail(results)
  /\ LET r    == Head(results).rec
         path == FilePath(part, r)
     IN  /\ dirs' = Removed(MkdirAll(DirPath(part, r)), path)
         /\ files' = [q \in DOMAIN files \ {path} |-> files[q]]
  /\ UNCHANGED <<inputs, order, phase, workerVars, loc, sent, hashVars>>

(* WriteFile appends; a directory cannot be opened, and neither a file in  *)
(* a directory that is not there.                                          *)
WriteFile ==
  /\ phase = "export" /\ holding # NoResult
  /\ LET path == FilePath(part, holding.rec)
     IN  files' = IF path \in dirs \/ Up(path) \notin dirs THEN files
                  ELSE [q \in DOMAIN files \cup {path} |->
                          IF q # path THEN files[q]
                          ELSE IF path \in DOMAIN files THEN files[path] \o holding.content ELSE holding.content]
  /\ holding' = NoResult
  /\ UNCHANGED <<inputs, order, phase, workerVars, loc, results, sent, dirs, hashVars>>

(* Mutation: wg counts the producer only.                                  *)
MutWaitForProducer ==
  /\ phase = "export" /\ closed
  /\ phase' = IF opts.hash = "" THEN "loop" ELSE "hash"
  /\ hpos' = 1
  /\ UNCHANGED <<inputs, order, workerVars, loc, results, sent, holding, files, dirs, hashes>>

(* wg.Wait for both, then HashFiles when it was asked for.                 *)
ExportWait ==
  /\ phase = "export" /\ closed /\ results = <<>> /\ holding = NoResult
  /\ phase' = IF opts.hash = "" THEN "loop" ELSE "hash"
  /\ hpos' = 1
  /\ UNCHANGED <<inputs, order, workerVars, loc, results, sent, holding, files, dirs, hashes>>

(* HashFiles looks for every record, folders too, directly under Location. *)
HashPath(r) == In(Location, r)

HashFile ==
  /\ phase = "hash" /\ hpos <= Len(records)
  /\ LET path == HashPath(records[hpos])
     IN  IF path \notin DOMAIN files THEN UNCHANGED <<hashes, phase>>
         ELSE IF opts.hash = "md5"
              THEN hashes' = hashes \cup {[part |-> part, idx |-> hpos, of |-> files[path]]} /\ phase' = phase
              ELSE hashes' = hashes /\ phase' = "loop"
  /\ hpos' = hpos + 1
  /\ UNCHANGED <<inputs, order, workerVars, loc, results, sent, holding, files, dirs>>

HashDone ==
  /\ phase = "hash" /\ hpos > Len(records)
  /\ phase' = "loop"
  /\ UNCHANGED <<inputs, order, workerVars, loc, results, sent, holding, files, dirs, hashVars>>

LoopDone ==
  /\ phase = "loop" /\ DOMAIN job = Range(order)
  /\ phase' = "done"
  /\ UNCHANGED <<inputs, order, workerVars, loc, results, sent, holding, files, dirs, hashVars>>

Returned == phase \in {"done", "panic"} /\ UNCHANGED vars
-----------------------------------------------------------------------------
LocateData == LocateResident \/ LocateRun \/ LocateGroup \/ LocateEnd \/ LocatePanics
Worker == SkipFolder \/ OpenFile \/ LocateData \/ SendFile \/ CloseResults
ExportData == RemoveOld \/ WriteFile
HashFiles == HashFile \/ HashDone

Next == ExportRecords \/ Worker \/ ExportData \/ ExportWait \/ HashFiles \/ LoopDone \/ Returned

Spec == Init /\ [][Next]_vars

FairSpec == Spec /\ WF_vars(Next)
-----------------------------------------------------------------------------
(* Vocabulary of the properties.                                           *)

SumLen(runs, k) == Sums(Lengths(runs))[k]
SumOff(runs, k) == Sums([j \in DOMAIN runs |-> runs[j].off])[k]
Units(d) == SumLen(d.runs, Len(d.runs)) * Cluster

(* A unit of a file by the record's run lists, one after the other, and    *)
(* virtual cluster numbers: the attribute and the run that hold it, and the*)
(* number of the unit in that run.                                         *)
UnitsBefore(r, k) == Sums([j \in DOMAIN Extents(r) |-> Units(Extents(r)[j])])[k]

RunOf(r, u) ==
  LET k    == CHOOSE j \in 1 .. Len(Extents(r)) : UnitsBefore(r, j - 1) <= u /\ u < UnitsBefore(r, j)
      runs == Extents(r)[k].runs
      w    == u - UnitsBefore(r, k - 1)
      i    == CHOOSE j \in 1 .. Len(runs) : SumLen(runs, j - 1) <= w \div Cluster /\ w \div Cluster < SumLen(runs, j)
  IN  [runs |-> runs, idx |-> i, unit |-> w - SumLen(runs, i - 1) * Cluster]

FileUnit(r, base, u) ==
  LET p == RunOf(r, u)
  IN  IF p.runs[p.idx].hole THEN Zero ELSE base + SumOff(p.runs, p.idx) * Cluster + p.unit

(* Units that are read wrongly: those of a run that starts where the one   *)
(* before it did, and through AES-CBC the first of each further sector.    *)
Misread(v, r, u) ==
  LET p == RunOf(r, u)
  IN  /\ ~p.runs[p.idx].hole
      /\ p.runs[p.idx].off = 0 \/ (v.cbc /\ p.unit > 0 /\ p.unit % Sector = 0)

(* A file whose run lists lie on the disk, behind a decrypting reader in   *)
(* the volume, and cover its logical size.                                 *)
Regular(v, r) ==
  /\ \A k \in 1 .. Len(Extents(r)) :
       LET d == Extents(r)[k]
       IN  /\ d.kind = "runs"
           /\ \A i \in 1 .. Len(d.runs) :
                LET o == v.offset + SumOff(d.runs, i) * Cluster
                IN  0 <= o /\ o + d.runs[i].len * Cluster <= DiskSize /\ (v.cbc => v.offset <= o)
  /\ UnitsBefore(r, Len(Extents(r))) >= r.lsize

(* BTRFS: the place of an extent, and a file whose extents lie apart in the*)
(* file and each in one chunk, and where what is read at once is on the    *)
(* disk.  An extent whose address is the length of a hole before it is     *)
(* joined to that and read as zeros; a hole that seems to lie past the end *)
(* of the disk is the end of the file.                                     *)
Placed(v, x) == LET c == CHOOSE d \in ChunksOf(v, x) : TRUE
                IN  v.offset + c.stripe + x.addr - c.key + x.off

(* One extent goes on where another ends, in the logical address space.    *)
Continues(x, y) == y.addr # 0 /\ y.off = 0 /\ y.addr = x.addr + x.len

Sound(v, items) ==
  /\ v.offset <= DiskSize
  /\ \A k \in DOMAIN items :
       LET x == items[k]
       IN  /\ x.len > 0 /\ x.form # "other" /\ (x.addr = 0 => x.off = 0 /\ x.form = "regular")
           /\ x.addr # 0 => \E c \in v.chunks : ChunksOf(v, x) = {c} /\ x.addr + x.off + x.len <= c.key + c.size
           /\ x.addr = 0 => \A c \in ChunksOf(v, x) : v.offset + c.stripe - c.key <= DiskSize
  /\ \A k, j \in DOMAIN items :
       LET x == items[k]  y == items[j]
       IN  /\ k # j => x.at + x.len <= y.at \/ y.at + y.len <= x.at
           /\ x.addr = 0 => ~Continues(x, y)
  /\ \A g \in Range(GroupedExtents(items)) :
       g[1].addr # 0 => Placed(v, g[1]) + GroupLen(g) <= DiskSize

ExtentUnit(v, items, u) ==
  LET ks == {k \in DOMAIN items : items[k].at <= u /\ u < items[k].at + items[k].len}
      x  == items[CHOOSE k \in ks : TRUE]
  IN  IF ks = {} THEN Zero
      ELSE IF x.addr = 0 \/ x.form = "prealloc" THEN Zero ELSE Placed(v, x) + u - x.at

(* Extents that are exported wrongly: one that is allocated and not yet    *)
(* written, one behind a gap in the file, one that is joined to an extent  *)
(* of another chunk.                                                       *)
Awkward(v, r) ==
  LET xs == ByFileOffset(r.data.items)
      at(k) == SumLen(xs, k - 1)
  IN  \E k \in DOMAIN xs :
        /\ at(k) < r.lsize /\ xs[k].addr # 0
        /\ \/ xs[k].form = "prealloc"
           \/ xs[k].at # at(k)
           \/ /\ k > 1 /\ Continues(xs[k - 1], xs[k])
              /\ Placed(v, xs[k]) # Placed(v, xs[k - 1]) + xs[k - 1].len

Path(m) == FilePath(m.part, m.rec)

(* No two files of a partition have one number and one name.               *)
Told(rs) == \A i, j \in 1 .. Len(rs) : i # j /\ ~rs[i].folder /\ ~rs[j].folder => FileName(rs[i]) # FileName(rs[j])

(* A directory is at the path, or a file where one of its directories is.  *)
InTheWay(path) == path \in dirs \/ \E q \in Prefixes(path) \ {path} : q \in DOMAIN files

(* The last file sent to a path.                                           *)
LastSent(path) == sent[CHOOSE k \in 1 .. Len(sent) : /\ Path(sent[k]) = path
                                                     /\ \A j \in k + 1 .. Len(sent) : Path(sent[j]) # path]
-----------------------------------------------------------------------------
TypeOK ==
  /\ phase \in {"loop", "export", "hash", "done", "panic"}
  /\ order \in Seq(DOMAIN job) /\ IsInjective(order)
  /\ rpos \in Nat /\ closed \in BOOLEAN /\ hpos \in Nat
  /\ phase \in {"export", "hash", "panic"} => Len(results) <= Len(records)
  /\ phase \in {"loop", "done", "hash"} => results = <<>> /\ holding = NoResult

(* What reaches the channel is the file, unit by unit.  For an NTFS file   *)
(* whose run lists lie on the disk and cover its logical size (runs in any *)
(* order, holes, several linked records) all but exactly the units of runs *)
(* that were taken for holes and those behind an AES-CBC reader that do not*)
(* start a read; for a BTRFS file of sound extents if and only if none of  *)
(* them is unwritten, behind a gap, or joined across chunks (LocateData,   *)
(* GetGroupedExtents, DecryptingReader.decryptCBC).                        *)
RunsTrue(v, r, content) ==
  Regular(v, r) =>
    \A u \in 0 .. r.lsize - 1 : content[u + 1] = FileUnit(r, v.offset, u) <=> ~Misread(v, r, u)

ExtentsTrue(v, r, content) ==
  r.data.kind = "extents" /\ ~v.cbc /\ Sound(v, r.data.items) =>
    ((\A u \in 0 .. r.lsize - 1 : content[u + 1] = ExtentUnit(v, r.data.items, u)) <=> ~Awkward(v, r))

RunsExported ==
  \A k \in 1 .. Len(sent) :
    LET r == sent[k].rec
        v == job[sent[k].part]
    IN  /\ Len(sent[k].content) = r.lsize
        /\ RunsTrue(v, r, sent[k].content) /\ ExtentsTrue(v, r, sent[k].content)

(* Reading leaves its buffer (which kills the process with the consumer in *)
(* the middle of its work) only for an NTFS file with a hole whose runs    *)
(* reach past its logical size and for a BTRFS file with extents past its  *)
(* logical size, and of BTRFS files only those without inline and          *)
(* compressed items are exported.                                          *)
PanicOnlyOnOverrun ==
  /\ phase = "panic" =>
       LET r == records[rpos]
       IN  \/ /\ UnitsBefore(r, Len(Extents(r))) > BufferSize(r)
              /\ \E k \in 1 .. Len(Extents(r)) : \E i \in 1 .. Len(Extents(r)[k].runs) : Extents(r)[k].runs[i].off = 0
           \/ GroupLen(ByFileOffset(r.data.items)) > BufferSize(r)
           \/ HasOther(loc.groups)
  /\ \A k \in 1 .. Len(sent) : ~HasOther(GroupedExtents(sent[k].rec.data.items))

(* At any time, also when the process dies, a file under the export        *)
(* location holds the content of exactly one record that goes there, never *)
(* two appended to each other (CreateFile removes, then WriteFile appends).*)
FilesWhole ==
  \A path \in DOMAIN files :
    \E k \in 1 .. Len(sent) : Path(sent[k]) = path /\ files[path] = sent[k].content

(* When the loop ends every file that is not a folder was sent once, in the*)
(* order of the records of its partition, and is there, but for a path with*)
(* a directory in its place or with a file in that of a directory above;   *)
(* where several share a path, the last one sent is, and no directory is   *)
(* there but for a file's sake (Worker, CreateFile, WriteFile).            *)
ExportComplete ==
  phase = "done" =>
    /\ \A p \in DOMAIN job : \A i \in 1 .. Len(job[p].records) :
         ~job[p].records[i].folder <=> \E k \in 1 .. Len(sent) : sent[k].part = p /\ sent[k].idx = i
    /\ \A k \in 1 .. Len(sent) :
         /\ sent[k].rec = job[sent[k].part].records[sent[k].idx]
         /\ \A j \in 1 .. k - 1 : sent[j].part = sent[k].part => sent[j].idx < sent[k].idx
    /\ DOMAIN files = {q \in {Path(sent[k]) : k \in 1 .. Len(sent)} : ~InTheWay(q)}
    /\ \A path \in DOMAIN files : files[path] = LastSent(path).content
    /\ \A q \in dirs \ {<<>>} : \E k \in 1 .. Len(sent) : q \in Prefixes(DirPath(sent[k].part, sent[k].rec))

(* With the Id strategy and no recreated paths, a hash printed for a file  *)
(* of a partition whose records differ in number or name is the hash of    *)
(* what was sent for that file: hashing waits for the consumer, not only   *)
(* for the producer, and precedes the next partition (HashFiles).          *)
HashOfOwnContent ==
  opts.id /\ ~opts.recreate =>
    \A h \in hashes :
      ~job[h.part].records[h.idx].folder /\ Told(job[h.part].records) =>
        \E k \in 1 .. Len(sent) : sent[k].part = h.part /\ sent[k].idx = h.idx /\ h.of = sent[k].content

(* The export ends or the process dies: producer and consumer never wait   *)
(* for each other.                                                         *)
Termination == <>(phase \in {"done", "panic"})

(* README.md:8 "you can export the contents of files": the content of a    *)
(* resident file is its resident data.                                     *)
ResidentExported ==
  \A k \in 1 .. Len(sent) :
    LET r == sent[k].rec
    IN  r.linked = <<>> /\ r.data.kind = "resident" /\ Len(r.data.bytes) = r.lsize
          => sent[k].content = r.data.bytes

(* README.md:72 "hash exported files": when the loop ends every file that  *)
(* was exported has been hashed.                                           *)
ExportedHashed ==
  phase = "done" /\ opts.hash = "md5" =>
    \A p \in DOMAIN job : \A i \in 1 .. Len(job[p].records) :
      ~job[p].records[i].folder => \E h \in hashes : h.part = p /\ h.idx = i
=============================================================================
