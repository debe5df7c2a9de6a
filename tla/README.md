# FileSystemForensics in TLA+

A verification project for FileSystemForensics, a Go program that reads a disk
image or a physical drive, parses the file systems on it (NTFS, BTRFS, through
BitLocker where needed), and lists, filters, exports and hashes the files it
finds. The project models the parts of the program whose correctness depends on
order, scheduling, limits or partial failure, checks them with TLC on small
instances and proves the main results with TLAPS for every instance. Source
paths below are relative to `src/`.

## 1. Inventory

| Component | State | Operations | Interacts through |
| --- | --- | --- | --- |
| `main.go` | filters, records per partition, tree | one pass over the flags, then a loop over the partitions (a map: random order) | calls everything below |
| `disk` (`disk/disk.go`) | handler, MBR/GPT, partitions | discover, process, search, produce file contents, collect unallocated clusters | a handler shared by all partitions; channels to the exporter and the journal parser |
| partitions (`disk/partition`) | offset, volume | locate the volume | volume objects |
| NTFS volume (`disk/volume/ntfs.go`) | `$MFT` table, carved records | load the table, carve lost tables | one goroutine per record, pools, bounded channels |
| `$MFT` (`FS/NTFS/MFT`) | records, links, parents, sizes, counter | parse, read non resident attributes, link, find parents, copy sizes | unlocked writes into one shared table |
| attributes (`FS/NTFS/MFT/attributes`) | parsed attributes | parse lists, indexes, run lists; read contents | a scratch buffer owned by a worker |
| BTRFS volume (`disk/volume/btrfs.go`, `FS/BTRFS`) | chunk map, trees, files | descend trees, update inodes, build paths | goroutine per child, channels, a shared map |
| BitLocker (`disk/volume/bitlocker.go`, `disk/Bitlocker`, `readers/reader_decrypting.go`) | metadata blocks, keys, decrypting reader | parse metadata, try protectors, unlock, replace the disk's handler | the handler of the disk |
| USN journal, `$LogFile`, shadow copies (`FS/NTFS`) | parsed records, catalogs and stores | a pipeline of three goroutines; sequential parsers; looking clusters up | unbuffered channels; what one flag reads another looks up |
| exporter (`exporter`, `FS/adapter.go`) | export location, results channel | locate contents, export, hash, export unallocated space | channel from the disk; the file system |
| filters, signatures, tree, reporter | filter list, trie, tree | filter, verify, build, print | called in the partition loop |
| readers (`readers`) | file handle | read, size | what a short read returns differs |

**What makes them correct, and what makes that hard.**

* *`$MFT` table*: every readable record is in the table under its own number,
  links and parents point to the record that was meant, sizes come from an index
  of that file. Hard: one goroutine per slot stores into a shared table without
  a lock, duplicate and stale records, sequence numbers that wrap, buffers reused
  from one record to the next.
* *Search*: every `$MFT` record on the disk is found once and every volume it
  tells of is rebuilt. Hard: two bounded channels, a closer, a random map order,
  short reads at the end of the disk.
* *Export*: every file is written once with the content its run lists say, and
  hashes are of what was written. Hard: producer and consumer in parallel, name
  collisions between records and partitions, holes and runs past the end.
* *Disk*: each partition is read through its own reader and no other.
* *BTRFS*: the set of files does not depend on the order leaves arrive in.
* *BitLocker*: a volume is unlocked exactly when the credentials open it. Hard: the
  order of protectors, keys that outlive the protector they were made for, several
  copies of the metadata of which one may be bad.
* *Journal and unallocated space*: pipelines end and lose nothing.
* *`$LogFile`*: every record page is parsed. Hard: an area to pass once, pages of two
  versions, one buffer for logs of several sizes.
* *Shadow copies*: every store of the catalog is known once, and a cluster is found
  where a store keeps its copy. Hard: a chain of blocks, ranges and descriptors that
  overlap, lists that grow from block to block.
* *Filters and tree*: each partition is filtered by the user's filters only, and
  the tree shows the partition it is built from.

The hazards behind these properties are listed one by one in `PROJECT.json`,
each at the line where it bites and with the properties that would catch it.

## 2. Modules

| Module | Models | Uses |
| --- | --- | --- |
| `SubSequences` | what an `append` loop with a test keeps of a sequence; running sums | |
| `SequenceProofs` | lemmas about sequences, recursive functions and finite sets | `SubSequences` |
| `MFTRecord` | parsing a slot, an attribute list, an index; resolving a reference | `SubSequences` |
| `MFTTable` | `NTFS.Process`: load, non resident pool, links, parents, sizes | `MFTRecord` |
| `MFTTableProofs` | theorems about loading, the pools and what follows them | `MFTTable`, `SequenceProofs` |
| `CarveAbs` | what carving promises | |
| `Carve` | `CarveMFTRecordsCH`, `ProcessRecord`, `SearchFileSystemCH` | `CarveAbs` |
| `CarveProofs` | theorems about carving, the refinement | `Carve` |
| `Export` | partition loop, `ExportRecords`, `Worker`, `LocateData` of NTFS and BTRFS records, the AES-CBC reader, `CreateFile`, `HashFiles` | |
| `ExportProofs` | theorems about exporting and hashing | `Export` |
| `Bitlocker` | metadata blocks, protectors, the way from credentials to the key of a volume | |
| `Disk` | partition tables, `LocateVolume`, `Process`, `Decrypt`, the shared handler, what `main` keeps | `Bitlocker`, `SubSequences` |
| `DiskProofs` | theorems about the disk | `Disk`, `SequenceProofs` |
| `BtrfsTrees` | `BTRFS.Process`: chunks, roots, the goroutines of `DescendTreeCh`, `Update`, `BuildPath` | |
| `BtrfsProofs` | theorems about loading a BTRFS volume | `BtrfsTrees` |
| `Evidence` | partitions, records and arguments, as the next five share them | `SubSequences` |
| `Journal` | `ProcessJrnl`, `AsyncWorker`, `AsyncProcess` | `Evidence` |
| `LogFile` | `ProcessLogFile`, `LogFile.Parse`, restart and record pages | `Evidence` |
| `Shadow` | `ProcessVSS`, the catalog and its stores, `GetShadowClusterOffset` | `Evidence` |
| `Unallocated` | `CollectUnallocated`, `ExportUnallocated`, `GetContent` of `$Bitmap` and its bits | `Evidence` |
| `Selection` | the filters, the signature tree, the directory tree | `Evidence` |
| `Main` | `main` from the records on, composed of those five | `Journal`, `LogFile`, `Shadow`, `Unallocated`, `Selection` |
| `MainProofs` | theorems about the change journal, shadow copies, the selection and the tree of it | `Main`, `SequenceProofs` |
| `OptionProofs` | theorems about the log of a partition, unallocated space, the types of `Main` | `MainProofs` |
| `MCMFTTable`, `MCCarve`, `MCExport`, `MCDisk`, `MCBtrfsTrees`, `MCMain` | the instances TLC checks | one of the above |

Operators named `Mut...` next to a definition are mutations of it: plausible
bugs in the code it models, with the same parameters. `PROJECT.json` pairs each
checked property with one of them that breaks it; no specification uses them.

### MFTRecord and MFTTable

State: `area` is the `$MFT` area as read, `sel` the slots the user selected,
`head` and `body` are `mfttable.Records` (a struct store is not atomic, so the
header and the attributes of a record are two variables, written in two steps);
`pc` and `tmp` are the load goroutines, `nonValid` is `NonValidRecords`; `ch`
is the channel of the running pool, `job`, `ai` and `scratch` the record, the
next attribute and the buffer of each non resident worker; `info`, `linked`,
`origin`, `parent`, `lsize`, `psize` are the fields of the same names in
`Record`. `phase` follows the five calls in `NTFS.Process`, which a `wg.Wait`
separates.

| Code | Actions |
| --- | --- |
| `MFTWorker` | `MFTWorkerReturn`, `MFTWorkerRefuse` and `MFTWorkerCount` (the read and the write of `NonValidRecords++`), `MFTWorkerStoreHead` and `MFTWorkerStoreBody` |
| `ProcessNonResidentRecords`, its worker | `ProcessNonResidentRecords`, `TakeRecord`, `SkipAttribute`, `ReadFails`, `ParseAttribute`, `NonResidentDone` |
| `CreateLinkedRecords`, `FindParentRecords` | one action each (sequential code) |
| `CalculateFileSizes`, `SetI30Size` | `TakeFolder`, `SetI30LSize`, `SetI30PSize`, `SizesDone` |

Abstractions. An attribute's content is a sequence of 4096-byte blocks; a block
is what the list parser and the index parser make of it (both views are given,
since a stale index block can be read as list entries and the other way round).
Fixup values, names and timestamps are left out. The pool channels hold the
whole table in the code, so feeding never blocks and a pool starts with its
channel full and closed. `ProcessMFT` panics on a selection beyond the table
(phase `panic`). Slot 0 of the area is a sane `$MFT` record, since its run list
is what the area was read with. `SetI30Size` writes the entries in the order of
their numbers; entries of one index that reference the same file are a set here,
written in any order.

### CarveAbs and Carve

Positions count sectors; a record takes two. `off`, `pos`, `end` and `closed`
are the producer (next chunk, next candidate, end of the chunk, `close(ch)`);
`ch` and `out` the two channels; `wpc` and `hold` the pool; `carved` is
`ntfs.CarvedRecords`; `byLSN`, `left` and `parts` are the map, the keys the
range has yet to visit and the tables rebuilt. `keepsTail` says whether the
reader returns what there is at the end of the disk (the image libraries) or
nothing (`reader_raw.go:32`); it is an input, because the readers are outside
the module. Candidates start every second sector from the search offset, as in
the code: records at an odd distance from it are never candidates, and
`CarvesEveryTarget` promises only what the reads deliver. An odd last sector
makes the slice expression panic (`SlicePanics`), which ends the process.

`CarveAbs` is the specification of carving: find the targets one by one, each
once, and finish when none is missing. `Carve` implements it under the mapping
`found <- Range(carved)`, `count <- Len(carved)`, `finished <- stage past the
carving`.

### Export

Sizes and offsets count units smaller than a sector, and the disk unit at offset
`o` has the value `o`: what was read where is visible in the content. `order` is
the order in which the loop took the partitions, `rpos`, `loc` and `closed` the
producer (`Worker`, with `LocateData` for the extent at hand), `results` the
channel, `holding` the consumer between `os.Remove` and the write, `files` and `dirs`
what is on the machine the files are exported to, `hpos` and `hashes` the hashing. `sent`
is a history of all results, each with the place (`idx`) of its record.
`GetLogicalFileSize` is an input (`lsize`), and so is whether reads at the end of the disk
are short. Exporting without a location does nothing and is left out.

A unit is a block of the cipher: behind an AES-CBC reader (`cbc`) the vector of the
first sector of a read is used for the whole read, so the first block of every other
sector is noise. Such a reader is modelled in jobs of one partition only; what several
layers do to each other is `Disk`. A run says apart from its offset whether it is a
`hole`, since the code takes every run with a relative offset of 0 for one:
`RunsExported` says exactly which units are then misread. A hole has no offset, as
`RunList.Process` leaves it, and a record is of one file system: one with extents has no
linked records (`Kinds`).

The contents of a BTRFS record are its `EXTENT_DATA` items (`items`), and `chunks` the map
from logical to physical addresses. `GetExtentsMap` keeps the later of two items at one
file offset, `GetGroupedExtents` joins neighbours, and each group is read in one piece
wherever the last left off: gaps of the file are closed up, a group that spans two
chunks is read across the end of the first, and an item that is inline or compressed ends
the program. Chunks of several stripes are read from their first stripe, which is
the only one `chunks` has. No BTRFS record is a folder to the code, so a directory is
exported as a file of zeros, as any record without items is.

A path is a sequence of names (`Name`): as they are (`Named`), behind the number of the
record (`[id]name`), or the directory of a partition. The program builds for Windows only
(`utils/utils.go` imports `x/sys/windows`), so the backslashes that paths are made with
separate names.
With recreated paths the files of an NTFS partition are below its `PartitionN`
(`Record.GetPath`), those of BTRFS below the location itself (`FileDirEntry.GetPath`), so
that two BTRFS volumes share their paths; the root of a BTRFS volume is named "..", and
`filepath.Join` takes that for the directory above. `CreateFile` prints what `MkdirAll`
and `Remove` return and goes on, and `WriteFile` does so with the error of the open:
`MkdirAll` makes nothing where a file is in the way, `Removed` takes an empty directory
away and leaves one that is not, and `WriteFile` writes nothing where the path is a
directory or its directory is missing. A BTRFS directory that is exported as a file before
what it holds therefore keeps all of that from being exported, and one that comes after it
is not written itself. `ExportComplete` says exactly which paths have no file at the end,
those with something `InTheWay`.

Apart from what is exported nothing is in the export location at first. A name is
one component of a path, "" or "." or "..", and no two different names are one to
Windows (as names that differ in case are, or a file named like `[id]name`). Names that
Windows refuses, permissions and a full disk are not modelled.

| Code | Actions |
| --- | --- |
| the loop over partitions, `ExportRecords` | `ExportRecords`, `ExportWait`, `LoopDone` |
| `Worker` | `SkipFolder`, `OpenFile`, `SendFile`, `CloseResults` |
| `LocateData` of an NTFS record | `LocateResident`, `LocateRun`, `LocateEnd`, `LocatePanics` |
| `LocateData` of a BTRFS record | `LocateGroup`, `LocateEnd`, `LocatePanics` |
| `ExportData`, `CreateFile` | `RemoveOld` (with `DirPath`, `MkdirAll`, `Removed`) |
| `utils.WriteFile` | `WriteFile` |
| `HashFiles` | `HashFile`, `HashDone` |

### Disk

State: `img` and `args` are the disk and the command line; `phase` what runs
next; `err` what `DiscoverPartitions` returned; `parts` is `disk.Partitions`,
each with the volume object located for it, and `cur` the loop of
`ProcessPartitions`; `handler` is `disk.Handler`, the decrypting readers stacked
on the reader of the image, nearest the disk first; `report` is
`recordsPerPartition` in `main.go`.

| Code | Actions |
| --- | --- |
| `populateMBR`, `DiscoverPartitions` | `PseudoMBR`, `InvalidMBR`, `ValidMBR`, `TablePanics` |
| `populateGPT` | `PopulateGPT` |
| the loop of `ProcessPartitions` | `Skip`, `Locate`, `Process`, `Decrypt` |
| `GetFileSystemMetadata`, `main` after `Process` | `Collect` |

A sector is its data and the layer it is encrypted under, so a read is right if
the layers it passes on its way up are the ones the sector was written through;
everything else reads as noise. What reads back is therefore decided by the
handler and the offsets, which is what the code can get wrong. A layer is a key
and a start, as in `reader_decrypting.go`: it has no end. Abstractions: a
structure fits one sector; one tree stands for the `$MFT`, and for chunk, root
and file system trees together; ciphers are symbolic, so the one initial vector
per read of the CBC reader is visible in `Export` only. Partitions of an extended
table (`table # 0`) are located as the code does it, without the offset of their
table, and processed with it: `LostBehindUnlocked` says which of them are lost.
A reader whose file cannot be opened is out of scope.

`Bitlocker` has no state of its own: it says what a volume's blocks of metadata and a
pair of credentials give. `ParseEntries` reads a block up to the size its header tells
(in units that a `uint16` truncates), or up to a datum of a type it does not know;
`DecryptVMK` walks the protectors of all blocks and opens the first sealed key it has any
key for (`LastKey`), right or wrong; `DecryptFVEK` takes the key of the volume from the
first block and compares method bytes and sizes. A key is a record of how it came about,
so that what one key opens no other does. A recovery key is the numbers of its groups,
divided by eleven as in the code: a group that is no multiple is dropped with all that
follow, without an error.

### BtrfsTrees

State: `chunks` is `ChunkTreeMap`; `walk` and `items` are the sequential descents
of the chunk tree and the root tree and what their leaves hold; `trees` is `FsTreeMap` (where a tree starts,
its leaves, its files) and `todo` the keys its range has yet to yield; for each
tree `prod` is the goroutine that descends, `ch` its channel and `cons` the one
that collects, with its copy of the tree; `fp` is the file pointer of a physical
drive, which all goroutines share.

| Code | Actions |
| --- | --- |
| `ParseTreeNode`, twice in `Process` | `ParseTreeNode`, one node each |
| `UpdateChunkMaps`, `DiscoverTrees` | one action each (sequential code) |
| `DescendTreeCh` | `DescendTree` per tree, `Descended`, `Wait` |
| `ParseTreeNodeCh`, `CreateNode` | `Seek` and `Read` (two calls on a drive), `Send`, `Close` |
| `FsTreeMap.Update` | `Begin`, `Receive` (a leaf with all its items), `Ranged` (`BuildPath` and the start of the assignment), `Store` (its end) |
| unlocked access to the map of trees | `MapFault` |

A descent is the children still to be read of the node at hand and a stack of
inner nodes, so leaves arrive in the order the stack gives, which is not the
order of the keys once a tree has three levels. An item keeps what loading looks
at: its type, the inode, the offset of its key, and the chunk, root address or
name it carries. An entry copies its parent when a reference arrives, as the
code does, so a chain of parents is a value that is settled then (`up`).

Abstractions: the volume starts at offset 0 and a block holds one node (chunks are
not smaller than nodes); `Children`, `Index`, timestamps and the name, parent and
UUID of a tree are left out, since loading only stores them; an item whose data
lie outside its node, or a pointer that leads back to a node above it, does not
occur; `CHANNELSIZE` is a constant that the instance sets to 1. The Go
runtime need not notice a race on a map, so `MapFault` may happen and need not.

### Evidence, Journal, LogFile, Shadow, Unallocated, Selection and Main

`main` is one goroutine; its position is `phase`. State: `call` is the call of
`ProcessJrnl`, `worker`, `data`, `parser` and `got` its two goroutines, the channel
between them and `usnrecords`; `logfile` is the `LogFile` being parsed, with the buffer all logs are
read into; `shadow` is the shadow volume of a
partition (the block of the catalog at hand, `catalogs` and `stores`) and `clOffsets`
what is printed for the clusters looked for; `blocks`, `held` and `file` are the
collector, the block in `main` and the file it appends to; `sgm`, `flm`, `tree` are the variables
of that name in `main` (`recordsTree`), `todo` and `seen` the partitions the loop has
left and has done.

| Code | Actions |
| --- | --- |
| `ProcessJrnl` | `NextPartition`, `StartJournal`, `JournalDone` |
| `AsyncWorker`, `LocateDataAsync` | `Send`, `CloseData` |
| `AsyncProcess`, `Record.Parse` | `Take`, `Scan` (one record; `main` receives and does nothing else) |
| `ProcessLogFile` | `ProcessLogFile`, `ReadLog` (the next log into the buffer) |
| `LogFile.Parse` | `ParseRestart`, `ParsePage` (a page each) |
| `ProcessVSS`, `ShadowVolume.Process` | `ProcessVSS`, `ReadCatalog` (a block), `ProcessStores` |
| `ShowClustersInfo`, `GetShadowClusterOffset` | `ShowClusters` |
| `CollectUnallocated` | `CollectNext`, `SendBlock` |
| `ExportUnallocated`, `WriteFile` | `WriteBlock` |
| the loop: filters and `GetClustersStatus`; tree and `Show` | `Select`; `Report` |
| `main` between them | `Start`, `First`, `Logs`, `Shadows`, `Unallocate`, `Again`, `Finish` |

A fragment of a journal is read by cells, since all that decides what is found is,
for each position, the length and the name's end that `Parse` would take there. A
sector holds a few bits of a bitmap; a signature is a sequence of bytes. The walks
over maps (partitions, signatures) are in any order. A call that does not return is
the phase `hang` (a path filter that meets a cycle of parents), a crash the phase
`panic`.

What the properties say of the code, where it is not what one would expect:

* a record of the journal whose name ends with its fragment is dropped, and where
  the padding between records is read out of step as a record whose name is out of
  reach, the rest of the fragment is dropped (`RecordsIn`);
* `GetContent` reads runs that lie side by side at once, so the first run that leaves
  the disk, or lies before the volume, takes with it those it was read with, and
  `GetClustersStatus` takes what was not read for free clusters: `FlushPending` and
  `GetRun` do it run by run, and `BitmapBy` says for each run whether it is lost. Only
  the raw reader refuses a run past the disk; the others (`short`) return what there is of it;
* `CollectUnallocated` reads the bits with the size of a sector for that of a cluster:
  what is collected are the clusters that are free by what lies where `$Bitmap` would be if
  a cluster had one sector (`SectorsOf`). `UnallocatedExact` says so for every cluster size;
* a block of free clusters that reaches the last cluster of the disk is not read at all by
  the raw reader, and as far as the disk goes by the others (`CanBeRead`);
* the file of unallocated blocks is appended to and its directory not created: where it
  cannot be opened (`writable`) each block is dropped, and the program goes on;
* the buffer area of a log is passed before every page, so one page in three (LFS 1.1) or
  in 33 (LFS 2.0) is parsed; a log that is no whole number of these steps is sliced
  behind its end, which ends the program, unless an earlier, larger log has left
  something there that is no record page (`Overruns`);
* `-logfile` without `-partition` ends the program too, and what it parses is dropped;
* the last block of a catalog becomes no catalog, and entries are never dropped from block
  to block: the stores of block `n` of `m` are read `m - n` times, those of the last
  never (`StoresExact`); a chain that leads back to itself is read for ever;
* a volume without shadow copies has its boot sector read as a catalog;
* a range of a store has its first cluster missing, and clusters are taken for 4096 bytes
  whatever the volume says; a range that begins within a cluster is off by up to one
  cluster, since start and place are rounded each (`ClustersExact` is stated for such
  volumes and for ranges that begin where a cluster does);
* what the loop's call of `ProcessJrnl` returns is dropped (`main.go:309`);
* signature filters stay for the partitions after theirs (`main.go:299`), so those show
  no more than they should, and possibly less: `SelectionExact` is exact for the first;
* a signature that is empty or the beginning of another one is never found, and one that two
  extensions share has the name of either (`Owners`, `May`); with `strict`, an
  extension that the list has in capitals never matches, since names are lowered;
* the orphans filter keeps deleted records that have a parent;
* the tree keeps the root and the orphans of earlier partitions, shows no grandchildren
  of an orphan, and cannot be shown without entry 5, whatever filter removed it;
* after `-searchfs` there are no partitions: the journal and the signatures panic.

Abstractions: records are those of NTFS (partitions of BTRFS have none here); the
contents of a `$Bitmap` are not in its record; the BTRFS bitmap is empty, as in the
code; a write that fails after the file was opened is left out; export from the loop is
`Export`.

## 3. Runs

| Run | Instance | Shows |
| --- | --- | --- |
| `mft_table` | 4 areas of 5 slots x 6 selections, 2 workers | `SlotOwner`, `LoadExact`, `CounterBounds`, `NoDanglingLinks`, `OwnListKept`, `SizesExact`, `Termination` |
| `mft_zero` | the same | *violated*: a zero slot is not skipped, it empties entry 0 |
| `mft_info` | the same | *violated*: the list information of a record holds entries of other records' lists |
| `carve` | 4 disks of up to 10 sectors, 3 workers, channels of 2 and 1, chunks of 4 | `NoSendAfterClose`, `PartsSound`, `PartsComplete`, `CarvesEveryTarget` (refinement), `Termination` |
| `disk` | GPT disks with every pair of 15 kinds of volume in both orders of listing, triples of 4 kinds in 4 orders, 15 more arrangements of metadata and protectors, MBR pairs, extended tables next to and away from the volumes their partitions are mistaken for, 7 odd disks; 10 command lines | `HandlerIsUnlocks`, `RecordsTrue`, `LostBehindUnlocked`, `ReadsBack`, `UnlockedExactly`, `SoundDiskNeverPanics` |
| `disk_mbr` | one encrypted partition, in either table | *violated*: a BitLocker volume listed in an MBR is never unlocked |
| `btrfs` | 12 volumes of one to three trees of up to three levels, 6 damaged ones, 2 volumes both on an image and on a drive; channels of 1 | `LeavesExact`, `EntriesExact`, `PathOfALink`, `Termination` |
| `btrfs_drive` | the 2 volumes on a drive | *violated*: two trees move one file pointer, leaves are lost |
| `export` | every run list of one or two runs (offsets -1..3, lengths 0..2, one that starts where the one before it does), linked extents, some of them behind AES-CBC, files of up to three BTRFS extents over two chunks or a third at address 0, two jobs of several NTFS partitions; trees of BTRFS whose directories are sent as files before, between and after what they hold, with names ".." and "", and two volumes with one path | `RunsExported`, `PanicOnlyOnOverrun`, `FilesWhole`, `ExportComplete`, `HashOfOwnContent`, `Termination` |
| `export_resident` | the jobs of several partitions | *violated*: a resident file is exported as zeros |
| `export_hash` | the same, recreated paths | *violated*: files in sub-directories are never hashed |
| `main` | 1437 jobs: journals of one and two partitions, channels of 0 to 2; logs of up to 70 pages in both versions, damaged ones, two in one buffer; 9 catalogs of shadow copies with clusters of 4, 8 and 16 sectors; 10 bitmaps with clusters of 1, 2 and 3 sectors, over readers that refuse and that shorten reads, into a file that can be opened or not; 9 lists of filters x 4 levels x 3 pairs of partitions, with and without the tree | `JournalExact`, `LogFileExact`, `ShadowExact`, `UnallocatedExact`, `SelectionExact`, `TreeExact` |

Why the bounds are enough. The races in the table need two slots that claim one
entry, a refused pair, and a stale buffer of a longer attribute before a shorter
one with two workers to take them in either order: each area holds one such
constellation. The channels of the search are smaller than the number of
candidates and the pool is larger than the channel, so every party blocks on
every other. Exported files are larger and smaller than their runs, run lists
leave the disk on both sides, and partitions and records collide in names. Of two
files only their paths matter to each other: the trees have a directory as a file above,
at and below the path of another file, removed or left by it. A
partition meets another only through the handler, whose layers matter by the
order of their starts: three partitions in every relative order of listing and
position show all of it, and each kind of volume stands for one path through
`LocateVolume`, `Process` or `Decrypt`.

A tree of BTRFS meets another only at the map and, on a drive, at the file pointer:
two trees show both. The order in a tree depends on its shape alone: leaves under
one node, an inner node among leaves, two inner nodes with an inode split over
them. A channel of one leaf blocks on every second leaf. `Height` and `Fan` bound
the reference definitions (`NodeOn`, `Leaves`) and are those of the largest tree.

The kinds of metadata have each way a block can end early (a datum that is erased or not
known, a size too short, one that wraps), protectors in each order, keys of the wrong size
or rank, and a key left over from a protector whose sealed key is missing; a recovery key
is right, short, too long, has a bad group, one too large, or a letter.

The jobs of `main` are apart, since its parts meet in nothing but the records: a catalog
has one to four blocks, comes back or leaves the disk, and its stores have copies of the
same clusters by range and by descriptor; a journal has fragments with each way of ending, over a channel that is never, sometimes
and always full; a bitmap has runs side by side, apart, backwards, before the volume, off the disk, of no
length, and holes, and with more than one sector to a cluster the same runs lie elsewhere than the
code looks; signatures have a common beginning, an equal pair, one that is overwritten and an empty one;
and the two record lists have a root, none, orphans with children, and a cycle. The
graph of these behaviours has no cycle, and the run checks deadlock: each ends in
`done`, `panic` or `hang`.

`EntriesExact` and `PathOfALink` say exactly when the files of a tree are what the
disk holds: items are lost where an inode is split over two inner nodes, and a
path is true only where every directory is older than what it holds and the links
of a file have one name. `Termination` adds that a sound volume on an
image is loaded unless the runtime notices the race on the map of trees.

What the `disk` run says of the code is sharper than "partitions are
independent", which is false: `LostBehindUnlocked` and `ReadsBack` state exactly
when an unlocked volume hides the ones behind it, namely whenever it starts below
them, and `UnlockedExactly` when a volume is unlocked: credentials that open one of its
protectors do not suffice where another protector comes first.

`NoDanglingLinks` says how often a record is linked: once for every entry of the lists
that name it, so a record with several attributes is linked several times, and its
contents are then exported several times over.

Deadlock is checked in every run of a concurrent part; there, a finished or
panicked program stutters (`Returned`). `Disk` is sequential and ends, so its
runs do not check deadlock; it claims no liveness. Elsewhere fairness is `WF_vars(Next)`: as long as some goroutine can run,
one does. That is what the Go scheduler guarantees at the least; no property
needs a particular goroutine to be preferred, since every behaviour is finite.

## 4. Proofs

`MFTTableProofs` proves `SlotOwner`, `LoadExact` and `CounterBounds` for every
number of slots, area and selection. The properties are not inductive: that a
record alone at its entry is in the table at the end needs to know where every
goroutine is. `LoadInv` adds to them

* `LoadType`: the ranges of the variables that loading touches,
* `Placement`: a goroutine about to store has a record that belongs to the
  table, one about to count has a refused one, and all are through once loaded,
* `Kept`: from the moment its goroutine has stored it, a record that is alone at
  its entry is there (this is where the two steps of a store matter),
* `Counter`: neither the counter nor any goroutine's copy of it exceeds the
  number of goroutines that are through with a refused record.

It goes on from there to the end of `NTFS.Process` and proves the type
invariant, `NoDanglingLinks`, `OwnListKept` and `SizesExact`, for every volume, selection
and number of workers. `PoolInv` adds to `LoadInv` the ranges of everything the pools
touch (`WorkType`), that a pool outside its phase has no work left (`Idle`), and what
links and parents are from the moment they are made (`Linking`). The other three
invariants each say where a thing to be delivered can be while a pool runs: an attribute
that is `Pending` belongs to a record in the channel, or to one whose worker has not
passed it.

* `IndexInv`: whatever a buffer or an index record in memory holds, an index entry on the
  volume said (`Buffers`; a stale block is a block of another attribute, never noise), and
  a readable index is pending or in memory (`IndexRead`);
* `SizesInv`: every size that is stored, or about to be, is one of an entry for that file
  (`Writes`), and a file that a folder lists has both sizes, or they are among the writes
  of the folder's worker, or the folder is in the channel (`Delivered`). The two stores
  of a size are separate steps, so this is stated for each of them;
* `ListsInv`: a readable list is pending, or its references are in the record
  (`ListsRead`), behind those of the record itself.

`OwnListKept` has the hypothesis that no buffer has reached 64 KiB, since the parser
counts in 16 bits and a full buffer wraps to an empty one; it promises the place of a
list only where a record has one, since several are read in the order of the attributes.

`CarveProofs` proves type correctness, `NoSendAfterClose`, `PartsSound`, `PartsComplete` and the
refinement of `CarveAbs` for every disk, capacity, chunk size and number of
workers. Its invariant `IInv` says where each candidate can be: sent candidates
are exactly those before `pos`, each of them at one place only (in `ch`, held by
a worker, in `out` or in `carved`: `Once`, `Sound`), and each target before
`pos` is somewhere (`Complete`); `Chunks` relates the position to the chunks
read, `Closing` the two closed channels to the places that are then empty, and
`Rebuilding` the map and its remaining keys to the carved records. Each step of
the detailed system is then a step of the abstract one (`Collect` of a record
named `$MFT`, `ReduceByLSN`) or leaves its variables alone. `PartsComplete` needs one
part more, `Rebuilt`: a key that has left the map has its table, so that none is left
out when the keys are used up, whatever order they are taken in.

`ExportProofs` proves type correctness, `FilesWhole`, `ExportComplete`,
`HashOfOwnContent`, `PanicOnlyOnOverrun` and `RunsExported` for all jobs, options and
disks. What is in the buffer of a file does not matter to the first four; where a result
is does, and so `IInv` relates the history `sent` to everything else:

* `Position`, `Opened`: where the loop and the producer are, and that a file that is
  open is one,
* `Ordered`: results are files of partitions the loop has taken, in the order of the
  records, those of the partition at hand last,
* `AllSent`: every file the producer has passed is in `sent`,
* `Queue`: the channel is the end of `sent`, and what the consumer holds is the result
  before it,
* `Files`: a path has the content of the last result written there, and nothing while
  the consumer is between removing and writing; and `Standing`, below,
* `Hashed`: `HashOfOwnContent` itself.

`Standing` says what is there, the file that is about to be written included (`Present`).
Files and directories are a `Tree`: all that is above one of them is a directory, and no
path is both. Each path that the consumer has come to is `Settled`: there is its file, or
a file above it, or a directory in its place with something in it. And a directory is on
the way to a result that was sent. The difficulty is that a later result may undo what an
earlier one met, since it makes directories and removes files and empty directories.
`Cleared` shows that it does not: making the directories of a path and removing what is
at it (`Made`, `Emptied`, `Rewritten`) leaves a tree, with the file if it can be written,
and whatever was settled is. A file that is removed leaves its path to be settled by its
successor, a directory with something in it is not removed (`ChildOf`), and of two files
above one path one would be above the other (`Comparable`).

When all is written (`AllWritten`) `Files` speaks of all of `sent`. A hash is then of
the last result at its path; by `Ordered` that one is of the same partition as the file
that is hashed, which by `AllSent` was sent, and by its number and name it is that file
(`HashedIsSent`). This is where it matters that hashing waits for the consumer and comes
before the next partition.

The other two are about reading, one step of `LocateData` at a time. `Bounded` says of the
place `loc` where it is: the units read so far are at most those of the runs passed
(`RunsBound`), or exactly those of the groups passed or the end of the disk has been met
(`GroupsBound`), and the buffer has the size of the file rounded up to sectors. A slice
that leaves the buffer then needs runs or extents past it, which is `PanicOnlyOnOverrun`.
`ContentRead` says what the buffer holds. For an NTFS file (`RunsRead`) every unit of a run
passed is what the disk holds there, unless the run was taken for a hole or the unit
is in the middle of a decrypted read; it needs that the sums over the runs, the relative
offsets and the room left agree, clamped at the end (`RunUnit`, `UnitOf`). For a BTRFS
file (`ExtentsRead`) every group passed is what lies behind its first extent. That this
is the file exactly if no extent is `Awkward` is shown about the sorted extents alone:
a sequence of sound extents is `Apart`, so a unit has at most one; without an awkward
one, those before a unit leave no gap and chain from the head of their group
(`NoneAwkward`), and the first awkward extent shows a unit that differs (`FirstAwkward`).

This proof found two places where `Sound`, the precondition of the BTRFS half, admitted
files it should not: a hole whose length is the address of the next extent is joined
to it and read as zeros, and a hole that a chunk seems to place behind the end of the disk
ends the file. Both are what the code does (`FS/BTRFS/filedirentry.go:99`,
`FS/adapter.go:159`): the first can happen to a file with a hole as long as the volume's
lowest addresses are, the second on a disk that is cut off. `Sound` now leaves them out, so
of such files the theorem says their length only, and `MCExport` has jobs with a chunk at
address 0 on either side of the end.

`BtrfsProofs` proves type correctness and that the two goroutines of a tree amount to
one loop, for all volumes, any number of trees and any capacity of the channels. What
a tree has got so far (`Got`) is what was collected, what is in the channel and what is
about to be sent, one behind the other. `DescentIsSequential` says that each step either
visits the next node of a tree, and puts a leaf at the end of that, or leaves it alone:
sending and receiving only move leaves from one part to the next. A visit is of the node
the parent points to, unless several descents share a file pointer, which is where
`btrfs_drive` finds leaves lost. `LoadedTreesAreWhole` says that a loaded tree is what its
descent has got when there was nothing left to visit. `IInv` says of each tree by itself
what holds where its goroutines are (`Stage`), what they have in hand (`Held`) and, for
an undisturbed one, that it reads where it has sought (`Aim`); `OnlyIInv` is the step
of one tree that leaves the others alone. That the order so given is the one of
`InOrder`, which sums over the ways down a tree, stays with TLC (`LeavesExact`).

`DiskProofs` proves, for every disk and command line, type correctness,
`HandlerIsUnlocks`, `RecordsTrue`, `LostBehindUnlocked`, `ReadsBack` and
`SoundDiskNeverPanics`. The first three rest on `IInv`, which says what a volume object
knows on the way to the end:

* `Partitions`: every partition is well formed, and one outside an extended
  table holds only what was read at its own place (`Own`): its header, its RAID
  offset, its metadata and its records. This is what carries the proof: a read
  returns what the disk holds at that sector, noise or nothing (`ReadCases`), so
  whatever the handler has become, a header that parses is the header of this
  partition.
* `Turn`: partitions from `cur` on have no volume yet, and the one at `cur` has
  one while it is processed or decrypted.
* `Reported`: what main keeps is what the partitions hold.
* `HandlerIsUnlocks`: the layers are those of the unlocked volumes.

The other three say exactly what a read through these layers gives, and need to know
which layers there were when a partition had its turn. `ReadInv` adds to `IInv`

* `OneScheme`: the table is one of GPT or one of MBR, and only the former unlocks;
* `Located`: a partition the loop has tried has a volume exactly if its header, where
  the program can recognise it, does not lie behind a volume unlocked before;
* `RecordsRead`: records in memory were read through a handler that is the present one
  without the layers of later partitions (`ReadOnce`, `Splits`). A layer pushed on top
  either starts above the sector, and is not passed, or spoils it for good, since a
  sector is written through one sequence of layers only;
* `Loads`: on a sound disk an LVM volume has its data area, and has loaded once processed;
* `Finished`: what main was given in the end.

`SoundDiskNeverPanics` follows step by step (`LocateSurvives`, `ProcessSurvives`,
`DecryptSurvives`): a sector a sound partition needs is its own (`Owns`), so no layer
of another partition starts between the two, and it reads whole or, behind a volume
unlocked below, not at all, in which case nothing is located that could be processed.
A partition that is locked itself is no volume to the program until it is unlocked.

`DiskAssumption` says that the parsers return typed structures and that the
offsets of superblocks are positive.

`MainProofs` proves `JournalExact` and the part of `TypeOK` that is about the journal, for
all evidence, numbers of cells and capacities. Three goroutines pass on what the runs of a
journal hold, and the order of their steps is free; what is invariant is the whole. Say
`LeftOf` for what is still to be found: the rest of the fragment that is scanned, then the
fragments in the channel, those `AsyncWorker` has not sent, and the journals not begun.
`JournalInv` says

* `ExactNow`: what is found, followed by `LeftOf`, is what the partitions taken so far hold,
  in an order of them. A step moves a fragment or a record from one part to the one before
  it (`SendFlow`, `TakeFlow`, `ScanFlow`), and only the scan looks into a fragment;
* `ExactThen`: the same of what `main` keeps when a call has returned, when nothing is left;
* `Well`: the scan stands at a `Boundary`, never inside a record. From there the next
  position that fits is that of the next true record, and if there is none no record is
  left (`ScanStep`), so passing by what does not fit loses nothing;
* `Shape`: the two goroutines run together, for a journal that is left, and an ended one
  leaves the channel empty, so that the next journal does not get its fragments;
* `Kinds`, `Bounded`: the ranges, and the capacity of the channel.

`JournalExact` has the hypothesis that fragments are those of a journal (`Formed`): each
record lies in one cluster, and nothing between them has a length that fits one. `EvidenceAssumption` says
that the evidence is typed and that a tree is shown only if one is built, as the flags of
the command line demand; it bounds no size.

`TreeExact` and the part of `TypeOK` that is about the selection rest on a second
invariant, `SelectionInv`, which the journal, the log and the rest of main leave alone
(`AsideSelection`):

* `SelectedType`: the partitions that were selected are different ones, each with records
  of its own. That filters only leave records they were given is shown along the filters
  (`ExecuteType`, `StagesAre`);
* `Grown`: the tree has the root and the orphans of the first `Added` partitions, which is
  one less while the last is waiting to be reported: `Build` comes after the journal has
  been looked through again;
* `Begun` and `Printed`: nothing is selected before the loop, and what is printed is `Show`
  of the tree there is.

A partition added to the tree changes root and orphans as `AddOne` says. That `Show` then
prints what `TreeExact` says is a fact about one set of nodes: what `descend` reaches level
by level from entry 5 are the nodes from which one comes up to entry 5
(`ReachedIsBelow`). A node is on one of the first k levels exactly if k steps up lead to
entry 5, for which a step is taken from the other end of the way (`ClimbShift`); cycles
and parents that are no nodes need no case of their own.

`ShadowExact` and the part of `TypeOK` that is about the shadow copies rest on
`ShadowInv`: there is a way through the blocks of the catalog, each next to the one before
and none of them twice (`Way`, `Walked`), to the block that is read next, and what was
listed and the catalogs made of it are those of the blocks on it (`WalkOn`). At a block
with no next one the way is the whole chain (`ChainIs`), since a way through different
blocks is no longer than there are blocks. `InOrder` says that main waits for the stores
and that what is printed of the clusters is looked up in them: the first answer is a copy
of the first store that has one (`FirstAnswerIs`), and a store answers with exactly the
copies it has, counted in clusters (`AnswersAre`, `InClusters`). The proof needs that ranges
begin where clusters do, which `ClustersExact` did not say before; `MCMain` has a store
where the answer is another one without it. `ShadowAssumption` says that a volume has
finitely many catalog blocks and that entries, ranges and descriptors are typed lists, each
store entry having a store.

`SelectionExact` rests on `SelectionInv` and `ChosenInv`: the filters are always those of the
command line followed by one for each partition selected so far, and what was selected is
exact. Selections are counted. A filter has a record once for every key that selects it,
so all of them have it as often as the product of that (`CountExecute`, `CountApply`), and
the filters by signatures multiply by 1 or by 0 (`ProductGoesOn`); hence every partition
shows a record as often as the command line says or not at all. The tree of signatures
is followed row by row (`Planted`): a node is terminal exactly if a signature ends there,
none goes on behind it and it is not the root, whatever the order of the rows. The beginnings
of a header that are terminal are then the signatures of its `Owners`, and
`FindSignature` gives one of these (`OwnerFound`). The proof needs that the empty
signature has no owner; the definition did not say so before. `SelectionAssumption` says that
signatures and headers are lists of bytes, that every extension can be lowered, and that none
is `Unknown Extension`, with which the program says that it found nothing.

`OptionProofs` proves `LogFileExact` and the part of `TypeOK` that is about the log, along
`LogInv`. `LogTyped` has the ranges and, of the logs of the partition, that those begun and
those left make up all of them. `LogRead` is about logs that are sound (`SoundLog`), any
number of them and of any sizes, that share one buffer:

* `Layered`: the buffer is as long as the longest log so far, and a page of a log is in it
  from the end of every later log on, as it was written or with its update sequence undone
  (`ReadLayered`, `UndoneLayered`);
* `InPages`: main stands at a page n with n - 2 a multiple of the step, and has of the log
  the pages it looks at among the first n. Where n is behind the end the log did not
  overrun.

From there the next page is the last of a step (`LookedAtLast`). In the log it is parsed if
it is a record page and never ends the program (`PageWithin`); behind its end it is the page
`Behind` says (`BehindIs`), what is there is of the last of the longer logs before, and main
ends exactly if the log `Overruns` (`PageBehind`). `LogFileAssumption` says that what is read
of a log is a list of cells.

`OptionProofs` also proves `UnallocatedExact`, in three parts:

* `ContentIs`: `GetContent` of `$Bitmap` is what `BitmapBy` says run by run, for readers with
  and without a `limit`. The loop over the runs is at a number n of runs of which the first
  m have been read and the others wait to be read at once, side by side (`Waits`); or a run
  could not be read, and what it has is what comes before the runs that it was to be read
  with (`Stopped`, `Cut`). The bits are bits (`BitsType`), so the free clusters are those of
  the reference and have a last one (`FreeIs`);
* `BlocksAre`: the blocks, read one after the other, are the sectors of the free clusters in
  order, but for a run of them whose read is refused. By induction over the clusters: what
  is read of the blocks that begin before x is what there is up to x and what is `Sent` of
  the run that x lies in, which is the sectors of x and what is sent of the run behind it
  (`SentOn`). Of a run all clusters are read or none (`ReadableIs`), and clusters of any size
  have their sectors one behind the other, cut off where the disk ends (`ClustersGoOn`);
* `UnallocInv`: what is written, what main holds, the blocks left of the partition and those of
  the partitions left are together all there is to write, and main goes on only when nothing
  is left. Nothing of it is in the file where it cannot be opened (`Saved`).

`UnallocatedAssumption` says that a disk with an NTFS volume has a sector, that sectors hold
bits, that a volume begins somewhere, that the runs of `$Bitmap` are a list with lengths that
are not negative, that what was in the file is a list, and that a reader shortens reads or
does not and the file can be opened or not.

`TypeOK` of `Main` is proved of its parts: the phases and the journal from `JournalInv`, and the
rest from `LogInv`, `ShadowInv`, `UnallocInv` and `SelectionInv`.

The assumptions are those the modules state: an area's first slot is a sane
record, pools are not empty, capacities are positive, a chunk is a whole number
of records, and the items of a BTRFS leaf are a list whose chunk items hold chunks.

`SequenceProofs` is the toolkit: what `Keep` keeps of a concatenation, the ranges of
flattened sequences, least and greatest numbers of finite sets, and `Recursion`, which
shows from induction over a set (`SetInduction`) that a recursive function exists and
obeys its equations. `FlatMap` is for what comes of each element of a sequence, one after
the other. Recursive definitions that theorems speak of are therefore written
as functions on an interval of numbers.

Model-checked only: liveness, which is beyond the prover; `UnlockedExactly` of `Disk`;
and `LeavesExact`, `EntriesExact` and `PathOfALink` of `BtrfsTrees`,
whose reference definitions walk the trees. All that the run `main` checks is proved.

## 5. Findings

Six statements of the repository are not what the code does; each has a run
that shows it: `mft_zero` (`FS/NTFS/MFT/MFT.go:785`), `mft_info`
(`FS/NTFS/MFT/MFT.go:76`), `export_resident` (`README.md:8`), `export_hash`
(`README.md:72`), `disk_mbr` (`README.md:12`) and `btrfs_drive` (`README.md:15`). `PROJECT.json` quotes them.

## 6. Not modelled

The arithmetic of AES-CCM and AES-XTS and the rounds of key stretching (`Bitlocker` has
which key is made of what and what it opens), the log records of `$LogFile`
behind the header of a page (the code drops them), display-only attributes and the display of shadow copies, the parsing of
LVM2 and RAID headers (`Disk` has what follows from them), the branches of `main` that
take a volume instead of a disk, reporter and logger, and the readers beyond what a short
read returns. `BtrfsTrees` takes it that every directory entry has its `INODE_ITEM`:
without one `Update` ends the program.
`CarveRecords`, `CarveRecordsCH` and `SetFilesToLogicalSize` have no caller that
uses them.

## 7. Plan

In this order:

1. Proofs: `LeavesExact` along `DescentIsSequential`; `UnlockedExactly`.
2. Records of BTRFS in `Selection`.
