-------------------------------- MODULE Disk ---------------------------------
(***************************************************************************)
(* From a disk image to the records of its volumes: the partition tables,  *)
(* the volume in each partition, BitLocker, and the one reader that all of *)
(* them share (disk/disk.go, disk/partition, disk/volume/bitlocker.go,     *)
(* readers/reader_decrypting.go).  Module Bitlocker has the metadata.      *)
(*                                                                         *)
(* A sector is [enc, data]: its data and the layer it is encrypted under,  *)
(* <<>> or <<layer>>.  A layer is a key and the sector where the numbering *)
(* of its tweaks starts; undoing one that was not applied makes noise.     *)
(* Structures take one sector, offsets count sectors.                      *)
(***************************************************************************)
EXTENDS Bitlocker, SubSequences

CONSTANTS
  Images,       \* disks: [size, sectors], sectors a function of sector numbers
  Args,         \* command lines: [partition, password, recovery], the last in groups
  SuperblockAt, \* OFFSET_TO_SUPERBLOCK
  RaidAt        \* where a RAID member keeps its superblock

\* The partition types of an MBR and of a GPT that the code tells apart.
Types(scheme) ==
  IF scheme = "gpt" THEN {"basic", "raid", "other"}
  ELSE {"ntfs", "linux", "extended", "protective", "other"}

Entries(scheme) == [type : Types(scheme), start : Nat]
Layers  == [key : STRING, start : Nat]

\* What the parsers of the structures on a disk return.
WellTyped(d) ==
  /\ d.kind \notin {"noise", "unreadable"}
  /\ d.kind \in {"mbr", "gpt"} => d.entries \in Seq(Entries(d.kind))
  /\ d.kind \in {"ntfs", "btrfs"} => d.root \in Nat
  /\ d.kind = "raid" => d.offset \in Nat
  /\ d.kind = "lvm" => d.area \in Nat
  /\ d.kind = "fve" => d.copies \in Seq(Nat)
  /\ d.kind = "meta" => d.key \in STRING /\ d.header \in Nat

ASSUME DiskAssumption ==
  /\ SuperblockAt \in Nat \ {0} /\ RaidAt \in Nat \ {0}
  /\ \A i \in Images : /\ i.size \in Nat \ {0} /\ DOMAIN i.sectors \subseteq 0 .. i.size - 1
                       /\ \A s \in DOMAIN i.sectors : /\ WellTyped(i.sectors[s].data)
                                                     /\ i.sectors[s].enc \in Seq(Layers)
  /\ Args \subseteq [partition : Nat, password : STRING, recovery : Seq(Int)]

VARIABLES
  img, args,    \* the disk, the command line
  phase,        \* what runs next; "panic" when the program has crashed
  err,          \* the error DiscoverPartitions returned
  parts,        \* disk.Partitions
  cur,          \* the partition of the loop in ProcessPartitions
  handler,      \* disk.Handler: the decrypting layers, nearest the disk first
  report        \* recordsPerPartition in main: partitions to file systems

vars == <<img, args, phase, err, parts, cur, handler, report>>

-----------------------------------------------------------------------------
(* Reading *)

Blank      == [kind |-> "blank"]
\* What a sector decrypts to under keys that are not those it was encrypted with.
Noise      == [kind |-> "noise"]
Unreadable == [kind |-> "unreadable"]

Sector(s) == IF s \in DOMAIN img.sectors THEN img.sectors[s] ELSE [enc |-> <<>>, data |-> Blank]

\* Mutation: no test for reads before the partition.
MutPassedAll(h, s) == h

\* ReadFile passes the layers from the disk up; a layer leaves alone what lies
\* before its partition and decrypts everything after it.
Passed(h, s) == Keep(h, {l \in Layers : l.start <= s})

ReadFile(h, s) ==
  IF s >= img.size THEN Unreadable
  ELSE IF Passed(h, s) = Sector(s).enc THEN Sector(s).data ELSE Noise

-----------------------------------------------------------------------------
(* Partitions and volumes *)

NoVolume == [kind |-> "none"]

\* A volume object: at and copies are where its header says that its tree and the
\* BitLocker metadata lie, blocks that metadata, fs the file systems whose records
\* it holds.
NewVolume(kind, at, copies) ==
  [kind |-> kind, at |-> at, copies |-> copies, blocks |-> <<>>, ready |-> FALSE,
   inner |-> FALSE, loaded |-> FALSE, fs |-> {}]

NewPartition(scheme, table, entry) ==
  [scheme |-> scheme, type |-> entry.type, start |-> entry.start, table |-> table,
   raid |-> 0, vol |-> NoVolume]

\* Entries of a table read from the disk; any other sector has none.
TableOf(scheme, data) == IF data.kind = scheme THEN data.entries ELSE <<>>

PartitionsOf(scheme, table, entries) ==
  [n \in 1 .. Len(entries) |-> NewPartition(scheme, table, entries[n])]

ExtendedEntries(entries) == Keep(entries, {e \in Entries("mbr") : e.type = "extended"})

\* Mutation: the data offset of a RAID member is left out.
MutOffsetNoRaid(p) == p.start + p.table

GetOffset(p) == p.start + p.table + p.raid

\* MBR: what a partition holds goes by its type and the signature at its start,
\* which for an extended partition is read without the offset of its table.
\* A BitLocker volume gets no header here.
LocateMBR(p, h) ==
  LET boot == ReadFile(h, p.start)
      sb   == ReadFile(h, p.start + SuperblockAt)
  IN IF p.type = "ntfs" /\ boot.kind = "fve" THEN NewVolume("fve", 0, <<>>)
     ELSE IF p.type = "ntfs" /\ boot.kind = "ntfs" THEN NewVolume("ntfs", boot.root, <<>>)
     ELSE IF p.type = "linux" /\ sb.kind = "btrfs" THEN NewVolume("btrfs", sb.root, <<>>)
     ELSE NoVolume

\* GPT: the partition with its volume, and with the data offset of its RAID.
LocateGPT(p, h) ==
  LET boot == ReadFile(h, p.start)
      raid == ReadFile(h, p.start + RaidAt)
      lvm  == ReadFile(h, p.start + raid.offset)
  IN IF p.type = "basic" /\ boot.kind = "ntfs"
     THEN [p EXCEPT !.vol = NewVolume("ntfs", boot.root, <<>>)]
     ELSE IF p.type = "basic" /\ boot.kind = "fve"
     THEN [p EXCEPT !.vol = NewVolume("fve", 0, boot.copies)]
     ELSE IF p.type = "raid" /\ raid.kind = "raid"
     THEN [p EXCEPT !.raid = raid.offset,
                    !.vol = NewVolume("lvm", IF lvm.kind = "lvm" THEN lvm.area ELSE 0, <<>>)]
     ELSE p

\* Reads whose bytes are sliced without a look at their length.
LocatePanics(p, h) ==
  LET raid == ReadFile(h, p.start + RaidAt)
  IN \/ p.type = "linux" /\ ReadFile(h, p.start + SuperblockAt) = Unreadable
     \/ p.type = "basic" /\ ReadFile(h, p.start) = Unreadable
     \/ p.type = "raid" /\ raid = Unreadable
     \/ p.type = "raid" /\ raid.kind = "raid" /\ ReadFile(h, p.start + raid.offset) = Unreadable

LocateVolume(p, h) ==
  IF p.scheme = "gpt" THEN LocateGPT(p, h) ELSE [p EXCEPT !.vol = LocateMBR(p, h)]

-----------------------------------------------------------------------------
(* Volumes read their file system through the handler they are given *)

Loaded(v, tree) == [v EXCEPT !.loaded = TRUE, !.fs = IF tree.kind = "fs" THEN {tree.id} ELSE {}]

\* NTFS and BTRFS read their tree; an LVM volume looks for BTRFS in its first area.
Superblock(p, h) == ReadFile(h, GetOffset(p) + p.vol.at + SuperblockAt)

NoFS(p, h) == p.vol.kind = "lvm" /\ Superblock(p, h).kind # "btrfs"

Tree(p, h) ==
  LET base == GetOffset(p) + p.vol.at
  IN ReadFile(h, IF p.vol.kind = "lvm" THEN base + Superblock(p, h).root ELSE base)

ProcessFS(p, h) == IF NoFS(p, h) THEN p.vol ELSE Loaded(p.vol, Tree(p, h))

\* The first record of an $MFT and the first data area are used unseen, and BTRFS
\* without its root tree ends the program (log.Fatal).
ProcessPanics(p, h) ==
  \/ p.vol.kind = "ntfs" /\ Tree(p, h).kind # "fs"
  \/ p.vol.kind = "lvm" /\ (p.vol.at = 0 \/ Superblock(p, h) = Unreadable)
  \/ p.vol.kind \in {"btrfs", "lvm"} /\ ~NoFS(p, h) /\ Tree(p, h).kind = "noroot"

\* Every copy of the metadata is read; the first bad one ends it with an error.
GoodCopies(p, h) ==
  LET copy(n) == ReadFile(h, GetOffset(p) + p.vol.copies[n])
      good    == {n \in DOMAIN p.vol.copies : \A m \in 1 .. n : copy(m).kind = "meta" /\ Parses(copy(m))}
  IN [n \in good |-> copy(n)]

ProcessBitlocker(p, h) ==
  LET blocks == GoodCopies(p, h)
  IN [p.vol EXCEPT !.blocks = blocks, !.ready = Len(blocks) = Len(p.vol.copies)]

ProcessVolume(p, h) ==
  IF p.vol.kind = "fve" THEN ProcessBitlocker(p, h) ELSE ProcessFS(p, h)

-----------------------------------------------------------------------------
(* Unlocking *)

\* What Decrypt is called with: nothing where nothing is required.
Credentials(blocks) ==
  IF RequiresCredentials(blocks) THEN args ELSE [args EXCEPT !.password = "", !.recovery = <<>>]

NewLayer(p) == [key |-> p.vol.blocks[1].key, start |-> GetOffset(p)]

\* Decrypt gets as far as asking for a reader: it has a key and a handler.
HasKey(p) == DecryptFVEK(p.vol.blocks, Credentials(p.vol.blocks)) /\ p.vol.ready

\* The cipher is one the reader undoes; metadata of version 3 has none where it is
\* looked for.  The diffuser passes for plain CBC and is undone to noise, which ends in
\* the error of an unknown cipher.
HasReader(p) ==
  /\ HasKey(p)
  /\ p.vol.blocks[1].version # 3 /\ p.vol.blocks[1].method \in {"xts", "cbc"}

InnerHeader(p, h) == ReadFile(Append(h, NewLayer(p)), GetOffset(p) + p.vol.blocks[1].header)

\* Only NTFS is recognised: BTRFS is looked for at the first sector.
DetectInner(p, h) == HasReader(p) /\ InnerHeader(p, h).kind = "ntfs"

\* Mutation: the inner volume is processed at offset 0.
MutInnerTreeAtZero(p, h) == ReadFile(Append(h, NewLayer(p)), InnerHeader(p, h).root)

InnerTree(p, h) ==
  ReadFile(Append(h, NewLayer(p)), GetOffset(p) + InnerHeader(p, h).root)

\* Mutation: the reader is taken although Decrypt failed, or never taken.
MutHandlerOnError(p, h) == IF HasReader(p) THEN Append(h, NewLayer(p)) ELSE h
MutHandlerKept(p, h) == h

\* An unlocked volume's reader replaces the reader of the disk.
HandlerAfter(p, h) == IF DetectInner(p, h) THEN Append(h, NewLayer(p)) ELSE h

Decrypted(p, h) == [p.vol EXCEPT !.inner = TRUE, !.fs = {InnerTree(p, h).id}]

DecryptPanics(p, h) ==
  \/ RecoveryPanics(p.vol.blocks, Credentials(p.vol.blocks))
  \/ HasKey(p) /\ p.vol.blocks[1].version = 3
  \/ DetectInner(p, h) /\ InnerTree(p, h).kind # "fs"

\* ProcessPartitions calls Decrypt.
TriesDecrypt(p) ==
  /\ p.vol.kind = "fve"
  /\ RequiresCredentials(p.vol.blocks) => args.password # "" \/ args.recovery # <<>>

-----------------------------------------------------------------------------
(* The program *)

Init ==
  /\ img \in Images /\ args \in Args
  /\ phase = "mbr" /\ err = "" /\ parts = <<>> /\ cur = 1
  /\ handler = <<>> /\ report = <<>>

Panic == phase' = "panic" /\ UNCHANGED <<img, args, err, parts, cur, handler, report>>

FirstSector == ReadFile(handler, 0)
Extended    == ExtendedEntries(TableOf("mbr", FirstSector))
ExtendedTable ==
  IF Extended = <<>> THEN Blank ELSE ReadFile(handler, Extended[1].start)

\* A boot sector of NTFS instead of a table: a pseudo table with one partition.
PseudoMBR ==
  /\ phase = "mbr" /\ FirstSector.kind = "ntfs"
  /\ err' = "ntfs volume" /\ phase' = "locate"
  /\ parts' = PartitionsOf("mbr", 0, <<[type |-> "ntfs", start |-> 0]>>)
  /\ UNCHANGED <<img, args, cur, handler, report>>

\* The extended table is read before the signature is looked at, and the first
\* partition is taken for granted.
TablePanics ==
  /\ phase = "mbr" /\ FirstSector.kind # "ntfs"
  /\ \/ ExtendedTable = Unreadable
     \/ FirstSector.kind = "mbr" /\ FirstSector.valid /\ TableOf("mbr", FirstSector) = <<>>
  /\ Panic

InvalidMBR ==
  /\ phase = "mbr" /\ FirstSector.kind # "ntfs" /\ ExtendedTable # Unreadable
  /\ FirstSector.kind = "mbr" => ~FirstSector.valid
  /\ err' = "mbr not valid" /\ phase' = "locate"
  /\ UNCHANGED <<img, args, parts, cur, handler, report>>

ValidMBR ==
  /\ phase = "mbr" /\ FirstSector.kind = "mbr" /\ FirstSector.valid
  /\ TableOf("mbr", FirstSector) # <<>> /\ ExtendedTable # Unreadable
  /\ IF TableOf("mbr", FirstSector)[1].type = "protective"
     THEN phase' = "gpt" /\ UNCHANGED parts
     ELSE /\ phase' = "locate"
          /\ parts' = PartitionsOf("mbr", 0, TableOf("mbr", FirstSector))
                       \o (IF Extended = <<>> THEN <<>>
                           ELSE PartitionsOf("mbr", Extended[1].start, TableOf("mbr", ExtendedTable)))
  /\ UNCHANGED <<img, args, err, cur, handler, report>>

PopulateGPT ==
  /\ phase = "gpt"
  /\ parts' = PartitionsOf("gpt", 0, TableOf("gpt", ReadFile(handler, 1)))
  /\ phase' = "locate"
  /\ UNCHANGED <<img, args, err, cur, handler, report>>

Selected(n) == args.partition \in {0, n}

\* Mutation: the loop has no end.
MutSkipPast ==
  /\ phase = "locate" /\ ~Selected(cur)
  /\ cur' = cur + 1
  /\ UNCHANGED <<img, args, phase, err, parts, handler, report>>

\* The loop of ProcessPartitions: locate, process, decrypt, partition by partition.
Skip ==
  /\ phase = "locate" /\ cur <= Len(parts) /\ ~Selected(cur)
  /\ cur' = cur + 1
  /\ UNCHANGED <<img, args, phase, err, parts, handler, report>>

Locate ==
  /\ phase = "locate" /\ cur <= Len(parts) /\ Selected(cur)
  /\ IF LocatePanics(parts[cur], handler) THEN Panic
     ELSE LET p == LocateVolume(parts[cur], handler)
          IN /\ parts' = [parts EXCEPT ![cur] = p]
             /\ IF p.vol = NoVolume THEN cur' = cur + 1 /\ UNCHANGED phase
                ELSE phase' = "process" /\ UNCHANGED cur
             /\ UNCHANGED <<img, args, err, handler, report>>

\* What Process returns is dropped: a volume that failed stays in the table.
Process ==
  /\ phase = "process"
  /\ IF ProcessPanics(parts[cur], handler) THEN Panic
     ELSE /\ parts' = [parts EXCEPT ![cur].vol = ProcessVolume(parts[cur], handler)]
          /\ phase' = "decrypt"
          /\ UNCHANGED <<img, args, err, cur, handler, report>>

Decrypt ==
  /\ phase = "decrypt"
  /\ LET p == parts[cur]
     IN IF TriesDecrypt(p) /\ DecryptPanics(p, handler) THEN Panic
        ELSE /\ IF TriesDecrypt(p) /\ DetectInner(p, handler)
                THEN parts' = [parts EXCEPT ![cur].vol = Decrypted(p, handler)]
                ELSE UNCHANGED parts
             /\ handler' = IF TriesDecrypt(p) THEN HandlerAfter(p, handler) ELSE handler
             /\ phase' = "locate" /\ cur' = cur + 1
             /\ UNCHANGED <<img, args, err, report>>

\* GetFileSystemMetadata, and main, which stops at an error of Process.  An LVM
\* volume without BTRFS has nothing to ask for records.
Collect ==
  /\ phase = "locate" /\ cur > Len(parts)
  /\ LET located == {n \in DOMAIN parts : parts[n].vol # NoVolume}
     IN IF \E n \in located : parts[n].vol.kind = "lvm" /\ ~parts[n].vol.loaded THEN Panic
        ELSE /\ report' = IF err = "" THEN [n \in located |-> parts[n].vol.fs] ELSE <<>>
             /\ phase' = "done"
             /\ UNCHANGED <<img, args, err, parts, cur, handler>>

Next ==
  \/ PseudoMBR \/ TablePanics \/ InvalidMBR \/ ValidMBR \/ PopulateGPT
  \/ Skip \/ Locate \/ Process \/ Decrypt \/ Collect

Spec == Init /\ [][Next]_vars

-----------------------------------------------------------------------------
(* What the disk holds, whoever reads it *)

Data(s) == Sector(s).data

HoldsBitlocker(p) == p.type \in {"ntfs", "basic"} /\ Data(p.start).kind = "fve"

\* The sector that a partition of this type at sector s is recognised by, and the kinds
\* of volume that are found there.
HeaderAt(p, s) ==
  s + CASE p.type = "linux" -> SuperblockAt [] p.type = "raid" -> RaidAt [] OTHER -> 0

Recognised(p) ==
  CASE p.type \in {"ntfs", "basic"} -> {"ntfs", "fve"}
    [] p.type = "linux" -> {"btrfs"} [] p.type = "raid" -> {"raid"} [] OTHER -> {}

InClear(s) == Sector(s).enc = <<>>

\* The header of a volume is never encrypted.
SupportedAt(p, s) == InClear(HeaderAt(p, s)) /\ Data(HeaderAt(p, s)).kind \in Recognised(p)

Supported(p) == SupportedAt(p, p.start)

Meta(p) == Data(p.start + Data(p.start).copies[1])

\* Where the tree of the file system in a partition lies.
TreeAt(p) ==
  LET boot == Data(p.start)
      area == Data(p.start + RaidAt).offset
      base == p.start + area + Data(p.start + area).area
  IN CASE p.type \in {"ntfs", "basic"} /\ boot.kind = "ntfs" -> p.start + boot.root
       [] HoldsBitlocker(p) -> p.start + Data(p.start + Meta(p).header).root
       [] p.type = "linux"  -> p.start + Data(p.start + SuperblockAt).root
       [] p.type = "raid"   -> base + Data(base + SuperblockAt).root

Unlocked(n) == parts[n].vol.kind = "fve" /\ parts[n].vol.inner

\* One of these partitions was unlocked and starts at or before the sector.
UnlockedBelow(s, among) == \E m \in among : Unlocked(m) /\ parts[m].start <= s

-----------------------------------------------------------------------------
(* Properties *)

TypeOK ==
  /\ args \in Args
  /\ phase \in {"mbr", "gpt", "locate", "process", "decrypt", "done", "panic"}
  /\ err \in {"", "ntfs volume", "mbr not valid"}
  /\ cur \in 1 .. Len(parts) + 1
  /\ handler \in Seq(Layers)
  /\ DOMAIN report \subseteq DOMAIN parts

\* The reader of the disk decrypts for every unlocked volume, with the key of its
\* own metadata, and for no other (disk.Handler = dec.GetHandler(), disk.go:454).
HandlerIsUnlocks ==
  ToSet(handler) = {[key |-> Meta(parts[n]).key, start |-> parts[n].start] :
                      n \in {m \in DOMAIN parts : Unlocked(m)}}

\* Records reported for a partition were read where that partition keeps its own
\* file system: no layer, RAID offset or volume header leads to that of another.
\* Partitions of the extended table are located at the wrong sector (mbr.go:93).
RecordsTrue ==
  \A n \in DOMAIN report : parts[n].table = 0 /\ report[n] # {} =>
     Data(TreeAt(parts[n])).kind = "fs" /\ report[n] = {Data(TreeAt(parts[n])).id}

\* A partition the program supports is missing from what main works on exactly if
\* it was not asked for, the first sector is no table (the records are then
\* dropped, main.go:243), a partition unlocked before it starts below its header
\* (which is decrypted with the key of that one and looks like nothing), or it is in
\* the extended table, whose partitions are looked for as if they were numbered from
\* the start of the disk, and no volume lies there (ExtendedPartition.LocateVolume).
LostBehindUnlocked ==
  phase = "done" => \A n \in DOMAIN parts : SupportedAt(parts[n], parts[n].start + parts[n].table) =>
    (n \notin DOMAIN report <=> \/ ~Selected(n) \/ err # ""
                               \/ UnlockedBelow(HeaderAt(parts[n], parts[n].start), 1 .. n - 1)
                               \/ ~Supported(parts[n]))

\* What was loaded can be read again through the disk, as exporting does, exactly
\* if no partition that was unlocked later starts below it: the layers have no upper
\* end, and stay on the reader of the disk.
ReadsBack ==
  phase = "done" => \A n \in DOMAIN report : parts[n].table = 0 /\ report[n] # {} =>
    (ReadFile(handler, TreeAt(parts[n])).kind = "fs"
       <=> ~UnlockedBelow(TreeAt(parts[n]), n + 1 .. Len(parts)))

\* Eight groups are what was typed, up to a group that is missing or none: from there
\* on they are 0.
Typed(groups) ==
  LET rk == args.recovery
  IN \E n \in 0 .. 8 :
       /\ \A i \in 1 .. n : i \in DOMAIN rk /\ rk[i] = 11 * groups[i]
       /\ \A i \in n + 1 .. 8 : groups[i] = 0
       /\ n + 1 \in DOMAIN rk => n = 8 \/ rk[n + 1] % 11 # 0 \/ rk[n + 1] > 11 * 65535

\* A datum in a VMK that the credentials speak of, one they give the key for, and one
\* that is not understood.
Asked(s) ==
  \/ s.datum.type = "key" /\ s.clear
  \/ s.datum.type = "stretch" /\ s.datum.method = "password" /\ args.password # ""
  \/ s.datum.type = "stretch" /\ s.datum.method = "recovery" /\ args.recovery # <<>>

Unseals(s, under) ==
  /\ Asked(s)
  /\ CASE s.datum.type = "key"        -> under = ClearKey(s.datum.salt)
       [] s.datum.method = "password" -> under = PasswordKey(args.password, s.datum.salt)
       [] s.datum.method = "recovery" -> under = RecoveryKey(under.rk, s.datum.salt) /\ Typed(under.rk)

Strange(s) ==
  \/ s.datum.type = "key" /\ s.datum.method # "aes-ccm"
  \/ Asked(s) /\ s.datum.method = "recovery" /\ NoDigits(args.recovery)

\* The key of the volume is one of 32 bytes, sealed under this VMK, itself one of 32
\* bytes, and its method byte is the higher one.
KeyFits(meta, vmk) ==
  /\ vmk.size = 44
  /\ \E d \in ToSet(Datums(meta)) : /\ d.type = "sealed" /\ d.under = MasterKey(vmk.id)
                                    /\ d.holds.size = 44 /\ d.holds.low > vmk.low

\* The first sealed VMK behind a protector that the credentials speak of decides,
\* and it must be sealed with the last such protector before it, in its own VMK or not.
CredentialsFit(meta, steps) ==
  \E i, j \in DOMAIN steps :
    /\ i < j /\ steps[j].datum.type = "sealed"
    /\ Unseals(steps[i], steps[j].datum.under) /\ KeyFits(meta, steps[j].datum.holds)
    /\ \A k \in 1 .. j - 1 :
         /\ ~Strange(steps[k])
         /\ k > i => ~Asked(steps[k])
         /\ steps[k].datum.type = "sealed" => \A l \in 1 .. k : ~Asked(steps[l])

\* A BitLocker volume is unlocked exactly if it was found in a GPT, all copies of its
\* metadata are good, the cipher is known, NTFS is inside, credentials were given
\* unless the first VMK has a clear key, and they open the VMK that decides, which
\* has the way to the key of the volume (Volume.DecryptVMK, Decrypt, DecryptFVEK).
UnlockedExactly ==
  phase = "done" => \A n \in DOMAIN parts : HoldsBitlocker(parts[n]) /\ parts[n].table = 0 =>
    LET p      == parts[n]
        copies == Data(p.start).copies
        blocks == [c \in DOMAIN copies |-> Data(p.start + copies[c])]
    IN Unlocked(n) <=>
         /\ p.scheme = "gpt" /\ Selected(n) /\ ~UnlockedBelow(p.start, 1 .. n - 1)
         /\ copies # <<>>
         /\ \A c \in DOMAIN copies : blocks[c].kind = "meta" /\ Parses(blocks[c])
         /\ Meta(p).method \in {"xts", "cbc"}
         /\ Data(p.start + Meta(p).header).kind = "ntfs"
         /\ VMKs(blocks) # <<>>
         /\ VMKs(blocks)[1].clear \/ args.password # "" \/ args.recovery # <<>>
         /\ CredentialsFit(Meta(p), Steps(blocks))

\* A sector of a partition: no other one starts between.
Owns(p, s) ==
  p.start <= s /\ s < img.size /\ \A n \in DOMAIN parts : parts[n].start > p.start => parts[n].start > s

\* A sector of a volume that anybody can read.
Open(p, s) == Owns(p, s) /\ InClear(s)

\* A volume with what its code takes for granted: an $MFT, a root tree, a data area
\* with BTRFS in a RAID member, metadata of version 1.  A recovery key has at most
\* eight groups.
Whole(p) ==
  LET data == Data(HeaderAt(p, p.start))
      lvm  == p.start + data.offset
      area == lvm + Data(lvm).area
      meta == Meta(p)
  IN /\ Open(p, HeaderAt(p, p.start))
     /\ data.kind = "ntfs" => Open(p, TreeAt(p)) /\ Data(TreeAt(p)).kind = "fs"
     /\ data.kind = "btrfs" => Data(TreeAt(p)).kind # "noroot"
     /\ data.kind = "raid" =>
          /\ Open(p, lvm) /\ Data(lvm).kind = "lvm" /\ Data(lvm).area # 0
          /\ Open(p, area + SuperblockAt) /\ Data(area + SuperblockAt).kind = "btrfs"
          /\ Data(TreeAt(p)).kind # "noroot"
     /\ data.kind = "fve" => Len(args.recovery) <= 8
     /\ data.kind = "fve" /\ meta.kind = "meta" =>
          /\ meta.version # 3
          /\ Data(p.start + meta.header).kind = "ntfs" =>
               /\ Owns(p, p.start + meta.header) /\ Owns(p, TreeAt(p))
               /\ Sector(TreeAt(p)).enc = Sector(p.start + meta.header).enc
               /\ Data(TreeAt(p)).kind = "fs"

\* A partition that lies on the disk and is whole; one of the extended table must
\* not carry the sector number of another volume.
Sound(p) ==
  /\ p.start + p.table + SuperblockAt + RaidAt < img.size
  /\ Data(HeaderAt(p, p.start)).kind \in Recognised(p) => p.table = 0 /\ Whole(p)

\* A disk of sound partitions never takes the program down, whatever is encrypted
\* on it and whatever credentials are given.
SoundDiskNeverPanics ==
  phase = "panic" => \/ parts = <<>>
                     \/ \E n \in DOMAIN parts : ~Sound(parts[n])

\* src/README.md:12: provide the image "together with -password or -recoverykey to
\* unlock and process the encrypted volume".
RightCredentialUnlocks ==
  phase = "done" /\ err = "" /\ Len(parts) = 1 /\ HoldsBitlocker(parts[1]) =>
    LET boot == Data(parts[1].start)
        meta == Meta(parts[1])
    IN /\ Sound(parts[1]) /\ Selected(1)
       /\ \A c \in DOMAIN boot.copies : Data(parts[1].start + boot.copies[c]).kind = "meta"
       /\ Unseals(Steps(<<meta>>)[1], Steps(<<meta>>)[2].datum.under)
       /\ meta.method = "xts" /\ Data(parts[1].start + meta.header).kind = "ntfs"
       => report[1] # {}
=============================================================================
