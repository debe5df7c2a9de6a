----------------------------- MODULE DiskProofs ------------------------------
(***************************************************************************)
(* For every disk and every command line: records are reported under the   *)
(* partition they lie in, and the reader of the disk decrypts for the      *)
(* unlocked volumes only.                                                  *)
(***************************************************************************)
EXTENDS Disk, SequenceProofs

IsVolume(v) ==
  v = [kind |-> v.kind, at |-> v.at, copies |-> v.copies, blocks |-> v.blocks,
       ready |-> v.ready, inner |-> v.inner, loaded |-> v.loaded, fs |-> v.fs]

IsPartition(p) ==
  /\ p = [scheme |-> p.scheme, type |-> p.type, start |-> p.start, table |-> p.table,
          raid |-> p.raid, vol |-> p.vol]
  /\ p.start \in Nat /\ p.scheme \in {"mbr", "gpt"} /\ p.type \in Types(p.scheme)
  /\ p.vol = NoVolume => p.raid = 0
  /\ p.vol # NoVolume => IsVolume(p.vol)
  /\ p.table \in Nat /\ (p.scheme = "gpt" => p.table = 0)
  \* volumes of an MBR never have BitLocker metadata, and are never unlocked
  /\ p.scheme # "gpt" /\ p.vol # NoVolume => p.vol.copies = <<>> /\ p.vol.blocks = <<>> /\ ~p.vol.inner

(* A volume holds no records or those of the tree of its partition.        *)
OwnRecords(p) ==
  p.vol.fs # {} => Data(TreeAt(p)).kind = "fs" /\ p.vol.fs = {Data(TreeAt(p)).id}

BootVolume(p) ==
  /\ p.vol.kind = "ntfs" /\ p.type \in {"ntfs", "basic"} /\ p.raid = 0
  /\ Data(p.start).kind = "ntfs" /\ p.vol.at = Data(p.start).root

SuperVolume(p) ==
  /\ p.vol.kind = "btrfs" /\ p.type = "linux" /\ p.raid = 0
  /\ Data(p.start + SuperblockAt).kind = "btrfs"
  /\ p.vol.at = Data(p.start + SuperblockAt).root

RaidVolume(p) ==
  LET raid == Data(p.start + RaidAt)
  IN /\ p.vol.kind = "lvm" /\ p.type = "raid" /\ raid.kind = "raid" /\ p.raid = raid.offset
     /\ p.vol.at # 0 => /\ Data(p.start + raid.offset).kind = "lvm"
                        /\ p.vol.at = Data(p.start + raid.offset).area

LockedVolume(p) ==
  /\ p.vol.kind = "fve" /\ HoldsBitlocker(p) /\ p.raid = 0
  /\ p.vol.copies = <<>> => p.vol.blocks = <<>>
  /\ p.vol.copies # <<>> => p.vol.copies = Data(p.start).copies
  /\ p.vol.blocks # <<>> => Meta(p).kind = "meta" /\ p.vol.blocks[1] = Meta(p)

(* What a volume knows was read at the partition it belongs to.            *)
Own(p) ==
  \/ p.vol = NoVolume
  \/ /\ p.vol # NoVolume
     /\ BootVolume(p) \/ SuperVolume(p) \/ RaidVolume(p) \/ LockedVolume(p)
     /\ OwnRecords(p)

Partitions ==
  /\ Len(parts) \in Nat /\ parts = [n \in 1 .. Len(parts) |-> parts[n]]
  /\ \A n \in 1 .. Len(parts) : IsPartition(parts[n]) /\ (parts[n].table = 0 => Own(parts[n]))

(* The partition whose turn it is has a volume, and a fresh one no inner   *)
(* volume yet; those after it have no volume.                              *)
Turn ==
  /\ phase \in {"process", "decrypt"} => cur \in 1 .. Len(parts) /\ parts[cur].vol # NoVolume
  /\ \A n \in 1 .. Len(parts) : n > cur \/ (n = cur /\ phase = "locate") => parts[n].vol = NoVolume
  /\ phase \in {"process", "decrypt"} => ~parts[cur].vol.inner
  /\ phase \in {"mbr", "gpt"} => cur = 1 /\ handler = <<>> /\ parts = <<>>

Reported ==
  /\ phase # "done" => report = <<>>
  /\ \A n \in DOMAIN report : n \in 1 .. Len(parts) /\ report[n] = parts[n].vol.fs
                              /\ parts[n].vol # NoVolume

IInv == img \in Images /\ TypeOK /\ Partitions /\ Turn /\ Reported /\ HandlerIsUnlocks
-----------------------------------------------------------------------------
(* Reading through any layers gives what is there, noise or nothing.       *)
LEMMA ReadCases ==
  ASSUME NEW h, NEW s, NEW k, k \notin {"noise", "unreadable"}, ReadFile(h, s).kind = k
  PROVE  ReadFile(h, s) = Data(s)
BY DEF ReadFile, Data, Noise, Unreadable

(* What the parsers return is typed wherever they read.                    *)
LEMMA DataTyped ==
  ASSUME img \in Images, NEW s
  PROVE  WellTyped(Data(s))
<1>1. CASE s \in DOMAIN img.sectors
  BY <1>1, DiskAssumption DEF Data, Sector
<1>2. CASE s \notin DOMAIN img.sectors
  BY <1>2 DEF Data, Sector, Blank, WellTyped
<1> QED BY <1>1, <1>2

(* What a new volume object holds.                                         *)
LEMMA FreshVolume ==
  ASSUME NEW k, NEW a, NEW c
  PROVE  LET v == NewVolume(k, a, c)
         IN /\ IsVolume(v) /\ v.kind = k /\ v.at = a /\ v.copies = c /\ v.blocks = <<>>
            /\ v.fs = {} /\ ~v.inner
BY DEF NewVolume, IsVolume

(* The kind tells a volume from none.                                      *)
LEMMA VolumeKind ==
  ASSUME NEW v, v.kind # "none"
  PROVE  v # NoVolume
BY DEF NoVolume

(* Giving a partition a volume changes nothing else of it.                 *)
LEMMA WithVolume ==
  ASSUME NEW p, IsPartition(p), NEW v, NEW q, q = [p EXCEPT !.vol = v]
  PROVE  /\ q = [scheme |-> p.scheme, type |-> p.type, start |-> p.start, table |-> p.table,
                 raid |-> p.raid, vol |-> v]
         /\ q.scheme = p.scheme /\ q.type = p.type /\ q.start = p.start /\ q.table = p.table
         /\ q.raid = p.raid /\ q.vol = v
         /\ HoldsBitlocker(q) = HoldsBitlocker(p) /\ Meta(q) = Meta(p) /\ TreeAt(q) = TreeAt(p)
<1>1. /\ q = [scheme |-> p.scheme, type |-> p.type, start |-> p.start, table |-> p.table,
              raid |-> p.raid, vol |-> v]
      /\ q.scheme = p.scheme /\ q.type = p.type /\ q.start = p.start /\ q.table = p.table
      /\ q.raid = p.raid /\ q.vol = v
  BY DEF IsPartition
<1>2. HoldsBitlocker(q) = HoldsBitlocker(p) /\ Meta(q) = Meta(p)
  BY <1>1 DEF HoldsBitlocker, Meta
<1>3. TreeAt(q) = TreeAt(p)
  BY <1>1, <1>2 DEF TreeAt
<1> QED BY <1>1, <1>2, <1>3

(* A new volume found at its partition is that partition's own.            *)
LEMMA FreshOwn ==
  ASSUME NEW p, IsPartition(p), p.vol = NoVolume, NEW v, IsVolume(v), v # NoVolume,
         v.fs = {}, v.blocks = <<>>, ~v.inner, p.scheme # "gpt" => v.copies = <<>>,
         NEW q, q = [p EXCEPT !.vol = v],
         BootVolume(q) \/ SuperVolume(q) \/ LockedVolume(q)
  PROVE  IsPartition(q) /\ Own(q)
<1>1. q.vol = v /\ q.start = p.start /\ q.raid = p.raid /\ q.scheme = p.scheme /\ q.table = p.table
  BY WithVolume
<1>2. IsPartition(q)
  BY <1>1, WithVolume DEF IsPartition
<1>3. Own(q)
  BY <1>1 DEF Own, OwnRecords
<1> QED BY <1>2, <1>3

(* Locating a volume gives the partition a volume of its own or none.      *)
LEMMA LocateOwn ==
  ASSUME img \in Images, NEW p, NEW h, IsPartition(p), p.vol = NoVolume,
         NEW q, q = LocateVolume(p, h)
  PROVE  /\ IsPartition(q) /\ Own(q)
         /\ q.table = p.table /\ q.start = p.start /\ q.type = p.type /\ q.scheme = p.scheme
         /\ q.vol # NoVolume => q.vol.fs = {} /\ ~q.vol.inner
<1> DEFINE boot == ReadFile(h, p.start)
           sb == ReadFile(h, p.start + SuperblockAt)
           raid == ReadFile(h, p.start + RaidAt)
           lvm == ReadFile(h, p.start + raid.offset)
<1>0. p.raid = 0
  BY DEF IsPartition
<1>1. CASE q = [p EXCEPT !.vol = NewVolume("ntfs", boot.root, <<>>)] /\ boot.kind = "ntfs"
           /\ p.type \in {"ntfs", "basic"}
  <2> DEFINE v == NewVolume("ntfs", boot.root, <<>>)
  <2>1. /\ IsVolume(v) /\ v.kind = "ntfs" /\ v.at = boot.root /\ v.copies = <<>> /\ v.blocks = <<>>
        /\ v.fs = {} /\ ~v.inner
    BY FreshVolume
  <2>2. boot = Data(p.start)
    BY <1>1, ReadCases
  <2> HIDE DEF v
  <2>3. v # NoVolume
    BY <2>1, VolumeKind
  <2>4. BootVolume(q) /\ q.vol = v /\ q.table = p.table /\ q.start = p.start /\ q.type = p.type /\ q.scheme = p.scheme
    BY <1>0, <1>1, <2>1, <2>2, WithVolume DEF BootVolume, v
  <2> QED BY <1>1, <2>1, <2>3, <2>4, FreshOwn DEF v
<1>2. CASE q = [p EXCEPT !.vol = NewVolume("btrfs", sb.root, <<>>)] /\ sb.kind = "btrfs" /\ p.type = "linux"
  <2> DEFINE v == NewVolume("btrfs", sb.root, <<>>)
  <2>1. /\ IsVolume(v) /\ v.kind = "btrfs" /\ v.at = sb.root /\ v.copies = <<>> /\ v.blocks = <<>>
        /\ v.fs = {} /\ ~v.inner
    BY FreshVolume
  <2>2. sb = Data(p.start + SuperblockAt)
    BY <1>2, ReadCases
  <2> HIDE DEF v
  <2>3. v # NoVolume
    BY <2>1, VolumeKind
  <2>4. SuperVolume(q) /\ q.vol = v /\ q.table = p.table /\ q.start = p.start /\ q.type = p.type /\ q.scheme = p.scheme
    BY <1>0, <1>2, <2>1, <2>2, WithVolume DEF SuperVolume, v
  <2> QED BY <1>2, <2>1, <2>3, <2>4, FreshOwn DEF v
<1>3. CASE /\ q = [p EXCEPT !.vol = NewVolume("fve", 0, <<>>)]
           /\ boot.kind = "fve" /\ p.type \in {"ntfs", "basic"}
  <2> DEFINE v == NewVolume("fve", 0, <<>>)
  <2>1. /\ IsVolume(v) /\ v.kind = "fve" /\ v.copies = <<>> /\ v.blocks = <<>> /\ v.fs = {} /\ ~v.inner
    BY FreshVolume
  <2>2. boot = Data(p.start)
    BY <1>3, ReadCases
  <2> HIDE DEF v
  <2>3. v # NoVolume
    BY <2>1, VolumeKind
  <2>4. LockedVolume(q) /\ q.vol = v /\ q.table = p.table /\ q.start = p.start /\ q.type = p.type /\ q.scheme = p.scheme
    BY <1>0, <1>3, <2>1, <2>2, WithVolume DEF LockedVolume, HoldsBitlocker, v
  <2> QED BY <1>3, <2>1, <2>3, <2>4, FreshOwn DEF v
<1>4. CASE /\ q = [p EXCEPT !.vol = NewVolume("fve", 0, boot.copies)]
           /\ boot.kind = "fve" /\ p.type = "basic" /\ p.scheme = "gpt"
  <2> DEFINE v == NewVolume("fve", 0, boot.copies)
  <2>1. boot = Data(p.start)
    BY <1>4, ReadCases
  <2>2. HoldsBitlocker(p)
    BY <1>4, <2>1 DEF HoldsBitlocker
  <2> HIDE DEF boot
  <2>3. /\ IsVolume(v) /\ v.kind = "fve" /\ v.copies = boot.copies /\ v.blocks = <<>>
        /\ v.fs = {} /\ ~v.inner
    BY FreshVolume
  <2>4. q = [p EXCEPT !.vol = v]
    BY <1>4
  <2> HIDE DEF v
  <2>6. v # NoVolume
    BY <2>3, VolumeKind
  <2>7. /\ q.vol = v /\ q.table = p.table /\ q.start = p.start /\ q.raid = p.raid /\ q.type = p.type /\ q.scheme = p.scheme
        /\ HoldsBitlocker(q)
    BY <2>2, <2>4, WithVolume
  <2>8. LockedVolume(q)
    BY <1>0, <2>1, <2>3, <2>7 DEF LockedVolume
  <2> QED BY <1>4, <2>3, <2>4, <2>6, <2>7, <2>8, FreshOwn
<1>5. CASE /\ p.type = "raid" /\ raid.kind = "raid" /\ p.scheme = "gpt"
           /\ q = [p EXCEPT !.raid = raid.offset,
                            !.vol = NewVolume("lvm", IF lvm.kind = "lvm" THEN lvm.area ELSE 0, <<>>)]
  <2> DEFINE at == IF lvm.kind = "lvm" THEN lvm.area ELSE 0
             v == NewVolume("lvm", at, <<>>)
  <2>1. IsVolume(v) /\ v.kind = "lvm" /\ v.at = at /\ v.fs = {} /\ ~v.inner
    BY FreshVolume
  <2>2. raid = Data(p.start + RaidAt)
    BY <1>5, ReadCases
  <2>3. lvm.kind = "lvm" => lvm = Data(p.start + raid.offset)
    BY ReadCases
  <2> HIDE DEF raid, lvm, v
  <2>4. v # NoVolume
    BY <2>1, VolumeKind
  <2>5. /\ q = [scheme |-> p.scheme, type |-> p.type, start |-> p.start, table |-> p.table,
                raid |-> raid.offset, vol |-> v]
        /\ q.scheme = "gpt" /\ q.type = p.type /\ q.start = p.start /\ q.table = p.table
        /\ q.raid = raid.offset /\ q.vol = v
    BY <1>5 DEF IsPartition, v
  <2>6. IsPartition(q)
    BY <2>1, <2>4, <2>5 DEF IsPartition
  <2>7. RaidVolume(q)
    BY <1>5, <2>1, <2>2, <2>3, <2>5 DEF RaidVolume
  <2> QED BY <2>1, <2>4, <2>5, <2>6, <2>7 DEF Own, OwnRecords
<1>6. CASE q = p
  BY <1>6 DEF Own
<1>7. CASE q = [p EXCEPT !.vol = NoVolume]
  <2>1. /\ q.vol = NoVolume /\ q.start = p.start /\ q.raid = p.raid /\ q.scheme = p.scheme
        /\ q.table = p.table /\ q.type = p.type
    BY <1>7, WithVolume
  <2>2. q = [scheme |-> q.scheme, type |-> q.type, start |-> q.start, table |-> q.table,
             raid |-> q.raid, vol |-> q.vol]
    BY <1>7, WithVolume
  <2> QED BY <2>1, <2>2 DEF IsPartition, Own
<1>8. CASE p.scheme = "gpt"
  <2>1. q = LocateGPT(p, h)
    BY <1>8 DEF LocateVolume
  <2>2. CASE p.type = "basic" /\ boot.kind = "ntfs"
    BY <1>1, <2>1, <2>2 DEF LocateGPT
  <2>3. CASE p.type = "basic" /\ boot.kind = "fve"
    BY <1>4, <1>8, <2>1, <2>3 DEF LocateGPT
  <2>4. CASE p.type = "raid" /\ raid.kind = "raid"
    BY <1>5, <1>8, <2>1, <2>4 DEF LocateGPT
  <2>5. CASE /\ ~(p.type = "basic" /\ boot.kind \in {"ntfs", "fve"})
             /\ ~(p.type = "raid" /\ raid.kind = "raid")
    BY <1>6, <2>1, <2>5 DEF LocateGPT
  <2> QED BY <2>2, <2>3, <2>4, <2>5
<1>9. CASE p.scheme # "gpt"
  <2>1. q = [p EXCEPT !.vol = LocateMBR(p, h)]
    BY <1>9 DEF LocateVolume
  <2> QED BY <1>1, <1>2, <1>3, <1>7, <2>1 DEF LocateMBR
<1> QED BY <1>8, <1>9

(* A volume without copies of its metadata reads none.                     *)
LEMMA NoCopies ==
  ASSUME NEW p, NEW h, p.vol.copies = <<>>
  PROVE  GoodCopies(p, h) = <<>>
BY DEF GoodCopies

(* The first copy that is read is the one its boot sector names.           *)
LEMMA FirstCopy ==
  ASSUME img \in Images, NEW p, NEW h, GetOffset(p) = p.start, HoldsBitlocker(p),
         p.vol.copies = Data(p.start).copies, GoodCopies(p, h) # <<>>
  PROVE  Meta(p).kind = "meta" /\ GoodCopies(p, h)[1] = Meta(p)
<1> DEFINE copy(n) == ReadFile(h, GetOffset(p) + p.vol.copies[n])
           good == {n \in DOMAIN p.vol.copies : \A m \in 1 .. n : copy(m).kind = "meta" /\ Parses(copy(m))}
<1>1. p.vol.copies \in Seq(Nat)
  BY DataTyped DEF WellTyped, HoldsBitlocker
<1>2. PICK n \in DOMAIN p.vol.copies : \A m \in 1 .. n : copy(m).kind = "meta" /\ Parses(copy(m))
  <2>1. CASE good = {}
    BY <2>1 DEF GoodCopies
  <2> QED BY <2>1
<1>3. n \in Nat \ {0} /\ 1 \in DOMAIN p.vol.copies
  BY <1>1, <1>2
<1>4. copy(1).kind = "meta" /\ Parses(copy(1))
  BY <1>2, <1>3
<1>5. copy(1) = Meta(p)
  BY <1>4, ReadCases DEF Meta
<1>6. 1 \in good
  BY <1>3, <1>4
<1>7. GoodCopies(p, h)[1] = copy(1)
  BY <1>6 DEF GoodCopies
<1> QED BY <1>4, <1>5, <1>7

(* Processing keeps what a volume knows of its header and its inner volume. *)
LEMMA ProcessKeeps ==
  ASSUME NEW p, NEW h, IsVolume(p.vol), NEW w, w = ProcessVolume(p, h)
  PROVE  /\ IsVolume(w) /\ w # NoVolume
         /\ w.kind = p.vol.kind /\ w.at = p.vol.at /\ w.copies = p.vol.copies
         /\ w.inner = p.vol.inner
         /\ p.vol.kind = "fve" => w.blocks = GoodCopies(p, h) /\ w.fs = p.vol.fs
         /\ p.vol.kind # "fve" => w.blocks = p.vol.blocks
<1>1. CASE p.vol.kind = "fve"
  <2>1. w = [p.vol EXCEPT !.blocks = GoodCopies(p, h),
                          !.ready = Len(GoodCopies(p, h)) = Len(p.vol.copies)]
    BY <1>1 DEF ProcessVolume, ProcessBitlocker
  <2> QED BY <1>1, <2>1 DEF IsVolume, NoVolume
<1>2. CASE p.vol.kind # "fve"
  <2>1. CASE w = p.vol
    BY <1>2, <2>1 DEF IsVolume, NoVolume
  <2>2. CASE w # p.vol
    <3>1. PICK f : w = [p.vol EXCEPT !.loaded = TRUE, !.fs = f]
      BY <1>2, <2>2 DEF ProcessVolume, ProcessFS, Loaded
    <3> QED BY <1>2, <3>1 DEF IsVolume, NoVolume
  <2> QED BY <2>1, <2>2
<1> QED BY <1>1, <1>2

(* A partition with a processed volume is a partition.                     *)
LEMMA ProcessPartition ==
  ASSUME NEW p, NEW h, IsPartition(p), p.vol # NoVolume,
         NEW q, q = [p EXCEPT !.vol = ProcessVolume(p, h)]
  PROVE  IsPartition(q)
<1> DEFINE w == ProcessVolume(p, h)
<1>1. q = [p EXCEPT !.vol = w]
  OBVIOUS
<1>2. IsVolume(p.vol)
  BY DEF IsPartition
<1> HIDE DEF w
<1>3. /\ IsVolume(w) /\ w # NoVolume /\ w.copies = p.vol.copies /\ w.inner = p.vol.inner
      /\ p.vol.kind = "fve" => w.blocks = GoodCopies(p, h)
      /\ p.vol.kind # "fve" => w.blocks = p.vol.blocks
  BY <1>2, ProcessKeeps DEF w
<1>4. /\ q = [scheme |-> p.scheme, type |-> p.type, start |-> p.start, table |-> p.table,
              raid |-> p.raid, vol |-> w]
      /\ q.scheme = p.scheme /\ q.type = p.type /\ q.start = p.start /\ q.table = p.table
      /\ q.raid = p.raid /\ q.vol = w
  BY <1>1, WithVolume
<1>5. p.scheme # "gpt" => w.copies = <<>> /\ w.blocks = <<>> /\ ~w.inner
  BY <1>3, NoCopies DEF IsPartition
<1> QED BY <1>3, <1>4, <1>5 DEF IsPartition

(* Where the tree lies, for each kind of volume.                           *)
LEMMA Trees ==
  ASSUME NEW p
  PROVE  LET raid == Data(p.start + RaidAt)
             base == p.start + raid.offset + Data(p.start + raid.offset).area
         IN /\ BootVolume(p) => TreeAt(p) = p.start + Data(p.start).root
            /\ LockedVolume(p) => TreeAt(p) = p.start + Data(p.start + Meta(p).header).root
            /\ SuperVolume(p) => TreeAt(p) = p.start + Data(p.start + SuperblockAt).root
            /\ RaidVolume(p) => TreeAt(p) = base + Data(base + SuperblockAt).root
<1>1. BootVolume(p) => TreeAt(p) = p.start + Data(p.start).root
  BY DEF BootVolume, TreeAt, HoldsBitlocker
<1>2. LockedVolume(p) => TreeAt(p) = p.start + Data(p.start + Meta(p).header).root
  BY DEF LockedVolume, TreeAt, HoldsBitlocker
<1>3. SuperVolume(p) => TreeAt(p) = p.start + Data(p.start + SuperblockAt).root
  BY DEF SuperVolume, TreeAt, HoldsBitlocker
<1>4. RaidVolume(p) => LET raid == Data(p.start + RaidAt)
                           base == p.start + raid.offset + Data(p.start + raid.offset).area
                       IN TreeAt(p) = base + Data(base + SuperblockAt).root
  BY DEF RaidVolume, TreeAt, HoldsBitlocker
<1> QED BY <1>1, <1>2, <1>3, <1>4

(* A volume that holds no inner file system yet and was processed without  *)
(* taking the program down holds the records of its own tree or none.      *)
LEMMA ProcessOwn ==
  ASSUME img \in Images, NEW p, NEW h, IsPartition(p), p.vol # NoVolume, p.table = 0, Own(p),
         ~ProcessPanics(p, h), NEW q, q = [p EXCEPT !.vol = ProcessVolume(p, h)]
  PROVE  Own(q)
<1> DEFINE w == ProcessVolume(p, h)
           base == GetOffset(p) + p.vol.at
           tree == ReadFile(h, base)
<1>1. /\ q.scheme = p.scheme /\ q.type = p.type /\ q.start = p.start /\ q.table = p.table
      /\ q.raid = p.raid /\ q.vol = w
      /\ HoldsBitlocker(q) = HoldsBitlocker(p) /\ Meta(q) = Meta(p) /\ TreeAt(q) = TreeAt(p)
  BY WithVolume
<1>2. p.start \in Nat /\ IsVolume(p.vol)
  BY DEF IsPartition
<1>3. /\ w # NoVolume /\ w.kind = p.vol.kind /\ w.at = p.vol.at /\ w.copies = p.vol.copies
      /\ p.vol.kind = "fve" => w.blocks = GoodCopies(p, h) /\ w.fs = p.vol.fs
      /\ p.vol.kind # "fve" => w.blocks = p.vol.blocks
  BY <1>2, ProcessKeeps
<1> HIDE DEF w
<1>4. ASSUME p.vol.kind # "lvm", p.vol.kind # "fve"
      PROVE  q.vol.fs = IF tree.kind = "fs" THEN {tree.id} ELSE {}
  <2>1. w = [p.vol EXCEPT !.loaded = TRUE, !.fs = IF tree.kind = "fs" THEN {tree.id} ELSE {}]
    BY <1>4 DEF w, ProcessVolume, ProcessFS, NoFS, Tree, Loaded
  <2> QED BY <1>1, <1>2, <2>1 DEF IsVolume
<1>5. ASSUME tree.kind = "fs"
      PROVE  tree = Data(base)
  BY <1>5, ReadCases
<1>6. CASE BootVolume(p)
  <2>1. GetOffset(p) = p.start /\ base = TreeAt(p)
    BY <1>2, <1>6, Trees DEF GetOffset, BootVolume
  <2>2. BootVolume(q)
    BY <1>3, <1>1, <1>6 DEF BootVolume
  <2>3. q.vol.fs = IF tree.kind = "fs" THEN {tree.id} ELSE {}
    BY <1>4, <1>6 DEF BootVolume
  <2>4. OwnRecords(q)
    BY <1>1, <1>5, <2>1, <2>3 DEF OwnRecords
  <2> QED BY <1>3, <2>2, <2>4 DEF Own
<1>7. CASE SuperVolume(p)
  <2>1. GetOffset(p) = p.start /\ base = TreeAt(p)
    BY <1>2, <1>7, Trees DEF GetOffset, SuperVolume
  <2>2. SuperVolume(q)
    BY <1>3, <1>1, <1>7 DEF SuperVolume
  <2>3. q.vol.fs = IF tree.kind = "fs" THEN {tree.id} ELSE {}
    BY <1>4, <1>7 DEF SuperVolume
  <2>4. OwnRecords(q)
    BY <1>1, <1>5, <2>1, <2>3 DEF OwnRecords
  <2> QED BY <1>3, <2>2, <2>4 DEF Own
<1>8. CASE LockedVolume(p)
  <2>1. GetOffset(p) = p.start
    BY <1>2, <1>8 DEF GetOffset, LockedVolume
  <2>2. q.vol.blocks = GoodCopies(p, h)
    BY <1>1, <1>3, <1>8 DEF LockedVolume
  <2>3. LockedVolume(q)
    <3>1. CASE p.vol.copies = <<>>
      BY <1>3, <1>1, <1>8, <2>2, <3>1, NoCopies DEF LockedVolume
    <3>2. CASE p.vol.copies # <<>>
      <4>1. p.vol.copies = Data(p.start).copies /\ HoldsBitlocker(p)
        BY <1>8, <3>2 DEF LockedVolume
      <4>2. GoodCopies(p, h) # <<>> => Meta(p).kind = "meta" /\ GoodCopies(p, h)[1] = Meta(p)
        BY <2>1, <4>1, FirstCopy
      <4> QED BY <1>3, <1>1, <1>8, <2>2, <3>2, <4>1, <4>2 DEF LockedVolume
    <3> QED BY <3>1, <3>2
  <2>4. q.vol.fs = p.vol.fs
    BY <1>3, <1>1, <1>8 DEF LockedVolume
  <2>5. OwnRecords(q)
    BY <1>1, <2>4 DEF Own, OwnRecords
  <2> QED BY <1>3, <2>3, <2>5 DEF Own
<1>9. CASE RaidVolume(p)
  <2> DEFINE sb == ReadFile(h, base + SuperblockAt)
             inner == ReadFile(h, base + sb.root)
  <2>1. RaidVolume(q)
    BY <1>3, <1>1, <1>9 DEF RaidVolume
  <2>2. p.vol.kind = "lvm" /\ p.vol.at # 0
    BY <1>9 DEF RaidVolume, ProcessPanics
  <2>3. base = p.start + Data(p.start + RaidAt).offset
                + Data(p.start + Data(p.start + RaidAt).offset).area
    <3>1. p.raid = Data(p.start + RaidAt).offset /\ p.raid \in Nat
      BY <1>9, DataTyped DEF RaidVolume, WellTyped
    <3>2. p.vol.at = Data(p.start + p.raid).area /\ p.vol.at \in Nat
      BY <1>9, <2>2, <3>1, DataTyped DEF RaidVolume, WellTyped
    <3> QED BY <1>2, <3>1, <3>2 DEF GetOffset
  <2>4. CASE sb.kind = "btrfs"
    <3>1. sb = Data(base + SuperblockAt)
      BY <2>4, ReadCases
    <3>2. base + sb.root = TreeAt(p)
      BY <1>9, <2>3, <3>1, Trees
    <3>3. q.vol.fs = IF inner.kind = "fs" THEN {inner.id} ELSE {}
      <4>1. w = [p.vol EXCEPT !.loaded = TRUE, !.fs = IF inner.kind = "fs" THEN {inner.id} ELSE {}]
        BY <2>2, <2>4 DEF w, ProcessVolume, ProcessFS, NoFS, Tree, Superblock, Loaded
      <4> QED BY <1>1, <1>2, <4>1 DEF IsVolume
    <3>4. inner.kind = "fs" => inner = Data(TreeAt(p))
      BY <3>2, ReadCases
    <3>5. OwnRecords(q)
      BY <1>1, <3>3, <3>4 DEF OwnRecords
    <3> QED BY <1>3, <2>1, <3>5 DEF Own
  <2>5. CASE sb.kind # "btrfs"
    <3>1. w = p.vol
      BY <2>2, <2>5 DEF w, ProcessVolume, ProcessFS, NoFS, Superblock
    <3> QED BY <1>3, <1>1, <2>1, <3>1 DEF Own, OwnRecords
  <2> QED BY <2>4, <2>5
<1> QED BY <1>6, <1>7, <1>8, <1>9 DEF Own

(* A volume is unlocked with the key of its own metadata, and holds the    *)
(* records of the tree inside it.                                          *)
LEMMA DecryptOwn ==
  ASSUME img \in Images, NEW p, NEW h, IsPartition(p), p.vol # NoVolume,
         p.table = 0 => Own(p), TriesDecrypt(p), DetectInner(p, h), ~DecryptPanics(p, h),
         NEW q, q = [p EXCEPT !.vol = Decrypted(p, h)]
  PROVE  /\ IsPartition(q) /\ Own(q) /\ q.vol # NoVolume /\ q.vol.kind = "fve" /\ q.vol.inner
         /\ q.start = p.start /\ q.table = p.table /\ Meta(q) = Meta(p)
         /\ NewLayer(p) = [key |-> Meta(p).key, start |-> p.start] /\ NewLayer(p) \in Layers
<1> DEFINE w == Decrypted(p, h)
           inner == InnerHeader(p, h)
           tree == InnerTree(p, h)
<1>1. p.vol.kind = "fve" /\ p.vol.blocks # <<>>
  BY DEF TriesDecrypt, DetectInner, HasReader, HasKey, DecryptFVEK
<1>2. p.scheme = "gpt" /\ p.table = 0 /\ p.start \in Nat /\ IsVolume(p.vol)
  BY <1>1 DEF IsPartition
<1>3. LockedVolume(p)
  BY <1>1, <1>2 DEF Own, BootVolume, SuperVolume, RaidVolume
<1>4. /\ p.vol.blocks[1] = Meta(p) /\ Meta(p).kind = "meta" /\ p.raid = 0 /\ HoldsBitlocker(p)
      /\ GetOffset(p) = p.start
  BY <1>1, <1>2, <1>3 DEF LockedVolume, GetOffset
<1>5. NewLayer(p) = [key |-> Meta(p).key, start |-> p.start]
  BY <1>4 DEF NewLayer
<1>6. NewLayer(p) \in Layers
  <2>1. Meta(p).key \in STRING
    BY <1>4, DataTyped DEF Meta, WellTyped
  <2> QED BY <1>2, <1>5, <2>1 DEF Layers
<1>7. inner = Data(p.start + Meta(p).header)
  BY <1>4, ReadCases DEF DetectInner, InnerHeader
<1>8. tree = Data(TreeAt(p)) /\ tree.kind = "fs"
  <2>1. tree.kind = "fs"
    BY DEF DecryptPanics
  <2>2. TreeAt(p) = p.start + inner.root
    BY <1>3, <1>7, Trees
  <2>3. tree = ReadFile(Append(h, NewLayer(p)), TreeAt(p))
    BY <1>4, <2>2 DEF InnerTree
  <2>4. ReadFile(Append(h, NewLayer(p)), TreeAt(p)).kind = "fs"
    BY <2>1, <2>3
  <2>5. ReadFile(Append(h, NewLayer(p)), TreeAt(p)) = Data(TreeAt(p))
    BY <2>4, ReadCases
  <2> QED BY <2>1, <2>3, <2>5
<1> HIDE DEF tree, inner
<1>9. /\ IsVolume(w) /\ w # NoVolume /\ w.kind = p.vol.kind /\ w.copies = p.vol.copies
      /\ w.blocks = p.vol.blocks /\ w.inner /\ w.fs = {tree.id}
  <2>1. w = [p.vol EXCEPT !.inner = TRUE, !.fs = {tree.id}]
    BY DEF Decrypted, tree
  <2>2. w = [kind |-> p.vol.kind, at |-> p.vol.at, copies |-> p.vol.copies,
             blocks |-> p.vol.blocks, ready |-> p.vol.ready, inner |-> TRUE,
             loaded |-> p.vol.loaded, fs |-> {tree.id}]
    BY <1>2, <2>1 DEF IsVolume
  <2> HIDE DEF w
  <2> QED BY <2>2 DEF IsVolume, NoVolume
<1>10. q = [p EXCEPT !.vol = w]
  OBVIOUS
<1> HIDE DEF w
<1>11. /\ q = [scheme |-> p.scheme, type |-> p.type, start |-> p.start, table |-> p.table,
               raid |-> p.raid, vol |-> w]
       /\ q.scheme = p.scheme /\ q.type = p.type /\ q.start = p.start /\ q.table = p.table
       /\ q.raid = p.raid /\ q.vol = w
       /\ HoldsBitlocker(q) = HoldsBitlocker(p) /\ Meta(q) = Meta(p) /\ TreeAt(q) = TreeAt(p)
  BY <1>10, WithVolume
<1>12. IsPartition(q)
  BY <1>2, <1>9, <1>11 DEF IsPartition
<1>13. LockedVolume(q)
  BY <1>3, <1>9, <1>11 DEF LockedVolume
<1>14. OwnRecords(q)
  BY <1>8, <1>9, <1>11 DEF OwnRecords
<1>15. Own(q)
  BY <1>9, <1>11, <1>13, <1>14 DEF Own
<1> QED BY <1>1, <1>5, <1>6, <1>9, <1>11, <1>12, <1>15
-----------------------------------------------------------------------------
(* The invariant from one state to the next: what only depends on the disk *)
(* stays as it is.                                                         *)
LEMMA SameDisk ==
  ASSUME img' = img, NEW p
  PROVE  Own(p)' <=> Own(p)
BY DEF Data, Sector, Own, BootVolume, SuperVolume, RaidVolume, LockedVolume, OwnRecords,
       HoldsBitlocker, Meta, TreeAt

(* Partitions that start at one sector have the same metadata.             *)
LEMMA SameMeta ==
  ASSUME img' = img, NEW p, NEW q, q.start = p.start
  PROVE  Meta(q)' = Meta(p)
BY DEF Data, Sector, Meta

(* The empty sequence.                                                     *)
LEMMA Empty ==
  ASSUME NEW f, f = <<>>
  PROVE  /\ Len(f) = 0 /\ DOMAIN f = {} /\ ToSet(f) = {} /\ f = [n \in 1 .. Len(f) |-> f[n]]
         /\ \A S : f \in Seq(S)
<1>1. Len(f) = 0 /\ DOMAIN f = {}
  OBVIOUS
<1>2. ToSet(f) = {}
  BY <1>1 DEF ToSet
<1>3. f = [n \in 1 .. Len(f) |-> f[n]]
  BY <1>1
<1>4. \A S : f \in Seq(S)
  OBVIOUS
<1> QED BY <1>1, <1>2, <1>3, <1>4

(* The length of a sequence given as a function.                           *)
LEMMA Lengths ==
  ASSUME NEW N \in Nat, NEW f, f = [n \in 1 .. N |-> f[n]]
  PROVE  Len(f) = N
OBVIOUS

(* A step that replaces the partition whose turn it is by one in order.    *)
LEMMA OneReplaced ==
  ASSUME IInv, img' = img, cur \in 1 .. Len(parts), NEW q, parts' = [parts EXCEPT ![cur] = q],
         IsPartition(q), q.table = 0 => Own(q)
  PROVE  /\ Partitions' /\ Len(parts') = Len(parts) /\ parts'[cur] = q
         /\ \A n \in 1 .. Len(parts) : n # cur => parts'[n] = parts[n]
<1>1. /\ Len(parts) \in Nat /\ parts = [n \in 1 .. Len(parts) |-> parts[n]]
      /\ \A n \in 1 .. Len(parts) : IsPartition(parts[n]) /\ (parts[n].table = 0 => Own(parts[n]))
  BY DEF IInv, Partitions
<1>2. /\ parts' = [n \in 1 .. Len(parts) |-> parts'[n]] /\ parts'[cur] = q
      /\ \A n \in 1 .. Len(parts) : n # cur => parts'[n] = parts[n]
  BY <1>1
<1>3. Len(parts') = Len(parts)
  BY <1>1, <1>2, Lengths
<1>4. \A n \in 1 .. Len(parts) :
        IsPartition(parts'[n]) /\ (parts'[n].table = 0 => Own(parts'[n]))
  BY <1>1, <1>2
<1>5. Partitions'
  BY <1>1, <1>2, <1>3, <1>4, SameDisk DEF Partitions, IsPartition, IsVolume
<1> QED BY <1>2, <1>3, <1>5

(* As long as the same partitions are unlocked the handler need not change. *)
LEMMA SameUnlocked ==
  ASSUME HandlerIsUnlocks, img' = img, handler' = handler, DOMAIN parts' = DOMAIN parts,
         \A n \in DOMAIN parts : parts'[n].start = parts[n].start /\ (Unlocked(n)' <=> Unlocked(n))
  PROVE  HandlerIsUnlocks'
<1>1. \A n \in DOMAIN parts : Meta(parts[n])' = Meta(parts[n])
  BY SameMeta
<1> QED BY <1>1 DEF HandlerIsUnlocks, Unlocked

(* Partitions as the tables list them are in order and have no volume.     *)
LEMMA FreshPartitions ==
  ASSUME NEW scheme \in {"mbr", "gpt"}, NEW table \in Nat, scheme = "gpt" => table = 0,
         NEW entries \in Seq(Entries(scheme))
  PROVE  /\ PartitionsOf(scheme, table, entries)
              \in Seq({NewPartition(scheme, table, e) : e \in Entries(scheme)})
         /\ \A e \in Entries(scheme) : /\ IsPartition(NewPartition(scheme, table, e))
                                       /\ NewPartition(scheme, table, e).vol = NoVolume
<1>1. ASSUME NEW e \in Entries(scheme)
      PROVE  /\ IsPartition(NewPartition(scheme, table, e))
             /\ NewPartition(scheme, table, e).vol = NoVolume
  BY DEF NewPartition, IsPartition, Entries, NoVolume
<1> DEFINE S == {NewPartition(scheme, table, e) : e \in Entries(scheme)}
<1>2. \A n \in 1 .. Len(entries) : NewPartition(scheme, table, entries[n]) \in S
  OBVIOUS
<1> HIDE DEF S
<1>3. PartitionsOf(scheme, table, entries) \in Seq(S)
  BY <1>2 DEF PartitionsOf
<1> QED BY <1>1, <1>3 DEF S

(* A sector read through any layers lists well-typed entries or none.      *)
LEMMA TableEntries ==
  ASSUME img \in Images, NEW h, NEW s, NEW scheme \in {"mbr", "gpt"}
  PROVE  TableOf(scheme, ReadFile(h, s)) \in Seq(Entries(scheme))
<1>1. CASE ReadFile(h, s).kind = scheme
  <2>1. ReadFile(h, s) = Data(s)
    BY <1>1, ReadCases
  <2> QED BY <1>1, <2>1, DataTyped DEF TableOf, WellTyped
<1>2. CASE ReadFile(h, s).kind # scheme
  BY <1>2 DEF TableOf
<1> QED BY <1>1, <1>2

(* The first extended entry of a table has a start.                        *)
LEMMA FirstExtended ==
  ASSUME NEW entries \in Seq(Entries("mbr")), ExtendedEntries(entries) # <<>>
  PROVE  ExtendedEntries(entries)[1].start \in Nat
<1>1. ExtendedEntries(entries) \in Seq(Entries("mbr"))
  BY KeepSeq DEF ExtendedEntries
<1>2. ExtendedEntries(entries)[1] \in Entries("mbr")
  BY <1>1
<1> QED BY <1>2 DEF Entries

(* A step that lists partitions without volumes.                           *)
LEMMA AllFresh ==
  ASSUME img' = img, NEW S, \A p \in S : IsPartition(p) /\ p.vol = NoVolume, parts' \in Seq(S)
  PROVE  /\ Partitions' /\ \A n \in 1 .. Len(parts') : parts'[n].vol = NoVolume
         /\ handler' = <<>> => HandlerIsUnlocks'
<1>1. Len(parts') \in Nat /\ parts' = [n \in 1 .. Len(parts') |-> parts'[n]]
  OBVIOUS
<1>2. \A n \in 1 .. Len(parts') : IsPartition(parts'[n]) /\ parts'[n].vol = NoVolume
  OBVIOUS
<1>3. Partitions'
  BY <1>1, <1>2 DEF Partitions, IsPartition, IsVolume, Own
<1>4. ASSUME handler' = <<>> PROVE HandlerIsUnlocks'
  <2>1. \A n \in DOMAIN parts' : ~Unlocked(n)'
    BY <1>1, <1>2 DEF Unlocked, NoVolume
  <2>2. ToSet(handler') = {}
    BY <1>4 DEF ToSet
  <2> QED BY <2>1, <2>2 DEF HandlerIsUnlocks
<1> QED BY <1>2, <1>3, <1>4
-----------------------------------------------------------------------------
(* The invariant holds initially and every step keeps it.                  *)
LEMMA InitInv == Init => IInv
<1> SUFFICES ASSUME Init PROVE IInv
  OBVIOUS
<1>1. /\ img \in Images /\ args \in Args /\ phase = "mbr" /\ err = "" /\ parts = <<>> /\ cur = 1
      /\ handler = <<>> /\ report = <<>>
  BY DEF Init
<1>2. Len(parts) = 0 /\ DOMAIN parts = {} /\ DOMAIN report = {} /\ ToSet(handler) = {}
  BY <1>1, Empty
<1>3. TypeOK
  <2>1. cur \in 1 .. Len(parts) + 1
    <3>1. cur = 1 /\ Len(parts) = 0
      BY <1>1, <1>2
    <3> QED BY <3>1
  <2>2. handler \in Seq(Layers)
    BY <1>1, Empty
  <2>3. DOMAIN report \subseteq DOMAIN parts
    BY <1>2
  <2> QED BY <1>1, <2>1, <2>2, <2>3 DEF TypeOK
<1>4. Partitions /\ Turn /\ Reported
  <2>1. parts = [n \in 1 .. Len(parts) |-> parts[n]]
    BY <1>1, Empty
  <2> QED BY <1>1, <1>2, <2>1 DEF Partitions, Turn, Reported
<1>5. HandlerIsUnlocks
  <2>1. ToSet(handler) = {} /\ DOMAIN parts = {}
    BY <1>2
  <2> QED BY <2>1 DEF HandlerIsUnlocks
<1> QED BY <1>1, <1>3, <1>4, <1>5 DEF IInv

(* The steps that read a partition table.                                  *)
LEMMA TableInv == IInv /\ (PseudoMBR \/ InvalidMBR \/ ValidMBR \/ PopulateGPT) => IInv'
<1> SUFFICES ASSUME IInv, PseudoMBR \/ InvalidMBR \/ ValidMBR \/ PopulateGPT PROVE IInv'
  OBVIOUS
<1>1. /\ img \in Images /\ args \in Args /\ handler = <<>> /\ cur = 1 /\ parts = <<>>
      /\ err \in {"", "ntfs volume", "mbr not valid"} /\ report = <<>>
  <2>1. phase \in {"mbr", "gpt"}
    BY DEF PseudoMBR, InvalidMBR, ValidMBR, PopulateGPT
  <2> QED BY <2>1 DEF IInv, TypeOK, Turn, Reported
<1>2. /\ img' = img /\ args' = args /\ handler' = <<>> /\ cur' = 1 /\ report' = <<>>
      /\ err' \in {"", "ntfs volume", "mbr not valid"} /\ phase' \in {"gpt", "locate"}
      /\ phase' = "gpt" => parts' = <<>>
  <2>1. CASE PseudoMBR
    BY <1>1, <2>1 DEF PseudoMBR
  <2>2. CASE InvalidMBR
    BY <1>1, <2>2 DEF InvalidMBR
  <2>3. CASE ValidMBR
    BY <1>1, <2>3 DEF ValidMBR
  <2>4. CASE PopulateGPT
    BY <1>1, <2>4 DEF PopulateGPT
  <2> QED BY <2>1, <2>2, <2>3, <2>4
<1>3. \E S : (\A p \in S : IsPartition(p) /\ p.vol = NoVolume) /\ parts' \in Seq(S)
  <2>1. CASE parts' = <<>>
    <3>1. \A p \in {} : IsPartition(p) /\ p.vol = NoVolume
      OBVIOUS
    <3> QED BY <2>1, <3>1
  <2>2. CASE PseudoMBR
    <3> DEFINE es == <<[type |-> "ntfs", start |-> 0]>>
               S == {NewPartition("mbr", 0, e) : e \in Entries("mbr")}
    <3>1. es \in Seq(Entries("mbr"))
      <4>1. [type |-> "ntfs", start |-> 0] \in Entries("mbr")
        BY DEF Entries, Types
      <4> QED BY <4>1
    <3>2. parts' = PartitionsOf("mbr", 0, es)
      BY <2>2 DEF PseudoMBR
    <3>3. parts' \in Seq(S) /\ \A p \in S : IsPartition(p) /\ p.vol = NoVolume
      BY <3>1, <3>2, FreshPartitions
    <3> QED BY <3>3
  <2>3. CASE PopulateGPT
    <3> DEFINE es == TableOf("gpt", ReadFile(handler, 1))
               S == {NewPartition("gpt", 0, e) : e \in Entries("gpt")}
    <3>1. es \in Seq(Entries("gpt"))
      BY <1>1, TableEntries
    <3>2. parts' = PartitionsOf("gpt", 0, es)
      BY <2>3 DEF PopulateGPT
    <3>3. parts' \in Seq(S) /\ \A p \in S : IsPartition(p) /\ p.vol = NoVolume
      BY <3>1, <3>2, FreshPartitions
    <3> QED BY <3>3
  <2>4. CASE ValidMBR /\ parts' # <<>>
    <3> DEFINE es == TableOf("mbr", FirstSector)
               fs == TableOf("mbr", ExtendedTable)
               at == Extended[1].start
               S == {NewPartition("mbr", 0, e) : e \in Entries("mbr")}
               T == {NewPartition("mbr", at, e) : e \in Entries("mbr")}
               primary == PartitionsOf("mbr", 0, es)
               logical == IF Extended = <<>> THEN <<>> ELSE PartitionsOf("mbr", at, fs)
    <3>1. es \in Seq(Entries("mbr"))
      BY <1>1, TableEntries DEF FirstSector
    <3>2. Extended # <<>> => fs \in Seq(Entries("mbr"))
      BY <1>1, TableEntries DEF ExtendedTable
    <3>3. parts' = primary \o logical
      BY <1>1, <2>4 DEF ValidMBR
    <3>4. primary \in Seq(S) /\ \A p \in S : IsPartition(p) /\ p.vol = NoVolume
      BY <3>1, FreshPartitions
    <3>5. CASE Extended = <<>>
      <4>1. parts' \in Seq(S)
        BY <3>3, <3>4, <3>5
      <4> QED BY <3>4, <4>1
    <3>6. CASE Extended # <<>>
      <4>1. at \in Nat
        BY <3>1, <3>6, FirstExtended DEF Extended
      <4>2. PartitionsOf("mbr", at, fs) \in Seq(T) /\ \A p \in T : IsPartition(p) /\ p.vol = NoVolume
        BY <3>2, <3>6, <4>1, FreshPartitions
      <4>3. parts' = primary \o PartitionsOf("mbr", at, fs)
        BY <3>3, <3>6
      <4> HIDE DEF primary, S, T
      <4>4. primary \in Seq(S \cup T) /\ PartitionsOf("mbr", at, fs) \in Seq(S \cup T)
        BY <3>4, <4>2
      <4>5. parts' \in Seq(S \cup T)
        BY <4>3, <4>4, ConcatProperties
      <4> QED BY <3>4, <4>2, <4>5
    <3> QED BY <3>5, <3>6
  <2> QED BY <1>1, <2>1, <2>2, <2>3, <2>4 DEF InvalidMBR
<1>4. PICK S : (\A p \in S : IsPartition(p) /\ p.vol = NoVolume) /\ parts' \in Seq(S)
  BY <1>3
<1>5. /\ Partitions' /\ HandlerIsUnlocks'
      /\ \A n \in 1 .. Len(parts') : parts'[n].vol = NoVolume
  BY <1>2, <1>4, AllFresh
<1>6. TypeOK'
  <2>1. Len(parts') \in Nat
    BY <1>4, LenProperties
  <2>4. DOMAIN report' = {}
    BY <1>2, Empty
  <2>2. cur' \in 1 .. Len(parts') + 1
    <3>1. cur' = 1
      BY <1>2
    <3> QED BY <2>1, <3>1
  <2>3. handler' \in Seq(Layers)
    BY <1>2, Empty
  <2> QED BY <1>1, <1>2, <2>2, <2>3, <2>4 DEF TypeOK
<1>7. Turn' /\ Reported'
  <2>1. DOMAIN report' = {}
    BY <1>2, Empty
  <2>2. Reported'
    BY <1>2, <2>1 DEF Reported
  <2>3. Turn'
    BY <1>2, <1>5 DEF Turn
  <2> QED BY <2>2, <2>3
<1> QED BY <1>1, <1>2, <1>5, <1>6, <1>7 DEF IInv

(* A crash leaves everything as it was.                                    *)
LEMMA PanicInv == IInv /\ Panic /\ phase # "done" => IInv'
<1> SUFFICES ASSUME IInv, Panic, phase # "done" PROVE IInv'
  OBVIOUS
<1>1. /\ img' = img /\ args' = args /\ err' = err /\ parts' = parts /\ cur' = cur
      /\ handler' = handler /\ report' = report /\ phase' = "panic"
  BY DEF Panic
<1>2. TypeOK'
  BY <1>1 DEF IInv, TypeOK
<1>3. Partitions'
  BY <1>1, SameDisk DEF IInv, Partitions, IsPartition, IsVolume
<1>4. Turn'
  BY <1>1 DEF IInv, Turn
<1>5. Reported'
  BY <1>1 DEF IInv, Reported
<1>6. HandlerIsUnlocks'
  BY <1>1, SameUnlocked DEF IInv, Unlocked
<1> QED BY <1>1, <1>2, <1>3, <1>4, <1>5, <1>6 DEF IInv

(* The loop passes over a partition.                                       *)
LEMMA SkipInv == IInv /\ Skip => IInv'
<1> SUFFICES ASSUME IInv, Skip PROVE IInv'
  OBVIOUS
<1>1. /\ img' = img /\ args' = args /\ err' = err /\ parts' = parts /\ cur' = cur + 1
      /\ handler' = handler /\ report' = report /\ phase' = phase /\ phase = "locate"
      /\ cur <= Len(parts)
  BY DEF Skip
<1>2. cur \in 1 .. Len(parts) + 1 /\ Len(parts) \in Nat
  BY DEF IInv, TypeOK, Partitions
<1>3. TypeOK'
  <2>1. cur' \in 1 .. Len(parts') + 1
    BY <1>1, <1>2
  <2> QED BY <1>1, <2>1 DEF IInv, TypeOK
<1>4. Partitions'
  BY <1>1, SameDisk DEF IInv, Partitions, IsPartition, IsVolume
<1>5. Turn'
  BY <1>1, <1>2 DEF IInv, Turn
<1>6. Reported'
  BY <1>1 DEF IInv, Reported
<1>7. HandlerIsUnlocks'
  BY <1>1, SameUnlocked DEF IInv, Unlocked
<1> QED BY <1>1, <1>3, <1>4, <1>5, <1>6, <1>7 DEF IInv

(* A step of the loop that replaces the partition whose turn it is, keeps  *)
(* it locked and goes on to its next stage or to the next partition.       *)
LEMMA OneReplacedInv ==
  ASSUME IInv, phase \in {"locate", "process"}, cur \in 1 .. Len(parts),
         UNCHANGED <<img, args, err, handler, report>>, NEW q, parts' = [parts EXCEPT ![cur] = q],
         IsPartition(q), q.table = 0 => Own(q), q.start = parts[cur].start,
         q.vol # NoVolume => ~q.vol.inner, ~parts[cur].vol.inner \/ parts[cur].vol = NoVolume,
         \/ phase' = "locate" /\ cur' = cur + 1
         \/ phase' \in {"process", "decrypt"} /\ cur' = cur /\ q.vol # NoVolume
  PROVE  IInv'
<1>1. /\ Partitions' /\ Len(parts') = Len(parts) /\ parts'[cur] = q
      /\ \A n \in 1 .. Len(parts) : n # cur => parts'[n] = parts[n]
  BY OneReplaced
<1>2. /\ img' = img /\ args' = args /\ err' = err /\ handler' = handler /\ report' = report
  OBVIOUS
<1>3. /\ cur \in 1 .. Len(parts) /\ Len(parts) \in Nat /\ report = <<>>
      /\ DOMAIN parts = 1 .. Len(parts) /\ DOMAIN parts' = 1 .. Len(parts)
  <2>1. report = <<>>
    BY DEF IInv, Reported
  <2>2. Len(parts) \in Nat /\ DOMAIN parts = 1 .. Len(parts)
    BY DEF IInv, Partitions
  <2>3. DOMAIN parts' = 1 .. Len(parts)
    BY <1>1 DEF Partitions
  <2> QED BY <2>1, <2>2, <2>3
<1>4. phase' \in {"locate", "process", "decrypt"} /\ cur' \in 1 .. Len(parts) + 1
  BY <1>3
<1>5. TypeOK'
  <2>1. DOMAIN report' \subseteq DOMAIN parts'
    BY <1>2, <1>3, Empty
  <2>2. cur' \in 1 .. Len(parts') + 1
    BY <1>1, <1>4
  <2> QED BY <1>2, <1>4, <2>1, <2>2 DEF IInv, TypeOK
<1>6. Turn'
  <2>1. \A n \in 1 .. Len(parts) : n > cur => parts[n].vol = NoVolume
    BY DEF IInv, Turn
  <2>2. CASE phase' = "locate" /\ cur' = cur + 1
    BY <1>1, <1>3, <2>1, <2>2 DEF Turn
  <2>3. CASE phase' \in {"process", "decrypt"} /\ cur' = cur /\ q.vol # NoVolume
    BY <1>1, <1>3, <2>1, <2>3 DEF Turn
  <2> QED BY <2>2, <2>3
<1>7. Reported'
  BY <1>2, <1>3, <1>4, Empty DEF Reported
<1>8. HandlerIsUnlocks'
  <2>1. \A n \in DOMAIN parts : parts'[n].start = parts[n].start /\ (Unlocked(n)' <=> Unlocked(n))
    <3>1. ~Unlocked(cur)
      BY DEF Unlocked, NoVolume
    <3>2. ASSUME NEW n, n = cur PROVE ~Unlocked(n)'
      BY <1>1, <3>2 DEF Unlocked, NoVolume
    <3> QED BY <1>1, <1>3, <3>1, <3>2 DEF Unlocked
  <2> QED BY <1>2, <1>3, <2>1, SameUnlocked DEF IInv
<1> QED BY <1>1, <1>2, <1>5, <1>6, <1>7, <1>8 DEF IInv

(* The loop locates the volume of the partition whose turn it is.          *)
LEMMA LocateInv == IInv /\ Locate => IInv'
<1> SUFFICES ASSUME IInv, Locate PROVE IInv'
  OBVIOUS
<1> DEFINE p == parts[cur]
           q == LocateVolume(p, handler)
<1>1. phase = "locate" /\ cur \in 1 .. Len(parts)
  <2>1. phase = "locate" /\ cur <= Len(parts)
    BY DEF Locate
  <2>2. cur \in 1 .. Len(parts) + 1 /\ Len(parts) \in Nat
    BY DEF IInv, TypeOK, Partitions
  <2> QED BY <2>1, <2>2
<1>2. CASE Panic
  BY <1>1, <1>2, PanicInv
<1>3. CASE ~Panic
  <2>1. /\ parts' = [parts EXCEPT ![cur] = q]
        /\ UNCHANGED <<img, args, err, handler, report>>
        /\ \/ q.vol = NoVolume /\ cur' = cur + 1 /\ phase' = phase
           \/ q.vol # NoVolume /\ phase' = "process" /\ cur' = cur
    BY <1>3 DEF Locate
  <2>2. IsPartition(p) /\ p.vol = NoVolume
    BY <1>1 DEF IInv, Partitions, Turn
  <2>3. /\ IsPartition(q) /\ Own(q) /\ q.start = p.start
        /\ q.vol # NoVolume => ~q.vol.inner
    BY <2>2, LocateOwn DEF IInv
  <2> HIDE DEF q
  <2> QED BY <1>1, <2>1, <2>2, <2>3, OneReplacedInv
<1> QED BY <1>2, <1>3

(* The loop processes it.                                                  *)
LEMMA ProcessInv == IInv /\ Process => IInv'
<1> SUFFICES ASSUME IInv, Process PROVE IInv'
  OBVIOUS
<1> DEFINE p == parts[cur]
           w == ProcessVolume(p, handler)
           q == [p EXCEPT !.vol = w]
<1>1. /\ phase = "process" /\ cur \in 1 .. Len(parts)
      /\ IsPartition(p) /\ p.vol # NoVolume /\ ~p.vol.inner /\ (p.table = 0 => Own(p))
  BY DEF Process, IInv, Turn, Partitions
<1>2. CASE Panic
  BY <1>1, <1>2, PanicInv
<1>3. CASE ~Panic
  <2>1. /\ parts' = [parts EXCEPT ![cur].vol = w] /\ phase' = "decrypt" /\ cur' = cur
        /\ UNCHANGED <<img, args, err, handler, report>> /\ ~ProcessPanics(p, handler)
    BY <1>3 DEF Process
  <2>2. parts' = [parts EXCEPT ![cur] = q]
    BY <2>1
  <2>3. w # NoVolume /\ w.inner = p.vol.inner
    BY <1>1, ProcessKeeps DEF IsPartition
  <2>4. IsPartition(q)
    BY <1>1, ProcessPartition
  <2>5. q.vol = w /\ q.start = p.start /\ q.table = p.table
    BY <1>1, WithVolume
  <2>6. q.table = 0 => Own(q)
    BY <1>1, <2>1, <2>5, ProcessOwn DEF IInv
  <2> HIDE DEF w, q
  <2>7. q.vol # NoVolume /\ ~q.vol.inner
    BY <1>1, <2>3, <2>5
  <2> QED BY <1>1, <2>1, <2>2, <2>4, <2>5, <2>6, <2>7, OneReplacedInv
<1> QED BY <1>2, <1>3

(* The elements of a sequence with one more.                               *)
LEMMA ToSetAppend ==
  ASSUME NEW S, NEW s \in Seq(S), NEW e \in S
  PROVE  ToSet(Append(s, e)) = ToSet(s) \cup {e}
<1>1. /\ Len(Append(s, e)) = Len(s) + 1 /\ Len(s) \in Nat
      /\ \A i \in 1 .. Len(s) : Append(s, e)[i] = s[i]
      /\ Append(s, e)[Len(s) + 1] = e
  BY AppendProperties, LenProperties
<1>2. DOMAIN Append(s, e) = 1 .. Len(s) + 1 /\ DOMAIN s = 1 .. Len(s)
  OBVIOUS
<1> QED BY <1>1, <1>2 DEF ToSet

(* The loop unlocks the partition whose turn it is, or leaves it locked.   *)
LEMMA DecryptInv == IInv /\ Decrypt => IInv'
<1> SUFFICES ASSUME IInv, Decrypt PROVE IInv'
  OBVIOUS
<1> DEFINE p == parts[cur]
           w == Decrypted(p, handler)
           q == [p EXCEPT !.vol = w]
           l == NewLayer(p)
<1>1. /\ phase = "decrypt" /\ cur \in 1 .. Len(parts) /\ Len(parts) \in Nat
      /\ DOMAIN parts = 1 .. Len(parts)
      /\ IsPartition(p) /\ p.vol # NoVolume /\ ~p.vol.inner /\ (p.table = 0 => Own(p))
  BY DEF Decrypt, IInv, Turn, Partitions
<1>2. CASE TriesDecrypt(p) /\ DecryptPanics(p, handler)
  BY <1>1, <1>2, PanicInv DEF Decrypt
<1>3. ASSUME ~(TriesDecrypt(p) /\ DecryptPanics(p, handler))
      PROVE  /\ img' = img /\ args' = args /\ err' = err /\ report' = report
             /\ phase' = "locate" /\ cur' = cur + 1
  BY <1>3 DEF Decrypt
<1>4. /\ report = <<>> /\ img \in Images
      /\ \A n \in 1 .. Len(parts) : n > cur => parts[n].vol = NoVolume
  BY <1>1 DEF IInv, Reported, Turn
<1>5. CASE ~(TriesDecrypt(p) /\ DecryptPanics(p, handler)) /\ ~(TriesDecrypt(p) /\ DetectInner(p, handler))
  <2>1. parts' = parts /\ handler' = handler
    BY <1>5 DEF Decrypt, HandlerAfter
  <2>2. TypeOK'
    <3>1. cur' \in 1 .. Len(parts') + 1
      BY <1>1, <1>3, <1>5, <2>1
    <3> QED BY <1>3, <1>5, <2>1, <3>1 DEF IInv, TypeOK
  <2>3. Partitions'
    BY <1>3, <1>5, <2>1, SameDisk DEF IInv, Partitions, IsPartition, IsVolume
  <2>4. Turn'
    BY <1>1, <1>3, <1>4, <1>5, <2>1 DEF Turn
  <2>5. Reported'
    BY <1>3, <1>4, <1>5, Empty DEF Reported
  <2>6. HandlerIsUnlocks'
    BY <1>3, <1>5, <2>1, SameUnlocked DEF IInv, Unlocked
  <2> QED BY <1>3, <1>4, <1>5, <2>2, <2>3, <2>4, <2>5, <2>6 DEF IInv
<1>6. CASE ~(TriesDecrypt(p) /\ DecryptPanics(p, handler)) /\ TriesDecrypt(p) /\ DetectInner(p, handler)
  <2>1. parts' = [parts EXCEPT ![cur] = q] /\ handler' = Append(handler, l)
    BY <1>6 DEF Decrypt, HandlerAfter
  <2>2. /\ IsPartition(q) /\ Own(q) /\ q.vol # NoVolume /\ q.vol.kind = "fve" /\ q.vol.inner
        /\ q.start = p.start
        /\ l = [key |-> Meta(p).key, start |-> p.start] /\ l \in Layers
    <3>1. /\ IsPartition(p) /\ p.vol # NoVolume /\ (p.table = 0 => Own(p))
          /\ TriesDecrypt(p) /\ DetectInner(p, handler) /\ ~DecryptPanics(p, handler)
          /\ q = [p EXCEPT !.vol = Decrypted(p, handler)] /\ l = NewLayer(p)
      BY <1>1, <1>6
    <3> HIDE DEF p, q, l
    <3> QED BY <1>4, <3>1, DecryptOwn, ZenonT(40)
  <2> HIDE DEF q, l
  <2>3. /\ Partitions' /\ Len(parts') = Len(parts) /\ parts'[cur] = q
        /\ \A n \in 1 .. Len(parts) : n # cur => parts'[n] = parts[n]
    BY <1>1, <1>3, <1>6, <2>1, <2>2, OneReplaced
  <2>4. handler \in Seq(Layers)
    BY DEF IInv, TypeOK
  <2>5. TypeOK'
    <3>1. cur' \in 1 .. Len(parts') + 1
      BY <1>1, <1>3, <1>6, <2>3
    <3>2. handler' \in Seq(Layers)
      BY <2>1, <2>2, <2>4
    <3>3. DOMAIN report' \subseteq DOMAIN parts'
      BY <1>3, <1>4, <1>6, Empty
    <3> QED BY <1>3, <1>6, <3>1, <3>2, <3>3 DEF IInv, TypeOK
  <2>6. Turn'
    BY <1>1, <1>3, <1>4, <1>6, <2>3 DEF Turn
  <2>7. Reported'
    BY <1>3, <1>4, <1>6, Empty DEF Reported
  <2>8. HandlerIsUnlocks'
    <3> DEFINE Is(n) == [key |-> Meta(parts[n]).key, start |-> parts[n].start]
               Before == {n \in DOMAIN parts : Unlocked(n)}
               Now == {n \in DOMAIN parts : parts'[n].vol.kind = "fve" /\ parts'[n].vol.inner}
    <3>1. DOMAIN parts' = DOMAIN parts
      BY <1>1, <2>3 DEF Partitions
    <3>2. Now = Before \cup {cur}
      BY <1>1, <2>2, <2>3 DEF Unlocked
    <3>3. \A n \in DOMAIN parts : parts'[n].start = parts[n].start
      BY <1>1, <2>2, <2>3
    <3>4. \A n \in DOMAIN parts : Meta(parts[n])' = Meta(parts[n])
      BY <1>3, <1>6, <3>3, SameMeta
    <3>5. {[key |-> Meta(parts[n])'.key, start |-> parts'[n].start] : n \in Now}
            = {Is(n) : n \in Before} \cup {Is(cur)}
      BY <1>1, <3>2, <3>3, <3>4
    <3>6. ToSet(handler') = ToSet(handler) \cup {Is(cur)}
      BY <2>1, <2>2, <2>4, ToSetAppend
    <3>7. ToSet(handler) = {Is(n) : n \in Before}
      BY DEF IInv, HandlerIsUnlocks
    <3>8. ToSet(handler') = {[key |-> Meta(parts[n])'.key, start |-> parts'[n].start] : n \in Now}
      BY <3>5, <3>6, <3>7
    <3> QED BY <3>1, <3>8 DEF HandlerIsUnlocks, Unlocked
  <2> QED BY <1>3, <1>4, <1>6, <2>3, <2>5, <2>6, <2>7, <2>8 DEF IInv
<1> QED BY <1>2, <1>5, <1>6

(* The volumes are handed to main.                                         *)
LEMMA CollectInv == IInv /\ Collect => IInv'
<1> SUFFICES ASSUME IInv, Collect PROVE IInv'
  OBVIOUS
<1> DEFINE located == {n \in DOMAIN parts : parts[n].vol # NoVolume}
<1>1. phase = "locate" /\ DOMAIN parts = 1 .. Len(parts)
  BY DEF Collect, IInv, Partitions
<1>2. CASE Panic
  BY <1>1, <1>2, PanicInv
<1>3. CASE ~Panic
  <2>1. /\ report' = IF err = "" THEN [n \in located |-> parts[n].vol.fs] ELSE <<>>
        /\ phase' = "done" /\ img' = img /\ args' = args /\ err' = err /\ parts' = parts
        /\ cur' = cur /\ handler' = handler
    BY <1>3 DEF Collect
  <2>2. \A n \in DOMAIN report' : n \in located /\ report'[n] = parts[n].vol.fs
    BY <2>1, Empty
  <2>3. TypeOK'
    <3>1. DOMAIN report' \subseteq DOMAIN parts'
      BY <2>1, <2>2
    <3> QED BY <2>1, <3>1 DEF IInv, TypeOK
  <2>4. Partitions'
    BY <2>1, SameDisk DEF IInv, Partitions, IsPartition, IsVolume
  <2>5. Turn'
    BY <1>1, <2>1 DEF IInv, Turn
  <2>6. Reported'
    BY <1>1, <2>1, <2>2 DEF Reported
  <2>7. HandlerIsUnlocks'
    BY <2>1, SameUnlocked DEF IInv, Unlocked
  <2> QED BY <2>1, <2>3, <2>4, <2>5, <2>6, <2>7 DEF IInv
<1> QED BY <1>2, <1>3

(* No step of the program leaves the invariant.                            *)
LEMMA StepInv == IInv /\ [Next]_vars => IInv'
<1> SUFFICES ASSUME IInv, [Next]_vars PROVE IInv'
  OBVIOUS
<1>1. CASE PseudoMBR \/ InvalidMBR \/ ValidMBR \/ PopulateGPT
  BY <1>1, TableInv
<1>2. CASE TablePanics
  BY <1>2, PanicInv DEF TablePanics
<1>3. CASE Skip
  BY <1>3, SkipInv
<1>4. CASE Locate
  BY <1>4, LocateInv
<1>5. CASE Process
  BY <1>5, ProcessInv
<1>6. CASE Decrypt
  BY <1>6, DecryptInv
<1>7. CASE Collect
  BY <1>7, CollectInv
<1>8. CASE UNCHANGED vars
  <2>1. /\ img' = img /\ args' = args /\ phase' = phase /\ err' = err /\ parts' = parts
        /\ cur' = cur /\ handler' = handler /\ report' = report
    BY <1>8 DEF vars
  <2>2. TypeOK' /\ Turn' /\ Reported'
    BY <2>1 DEF IInv, TypeOK, Turn, Reported
  <2>3. Partitions'
    BY <2>1, SameDisk DEF IInv, Partitions, IsPartition, IsVolume
  <2>4. HandlerIsUnlocks'
    BY <2>1, SameUnlocked DEF IInv, Unlocked
  <2> QED BY <2>1, <2>2, <2>3, <2>4 DEF IInv
<1> QED BY <1>1, <1>2, <1>3, <1>4, <1>5, <1>6, <1>7, <1>8 DEF Next

(* The invariant holds in every reachable state.                           *)
LEMMA SpecInv == Spec => []IInv
BY InitInv, StepInv, PTL DEF Spec
-----------------------------------------------------------------------------
(* The state has its type throughout DiscoverPartitions and                *)
(* ProcessPartitions, and the loop stays within disk.Partitions.           *)
THEOREM TypeCorrect == Spec => []TypeOK
<1>1. IInv => TypeOK
  BY DEF IInv
<1> QED BY <1>1, SpecInv, PTL

(* The reader of the disk decrypts for every unlocked volume, with the key *)
(* of its own metadata, and for no other, on any disk.                     *)
THEOREM HandlerIsUnlocksHolds == Spec => []HandlerIsUnlocks
<1>1. IInv => HandlerIsUnlocks
  BY DEF IInv
<1> QED BY <1>1, SpecInv, PTL

(* Whatever lies on a disk, and whichever volumes were unlocked in between, *)
(* the records reported for a partition are those of its own file system.  *)
THEOREM RecordsTrueHolds == Spec => []RecordsTrue
<1>1. IInv => RecordsTrue
  <2> SUFFICES ASSUME IInv, NEW n \in DOMAIN report, parts[n].table = 0, report[n] # {}
               PROVE  Data(TreeAt(parts[n])).kind = "fs" /\ report[n] = {Data(TreeAt(parts[n])).id}
    BY DEF RecordsTrue
  <2>1. n \in 1 .. Len(parts) /\ report[n] = parts[n].vol.fs /\ parts[n].vol # NoVolume
    BY DEF IInv, Reported
  <2>2. OwnRecords(parts[n])
    BY <2>1 DEF IInv, Partitions, Own
  <2> QED BY <2>1, <2>2 DEF OwnRecords
<1> QED BY <1>1, SpecInv, PTL
-----------------------------------------------------------------------------
(* Which partitions have volumes, what was read of them and through which  *)
(* layers.                                                                 *)

(* The sector that a partition is recognised by.                           *)
Header(p) == HeaderAt(p, p.start)

(* The loop has looked for a volume in this partition.                     *)
Tried(n) == n < cur \/ (n = cur /\ phase \in {"process", "decrypt"})

(* A volume was located exactly where the program was asked to look and a  *)
(* header in the clear could be read through the layers of its turn.       *)
LocatedAt(n) ==
  /\ parts[n].vol # NoVolume =>
       /\ Selected(n) /\ Data(Header(parts[n])).kind \in Recognised(parts[n])
       /\ InClear(Header(parts[n])) => ~UnlockedBelow(Header(parts[n]), 1 .. n - 1)
       /\ parts[n].scheme = "mbr" => InClear(Header(parts[n]))
  /\ Tried(n) /\ Selected(n) /\ Supported(parts[n]) /\ parts[n].vol = NoVolume =>
       UnlockedBelow(Header(parts[n]), 1 .. n - 1)

Located == \A n \in 1 .. Len(parts) : LocatedAt(n)

(* A sector can be read through the layers that were there when a          *)
(* partition had its turn; those of later partitions came after them.      *)
Splits(h, u, n) ==
  /\ handler = h \o u
  /\ \A l \in Layers : l \in ToSet(u) <=>
       \E m \in n + 1 .. Len(parts) :
         Unlocked(m) /\ l = [key |-> Meta(parts[m]).key, start |-> parts[m].start]

ReadOnce(n, s) ==
  /\ ~(s >= img.size) /\ Data(s).kind = "fs"
  /\ \E h, u \in Seq(Layers) : Splits(h, u, n) /\ Passed(h, s) = Sector(s).enc

RecordsAt(n) ==
  parts[n].vol # NoVolume /\ parts[n].table = 0 /\ parts[n].vol.fs # {} =>
    ReadOnce(n, TreeAt(parts[n]))

RecordsRead ==
  /\ phase = "process" => parts[cur].vol.fs = {}
  /\ phase = "decrypt" /\ parts[cur].vol.kind = "fve" => parts[cur].vol.fs = {}
  /\ \A n \in 1 .. Len(parts) : RecordsAt(n)

AllSound == \A n \in 1 .. Len(parts) : Sound(parts[n])

(* On a disk of sound partitions, LVM volumes have an area and BTRFS.      *)
Loads ==
  AllSound =>
    \A n \in 1 .. Len(parts) : parts[n].vol.kind = "lvm" =>
      /\ parts[n].vol.at # 0
      /\ n < cur \/ (n = cur /\ phase = "decrypt") => parts[n].vol.loaded

(* All partitions come from a GPT or all from an MBR.                      *)
OneScheme == \A m \in 1 .. Len(parts) : \A n \in 1 .. Len(parts) : parts[m].scheme = parts[n].scheme

(* What main is given in the end.                                          *)
Finished ==
  phase = "done" =>
    /\ cur > Len(parts)
    /\ \A n \in 1 .. Len(parts) : n \in DOMAIN report <=> err = "" /\ parts[n].vol # NoVolume

ReadInv ==
  IInv /\ OneScheme /\ Located /\ RecordsRead /\ Loads /\ Finished /\ SoundDiskNeverPanics
-----------------------------------------------------------------------------
(* Reading through layers.                                                 *)

(* What is neither noise nor unreadable was read through the very layers   *)
(* the sector was encrypted under.                                         *)
LEMMA ReadMeans ==
  ASSUME NEW h, NEW s, ReadFile(h, s).kind \notin {"noise", "unreadable"}
  PROVE  ~(s >= img.size) /\ Passed(h, s) = Sector(s).enc /\ ReadFile(h, s) = Data(s)
BY DEF ReadFile, Data, Noise, Unreadable

(* Elements of a sequence and its range.                                   *)
LEMMA ToSetRange ==
  ASSUME NEW s
  PROVE  ToSet(s) = Range(s)
BY DEF ToSet, Range

(* A sequence without elements is empty.                                   *)
LEMMA NoElements ==
  ASSUME NEW S, NEW s \in Seq(S)
  PROVE  s = <<>> <=> Range(s) = {}
<1>1. Len(s) \in Nat /\ DOMAIN s = 1 .. Len(s)
  BY LenProperties
<1>2. CASE s = <<>>
  <2>1. DOMAIN s = {}
    BY <1>2, Empty
  <2> QED BY <1>2, <2>1 DEF Range
<1>3. CASE s # <<>>
  <2>1. Len(s) # 0
    BY <1>3, EmptySeq
  <2>2. 1 \in DOMAIN s
    BY <1>1, <2>1
  <2>3. s[1] \in Range(s)
    BY <2>2 DEF Range
  <2> QED BY <1>3, <2>3
<1> QED BY <1>2, <1>3

(* A read passes no layer when none starts at or before the sector.        *)
LEMMA PassesNone ==
  ASSUME NEW h \in Seq(Layers), NEW s
  PROVE  /\ Passed(h, s) \in Seq(Layers)
         /\ Passed(h, s) = <<>> <=> \A l \in ToSet(h) : ~(l.start <= s)
<1> DEFINE T == {l \in Layers : l.start <= s}
<1>1. Passed(h, s) \in Seq(Layers)
  BY KeepSeq DEF Passed
<1>2. Range(Passed(h, s)) = Range(h) \cap T
  BY KeepRange DEF Passed
<1>3. Range(h) \subseteq Layers
  BY RangeOfSeq
<1>4. Passed(h, s) = <<>> <=> Range(h) \cap T = {}
  BY <1>1, <1>2, NoElements
<1>5. Range(h) \cap T = {} <=> \A l \in Range(h) : ~(l.start <= s)
  BY <1>3
<1> QED BY <1>1, <1>4, <1>5, ToSetRange

(* The layers of the disk below a sector are those of partitions unlocked  *)
(* below it.                                                               *)
LEMMA LayersBelow ==
  ASSUME IInv, NEW s
  PROVE  /\ handler \in Seq(Layers)
         /\ Passed(handler, s) = <<>> <=> ~UnlockedBelow(s, 1 .. Len(parts))
<1>1. handler \in Seq(Layers) /\ DOMAIN parts = 1 .. Len(parts)
  BY DEF IInv, TypeOK, Partitions
<1>2. ToSet(handler) = {[key |-> Meta(parts[n]).key, start |-> parts[n].start] :
                          n \in {m \in DOMAIN parts : Unlocked(m)}}
  BY DEF IInv, HandlerIsUnlocks
<1>3. ASSUME NEW l \in ToSet(handler), l.start <= s PROVE UnlockedBelow(s, 1 .. Len(parts))
  <2>1. PICK m \in 1 .. Len(parts) : Unlocked(m) /\ l = [key |-> Meta(parts[m]).key, start |-> parts[m].start]
    BY <1>1, <1>2
  <2>2. parts[m].start <= s
    BY <1>3, <2>1
  <2> QED BY <2>1, <2>2 DEF UnlockedBelow
<1>4. ASSUME UnlockedBelow(s, 1 .. Len(parts)) PROVE \E l \in ToSet(handler) : l.start <= s
  <2>1. PICK m \in 1 .. Len(parts) : Unlocked(m) /\ parts[m].start <= s
    BY <1>4 DEF UnlockedBelow
  <2> DEFINE l == [key |-> Meta(parts[m]).key, start |-> parts[m].start]
  <2>2. l \in ToSet(handler) /\ l.start <= s
    BY <1>1, <1>2, <2>1
  <2> QED BY <2>2
<1> QED BY <1>1, <1>3, <1>4, PassesNone

(* Only partitions whose turn is over are unlocked.                        *)
LEMMA UnlockedEarlier ==
  ASSUME IInv
  PROVE  /\ Len(parts) \in Nat /\ cur \in 1 .. Len(parts) + 1
         /\ \A m \in 1 .. Len(parts) : Unlocked(m) => parts[m].vol # NoVolume /\ m <= cur
         /\ phase \in {"locate", "process", "decrypt"} =>
              \A m \in 1 .. Len(parts) : Unlocked(m) => m \in 1 .. cur - 1
         /\ \A s : phase \in {"locate", "process", "decrypt"} =>
              (UnlockedBelow(s, 1 .. Len(parts)) <=> UnlockedBelow(s, 1 .. cur - 1))
<1>1. Len(parts) \in Nat /\ cur \in 1 .. Len(parts) + 1
  BY DEF IInv, TypeOK, Partitions
<1>2. \A m \in 1 .. Len(parts) : Unlocked(m) => parts[m].vol # NoVolume
  BY DEF Unlocked, NoVolume
<1>3. ASSUME NEW m \in 1 .. Len(parts), Unlocked(m) PROVE m <= cur
  BY <1>1, <1>2, <1>3 DEF IInv, Turn
<1>4. ASSUME phase \in {"locate", "process", "decrypt"}, NEW m \in 1 .. Len(parts), Unlocked(m)
      PROVE  m \in 1 .. cur - 1
  <2>1. m # cur
    <3>1. CASE phase = "locate"
      BY <1>2, <1>4, <3>1 DEF IInv, Turn
    <3>2. CASE phase \in {"process", "decrypt"}
      BY <1>4, <3>2 DEF IInv, Turn, Unlocked
    <3> QED BY <1>4, <3>1, <3>2
  <2> QED BY <1>1, <1>3, <1>4, <2>1
<1>5. ASSUME phase \in {"locate", "process", "decrypt"}, NEW s
      PROVE  UnlockedBelow(s, 1 .. Len(parts)) <=> UnlockedBelow(s, 1 .. cur - 1)
  <2>1. 1 .. cur - 1 \subseteq 1 .. Len(parts)
    BY <1>1
  <2> QED BY <1>4, <1>5, <2>1 DEF UnlockedBelow
<1> QED BY <1>1, <1>2, <1>3, <1>4, <1>5

(* Nothing is unlocked on a disk with an MBR.                              *)
LEMMA MBRLocked ==
  ASSUME IInv, OneScheme, NEW n \in 1 .. Len(parts), parts[n].scheme = "mbr"
  PROVE  \A m \in 1 .. Len(parts) : ~Unlocked(m)
<1> SUFFICES ASSUME NEW m \in 1 .. Len(parts), Unlocked(m) PROVE FALSE
  OBVIOUS
<1>1. IsPartition(parts[m]) /\ parts[m].scheme = "mbr"
  BY DEF IInv, Partitions, OneScheme
<1>2. parts[m].vol # NoVolume /\ parts[m].vol.inner
  BY DEF Unlocked, NoVolume
<1> QED BY <1>1, <1>2 DEF IsPartition

(* A sector in the clear is read as it is unless a partition unlocked      *)
(* earlier starts below it.                                                *)
LEMMA ReadClear ==
  ASSUME IInv, phase \in {"locate", "process", "decrypt"}, NEW s, InClear(s)
  PROVE  /\ UnlockedBelow(s, 1 .. cur - 1) => ReadFile(handler, s).kind \in {"noise", "unreadable"}
         /\ ~UnlockedBelow(s, 1 .. cur - 1) =>
              ReadFile(handler, s) = IF s >= img.size THEN Unreadable ELSE Data(s)
<1>1. Passed(handler, s) = <<>> <=> ~UnlockedBelow(s, 1 .. cur - 1)
  BY LayersBelow, UnlockedEarlier
<1>2. Sector(s).enc = <<>>
  BY DEF InClear
<1> QED BY <1>1, <1>2 DEF ReadFile, Data, Noise, Unreadable

(* Nothing lies beyond the end of a disk.                                  *)
LEMMA BeyondTheEnd ==
  ASSUME img \in Images, NEW s, s >= img.size
  PROVE  Data(s) = Blank
<1>1. img.size \in Nat /\ DOMAIN img.sectors \subseteq 0 .. img.size - 1
  BY DiskAssumption
<1>2. s \notin DOMAIN img.sectors
  BY <1>1
<1> QED BY <1>2 DEF Data, Sector
-----------------------------------------------------------------------------
(* Locating.                                                               *)

(* Headers and kinds by the type of a partition.                           *)
LEMMA HeaderCases ==
  ASSUME NEW p, IsPartition(p)
  PROVE  /\ p.type = "linux" => p.scheme = "mbr" /\ Header(p) = p.start + SuperblockAt
         /\ p.type = "raid" => p.scheme = "gpt" /\ Header(p) = p.start + RaidAt
         /\ p.type \notin {"linux", "raid"} => Header(p) = p.start
         /\ p.type = "ntfs" => p.scheme = "mbr"
         /\ p.type = "basic" => p.scheme = "gpt"
         /\ p.start \in Nat /\ Header(p) \in Nat /\ p.start <= Header(p)
         /\ Header(p) <= p.start + SuperblockAt + RaidAt
<1>1. /\ p.start \in Nat /\ p.type \in Types(p.scheme) /\ p.scheme \in {"mbr", "gpt"}
      /\ SuperblockAt \in Nat /\ RaidAt \in Nat
  BY DiskAssumption DEF IsPartition
<1>2. /\ p.type = "linux" => Header(p) = p.start + SuperblockAt
      /\ p.type = "raid" => Header(p) = p.start + RaidAt
      /\ p.type \notin {"linux", "raid"} => Header(p) = p.start
  BY <1>1 DEF Header, HeaderAt
<1>3. /\ p.type \in {"linux", "ntfs"} => p.scheme = "mbr"
      /\ p.type \in {"raid", "basic"} => p.scheme = "gpt"
  BY <1>1 DEF Types
<1>4. /\ Header(p) \in Nat /\ p.start <= Header(p) /\ Header(p) <= p.start + SuperblockAt + RaidAt
  BY <1>1, <1>2
<1> QED BY <1>1, <1>2, <1>3, <1>4

(* A volume is located exactly where its header is recognised.             *)
LEMMA LocateFinds ==
  ASSUME NEW p, IsPartition(p), p.vol = NoVolume, NEW h
  PROVE  LocateVolume(p, h).vol # NoVolume <=> ReadFile(h, Header(p)).kind \in Recognised(p)
<1> DEFINE q == LocateVolume(p, h)
           boot == ReadFile(h, p.start)
           sb == ReadFile(h, p.start + SuperblockAt)
           raid == ReadFile(h, p.start + RaidAt)
           at == IF ReadFile(h, p.start + raid.offset).kind = "lvm"
                 THEN ReadFile(h, p.start + raid.offset).area ELSE 0
<1>1. \A k, a, c : k # "none" => NewVolume(k, a, c) # NoVolume
  BY FreshVolume, VolumeKind
<1>2. /\ p.type \in Types(p.scheme) /\ p.scheme \in {"mbr", "gpt"}
      /\ p.type = "linux" => Header(p) = p.start + SuperblockAt
      /\ p.type = "raid" => Header(p) = p.start + RaidAt
      /\ p.type \notin {"linux", "raid"} => Header(p) = p.start
  BY HeaderCases DEF IsPartition
<1>3. CASE p.scheme = "gpt" /\ p.type = "basic"
  <2>1. Recognised(p) = {"ntfs", "fve"} /\ Header(p) = p.start
    BY <1>2, <1>3 DEF Recognised
  <2>2. /\ boot.kind = "ntfs" => q = [p EXCEPT !.vol = NewVolume("ntfs", boot.root, <<>>)]
        /\ boot.kind = "fve" => q = [p EXCEPT !.vol = NewVolume("fve", 0, boot.copies)]
        /\ boot.kind \notin {"ntfs", "fve"} => q = p
    BY <1>3 DEF LocateVolume, LocateGPT
  <2> HIDE DEF q, boot
  <2>3. CASE boot.kind = "ntfs"
    <3>1. q.vol = NewVolume("ntfs", boot.root, <<>>)
      BY <2>2, <2>3, WithVolume
    <3> QED BY <1>1, <2>1, <2>3, <3>1 DEF q, boot
  <2>4. CASE boot.kind = "fve"
    <3>1. q.vol = NewVolume("fve", 0, boot.copies)
      BY <2>2, <2>4, WithVolume
    <3> QED BY <1>1, <2>1, <2>4, <3>1 DEF q, boot
  <2>5. CASE boot.kind \notin {"ntfs", "fve"}
    BY <2>1, <2>2, <2>5 DEF q, boot
  <2> QED BY <2>3, <2>4, <2>5
<1>4. CASE p.scheme = "gpt" /\ p.type = "raid"
  <2>1. Recognised(p) = {"raid"} /\ Header(p) = p.start + RaidAt
    BY <1>2, <1>4 DEF Recognised
  <2>2. /\ raid.kind = "raid" => q = [p EXCEPT !.raid = raid.offset, !.vol = NewVolume("lvm", at, <<>>)]
        /\ raid.kind # "raid" => q = p
    BY <1>4 DEF LocateVolume, LocateGPT
  <2> HIDE DEF q, raid, at
  <2>3. CASE raid.kind = "raid"
    <3>1. q.vol = NewVolume("lvm", at, <<>>)
      BY <2>2, <2>3 DEF IsPartition
    <3> QED BY <1>1, <2>1, <2>3, <3>1 DEF q, raid
  <2>4. CASE raid.kind # "raid"
    BY <2>1, <2>2, <2>4 DEF q, raid
  <2> QED BY <2>3, <2>4
<1>5. CASE p.scheme = "gpt" /\ p.type = "other"
  <2>1. Recognised(p) = {}
    BY <1>5 DEF Recognised
  <2>2. q = p
    BY <1>5 DEF LocateVolume, LocateGPT
  <2> QED BY <2>1, <2>2
<1>6. CASE p.scheme = "mbr"
  <2>1. q = [p EXCEPT !.vol = LocateMBR(p, h)]
    BY <1>6 DEF LocateVolume
  <2>2. q.vol = LocateMBR(p, h)
    BY <2>1 DEF IsPartition
  <2>3. CASE p.type = "ntfs"
    <3>1. Recognised(p) = {"ntfs", "fve"} /\ Header(p) = p.start
      BY <1>2, <2>3 DEF Recognised
    <3>2. /\ boot.kind = "ntfs" => LocateMBR(p, h) = NewVolume("ntfs", boot.root, <<>>)
          /\ boot.kind = "fve" => LocateMBR(p, h) = NewVolume("fve", 0, <<>>)
          /\ boot.kind \notin {"ntfs", "fve"} => LocateMBR(p, h) = NoVolume
      BY <2>3 DEF LocateMBR
    <3> HIDE DEF q, boot
    <3> QED BY <1>1, <2>2, <3>1, <3>2 DEF q, boot
  <2>4. CASE p.type = "linux"
    <3>1. Recognised(p) = {"btrfs"} /\ Header(p) = p.start + SuperblockAt
      BY <1>2, <2>4 DEF Recognised
    <3>2. /\ sb.kind = "btrfs" => LocateMBR(p, h) = NewVolume("btrfs", sb.root, <<>>)
          /\ sb.kind # "btrfs" => LocateMBR(p, h) = NoVolume
      BY <2>4 DEF LocateMBR
    <3> HIDE DEF q, sb
    <3> QED BY <1>1, <2>2, <3>1, <3>2 DEF q, sb
  <2>5. CASE p.type \notin {"ntfs", "linux"}
    <3>1. Recognised(p) = {}
      BY <1>2, <1>6, <2>5 DEF Recognised, Types
    <3>2. LocateMBR(p, h) = NoVolume
      BY <2>5 DEF LocateMBR
    <3> QED BY <2>2, <3>1, <3>2
  <2> QED BY <2>3, <2>4, <2>5
<1> QED BY <1>2, <1>3, <1>4, <1>5, <1>6 DEF Types
-----------------------------------------------------------------------------
(* Steps that keep the partitions apart from the one whose turn it is.     *)

(* Same disk, same command line, same table.                               *)
Follows ==
  /\ img' = img /\ args' = args /\ Len(parts') = Len(parts)
  /\ DOMAIN parts = 1 .. Len(parts) /\ DOMAIN parts' = 1 .. Len(parts)
  /\ \A n \in 1 .. Len(parts) :
       /\ parts'[n].start = parts[n].start /\ parts'[n].type = parts[n].type
       /\ parts'[n].table = parts[n].table /\ parts'[n].scheme = parts[n].scheme
       /\ n # cur => parts'[n] = parts[n]

(* What the disk holds stays.                                              *)
LEMMA SameSectors ==
  ASSUME img' = img, NEW s
  PROVE  Sector(s)' = Sector(s) /\ Data(s)' = Data(s) /\ (InClear(s)' <=> InClear(s))
BY DEF Data, Sector, InClear

(* What depends on the place and the type of a partition only stays.       *)
LEMMA SameStatics ==
  ASSUME img' = img, NEW p, NEW q, q.start = p.start, q.type = p.type
  PROVE  /\ Header(q) = Header(p) /\ Recognised(q) = Recognised(p)
         /\ (Supported(q)' <=> Supported(p)) /\ TreeAt(q)' = TreeAt(p) /\ Meta(q)' = Meta(p)
         /\ (HoldsBitlocker(q)' <=> HoldsBitlocker(p))
<1>1. \A s : Sector(s)' = Sector(s) /\ Data(s)' = Data(s) /\ (InClear(s)' <=> InClear(s))
  BY SameSectors
<1>2. Header(q) = Header(p) /\ Recognised(q) = Recognised(p)
  BY DEF Header, HeaderAt, Recognised
<1>3. Supported(q)' <=> Supported(p)
  BY <1>1 DEF Supported, SupportedAt, HeaderAt, Recognised
<1>4. Meta(q)' = Meta(p) /\ (HoldsBitlocker(q)' <=> HoldsBitlocker(p))
  BY <1>1 DEF Meta, HoldsBitlocker
<1>5. TreeAt(q)' = TreeAt(p)
  BY DEF TreeAt, HoldsBitlocker, Meta, Data, Sector
<1> QED BY <1>2, <1>3, <1>4, <1>5

(* A partition stays as sound as it was.                                   *)
LEMMA SameWhole ==
  ASSUME Follows, NEW p, NEW q, q.start = p.start, q.type = p.type, q.table = p.table
  PROVE  Sound(q)' <=> Sound(p)
<1>1. \A s : Sector(s)' = Sector(s) /\ Data(s)' = Data(s) /\ (InClear(s)' <=> InClear(s))
  BY SameSectors DEF Follows
<1>2. \A s : Owns(q, s)' <=> Owns(p, s)
  BY DEF Follows, Owns
<1>3. \A s : Open(q, s)' <=> Open(p, s)
  BY <1>1, <1>2 DEF Open
<1>4. TreeAt(q)' = TreeAt(p) /\ Meta(q)' = Meta(p) /\ Recognised(q) = Recognised(p)
  BY SameStatics DEF Follows
<1>5. \A s : HeaderAt(q, s) = HeaderAt(p, s)
  BY DEF HeaderAt
<1>6. img' = img /\ args' = args
  BY DEF Follows
<1>7. Whole(q)' <=> Whole(p)
  BY <1>1, <1>2, <1>3, <1>4, <1>5, <1>6 DEF Whole
<1> QED BY <1>1, <1>4, <1>5, <1>6, <1>7 DEF Sound

(* So does the disk.                                                       *)
LEMMA SameSound ==
  ASSUME Follows
  PROVE  AllSound' <=> AllSound
<1>1. \A n \in 1 .. Len(parts) : Sound(parts[n])' <=> Sound(parts[n])
  BY SameWhole DEF Follows
<1> QED BY <1>1 DEF AllSound, Follows
-----------------------------------------------------------------------------
(* Each part of the invariant, in a step that follows.                     *)

(* The step is of the partition whose turn it is, or passes to the next.   *)
OneTurn == cur' = cur \/ (cur' = cur + 1 /\ phase' \notin {"process", "decrypt"})

(* Whether partitions before the current one are unlocked stays.           *)
LEMMA SameBelow ==
  ASSUME IInv, Follows, NEW n \in Nat, n <= cur, NEW s
  PROVE  UnlockedBelow(s, 1 .. n - 1)' <=> UnlockedBelow(s, 1 .. n - 1)
<1>1. Len(parts) \in Nat /\ cur \in 1 .. Len(parts) + 1
  BY UnlockedEarlier
<1>2. \A m \in 1 .. n - 1 : parts'[m] = parts[m]
  BY <1>1 DEF Follows
<1>3. \A m \in 1 .. n - 1 : Unlocked(m)' <=> Unlocked(m)
  BY <1>2 DEF Unlocked
<1> QED BY <1>2, <1>3 DEF UnlockedBelow

(* Located goes on from the partitions before to the current one.          *)
LEMMA LocatedStep ==
  ASSUME IInv, Located, Follows, OneTurn,
         \A n \in 1 .. Len(parts) : n = cur => LocatedAt(n)'
  PROVE  Located'
<1>1. Len(parts) \in Nat /\ cur \in 1 .. Len(parts) + 1
  BY UnlockedEarlier
<1>2. /\ img' = img /\ args' = args /\ Len(parts') = Len(parts)
      /\ \A n \in 1 .. Len(parts) : n # cur => parts'[n] = parts[n]
  BY DEF Follows
<1>3. \A s : Data(s)' = Data(s) /\ (InClear(s)' <=> InClear(s))
  BY <1>2, SameSectors
<1> SUFFICES ASSUME NEW n \in 1 .. Len(parts), n # cur PROVE LocatedAt(n)'
  BY <1>2 DEF Located
<1>4. parts'[n] = parts[n] /\ (Selected(n)' <=> Selected(n))
  BY <1>2 DEF Selected
<1>5. /\ Header(parts'[n]) = Header(parts[n]) /\ Recognised(parts'[n]) = Recognised(parts[n])
      /\ Supported(parts[n])' <=> Supported(parts[n])
  BY <1>2, <1>4, SameStatics
<1>6. CASE n < cur
  <2>1. \A s : UnlockedBelow(s, 1 .. n - 1)' <=> UnlockedBelow(s, 1 .. n - 1)
    BY <1>1, <1>6, SameBelow
  <2>2. LocatedAt(n) /\ Tried(n)
    BY <1>6 DEF Located, Tried
  <2>3. /\ parts[n].vol # NoVolume =>
             /\ Selected(n)' /\ Data(Header(parts[n]))'.kind \in Recognised(parts'[n])
             /\ InClear(Header(parts[n]))' => ~UnlockedBelow(Header(parts[n]), 1 .. n - 1)'
             /\ parts'[n].scheme = "mbr" => InClear(Header(parts[n]))'
    BY <1>3, <1>4, <1>5, <2>1, <2>2 DEF LocatedAt
  <2>4. Selected(n)' /\ Supported(parts[n])' /\ parts'[n].vol = NoVolume =>
          UnlockedBelow(Header(parts[n]), 1 .. n - 1)'
    BY <1>4, <1>5, <2>1, <2>2 DEF LocatedAt
  <2> QED BY <1>4, <2>3, <2>4 DEF LocatedAt
<1>7. CASE n > cur
  <2>1. parts'[n].vol = NoVolume
    BY <1>4, <1>7 DEF IInv, Turn
  <2>2. ~Tried(n)'
    BY <1>1, <1>7 DEF OneTurn, Tried
  <2> QED BY <2>1, <2>2 DEF LocatedAt
<1> QED BY <1>1, <1>6, <1>7

(* Layers on top of those there were leave readable what was read.         *)
LEMMA ReadOnceKept ==
  ASSUME img' = img, handler' = handler, Len(parts') = Len(parts),
         \A m \in 1 .. Len(parts) : parts'[m].start = parts[m].start /\ (Unlocked(m)' <=> Unlocked(m)),
         Len(parts) \in Nat, NEW n \in 1 .. Len(parts), NEW s, ReadOnce(n, s)
  PROVE  ReadOnce(n, s)'
<1>1. Sector(s)' = Sector(s) /\ Data(s)' = Data(s)
  BY SameSectors
<1>2. \A m \in 1 .. Len(parts) : Meta(parts[m])' = Meta(parts[m])
  BY SameMeta
<1>3. ASSUME NEW h, NEW u, Splits(h, u, n) PROVE Splits(h, u, n)'
  <2>1. ASSUME NEW l \in Layers
        PROVE  (\E m \in n + 1 .. Len(parts) :
                  Unlocked(m) /\ l = [key |-> Meta(parts[m]).key, start |-> parts[m].start])'
               <=> \E m \in n + 1 .. Len(parts) :
                     Unlocked(m) /\ l = [key |-> Meta(parts[m]).key, start |-> parts[m].start]
    BY <1>2
  <2> QED BY <1>3, <2>1 DEF Splits
<1> QED BY <1>1, <1>3 DEF ReadOnce
(* A layer on top goes to the end of the later ones.                       *)
Topped(h, u, l) == Append(h \o u, l) = h \o Append(u, l)

LEMMA AppendLast ==
  ASSUME NEW S, NEW h \in Seq(S), NEW u \in Seq(S), NEW l \in S
  PROVE  Topped(h, u, l)
<1>1. h \o u \in Seq(S) /\ <<l>> \in Seq(S)
  BY ConcatProperties
<1>2. Append(h \o u, l) = (h \o u) \o <<l>> /\ Append(u, l) = u \o <<l>>
  BY <1>1, AppendIsConcat
<1>3. Associates(h, u, <<l>>)
  BY <1>1, Associative
<1> QED BY <1>2, <1>3, Zenon DEF Associates, Topped

(* Unlocking a later partition leaves readable what was read, with its     *)
(* layer among the later ones.                                             *)
LEMMA ReadOncePushed ==
  ASSUME img' = img, Len(parts') = Len(parts), Len(parts) \in Nat,
         NEW k \in 1 .. Len(parts), NEW l \in Layers, handler' = Append(handler, l),
         l = [key |-> Meta(parts[k]).key, start |-> parts[k].start],
         \A m \in 1 .. Len(parts) : /\ parts'[m].start = parts[m].start
                                    /\ Unlocked(m)' <=> Unlocked(m) \/ m = k,
         NEW n \in 1 .. Len(parts), n < k, NEW s, ReadOnce(n, s)
  PROVE  ReadOnce(n, s)'
<1>1. Sector(s)' = Sector(s) /\ Data(s)' = Data(s)
  BY SameSectors
<1>2. \A m \in 1 .. Len(parts) : Meta(parts[m])' = Meta(parts[m])
  BY SameMeta
<1>3. PICK h, u \in Seq(Layers) : Splits(h, u, n) /\ Passed(h, s) = Sector(s).enc
  BY DEF ReadOnce
<1> DEFINE v == Append(u, l)
<1>4. v \in Seq(Layers) /\ ToSet(v) = ToSet(u) \cup {l}
  BY <1>3, ToSetAppend, AppendProperties
<1>5. handler' = h \o v
  <2>1. handler = h \o u
    BY <1>3 DEF Splits
  <2>2. Topped(h, u, l)
    BY <1>3, AppendLast
  <2> QED BY <2>1, <2>2, Zenon DEF Topped
<1>6. ASSUME NEW x \in Layers
      PROVE  x \in ToSet(v) <=>
               (\E m \in n + 1 .. Len(parts) :
                  Unlocked(m) /\ x = [key |-> Meta(parts[m]).key, start |-> parts[m].start])'
  <2>1. x \in ToSet(u) <=> \E m \in n + 1 .. Len(parts) :
                             Unlocked(m) /\ x = [key |-> Meta(parts[m]).key, start |-> parts[m].start]
    BY <1>3 DEF Splits
  <2>2. k \in n + 1 .. Len(parts) /\ n + 1 .. Len(parts) \subseteq 1 .. Len(parts)
    OBVIOUS
  <2> QED BY <1>2, <1>4, <2>1, <2>2
<1>7. Splits(h, v, n)'
  <2> HIDE DEF v
  <2> QED BY <1>5, <1>6 DEF Splits
<1> QED BY <1>1, <1>3, <1>4, <1>7 DEF ReadOnce

(* What is read through the layers of the disk now is readable while no    *)
(* later partition is unlocked.                                            *)
LEMMA ReadNow ==
  ASSUME img' = img, NEW h \in Seq(Layers), handler' = h, NEW n, NEW s, ~(s >= img.size),
         Data(s).kind = "fs", Passed(h, s) = Sector(s).enc,
         \A m \in n + 1 .. Len(parts') : ~Unlocked(m)'
  PROVE  ReadOnce(n, s)'
<1>1. Sector(s)' = Sector(s) /\ Data(s)' = Data(s)
  BY SameSectors
<1>2. h \o <<>> = h /\ <<>> \in Seq(Layers) /\ ToSet(<<>>) = {}
  BY ConcatEmptySeq, EmptySeq, Empty
<1>3. Splits(h, <<>>, n)'
  BY <1>2 DEF Splits
<1> QED BY <1>1, <1>2, <1>3 DEF ReadOnce

(* Whether a volume was located does not change with its contents.         *)
LEMMA LocatedStays ==
  ASSUME IInv, Follows, NEW n \in 1 .. Len(parts), n <= cur, LocatedAt(n),
         parts'[n].vol = NoVolume <=> parts[n].vol = NoVolume,
         Tried(n)' /\ Selected(n) => Tried(n)
  PROVE  LocatedAt(n)'
<1>1. \A s : Data(s)' = Data(s) /\ (InClear(s)' <=> InClear(s))
  BY SameSectors DEF Follows
<1>2. /\ Header(parts'[n]) = Header(parts[n]) /\ Recognised(parts'[n]) = Recognised(parts[n])
      /\ Supported(parts[n])' <=> Supported(parts[n])
  BY SameStatics DEF Follows
<1>3. n \in Nat
  OBVIOUS
<1>4. \A s : UnlockedBelow(s, 1 .. n - 1)' <=> UnlockedBelow(s, 1 .. n - 1)
  BY <1>3, SameBelow
<1>5. Selected(n)' <=> Selected(n)
  BY DEF Follows, Selected
<1>6. parts'[n].vol # NoVolume =>
        /\ Selected(n)' /\ Data(Header(parts[n]))'.kind \in Recognised(parts'[n])
        /\ InClear(Header(parts[n]))' => ~UnlockedBelow(Header(parts[n]), 1 .. n - 1)'
        /\ parts'[n].scheme = "mbr" => InClear(Header(parts[n]))'
  BY <1>1, <1>2, <1>4, <1>5 DEF LocatedAt, Follows
<1>7. Tried(n)' /\ Selected(n)' /\ Supported(parts[n])' /\ parts'[n].vol = NoVolume =>
        UnlockedBelow(Header(parts[n]), 1 .. n - 1)'
  BY <1>2, <1>4, <1>5 DEF LocatedAt
<1> QED BY <1>2, <1>6, <1>7 DEF LocatedAt

(* Nor does what was read, while the layers stay.                          *)
LEMMA RecordsKept ==
  ASSUME img' = img, handler' = handler, Len(parts') = Len(parts), Len(parts) \in Nat,
         \A m \in 1 .. Len(parts) : parts'[m].start = parts[m].start /\ (Unlocked(m)' <=> Unlocked(m)),
         NEW n \in 1 .. Len(parts), RecordsAt(n), parts'[n] = parts[n]
  PROVE  RecordsAt(n)'
<1>1. TreeAt(parts[n])' = TreeAt(parts[n])
  BY SameStatics
<1>2. \A s : ReadOnce(n, s) => ReadOnce(n, s)'
  BY ReadOnceKept
<1> QED BY <1>1, <1>2 DEF RecordsAt

(* The program stops, or passes to the next partition with nothing to do.  *)
Idle ==
  \/ cur' = cur /\ phase' \in {phase, "panic", "done"}
  \/ /\ cur' = cur + 1 /\ phase' = "locate"
     /\ phase = "decrypt" \/ (phase = "locate" /\ ~Selected(cur))

(* Where the partitions and the layers stay, what was read stays.          *)
LEMMA Quiet ==
  ASSUME ReadInv, parts' = parts, handler' = handler, img' = img, args' = args, Idle
  PROVE  Located' /\ RecordsRead' /\ Loads'
<1>1. IInv /\ Located /\ RecordsRead /\ Loads
  BY DEF ReadInv
<1>2. Follows /\ Len(parts) \in Nat /\ cur \in 1 .. Len(parts) + 1
  BY <1>1, UnlockedEarlier DEF Follows, IInv, Partitions
<1>3. OneTurn
  BY DEF OneTurn, Idle
<1>4. Located'
  <2>1. ASSUME NEW n \in 1 .. Len(parts), n = cur PROVE LocatedAt(n)'
    <3>1. Tried(n)' /\ Selected(n) => Tried(n)
      BY <1>2, <2>1 DEF Idle, Tried
    <3>2. LocatedAt(n)
      BY <1>1 DEF Located
    <3> QED BY <1>1, <1>2, <2>1, <3>1, <3>2, LocatedStays
  <2> QED BY <1>1, <1>2, <1>3, <2>1, LocatedStep
<1>5. RecordsRead'
  <2>1. \A m \in 1 .. Len(parts) : Unlocked(m)' <=> Unlocked(m)
    BY DEF Unlocked
  <2>2. \A n \in 1 .. Len(parts) : RecordsAt(n)'
    BY <1>1, <1>2, <2>1, RecordsKept DEF RecordsRead
  <2>3. /\ phase' = "process" => phase = "process" /\ cur' = cur
        /\ phase' = "decrypt" => phase = "decrypt" /\ cur' = cur
    BY DEF Idle
  <2> QED BY <1>1, <2>2, <2>3 DEF RecordsRead
<1>6. Loads'
  <2>1. AllSound' <=> AllSound
    BY <1>2, SameSound
  <2>2. ASSUME NEW n \in 1 .. Len(parts), parts[n].vol.kind = "lvm",
               n < cur' \/ (n = cur' /\ phase' = "decrypt")
        PROVE  n < cur \/ (n = cur /\ phase = "decrypt")
    <3>1. parts[n].vol # NoVolume
      BY <2>2 DEF NoVolume
    <3>2. phase = "locate" => n # cur
      BY <1>1, <3>1 DEF IInv, Turn
    <3> QED BY <1>2, <2>2, <3>2 DEF Idle
  <2> QED BY <1>1, <2>1, <2>2 DEF Loads
<1> QED BY <1>4, <1>5, <1>6

(* A table without volumes has nothing to read.                            *)
LEMMA Listed ==
  ASSUME IInv', cur' = 1, phase' \in {"gpt", "locate"}
  PROVE  Located' /\ RecordsRead' /\ Loads'
<1>1. \A n \in 1 .. Len(parts') : parts'[n].vol = NoVolume
  <2>1. CASE phase' = "locate"
    BY <2>1 DEF IInv, Turn
  <2>2. CASE phase' = "gpt"
    <3>1. Len(parts') = 0
      BY <2>2 DEF IInv, Turn
    <3> QED BY <3>1
  <2> QED BY <2>1, <2>2
<1>2. \A n \in 1 .. Len(parts') : ~Tried(n)'
  BY DEF Tried
<1> QED BY <1>1, <1>2 DEF Located, LocatedAt, RecordsRead, RecordsAt, Loads, NoVolume
-----------------------------------------------------------------------------
(* What a partition owns is read as it lies on the disk.                   *)

(* A sector of the disk can be read, as what it is or as noise.            *)
LEMMA ReadFits ==
  ASSUME img \in Images, NEW h, NEW s \in Nat, s < img.size
  PROVE  ReadFile(h, s) # Unreadable
<1>1. Data(s).kind # "unreadable"
  BY DataTyped DEF WellTyped
<1>2. img.size \in Nat
  BY DiskAssumption
<1>3. ~(s >= img.size)
  BY <1>2
<1> QED BY <1>1, <1>3 DEF ReadFile, Data, Noise, Unreadable

(* No partition unlocked earlier starts below a sector of the one whose    *)
(* turn it is, unless it starts below its header.                          *)
LEMMA OwnedReads ==
  ASSUME IInv, phase \in {"locate", "process", "decrypt"}, cur \in 1 .. Len(parts),
         ~UnlockedBelow(Header(parts[cur]), 1 .. cur - 1),
         NEW s \in Nat, Owns(parts[cur], s)
  PROVE  /\ ~(s >= img.size) /\ Passed(handler, s) = <<>>
         /\ InClear(s) => ReadFile(handler, s) = Data(s)
<1> DEFINE p == parts[cur]
<1>1. IsPartition(p) /\ Len(parts) \in Nat /\ DOMAIN parts = 1 .. Len(parts)
  BY DEF IInv, Partitions
<1>2. ~(s >= img.size)
  <2>1. img.size \in Nat
    BY DiskAssumption DEF IInv
  <2> QED BY <2>1 DEF Owns
<1>3. ~UnlockedBelow(s, 1 .. cur - 1)
  <2> SUFFICES ASSUME NEW m \in 1 .. cur - 1, Unlocked(m), parts[m].start <= s PROVE FALSE
    BY DEF UnlockedBelow
  <2>1. m \in DOMAIN parts /\ IsPartition(parts[m])
    BY <1>1 DEF IInv, Partitions
  <2>2. parts[m].start \in Nat /\ p.start \in Nat
    BY <1>1, <2>1 DEF IsPartition
  <2>3. ~(parts[m].start > p.start)
    BY <2>1, <2>2 DEF Owns
  <2>4. parts[m].start <= Header(p)
    <3>1. Header(p) \in Nat /\ p.start <= Header(p)
      BY <1>1, HeaderCases
    <3> QED BY <2>2, <2>3, <3>1
  <2> QED BY <2>4 DEF UnlockedBelow
<1>4. Passed(handler, s) = <<>>
  BY <1>3, LayersBelow, UnlockedEarlier
<1> QED BY <1>2, <1>4 DEF ReadFile, InClear, Data

(* Where the parts of a RAID member of a sound partition are read.         *)
LEMMA RaidReads ==
  ASSUME IInv, phase \in {"locate", "process", "decrypt"}, cur \in 1 .. Len(parts),
         ~UnlockedBelow(Header(parts[cur]), 1 .. cur - 1),
         Sound(parts[cur]), parts[cur].type = "raid", Data(Header(parts[cur])).kind = "raid"
  PROVE  LET p    == parts[cur]
             lvm  == p.start + Data(Header(p)).offset
             base == lvm + Data(lvm).area
         IN /\ lvm \in Nat /\ lvm < img.size
            /\ Data(lvm).kind = "lvm" /\ Data(lvm).area # 0 /\ base \in Nat
            /\ base + SuperblockAt \in Nat /\ base + SuperblockAt < img.size
            /\ ReadFile(handler, lvm) = Data(lvm)
            /\ ReadFile(handler, base + SuperblockAt) = Data(base + SuperblockAt)
            /\ Data(base + SuperblockAt).kind = "btrfs"
            /\ TreeAt(p) = base + Data(base + SuperblockAt).root
            /\ Data(TreeAt(p)).kind # "noroot"
<1> DEFINE p == parts[cur]
           lvm == p.start + Data(Header(p)).offset
           base == lvm + Data(lvm).area
<1>1. IsPartition(p) /\ img \in Images
  BY DEF IInv, Partitions
<1>2. Header(p) = p.start + RaidAt /\ p.start \in Nat
  BY <1>1, HeaderCases
<1>3. Whole(p)
  <2>1. Recognised(p) = {"raid"}
    BY DEF Recognised
  <2> QED BY <2>1 DEF Sound, Header
<1>4. lvm \in Nat
  <2>1. Data(Header(p)).offset \in Nat
    BY <1>1, DataTyped DEF WellTyped
  <2> QED BY <1>2, <2>1
<1>5. /\ Open(p, lvm) /\ Data(lvm).kind = "lvm" /\ Data(lvm).area # 0
      /\ Open(p, base + SuperblockAt) /\ Data(base + SuperblockAt).kind = "btrfs"
      /\ Data(TreeAt(p)).kind # "noroot"
  BY <1>3 DEF Whole, Header
<1>6. base \in Nat /\ base + SuperblockAt \in Nat
  <2>1. Data(lvm).area \in Nat
    BY <1>1, <1>5, DataTyped DEF WellTyped
  <2> QED BY <1>4, <2>1, DiskAssumption
<1>7. TreeAt(p) = base + Data(base + SuperblockAt).root
  BY <1>2 DEF TreeAt, HoldsBitlocker
<1> HIDE DEF base, lvm
<1>8. lvm < img.size /\ ReadFile(handler, lvm) = Data(lvm)
  BY <1>4, <1>5, OwnedReads DEF Open, Owns
<1>9. /\ base + SuperblockAt < img.size
      /\ ReadFile(handler, base + SuperblockAt) = Data(base + SuperblockAt)
  BY <1>5, <1>6, OwnedReads DEF Open, Owns
<1> QED BY <1>4, <1>5, <1>6, <1>7, <1>8, <1>9 DEF base, lvm

(* A sound disk survives the search for volumes.                           *)
LEMMA LocateSurvives ==
  ASSUME ReadInv, phase = "locate", cur \in 1 .. Len(parts), AllSound
  PROVE  ~LocatePanics(parts[cur], handler)
<1> DEFINE p == parts[cur]
           raid == ReadFile(handler, p.start + RaidAt)
<1>1. IInv /\ IsPartition(p) /\ img \in Images /\ Sound(p)
  BY DEF ReadInv, IInv, Partitions, AllSound
<1>2. /\ p.start \in Nat /\ p.table \in Nat /\ img.size \in Nat /\ SuperblockAt \in Nat /\ RaidAt \in Nat
      /\ p.start + p.table + SuperblockAt + RaidAt < img.size
  BY <1>1, DiskAssumption DEF IsPartition, Sound
<1>3. /\ ReadFile(handler, p.start + SuperblockAt) # Unreadable
      /\ ReadFile(handler, p.start) # Unreadable
      /\ raid # Unreadable
  <2> HIDE DEF p
  <2>1. /\ p.start + SuperblockAt \in Nat /\ p.start + SuperblockAt < img.size
        /\ p.start + RaidAt \in Nat /\ p.start + RaidAt < img.size /\ p.start < img.size
    BY <1>2
  <2> QED BY <1>1, <1>2, <2>1, ReadFits
<1>4. ASSUME p.type = "raid", raid.kind = "raid"
      PROVE  ReadFile(handler, p.start + raid.offset) # Unreadable
  <2>1. Header(p) = p.start + RaidAt
    BY <1>1, <1>4, HeaderCases
  <2>2. raid = Data(Header(p))
    BY <1>4, <2>1, ReadMeans
  <2>3. InClear(Header(p))
    <3>1. Recognised(p) = {"raid"}
      BY <1>4 DEF Recognised
    <3> QED BY <1>1, <1>4, <2>2, <3>1 DEF Sound, Whole, Open, Header
  <2>4. ~UnlockedBelow(Header(p), 1 .. cur - 1)
    BY <1>1, <1>4, <2>1, <2>3, ReadClear
  <2> DEFINE lvm == p.start + Data(Header(p)).offset
  <2>5. lvm \in Nat /\ lvm < img.size
    <3> HIDE DEF raid
    <3> QED BY <1>1, <1>4, <2>2, <2>4, RaidReads
  <2>6. ReadFile(handler, lvm) # Unreadable
    BY <1>1, <2>5, ReadFits
  <2> QED BY <2>2, <2>6
<1> QED BY <1>3, <1>4 DEF LocatePanics

(* Locating reads no records, and a volume goes with the header found.     *)
LEMMA LocateRead ==
  ASSUME ReadInv, IInv', Locate, ~Panic
  PROVE  Located' /\ RecordsRead' /\ Loads'
<1> DEFINE p == parts[cur]
           q == LocateVolume(p, handler)
           header == Header(p)
<1>1. /\ IInv /\ Located /\ RecordsRead /\ Loads
      /\ phase = "locate" /\ cur \in 1 .. Len(parts) /\ Len(parts) \in Nat
      /\ img \in Images /\ DOMAIN parts = 1 .. Len(parts)
  <2>1. IInv /\ Located /\ RecordsRead /\ Loads /\ phase = "locate" /\ cur <= Len(parts)
    BY DEF ReadInv, Locate
  <2>2. img \in Images /\ DOMAIN parts = 1 .. Len(parts)
    BY <2>1 DEF IInv, Partitions
  <2> QED BY <2>1, <2>2, UnlockedEarlier
<1>2. /\ parts' = [parts EXCEPT ![cur] = q]
      /\ UNCHANGED <<img, args, err, handler, report>> /\ Selected(cur)
      /\ \/ q.vol = NoVolume /\ cur' = cur + 1 /\ phase' = "locate"
         \/ q.vol # NoVolume /\ phase' = "process" /\ cur' = cur
  BY <1>1 DEF Locate
<1>3. IsPartition(p) /\ p.vol = NoVolume
  BY <1>1 DEF IInv, Partitions, Turn
<1>4. /\ IsPartition(q) /\ Own(q) /\ q.table = p.table /\ q.start = p.start /\ q.type = p.type
      /\ q.scheme = p.scheme
      /\ q.vol # NoVolume => q.vol.fs = {} /\ ~q.vol.inner
  BY <1>1, <1>3, LocateOwn
<1>5. q.vol # NoVolume <=> ReadFile(handler, header).kind \in Recognised(p)
  BY <1>3, LocateFinds
<1>6. Recognised(p) \subseteq {"ntfs", "fve", "btrfs", "raid"}
  BY DEF Recognised
<1> HIDE DEF q
<1>7. /\ Len(parts') = Len(parts) /\ parts'[cur] = q
      /\ \A n \in 1 .. Len(parts) : n # cur => parts'[n] = parts[n]
  BY <1>1, <1>2, <1>4, OneReplaced
<1>8. Follows
  <2>1. DOMAIN parts' = 1 .. Len(parts)
    BY <1>7 DEF IInv, Partitions
  <2>2. \A n \in 1 .. Len(parts) :
          /\ parts'[n].start = parts[n].start /\ parts'[n].type = parts[n].type
          /\ parts'[n].table = parts[n].table /\ parts'[n].scheme = parts[n].scheme
    BY <1>4, <1>7
  <2> QED BY <1>1, <1>2, <1>7, <2>1, <2>2 DEF Follows
<1>9. OneTurn
  BY <1>2 DEF OneTurn
<1>10. q.vol # NoVolume =>
         /\ Data(header).kind \in Recognised(p)
         /\ InClear(header) => ~UnlockedBelow(header, 1 .. cur - 1)
         /\ p.scheme = "mbr" => InClear(header)
  <2> SUFFICES ASSUME q.vol # NoVolume
               PROVE  /\ Data(header).kind \in Recognised(p)
                      /\ InClear(header) => ~UnlockedBelow(header, 1 .. cur - 1)
                      /\ p.scheme = "mbr" => InClear(header)
    OBVIOUS
  <2>1. ReadFile(handler, header).kind \notin {"noise", "unreadable"}
    BY <1>5, <1>6
  <2>2. ReadFile(handler, header) = Data(header)
    BY <2>1, ReadMeans
  <2>3. InClear(header) => ~UnlockedBelow(header, 1 .. cur - 1)
    BY <1>1, <2>1, ReadClear
  <2>4. ASSUME p.scheme = "mbr" PROVE InClear(header)
    <3>1. Passed(handler, header) = <<>>
      BY <1>1, <2>4, MBRLocked, LayersBelow DEF UnlockedBelow, ReadInv
    <3> QED BY <2>1, <3>1, ReadMeans DEF InClear
  <2> QED BY <1>5, <2>2, <2>3, <2>4
<1>11. Supported(p) /\ q.vol = NoVolume => UnlockedBelow(header, 1 .. cur - 1)
  <2> SUFFICES ASSUME Supported(p), q.vol = NoVolume, ~UnlockedBelow(header, 1 .. cur - 1) PROVE FALSE
    OBVIOUS
  <2>1. InClear(header) /\ Data(header).kind \in Recognised(p)
    BY DEF Supported, SupportedAt, Header
  <2>2. ReadFile(handler, header) = IF header >= img.size THEN Unreadable ELSE Data(header)
    BY <1>1, <2>1, ReadClear
  <2>3. ~(header >= img.size)
    BY <1>1, <1>6, <2>1, BeyondTheEnd DEF Blank
  <2> QED BY <1>5, <2>1, <2>2, <2>3
<1>12. Located'
  <2>1. ASSUME NEW n \in 1 .. Len(parts), n = cur PROVE LocatedAt(n)'
    <3>1. /\ Header(parts'[n]) = header /\ Recognised(parts'[n]) = Recognised(p)
          /\ Supported(parts[n])' <=> Supported(p)
      BY <1>2, <1>4, <1>7, <2>1, SameStatics
    <3>2. \A s : Data(s)' = Data(s) /\ (InClear(s)' <=> InClear(s))
      BY <1>2, SameSectors
    <3>3. \A s : UnlockedBelow(s, 1 .. n - 1)' <=> UnlockedBelow(s, 1 .. n - 1)
      <4>1. n \in Nat /\ n <= cur
        BY <2>1
      <4> QED BY <1>1, <1>8, <4>1, SameBelow
    <3>4. Selected(n)'
      BY <1>2, <2>1 DEF Selected
    <3>5. parts'[n].vol = q.vol
      BY <1>7, <2>1
    <3>6. parts'[n].vol # NoVolume =>
            /\ Selected(n)' /\ Data(Header(parts[n]))'.kind \in Recognised(parts'[n])
            /\ InClear(Header(parts[n]))' => ~UnlockedBelow(Header(parts[n]), 1 .. n - 1)'
            /\ parts'[n].scheme = "mbr" => InClear(Header(parts[n]))'
      BY <1>4, <1>7, <1>10, <2>1, <3>1, <3>2, <3>3, <3>4, <3>5
    <3>7. Supported(parts[n])' /\ parts'[n].vol = NoVolume => UnlockedBelow(Header(parts[n]), 1 .. n - 1)'
      BY <1>11, <2>1, <3>1, <3>3, <3>5
    <3> QED BY <3>6, <3>7 DEF LocatedAt
  <2> QED BY <1>1, <1>8, <1>9, <2>1, LocatedStep
<1>13. RecordsRead'
  <2>1. \A m \in 1 .. Len(parts) : Unlocked(m)' <=> Unlocked(m)
    <3>1. ASSUME NEW m \in 1 .. Len(parts), m = cur PROVE ~Unlocked(m)' /\ ~Unlocked(m)
      BY <1>3, <1>4, <1>7, <3>1 DEF Unlocked, NoVolume
    <3>2. ASSUME NEW m \in 1 .. Len(parts), m # cur PROVE Unlocked(m)' <=> Unlocked(m)
      BY <1>7, <3>2 DEF Unlocked
    <3> QED BY <3>1, <3>2
  <2>2. ASSUME NEW n \in 1 .. Len(parts), n # cur PROVE RecordsAt(n)'
    <3>1. parts'[n] = parts[n] /\ RecordsAt(n)
      BY <1>1, <1>7, <2>2 DEF RecordsRead
    <3> QED BY <1>1, <1>2, <1>8, <2>1, <3>1, RecordsKept DEF Follows
  <2>3. ASSUME NEW n \in 1 .. Len(parts), n = cur PROVE RecordsAt(n)'
    BY <1>4, <1>7, <2>3 DEF RecordsAt
  <2>4. phase' = "process" => parts'[cur'].vol.fs = {}
    BY <1>2, <1>4, <1>7
  <2> QED BY <1>2, <1>7, <2>2, <2>3, <2>4 DEF RecordsRead
<1>14. Loads'
  <2>1. AllSound' <=> AllSound
    BY <1>8, SameSound
  <2>2. ASSUME AllSound, q.vol.kind = "lvm" PROVE q.vol.at # 0
    <3>1. q.vol # NoVolume
      BY <2>2 DEF NoVolume
    <3>2. RaidVolume(q)
      BY <1>4, <2>2, <3>1 DEF Own, BootVolume, SuperVolume, LockedVolume
    <3>3. Data(header).kind = "raid" /\ p.type = "raid" /\ header = p.start + RaidAt /\ Sound(p)
      <4>1. p.type = "raid"
        BY <1>4, <3>2 DEF RaidVolume
      <4>2. Recognised(p) = {"raid"}
        BY <4>1 DEF Recognised
      <4>3. header = p.start + RaidAt
        BY <1>3, <4>1, HeaderCases
      <4> QED BY <1>1, <1>10, <2>2, <3>1, <4>1, <4>2, <4>3 DEF AllSound
    <3>4. ~UnlockedBelow(header, 1 .. cur - 1)
      <4>1. InClear(header)
        BY <1>10, <3>1, <3>3 DEF Sound, Whole, Open, Header
      <4> QED BY <1>10, <3>1, <4>1
    <3> DEFINE lvm == p.start + Data(header).offset
    <3>5. ReadFile(handler, lvm) = Data(lvm) /\ Data(lvm).kind = "lvm" /\ Data(lvm).area # 0
      BY <1>1, <3>3, <3>4, RaidReads
    <3>6. p.scheme = "gpt"
      BY <1>3, <3>3, HeaderCases
    <3>7. ReadFile(handler, p.start + RaidAt) = Data(header)
      BY <1>5, <1>6, <3>1, <3>3, ReadMeans
    <3>8. q = LocateGPT(p, handler)
      BY <3>6 DEF q, LocateVolume
    <3>9. q = [p EXCEPT !.raid = Data(header).offset, !.vol = NewVolume("lvm", Data(lvm).area, <<>>)]
      BY <3>3, <3>5, <3>7, <3>8 DEF LocateGPT
    <3>10. q.vol = NewVolume("lvm", Data(lvm).area, <<>>)
      BY <1>3, <3>9 DEF IsPartition
    <3>11. q.vol.at = Data(lvm).area
      BY <3>10 DEF NewVolume
    <3> QED BY <3>5, <3>11
  <2>3. ASSUME AllSound, NEW n \in 1 .. Len(parts), parts'[n].vol.kind = "lvm"
        PROVE  /\ parts'[n].vol.at # 0
               /\ n < cur' \/ (n = cur' /\ phase' = "decrypt") => parts'[n].vol.loaded
    <3>1. CASE n = cur
      <4>1. q.vol # NoVolume
        BY <1>7, <2>3, <3>1 DEF NoVolume
      <4> QED BY <1>1, <1>2, <1>7, <2>2, <2>3, <3>1, <4>1
    <3>2. CASE n # cur
      <4>1. parts'[n] = parts[n]
        BY <1>7, <3>2
      <4>2. n < cur' \/ (n = cur' /\ phase' = "decrypt") => n < cur
        BY <1>1, <1>2, <3>2
      <4> QED BY <1>1, <2>3, <4>1, <4>2 DEF Loads
    <3> QED BY <3>1, <3>2
  <2> QED BY <1>7, <2>1, <2>3 DEF Loads
<1> QED BY <1>12, <1>13, <1>14
-----------------------------------------------------------------------------
(* Processing.                                                             *)

(* Processing reads the tree where the disk has it.                        *)
LEMMA TreeRead ==
  ASSUME img \in Images, NEW p, NEW h, IsPartition(p), p.vol # NoVolume, Own(p), p.table = 0,
         p.vol.kind = "lvm" => p.vol.at # 0, p.vol.kind # "fve", ~NoFS(p, h)
  PROVE  Tree(p, h) = ReadFile(h, TreeAt(p))
<1> DEFINE base == GetOffset(p) + p.vol.at
<1>1. p.start \in Nat /\ p.table = 0
  BY DEF IsPartition
<1>2. CASE BootVolume(p)
  <2>1. base = TreeAt(p)
    BY <1>1, <1>2, Trees DEF GetOffset, BootVolume
  <2> QED BY <1>2, <2>1 DEF Tree, BootVolume
<1>3. CASE SuperVolume(p)
  <2>1. base = TreeAt(p)
    BY <1>1, <1>3, Trees DEF GetOffset, SuperVolume
  <2> QED BY <1>3, <2>1 DEF Tree, SuperVolume
<1>4. CASE RaidVolume(p)
  <2> DEFINE sb == ReadFile(h, base + SuperblockAt)
  <2>1. p.vol.kind = "lvm" /\ p.vol.at # 0
    BY <1>4 DEF RaidVolume
  <2>2. base = p.start + Data(p.start + RaidAt).offset
                + Data(p.start + Data(p.start + RaidAt).offset).area
    <3>1. p.raid = Data(p.start + RaidAt).offset /\ p.raid \in Nat
      BY <1>4, DataTyped DEF RaidVolume, WellTyped
    <3>2. p.vol.at = Data(p.start + p.raid).area /\ p.vol.at \in Nat
      BY <1>4, <2>1, <3>1, DataTyped DEF RaidVolume, WellTyped
    <3> QED BY <1>1, <3>1, <3>2 DEF GetOffset
  <2>3. sb.kind = "btrfs"
    BY <2>1 DEF NoFS, Superblock
  <2>4. sb = Data(base + SuperblockAt)
    BY <2>3, ReadCases
  <2>5. base + sb.root = TreeAt(p)
    BY <1>4, <2>2, <2>4, Trees
  <2> QED BY <2>1, <2>5 DEF Tree, Superblock
<1> QED BY <1>2, <1>3, <1>4 DEF Own, LockedVolume

(* The volume whose turn it is lies in a partition that owns its header,   *)
(* when the disk is sound, and none that was unlocked starts below.        *)
LEMMA SoundVolume ==
  ASSUME ReadInv, phase \in {"process", "decrypt"}, AllSound
  PROVE  /\ cur \in 1 .. Len(parts) /\ IsPartition(parts[cur]) /\ parts[cur].vol # NoVolume
         /\ ~parts[cur].vol.inner
         /\ Sound(parts[cur]) /\ parts[cur].table = 0 /\ Own(parts[cur]) /\ Whole(parts[cur])
         /\ ~UnlockedBelow(Header(parts[cur]), 1 .. cur - 1)
<1>1. /\ IInv /\ cur \in 1 .. Len(parts) /\ IsPartition(parts[cur]) /\ parts[cur].vol # NoVolume
      /\ ~parts[cur].vol.inner
  BY DEF ReadInv, IInv, Turn, Partitions
<1>2. LocatedAt(cur) /\ Sound(parts[cur])
  BY <1>1 DEF ReadInv, Located, AllSound
<1>3. parts[cur].table = 0 /\ Whole(parts[cur])
  BY <1>1, <1>2 DEF LocatedAt, Sound, Header
<1>4. Own(parts[cur])
  BY <1>1, <1>3 DEF IInv, Partitions
<1>5. InClear(Header(parts[cur]))
  BY <1>3 DEF Whole, Open, Header
<1> QED BY <1>1, <1>2, <1>3, <1>4, <1>5 DEF LocatedAt

(* BTRFS is found in the RAID members of a sound disk.                     *)
LEMMA RaidLoads ==
  ASSUME ReadInv, phase = "process", AllSound, parts[cur].vol.kind = "lvm"
  PROVE  LET p == parts[cur]
         IN /\ p.vol.at # 0 /\ Superblock(p, handler).kind = "btrfs"
            /\ Data(TreeAt(p)).kind # "noroot"
<1> DEFINE p == parts[cur]
           header == Header(p)
           lvm == p.start + Data(header).offset
           base == lvm + Data(lvm).area
<1>1. /\ cur \in 1 .. Len(parts) /\ IsPartition(p) /\ p.vol # NoVolume /\ Sound(p) /\ Own(p)
      /\ ~UnlockedBelow(header, 1 .. cur - 1) /\ IInv /\ p.vol.at # 0
  BY SoundVolume DEF ReadInv, Loads
<1>2. RaidVolume(p)
  BY <1>1 DEF Own, BootVolume, SuperVolume, LockedVolume
<1>3. /\ p.type = "raid" /\ header = p.start + RaidAt /\ Data(header).kind = "raid"
      /\ p.raid = Data(header).offset
      /\ Data(p.start + p.raid).kind = "lvm" /\ p.vol.at = Data(p.start + p.raid).area
  <2>1. p.type = "raid"
    BY <1>2 DEF RaidVolume
  <2>2. header = p.start + RaidAt
    BY <1>1, <2>1, HeaderCases
  <2> QED BY <1>1, <1>2, <2>1, <2>2 DEF RaidVolume
<1>4. /\ ReadFile(handler, base + SuperblockAt) = Data(base + SuperblockAt)
      /\ Data(base + SuperblockAt).kind = "btrfs" /\ Data(TreeAt(p)).kind # "noroot"
  BY <1>1, <1>3, RaidReads
<1>5. GetOffset(p) + p.vol.at = base
  <2>1. p.start \in Nat /\ p.table = 0
    BY <1>1, SoundVolume DEF IsPartition
  <2>2. p.raid \in Nat /\ p.vol.at \in Nat
    BY <1>1, <1>3, DataTyped DEF WellTyped, IInv
  <2> QED BY <1>3, <2>1, <2>2 DEF GetOffset
<1> QED BY <1>1, <1>4, <1>5 DEF Superblock

(* A sound disk survives the processing of its volumes.                    *)
LEMMA ProcessSurvives ==
  ASSUME ReadInv, phase = "process", AllSound
  PROVE  ~ProcessPanics(parts[cur], handler)
<1> DEFINE p == parts[cur]
<1>1. /\ cur \in 1 .. Len(parts) /\ IsPartition(p) /\ p.vol # NoVolume /\ Own(p) /\ Whole(p)
      /\ ~UnlockedBelow(Header(p), 1 .. cur - 1) /\ IInv /\ img \in Images
  BY SoundVolume DEF ReadInv, IInv
<1>2. p.vol.kind = "lvm" => p.vol.at # 0 /\ Superblock(p, handler).kind = "btrfs"
                            /\ Data(TreeAt(p)).kind # "noroot"
  BY RaidLoads
<1>3. p.vol.kind # "fve" /\ ~NoFS(p, handler) => Tree(p, handler) = ReadFile(handler, TreeAt(p))
  BY <1>1, <1>2, SoundVolume, TreeRead
<1>4. ASSUME p.vol.kind = "ntfs" PROVE Tree(p, handler).kind = "fs"
  <2>1. BootVolume(p)
    BY <1>1, <1>4 DEF Own, SuperVolume, RaidVolume, LockedVolume
  <2>2. Header(p) = p.start /\ p.start \in Nat
    BY <1>1, <2>1, HeaderCases DEF BootVolume
  <2>3. Open(p, TreeAt(p)) /\ Data(TreeAt(p)).kind = "fs"
    BY <1>1, <2>1, <2>2 DEF BootVolume, Whole, Header
  <2>4. TreeAt(p) \in Nat
    <3>1. Data(p.start).root \in Nat
      BY <1>1, <2>1, DataTyped DEF BootVolume, WellTyped
    <3> QED BY <2>1, <2>2, <3>1, Trees
  <2>5. ReadFile(handler, TreeAt(p)) = Data(TreeAt(p))
    BY <1>1, <2>3, <2>4, OwnedReads DEF Open
  <2> QED BY <1>3, <1>4, <2>3, <2>5 DEF NoFS
<1>5. ASSUME p.vol.kind = "btrfs" PROVE Data(TreeAt(p)).kind # "noroot"
  <2>1. SuperVolume(p)
    BY <1>1, <1>5 DEF Own, BootVolume, RaidVolume, LockedVolume
  <2>2. Header(p) = p.start + SuperblockAt
    BY <1>1, <2>1, HeaderCases DEF SuperVolume
  <2> QED BY <1>1, <2>1, <2>2 DEF SuperVolume, Whole, Header
<1>6. ASSUME p.vol.kind \in {"btrfs", "lvm"}, ~NoFS(p, handler) PROVE Tree(p, handler).kind # "noroot"
  <2>1. Tree(p, handler) = ReadFile(handler, TreeAt(p)) /\ Data(TreeAt(p)).kind # "noroot"
    BY <1>2, <1>3, <1>5, <1>6
  <2> QED BY <2>1, ReadCases
<1>7. p.vol.kind = "lvm" => Superblock(p, handler) # Unreadable
  BY <1>2 DEF Unreadable
<1> HIDE DEF p
<1> QED BY <1>2, <1>4, <1>6, <1>7 DEF ProcessPanics, p

(* What processing loads of a volume: its tree, or nothing.                *)
LEMMA ProcessLoads ==
  ASSUME NEW p, NEW h, IsVolume(p.vol), NEW w, w = ProcessVolume(p, h)
  PROVE  /\ w.at = p.vol.at
         /\ p.vol.kind = "fve" \/ NoFS(p, h) => w.fs = p.vol.fs
         /\ p.vol.kind # "fve" /\ ~NoFS(p, h) =>
              w.loaded /\ w.fs = IF Tree(p, h).kind = "fs" THEN {Tree(p, h).id} ELSE {}
<1>1. CASE p.vol.kind = "fve"
  <2>1. w.fs = p.vol.fs /\ w.at = p.vol.at
    BY <1>1, ProcessKeeps
  <2> QED BY <1>1, <2>1
<1>2. CASE p.vol.kind # "fve" /\ NoFS(p, h)
  BY <1>2 DEF ProcessVolume, ProcessFS
<1>3. CASE p.vol.kind # "fve" /\ ~NoFS(p, h)
  <2> DEFINE fs == IF Tree(p, h).kind = "fs" THEN {Tree(p, h).id} ELSE {}
  <2>1. w = [p.vol EXCEPT !.loaded = TRUE, !.fs = fs]
    BY <1>3 DEF ProcessVolume, ProcessFS, Loaded
  <2> HIDE DEF fs
  <2>2. w.loaded /\ w.fs = fs /\ w.at = p.vol.at
    BY <2>1 DEF IsVolume
  <2> QED BY <1>3, <2>2 DEF fs
<1> QED BY <1>1, <1>2, <1>3

(* What processing loads was read through the layers of the disk.          *)
LEMMA ProcessRead ==
  ASSUME ReadInv, IInv', Process, ~Panic
  PROVE  Located' /\ RecordsRead' /\ Loads'
<1> DEFINE p == parts[cur]
           w == ProcessVolume(p, handler)
           q == [p EXCEPT !.vol = w]
<1>1. /\ IInv /\ Located /\ RecordsRead /\ Loads
      /\ phase = "process" /\ cur \in 1 .. Len(parts) /\ Len(parts) \in Nat
      /\ img \in Images /\ DOMAIN parts = 1 .. Len(parts)
      /\ IsPartition(p) /\ p.vol # NoVolume /\ ~p.vol.inner /\ IsVolume(p.vol)
      /\ p.table = 0 => Own(p)
      /\ p.vol.fs = {}
  <2>1. IInv /\ Located /\ RecordsRead /\ Loads /\ phase = "process"
    BY DEF ReadInv, Process
  <2>2. /\ img \in Images /\ DOMAIN parts = 1 .. Len(parts) /\ Len(parts) \in Nat
        /\ cur \in 1 .. Len(parts) /\ p.vol # NoVolume /\ ~p.vol.inner
    BY <2>1 DEF IInv, Partitions, Turn
  <2>3. IsPartition(p) /\ (p.table = 0 => Own(p))
    BY <2>1, <2>2 DEF IInv, Partitions
  <2>4. IsVolume(p.vol) /\ p.vol.fs = {}
    BY <2>1, <2>2, <2>3 DEF IsPartition, RecordsRead
  <2> QED BY <2>1, <2>2, <2>3, <2>4
<1>2. /\ parts' = [parts EXCEPT ![cur] = q] /\ phase' = "decrypt" /\ cur' = cur
      /\ UNCHANGED <<img, args, err, handler, report>> /\ ~ProcessPanics(p, handler)
  BY <1>1 DEF Process
<1>3. /\ w # NoVolume /\ w.kind = p.vol.kind /\ w.inner = p.vol.inner /\ w.at = p.vol.at
      /\ p.vol.kind = "fve" \/ NoFS(p, handler) => w.fs = p.vol.fs
      /\ p.vol.kind # "fve" /\ ~NoFS(p, handler) =>
           w.loaded /\ w.fs = IF Tree(p, handler).kind = "fs" THEN {Tree(p, handler).id} ELSE {}
  <2>1. w # NoVolume /\ w.kind = p.vol.kind /\ w.inner = p.vol.inner
    BY <1>1, ProcessKeeps
  <2>2. /\ w.at = p.vol.at
        /\ p.vol.kind = "fve" \/ NoFS(p, handler) => w.fs = p.vol.fs
        /\ p.vol.kind # "fve" /\ ~NoFS(p, handler) =>
             w.loaded /\ w.fs = IF Tree(p, handler).kind = "fs" THEN {Tree(p, handler).id} ELSE {}
    BY <1>1, ProcessLoads
  <2> QED BY <2>1, <2>2
<1>4. IsPartition(q)
  BY <1>1, ProcessPartition
<1>5. /\ q.vol = w /\ q.start = p.start /\ q.table = p.table /\ q.type = p.type
      /\ q.scheme = p.scheme
  BY <1>1, WithVolume
<1>6. q.table = 0 => Own(q)
  BY <1>1, <1>2, <1>5, ProcessOwn
<1> HIDE DEF w, q
<1>7. /\ Len(parts') = Len(parts) /\ parts'[cur] = q
      /\ \A n \in 1 .. Len(parts) : n # cur => parts'[n] = parts[n]
  BY <1>1, <1>2, <1>4, <1>6, OneReplaced
<1>8. Follows
  <2>1. DOMAIN parts' = 1 .. Len(parts)
    BY <1>7 DEF IInv, Partitions
  <2>2. \A n \in 1 .. Len(parts) :
          /\ parts'[n].start = parts[n].start /\ parts'[n].type = parts[n].type
          /\ parts'[n].table = parts[n].table /\ parts'[n].scheme = parts[n].scheme
    BY <1>5, <1>7
  <2> QED BY <1>1, <1>2, <1>7, <2>1, <2>2 DEF Follows
<1>9. OneTurn
  BY <1>2 DEF OneTurn
<1>10. Located'
  <2>1. ASSUME NEW n \in 1 .. Len(parts), n = cur PROVE LocatedAt(n)'
    <3>1. Tried(n)
      BY <1>1, <2>1 DEF Tried
    <3>2. LocatedAt(n) /\ n <= cur
      BY <1>1, <2>1 DEF Located
    <3>3. parts'[n].vol # NoVolume /\ parts[n].vol # NoVolume
      BY <1>1, <1>3, <1>5, <1>7, <2>1
    <3> QED BY <1>1, <1>8, <3>1, <3>2, <3>3, LocatedStays
  <2> QED BY <1>1, <1>8, <1>9, <2>1, LocatedStep
<1>11. \A m \in 1 .. Len(parts) : Unlocked(m)' <=> Unlocked(m)
  <2>1. ASSUME NEW m \in 1 .. Len(parts), m = cur PROVE ~Unlocked(m)' /\ ~Unlocked(m)
    BY <1>1, <1>3, <1>5, <1>7, <2>1 DEF Unlocked
  <2>2. ASSUME NEW m \in 1 .. Len(parts), m # cur PROVE Unlocked(m)' <=> Unlocked(m)
    BY <1>7, <2>2 DEF Unlocked
  <2> QED BY <2>1, <2>2
<1>12. RecordsRead'
  <2>1. ASSUME NEW n \in 1 .. Len(parts), n # cur PROVE RecordsAt(n)'
    <3>1. parts'[n] = parts[n] /\ RecordsAt(n)
      BY <1>1, <1>7, <2>1 DEF RecordsRead
    <3> QED BY <1>1, <1>2, <1>8, <1>11, <3>1, RecordsKept DEF Follows
  <2>2. ASSUME NEW n \in 1 .. Len(parts), n = cur PROVE RecordsAt(n)'
    <3> SUFFICES ASSUME q.table = 0, q.vol.fs # {} PROVE \A s : s = TreeAt(p) => ReadOnce(n, s)'
      <4>1. TreeAt(parts[n])' = TreeAt(p)
        BY <1>2, <1>5, <1>7, <2>2, SameStatics
      <4> QED BY <1>7, <2>2, <4>1 DEF RecordsAt
    <3>1. p.vol.kind # "fve" /\ ~NoFS(p, handler) /\ Tree(p, handler).kind = "fs"
      BY <1>1, <1>3, <1>5
    <3>2. p.vol.kind = "lvm" => p.vol.at # 0
      BY <1>2 DEF ProcessPanics
    <3>3. Tree(p, handler) = ReadFile(handler, TreeAt(p))
      BY <1>1, <1>5, <3>1, <3>2, TreeRead
    <3>4. /\ ~(TreeAt(p) >= img.size) /\ Passed(handler, TreeAt(p)) = Sector(TreeAt(p)).enc
          /\ Data(TreeAt(p)).kind = "fs"
      BY <3>1, <3>3, ReadMeans
    <3>5. \A m \in n + 1 .. Len(parts') : ~Unlocked(m)'
      <4>1. \A m \in n + 1 .. Len(parts) : m \in 1 .. Len(parts) /\ ~(m \in 1 .. cur - 1)
        BY <1>1, <2>2
      <4> QED BY <1>1, <1>7, <1>11, <4>1, UnlockedEarlier
    <3>6. handler \in Seq(Layers)
      BY <1>1 DEF IInv, TypeOK
    <3>7. ASSUME NEW s, s = TreeAt(p) PROVE ReadOnce(n, s)'
      BY <1>2, <3>4, <3>5, <3>6, <3>7, ReadNow
    <3> QED BY <3>7
  <2>3. phase' = "decrypt" /\ parts'[cur'].vol.kind = "fve" => parts'[cur'].vol.fs = {}
    BY <1>1, <1>2, <1>3, <1>5, <1>7
  <2> QED BY <1>2, <1>7, <2>1, <2>2, <2>3 DEF RecordsRead
<1>13. Loads'
  <2>1. AllSound' <=> AllSound
    BY <1>8, SameSound
  <2>2. ASSUME AllSound, w.kind = "lvm" PROVE w.at # 0 /\ w.loaded
    <3>1. p.vol.at # 0 /\ Superblock(p, handler).kind = "btrfs"
      BY <1>1, <1>3, <2>2, RaidLoads
    <3> QED BY <1>3, <2>2, <3>1 DEF NoFS
  <2>3. ASSUME AllSound, NEW n \in 1 .. Len(parts), parts'[n].vol.kind = "lvm"
        PROVE  /\ parts'[n].vol.at # 0
               /\ n < cur' \/ (n = cur' /\ phase' = "decrypt") => parts'[n].vol.loaded
    <3>1. CASE n = cur
      BY <1>5, <1>7, <2>2, <2>3, <3>1
    <3>2. CASE n # cur
      BY <1>1, <1>2, <1>7, <2>3, <3>2 DEF Loads
    <3> QED BY <3>1, <3>2
  <2> QED BY <1>7, <2>1, <2>3 DEF Loads
<1> QED BY <1>10, <1>12, <1>13
-----------------------------------------------------------------------------
(* Unlocking.                                                              *)

(* What unlocking goes by when it recognises a file system: the volume's   *)
(* own metadata, and the header and the tree inside it.                    *)
LEMMA LayerOwn ==
  ASSUME img \in Images, NEW p, NEW h, IsPartition(p), p.vol # NoVolume,
         p.table = 0 => Own(p), TriesDecrypt(p), HasKey(p)
  PROVE  /\ p.vol.kind = "fve" /\ LockedVolume(p) /\ p.start \in Nat /\ p.table = 0
         /\ p.vol.blocks[1] = Meta(p) /\ Meta(p).kind = "meta" /\ GetOffset(p) = p.start
         /\ NewLayer(p) = [key |-> Meta(p).key, start |-> p.start] /\ NewLayer(p) \in Layers
         /\ DetectInner(p, h) => InnerTree(p, h) = ReadFile(Append(h, NewLayer(p)), TreeAt(p))
<1>1. p.vol.kind = "fve" /\ p.vol.blocks # <<>>
  BY DEF TriesDecrypt, HasKey, DecryptFVEK
<1>2. p.scheme = "gpt" /\ p.table = 0 /\ p.start \in Nat
  BY <1>1 DEF IsPartition
<1>3. LockedVolume(p)
  BY <1>1, <1>2 DEF Own, BootVolume, SuperVolume, RaidVolume
<1>4. /\ p.vol.blocks[1] = Meta(p) /\ Meta(p).kind = "meta" /\ p.raid = 0 /\ HoldsBitlocker(p)
      /\ GetOffset(p) = p.start
  BY <1>1, <1>2, <1>3 DEF LockedVolume, GetOffset
<1>5. NewLayer(p) = [key |-> Meta(p).key, start |-> p.start]
  BY <1>4 DEF NewLayer
<1>6. NewLayer(p) \in Layers
  <2>1. Meta(p).key \in STRING
    BY <1>4, DataTyped DEF Meta, WellTyped
  <2> QED BY <1>2, <1>5, <2>1 DEF Layers
<1>7. ASSUME DetectInner(p, h)
      PROVE  InnerTree(p, h) = ReadFile(Append(h, NewLayer(p)), TreeAt(p))
  <2>1. InnerHeader(p, h) = Data(p.start + Meta(p).header)
    BY <1>4, <1>7, ReadCases DEF DetectInner, InnerHeader
  <2>2. TreeAt(p) = p.start + InnerHeader(p, h).root
    BY <1>3, <2>1, Trees
  <2> QED BY <1>4, <2>2 DEF InnerTree
<1> QED BY <1>1, <1>2, <1>3, <1>4, <1>5, <1>6, <1>7

(* A layer alone on the way to a sector.                                   *)
LEMMA PassesOne ==
  ASSUME NEW h \in Seq(Layers), NEW l \in Layers, NEW s, l.start <= s, Passed(h, s) = <<>>
  PROVE  Passed(Append(h, l), s) = <<l>>
<1> DEFINE T == {x \in Layers : x.start <= s}
<1>1. l \in T
  OBVIOUS
<1>2. Keep(Append(h, l), T) = Append(Keep(h, T), l)
  BY <1>1, KeepAppend
<1>3. Append(<<>>, l) = <<l>>
  OBVIOUS
<1> QED BY <1>2, <1>3 DEF Passed

(* A sound disk survives the unlocking of its volumes.                     *)
LEMMA DecryptSurvives ==
  ASSUME ReadInv, phase = "decrypt", AllSound, TriesDecrypt(parts[cur])
  PROVE  ~DecryptPanics(parts[cur], handler)
<1> DEFINE p == parts[cur]
           c == Credentials(p.vol.blocks)
<1>1. /\ cur \in 1 .. Len(parts) /\ IsPartition(p) /\ p.vol # NoVolume /\ Own(p) /\ Whole(p)
      /\ p.table = 0 /\ ~UnlockedBelow(Header(p), 1 .. cur - 1) /\ IInv /\ img \in Images
      /\ handler \in Seq(Layers)
  BY SoundVolume DEF ReadInv, IInv, TypeOK
<1>2. LockedVolume(p)
  BY <1>1 DEF TriesDecrypt, Own, BootVolume, SuperVolume, RaidVolume
<1>3. Header(p) = p.start /\ Data(p.start).kind = "fve" /\ p.start \in Nat
  <2>1. HoldsBitlocker(p)
    BY <1>2 DEF LockedVolume
  <2> QED BY <1>1, <2>1, HeaderCases DEF HoldsBitlocker
<1>4. ~RecoveryPanics(p.vol.blocks, c)
  <2>1. Len(args.recovery) <= 8 /\ args.recovery \in Seq(Int)
    <3>1. Len(args.recovery) <= 8
      BY <1>1, <1>3 DEF Whole, Header
    <3>2. args \in Args
      BY <1>1 DEF IInv, TypeOK
    <3> QED BY <3>1, <3>2, DiskAssumption
  <2>2. 9 \notin DOMAIN args.recovery
    BY <2>1
  <2>3. c.recovery = args.recovery \/ c.recovery = <<>>
    <3>1. args = [partition |-> args.partition, password |-> args.password, recovery |-> args.recovery]
      BY <1>1, DiskAssumption DEF IInv, TypeOK
    <3> QED BY <3>1 DEF Credentials
  <2>4. 9 \notin DOMAIN c.recovery
    <3>1. DOMAIN <<>> = {}
      OBVIOUS
    <3> HIDE DEF c
    <3> QED BY <2>2, <2>3, <3>1
  <2> HIDE DEF c
  <2>5. 9 \notin Taken(c.recovery)
    BY <2>4 DEF Taken
  <2> QED BY <2>5 DEF RecoveryPanics
<1>5. ASSUME HasKey(p) PROVE p.vol.blocks[1].version # 3
  <2>1. p.vol.blocks[1] = Meta(p) /\ Meta(p).kind = "meta"
    BY <1>1, <1>5, LayerOwn
  <2> QED BY <1>1, <1>3, <2>1 DEF Whole, Header
<1>6. ASSUME DetectInner(p, handler) PROVE InnerTree(p, handler).kind = "fs"
  <2> DEFINE l == NewLayer(p)
             at == p.start + Meta(p).header
  <2>1. /\ p.vol.blocks[1] = Meta(p) /\ Meta(p).kind = "meta" /\ GetOffset(p) = p.start
        /\ l = [key |-> Meta(p).key, start |-> p.start] /\ l \in Layers
        /\ InnerTree(p, handler) = ReadFile(Append(handler, l), TreeAt(p))
    BY <1>1, <1>6, LayerOwn DEF DetectInner, HasReader
  <2>2. ReadFile(Append(handler, l), at).kind = "ntfs"
    BY <1>6, <2>1 DEF DetectInner, InnerHeader
  <2> HIDE DEF l
  <2>3. Passed(Append(handler, l), at) = Sector(at).enc /\ Data(at).kind = "ntfs"
    BY <2>2, ReadMeans
  <2>4. /\ Owns(p, at) /\ Owns(p, TreeAt(p)) /\ Sector(TreeAt(p)).enc = Sector(at).enc
        /\ Data(TreeAt(p)).kind = "fs"
    BY <1>1, <1>3, <2>1, <2>3 DEF Whole, Header
  <2>5. at \in Nat /\ TreeAt(p) \in Nat
    <3>1. Meta(p).header \in Nat
      BY <1>1, <2>1, DataTyped DEF Meta, WellTyped
    <3>2. Data(at).root \in Nat
      BY <1>1, <2>3, DataTyped DEF WellTyped
    <3>3. TreeAt(p) = p.start + Data(at).root
      BY <1>2, Trees
    <3> QED BY <1>3, <3>1, <3>2, <3>3
  <2>6. /\ Passed(handler, at) = <<>> /\ Passed(handler, TreeAt(p)) = <<>>
        /\ ~(TreeAt(p) >= img.size)
    BY <1>1, <2>4, <2>5, OwnedReads
  <2>7. l.start <= at /\ l.start <= TreeAt(p)
    BY <2>1, <2>4 DEF Owns
  <2>8. /\ Passed(Append(handler, l), at) = <<l>>
        /\ Passed(Append(handler, l), TreeAt(p)) = <<l>>
    BY <1>1, <2>1, <2>6, <2>7, PassesOne
  <2>9. ReadFile(Append(handler, l), TreeAt(p)) = Data(TreeAt(p))
    BY <2>3, <2>4, <2>6, <2>8 DEF ReadFile, Data
  <2> QED BY <2>1, <2>4, <2>9
<1> QED BY <1>4, <1>5, <1>6 DEF DecryptPanics

(* What unlocking loads was read through its own layer on top; the volumes *)
(* before it have that layer after theirs.                                 *)
LEMMA DecryptRead ==
  ASSUME ReadInv, IInv', Decrypt, ~Panic
  PROVE  Located' /\ RecordsRead' /\ Loads'
<1> DEFINE p == parts[cur]
           q == [p EXCEPT !.vol = Decrypted(p, handler)]
           l == NewLayer(p)
<1>1. /\ IInv /\ Located /\ RecordsRead /\ Loads
      /\ phase = "decrypt" /\ cur \in 1 .. Len(parts) /\ Len(parts) \in Nat
      /\ img \in Images /\ DOMAIN parts = 1 .. Len(parts)
      /\ IsPartition(p) /\ p.vol # NoVolume /\ (p.table = 0 => Own(p))
      /\ handler \in Seq(Layers)
  <2>1. IInv /\ Located /\ RecordsRead /\ Loads /\ phase = "decrypt"
    BY DEF ReadInv, Decrypt
  <2>2. /\ img \in Images /\ DOMAIN parts = 1 .. Len(parts) /\ Len(parts) \in Nat
        /\ cur \in 1 .. Len(parts) /\ p.vol # NoVolume /\ handler \in Seq(Layers)
    BY <2>1 DEF IInv, Partitions, Turn, TypeOK
  <2>3. IsPartition(p) /\ (p.table = 0 => Own(p))
    BY <2>1, <2>2 DEF IInv, Partitions
  <2> QED BY <2>1, <2>2, <2>3
<1>2. /\ ~(TriesDecrypt(p) /\ DecryptPanics(p, handler))
      /\ phase' = "locate" /\ cur' = cur + 1 /\ UNCHANGED <<img, args, err, report>>
  BY DEF Decrypt
<1>3. CASE ~(TriesDecrypt(p) /\ DetectInner(p, handler))
  <2>1. parts' = parts /\ handler' = handler
    BY <1>2, <1>3 DEF Decrypt, HandlerAfter
  <2>2. Idle
    BY <1>1, <1>2 DEF Idle
  <2> QED BY <1>2, <2>1, <2>2, Quiet
<1>4. CASE TriesDecrypt(p) /\ DetectInner(p, handler)
  <2>1. parts' = [parts EXCEPT ![cur] = q] /\ handler' = Append(handler, l)
    BY <1>2, <1>4 DEF Decrypt, HandlerAfter
  <2>2. /\ IsPartition(q) /\ Own(q) /\ q.vol # NoVolume /\ q.vol.kind = "fve" /\ q.vol.inner
        /\ q.start = p.start /\ q.table = p.table
        /\ l = [key |-> Meta(p).key, start |-> p.start] /\ l \in Layers
        /\ InnerTree(p, handler) = ReadFile(Append(handler, l), TreeAt(p))
    <3>1. HasKey(p)
      BY <1>4 DEF DetectInner, HasReader
    <3>2. /\ l = [key |-> Meta(p).key, start |-> p.start] /\ l \in Layers
          /\ InnerTree(p, handler) = ReadFile(Append(handler, l), TreeAt(p))
      BY <1>1, <1>4, <3>1, LayerOwn
    <3>3. ~DecryptPanics(p, handler) /\ q = [p EXCEPT !.vol = Decrypted(p, handler)]
      BY <1>2, <1>4
    <3> HIDE DEF p, q, l
    <3> QED BY <1>1, <1>4, <3>2, <3>3, DecryptOwn, ZenonT(40)
  <2>3. q.type = p.type /\ q.scheme = p.scheme
    BY <1>1, WithVolume
  <2> HIDE DEF q, l
  <2>4. /\ Len(parts') = Len(parts) /\ parts'[cur] = q
        /\ \A n \in 1 .. Len(parts) : n # cur => parts'[n] = parts[n]
    BY <1>1, <1>2, <2>1, <2>2, OneReplaced
  <2>5. Follows
    <3>1. DOMAIN parts' = 1 .. Len(parts)
      BY <2>4 DEF IInv, Partitions
    <3>2. \A n \in 1 .. Len(parts) :
            /\ parts'[n].start = parts[n].start /\ parts'[n].type = parts[n].type
            /\ parts'[n].table = parts[n].table /\ parts'[n].scheme = parts[n].scheme
      BY <2>2, <2>3, <2>4
    <3> QED BY <1>1, <1>2, <2>4, <3>1, <3>2 DEF Follows
  <2>6. OneTurn
    BY <1>2 DEF OneTurn
  <2>7. Located'
    <3>1. ASSUME NEW n \in 1 .. Len(parts), n = cur PROVE LocatedAt(n)'
      <4>1. Tried(n)
        BY <1>1, <3>1 DEF Tried
      <4>2. LocatedAt(n) /\ n <= cur
        BY <1>1, <3>1 DEF Located
      <4>3. parts'[n].vol # NoVolume /\ parts[n].vol # NoVolume
        BY <1>1, <2>2, <2>4, <3>1
      <4> QED BY <1>1, <2>5, <4>1, <4>2, <4>3, LocatedStays
    <3> QED BY <1>1, <2>5, <2>6, <3>1, LocatedStep
  <2>8. \A m \in 1 .. Len(parts) : Unlocked(m)' <=> Unlocked(m) \/ m = cur
    <3>1. ASSUME NEW m \in 1 .. Len(parts), m = cur PROVE Unlocked(m)'
      BY <2>2, <2>4, <3>1 DEF Unlocked
    <3>2. ASSUME NEW m \in 1 .. Len(parts), m # cur PROVE Unlocked(m)' <=> Unlocked(m)
      BY <2>4, <3>2 DEF Unlocked
    <3> QED BY <3>1, <3>2
  <2>9. ASSUME NEW n \in 1 .. Len(parts), n < cur PROVE RecordsAt(n)'
    <3>1. parts'[n] = parts[n] /\ RecordsAt(n)
      BY <1>1, <2>4, <2>9 DEF RecordsRead
    <3>2. TreeAt(parts[n])' = TreeAt(parts[n])
      BY <1>2, <3>1, SameStatics
    <3>3. \A s : ReadOnce(n, s) => ReadOnce(n, s)'
      BY <1>1, <1>2, <2>1, <2>2, <2>4, <2>5, <2>8, <2>9, ReadOncePushed DEF Follows
    <3> QED BY <3>1, <3>2, <3>3 DEF RecordsAt
  <2>10. ASSUME NEW n \in 1 .. Len(parts), n = cur PROVE RecordsAt(n)'
    <3> DEFINE h == Append(handler, l)
    <3>1. TreeAt(parts[n])' = TreeAt(p)
      BY <1>2, <2>2, <2>3, <2>4, <2>10, SameStatics
    <3>2. ReadFile(h, TreeAt(p)).kind = "fs"
      BY <1>2, <1>4, <2>2 DEF DecryptPanics
    <3>3. h \in Seq(Layers) /\ handler' = h
      BY <1>1, <2>1, <2>2, AppendProperties
    <3> HIDE DEF h
    <3>4. /\ ~(TreeAt(p) >= img.size) /\ Passed(h, TreeAt(p)) = Sector(TreeAt(p)).enc
          /\ Data(TreeAt(p)).kind = "fs"
      BY <3>2, ReadMeans
    <3>5. \A m \in n + 1 .. Len(parts') : ~Unlocked(m)'
      <4>1. \A m \in n + 1 .. Len(parts) : m \in 1 .. Len(parts) /\ ~(m \in 1 .. cur - 1) /\ m # cur
        BY <1>1, <2>10
      <4> QED BY <1>1, <2>4, <2>8, <4>1, UnlockedEarlier
    <3>6. ASSUME NEW s, s = TreeAt(p) PROVE ReadOnce(n, s)'
      BY <1>2, <3>3, <3>4, <3>5, <3>6, ReadNow
    <3> QED BY <3>1, <3>6 DEF RecordsAt
  <2>11. ASSUME NEW n \in 1 .. Len(parts), n > cur PROVE RecordsAt(n)'
    <3>1. parts'[n].vol = NoVolume
      BY <1>1, <2>4, <2>11 DEF IInv, Turn
    <3> QED BY <3>1 DEF RecordsAt
  <2>12. RecordsRead'
    <3>1. ASSUME NEW n \in 1 .. Len(parts) PROVE RecordsAt(n)'
      BY <1>1, <2>9, <2>10, <2>11
    <3> QED BY <1>2, <2>4, <3>1 DEF RecordsRead
  <2>13. Loads'
    <3>1. AllSound' <=> AllSound
      BY <2>5, SameSound
    <3>2. ASSUME AllSound, NEW n \in 1 .. Len(parts), parts'[n].vol.kind = "lvm"
          PROVE  /\ parts'[n].vol.at # 0
                 /\ n < cur' \/ (n = cur' /\ phase' = "decrypt") => parts'[n].vol.loaded
      <4>1. n # cur
        BY <2>2, <2>4, <3>2
      <4>2. parts'[n] = parts[n]
        BY <2>4, <4>1
      <4>3. n < cur' \/ (n = cur' /\ phase' = "decrypt") => n < cur
        BY <1>1, <1>2, <4>1
      <4> QED BY <1>1, <3>2, <4>2, <4>3 DEF Loads
    <3> QED BY <2>4, <3>1, <3>2 DEF Loads
  <2> QED BY <2>7, <2>12, <2>13
<1> QED BY <1>3, <1>4
-----------------------------------------------------------------------------
(* Every step, and what follows for what the program reports.              *)

(* The partitions of one table have one scheme.                            *)
LEMMA OneTable ==
  ASSUME IInv, PseudoMBR \/ InvalidMBR \/ ValidMBR \/ PopulateGPT
  PROVE  OneScheme'
<1>1. phase \in {"mbr", "gpt"} /\ parts = <<>> /\ handler = <<>> /\ img \in Images
  BY DEF PseudoMBR, InvalidMBR, ValidMBR, PopulateGPT, IInv, Turn
<1>2. ASSUME NEW scheme, NEW table, NEW entries \in Seq(Entries(scheme))
      PROVE  \A n \in 1 .. Len(PartitionsOf(scheme, table, entries)) :
               PartitionsOf(scheme, table, entries)[n].scheme = scheme
  <2>1. Len(entries) \in Nat
    BY LenProperties
  <2>2. Len(PartitionsOf(scheme, table, entries)) = Len(entries)
    BY <2>1 DEF PartitionsOf
  <2> QED BY <2>2 DEF PartitionsOf, NewPartition
<1>3. CASE parts' = <<>>
  <2>1. Len(parts') = 0
    BY <1>3
  <2> QED BY <2>1 DEF OneScheme
<1>4. ASSUME NEW scheme, \A n \in 1 .. Len(parts') : parts'[n].scheme = scheme
      PROVE  OneScheme'
  BY <1>4 DEF OneScheme
<1>5. CASE PseudoMBR
  <2> DEFINE es == <<[type |-> "ntfs", start |-> 0]>>
  <2>1. es \in Seq(Entries("mbr"))
    <3>1. [type |-> "ntfs", start |-> 0] \in Entries("mbr")
      BY DEF Entries, Types
    <3> QED BY <3>1
  <2>2. parts' = PartitionsOf("mbr", 0, es)
    BY <1>5 DEF PseudoMBR
  <2> HIDE DEF es
  <2>3. \A n \in 1 .. Len(parts') : parts'[n].scheme = "mbr"
    BY <1>2, <2>1, <2>2
  <2> QED BY <1>4, <2>3
<1>6. CASE PopulateGPT
  <2> DEFINE es == TableOf("gpt", ReadFile(handler, 1))
  <2>1. es \in Seq(Entries("gpt"))
    BY <1>1, TableEntries
  <2>2. parts' = PartitionsOf("gpt", 0, es)
    BY <1>6 DEF PopulateGPT
  <2> HIDE DEF es
  <2>3. \A n \in 1 .. Len(parts') : parts'[n].scheme = "gpt"
    BY <1>2, <2>1, <2>2
  <2> QED BY <1>4, <2>3
<1>7. CASE ValidMBR /\ parts' # <<>>
  <2> DEFINE es == TableOf("mbr", FirstSector)
             fs == TableOf("mbr", ExtendedTable)
             at == Extended[1].start
             primary == PartitionsOf("mbr", 0, es)
             logical == IF Extended = <<>> THEN <<>> ELSE PartitionsOf("mbr", at, fs)
             S == {NewPartition("mbr", t, e) : t \in Nat, e \in Entries("mbr")}
  <2>1. \A p \in S : p.scheme = "mbr"
    BY DEF NewPartition
  <2>2. es \in Seq(Entries("mbr")) /\ (Extended # <<>> => fs \in Seq(Entries("mbr")))
    BY <1>1, TableEntries DEF FirstSector, ExtendedTable
  <2>3. parts' = primary \o logical
    BY <1>1, <1>7 DEF ValidMBR
  <2>4. ASSUME NEW t \in Nat, NEW entries \in Seq(Entries("mbr"))
        PROVE  PartitionsOf("mbr", t, entries) \in Seq(S)
    <3>1. \A n \in 1 .. Len(entries) : NewPartition("mbr", t, entries[n]) \in S
      OBVIOUS
    <3> HIDE DEF S
    <3> QED BY <3>1 DEF PartitionsOf
  <2>5. Extended # <<>> => at \in Nat
    BY <2>2, FirstExtended DEF Extended
  <2>6. primary \in Seq(S)
    BY <2>2, <2>4
  <2>7. logical \in Seq(S)
    <3> HIDE DEF S, fs, at
    <3>1. CASE Extended = <<>>
      BY <3>1, Empty
    <3>2. CASE Extended # <<>>
      BY <2>2, <2>4, <2>5, <3>2
    <3> QED BY <3>1, <3>2
  <2> HIDE DEF primary, logical, S
  <2>8. parts' \in Seq(S)
    BY <2>3, <2>6, <2>7, ConcatProperties
  <2>9. \A n \in 1 .. Len(parts') : parts'[n].scheme = "mbr"
    BY <2>1, <2>8
  <2> QED BY <1>4, <2>9
<1> QED BY <1>1, <1>3, <1>5, <1>6, <1>7 DEF InvalidMBR

(* It stays with the partitions.                                           *)
LEMMA SameScheme ==
  ASSUME OneScheme, Len(parts') = Len(parts),
         \A n \in 1 .. Len(parts) : parts'[n].scheme = parts[n].scheme
  PROVE  OneScheme'
BY DEF OneScheme

(* The loop on one partition does not change the table.                    *)
LEMMA LoopScheme ==
  ASSUME ReadInv, IInv', Locate \/ Process \/ Decrypt
  PROVE  OneScheme'
<1>1. IInv /\ OneScheme
  BY DEF ReadInv
<1>2. CASE parts' = parts
  BY <1>1, <1>2, SameScheme
<1>3. ASSUME parts' # parts
      PROVE  /\ cur \in 1 .. Len(parts) /\ img \in Images /\ Len(parts) \in Nat
             /\ IsPartition(parts[cur]) /\ parts = [n \in 1 .. Len(parts) |-> parts[n]]
             /\ \E q : parts' = [parts EXCEPT ![cur] = q] /\ q.scheme = parts[cur].scheme
  <2> DEFINE p == parts[cur]
  <2>1. cur \in 1 .. Len(parts) /\ img \in Images /\ Len(parts) \in Nat
    <3>1. cur \in 1 .. Len(parts) + 1 /\ Len(parts) \in Nat /\ img \in Images
      BY <1>1, UnlockedEarlier DEF IInv
    <3>2. CASE Locate
      BY <3>1, <3>2 DEF Locate
    <3>3. CASE Process \/ Decrypt
      BY <1>1, <3>1, <3>3 DEF Process, Decrypt, IInv, Turn
    <3> QED BY <3>1, <3>2, <3>3
  <2>2. IsPartition(p) /\ parts = [n \in 1 .. Len(parts) |-> parts[n]]
    BY <1>1, <2>1 DEF IInv, Partitions
  <2>3. \A v : [p EXCEPT !.vol = v].scheme = p.scheme
    BY <2>2, WithVolume
  <2>4. CASE Locate
    <3> DEFINE q == LocateVolume(p, handler)
    <3>1. parts' = [parts EXCEPT ![cur] = q]
      BY <1>3, <2>4 DEF Locate, Panic
    <3>2. p.vol = NoVolume
      BY <1>1, <2>1, <2>4 DEF Locate, IInv, Turn
    <3>3. q.scheme = p.scheme
      BY <2>1, <2>2, <3>2, LocateOwn
    <3> QED BY <2>1, <2>2, <3>1, <3>3
  <2>5. CASE Process
    <3> DEFINE q == [p EXCEPT !.vol = ProcessVolume(p, handler)]
    <3>1. parts' = [parts EXCEPT ![cur] = q]
      BY <1>3, <2>5 DEF Process, Panic
    <3> QED BY <2>1, <2>2, <2>3, <3>1
  <2>6. CASE Decrypt
    <3> DEFINE q == [p EXCEPT !.vol = Decrypted(p, handler)]
    <3>1. parts' = [parts EXCEPT ![cur] = q]
      BY <1>3, <2>6 DEF Decrypt, Panic
    <3> QED BY <2>1, <2>2, <2>3, <3>1
  <2> QED BY <2>4, <2>5, <2>6
<1>4. ASSUME parts' # parts PROVE OneScheme'
  <2>1. PICK q : parts' = [parts EXCEPT ![cur] = q] /\ q.scheme = parts[cur].scheme
    BY <1>3, <1>4
  <2>2. \A n \in 1 .. Len(parts) : parts'[n].scheme = parts[n].scheme
    BY <1>3, <1>4, <2>1
  <2>3. parts' = [n \in 1 .. Len(parts) |-> parts'[n]]
    BY <1>3, <1>4, <2>1
  <2>4. Len(parts') = Len(parts)
    BY <1>3, <1>4, <2>3, Lengths
  <2> QED BY <1>1, <2>2, <2>4, SameScheme
<1> QED BY <1>2, <1>4

(* A sound disk never takes the program down.                              *)
LEMMA Survives ==
  ASSUME ReadInv, [Next]_vars, phase # "panic", phase' = "panic", AllSound
  PROVE  parts' = <<>>
<1>1. IInv /\ Loads /\ Len(parts) \in Nat /\ cur \in 1 .. Len(parts) + 1 /\ DOMAIN parts = 1 .. Len(parts)
  <2>1. IInv /\ Loads
    BY DEF ReadInv
  <2> QED BY <2>1, UnlockedEarlier DEF IInv, Partitions
<1>2. CASE TablePanics
  <2>1. parts = <<>> /\ parts' = parts
    BY <1>1, <1>2 DEF TablePanics, Panic, IInv, Turn
  <2> QED BY <2>1
<1>3. ~Locate
  <2> SUFFICES ASSUME Locate PROVE FALSE
    OBVIOUS
  <2>1. phase = "locate" /\ cur \in 1 .. Len(parts)
    BY <1>1 DEF Locate
  <2>2. ~LocatePanics(parts[cur], handler)
    BY <2>1, LocateSurvives
  <2> QED BY <2>1, <2>2 DEF Locate
<1>4. ~Process
  <2> SUFFICES ASSUME Process PROVE FALSE
    OBVIOUS
  <2>1. ~ProcessPanics(parts[cur], handler)
    BY ProcessSurvives DEF Process
  <2> QED BY <2>1 DEF Process
<1>5. ~Decrypt
  <2> SUFFICES ASSUME Decrypt PROVE FALSE
    OBVIOUS
  <2>1. TriesDecrypt(parts[cur]) => ~DecryptPanics(parts[cur], handler)
    BY DecryptSurvives DEF Decrypt
  <2> QED BY <2>1 DEF Decrypt
<1>6. ~Collect
  <2> SUFFICES ASSUME Collect PROVE FALSE
    OBVIOUS
  <2>1. \A n \in DOMAIN parts : n < cur
    BY <1>1 DEF Collect
  <2>2. \A n \in DOMAIN parts : parts[n].vol.kind = "lvm" => parts[n].vol.loaded
    BY <1>1, <2>1 DEF Loads
  <2> QED BY <2>2 DEF Collect
<1>7. ~(PseudoMBR \/ InvalidMBR \/ ValidMBR \/ PopulateGPT \/ Skip \/ UNCHANGED vars)
  BY DEF PseudoMBR, InvalidMBR, ValidMBR, PopulateGPT, Skip, vars
<1> QED BY <1>2, <1>3, <1>4, <1>5, <1>6, <1>7 DEF Next

(* Initially nothing is read.                                              *)
LEMMA InitRead == Init => ReadInv
<1> SUFFICES ASSUME Init PROVE ReadInv
  OBVIOUS
<1>1. IInv /\ phase = "mbr" /\ Len(parts) = 0
  BY InitInv, Empty DEF Init
<1> QED BY <1>1 DEF ReadInv, OneScheme, Located, RecordsRead, Loads, Finished, SoundDiskNeverPanics

(* The parts about what was found and read.                                *)
LEMMA StepReads == ReadInv /\ [Next]_vars => OneScheme' /\ Located' /\ RecordsRead' /\ Loads'
<1> SUFFICES ASSUME ReadInv, [Next]_vars PROVE OneScheme' /\ Located' /\ RecordsRead' /\ Loads'
  OBVIOUS
<1>1. IInv /\ IInv' /\ OneScheme
  BY StepInv DEF ReadInv
<1>2. CASE PseudoMBR \/ InvalidMBR \/ ValidMBR \/ PopulateGPT
  <2>1. phase \in {"mbr", "gpt"} /\ phase' \in {"gpt", "locate"} /\ cur' = cur
    BY <1>2 DEF PseudoMBR, InvalidMBR, ValidMBR, PopulateGPT
  <2>2. cur = 1
    BY <1>1, <2>1 DEF IInv, Turn
  <2> QED BY <1>1, <1>2, <2>1, <2>2, Listed, OneTable
<1>3. ASSUME parts' = parts, handler' = handler, img' = img, args' = args, Idle
      PROVE  OneScheme' /\ Located' /\ RecordsRead' /\ Loads'
  BY <1>1, <1>3, Quiet, SameScheme
<1>4. CASE Panic
  BY <1>3, <1>4 DEF Panic, Idle
<1>5. CASE TablePanics
  BY <1>4, <1>5 DEF TablePanics
<1>6. CASE Skip
  BY <1>3, <1>6 DEF Skip, Idle
<1>7. CASE Locate
  BY <1>1, <1>4, <1>7, LocateRead, LoopScheme
<1>8. CASE Process
  BY <1>1, <1>4, <1>8, ProcessRead, LoopScheme
<1>9. CASE Decrypt
  BY <1>1, <1>4, <1>9, DecryptRead, LoopScheme
<1>10. CASE Collect
  BY <1>3, <1>4, <1>10 DEF Collect, Idle
<1>11. CASE UNCHANGED vars
  BY <1>3, <1>11 DEF vars, Idle
<1> QED BY <1>2, <1>5, <1>6, <1>7, <1>8, <1>9, <1>10, <1>11 DEF Next

(* What main is given.                                                     *)
LEMMA StepFinished == ReadInv /\ [Next]_vars => Finished'
<1> SUFFICES ASSUME ReadInv, [Next]_vars, phase' = "done" PROVE Finished'
  BY DEF Finished
<1>1. IInv /\ Finished /\ Len(parts) \in Nat /\ DOMAIN parts = 1 .. Len(parts) /\ cur \in 1 .. Len(parts) + 1
  <2>1. IInv /\ Finished
    BY DEF ReadInv
  <2> QED BY <2>1, UnlockedEarlier DEF IInv, Partitions
<1>2. CASE UNCHANGED vars
  BY <1>1, <1>2 DEF vars, Finished
<1>3. CASE Next
  <2>1. Collect /\ ~Panic
    BY <1>3 DEF Next, PseudoMBR, TablePanics, Panic, InvalidMBR, ValidMBR, PopulateGPT, Skip,
                Locate, Process, Decrypt
  <2> DEFINE located == {n \in DOMAIN parts : parts[n].vol # NoVolume}
  <2>2. /\ report' = IF err = "" THEN [n \in located |-> parts[n].vol.fs] ELSE <<>>
        /\ err' = err /\ parts' = parts /\ cur' = cur /\ cur > Len(parts)
    BY <2>1 DEF Collect
  <2>3. DOMAIN report' = IF err = "" THEN located ELSE {}
    BY <2>2, Empty
  <2> QED BY <1>1, <2>2, <2>3 DEF Finished
<1> QED BY <1>2, <1>3

(* The whole invariant is kept.                                            *)
LEMMA StepRead == ReadInv /\ [Next]_vars => ReadInv'
<1> SUFFICES ASSUME ReadInv, [Next]_vars PROVE ReadInv'
  OBVIOUS
<1>1. IInv' /\ OneScheme' /\ Located' /\ RecordsRead' /\ Loads' /\ Finished'
  BY StepInv, StepReads, StepFinished DEF ReadInv
<1>2. SoundDiskNeverPanics'
  <2> SUFFICES ASSUME phase' = "panic", AllSound', parts' # <<>> PROVE FALSE
    <3>1. DOMAIN parts' = 1 .. Len(parts')
      BY <1>1 DEF IInv, Partitions
    <3> QED BY <3>1 DEF SoundDiskNeverPanics, AllSound
  <2>1. /\ img' = img /\ args' = args /\ parts' = parts /\ (phase = "panic" \/ Panic)
    BY DEF Next, vars, PseudoMBR, TablePanics, Panic, InvalidMBR, ValidMBR, PopulateGPT, Skip,
           Locate, Process, Decrypt, Collect
  <2>2. AllSound
    <3>1. Follows
      BY <2>1 DEF Follows, ReadInv, IInv, Partitions
    <3> QED BY <3>1, SameSound
  <2>3. CASE phase = "panic"
    <3>1. DOMAIN parts = 1 .. Len(parts)
      BY DEF ReadInv, IInv, Partitions
    <3> QED BY <2>1, <2>2, <2>3, <3>1 DEF ReadInv, SoundDiskNeverPanics, AllSound
  <2>4. CASE phase # "panic"
    BY <2>2, <2>4, Survives
  <2> QED BY <2>3, <2>4
<1> QED BY <1>1, <1>2 DEF ReadInv

(* It holds in every reachable state.                                      *)
LEMMA SpecRead == Spec => []ReadInv
BY InitRead, StepRead, PTL DEF Spec
-----------------------------------------------------------------------------
(* A disk of sound partitions never takes the program down, whatever is    *)
(* encrypted on it, whatever partitions are asked for and whatever         *)
(* credentials are given: no read past the end, no volume without what its *)
(* code takes for granted, because nothing that a partition owns is ever   *)
(* read through the layer of another.                                      *)
THEOREM SoundDiskNeverPanicsHolds == Spec => []SoundDiskNeverPanics
<1>1. ReadInv => SoundDiskNeverPanics
  BY DEF ReadInv
<1> QED BY <1>1, SpecRead, PTL

(* For every disk, exactly these partitions with a supported volume are    *)
(* missing from what main works on: those not asked for, those with an     *)
(* error of the table, those with a header above a partition unlocked      *)
(* before, and those of the extended table without a volume at the sector  *)
(* that the code takes for theirs.                                         *)
THEOREM LostBehindUnlockedHolds == Spec => []LostBehindUnlocked
<1>1. ReadInv => LostBehindUnlocked
  <2> SUFFICES ASSUME ReadInv, phase = "done", NEW n \in DOMAIN parts,
                      SupportedAt(parts[n], parts[n].start + parts[n].table)
               PROVE  n \notin DOMAIN report <=>
                        \/ ~Selected(n) \/ err # ""
                        \/ UnlockedBelow(HeaderAt(parts[n], parts[n].start), 1 .. n - 1)
                        \/ ~Supported(parts[n])
    BY DEF LostBehindUnlocked
  <2> DEFINE p == parts[n]
  <2>1. /\ IInv /\ n \in 1 .. Len(parts) /\ Len(parts) \in Nat /\ IsPartition(p) /\ LocatedAt(n)
        /\ cur \in 1 .. Len(parts) + 1
    <3>1. IInv /\ Located /\ DOMAIN parts = 1 .. Len(parts)
      BY DEF ReadInv, IInv, Partitions
    <3> QED BY <3>1, UnlockedEarlier DEF IInv, Partitions, Located
  <2>2. n \in DOMAIN report <=> err = "" /\ p.vol # NoVolume
    BY <2>1 DEF ReadInv, Finished
  <2>3. Tried(n)
    <3>1. cur > Len(parts)
      BY DEF ReadInv, Finished
    <3>2. n < cur
      BY <2>1, <3>1
    <3> QED BY <3>2 DEF Tried
  <2>4. ASSUME p.vol # NoVolume
        PROVE  Selected(n) /\ ~UnlockedBelow(Header(p), 1 .. n - 1) /\ Supported(p)
    <3>1. /\ Selected(n) /\ Data(Header(p)).kind \in Recognised(p)
          /\ InClear(Header(p)) => ~UnlockedBelow(Header(p), 1 .. n - 1)
          /\ p.scheme = "mbr" => InClear(Header(p))
      BY <2>1, <2>4 DEF LocatedAt
    <3>2. InClear(Header(p))
      <4>1. CASE p.table = 0
        <5>1. p.start + p.table = p.start
          BY <2>1, <4>1 DEF IsPartition
        <5> QED BY <5>1 DEF SupportedAt, Header
      <4>2. CASE p.table # 0
        BY <2>1, <3>1, <4>2 DEF IsPartition
      <4> QED BY <4>1, <4>2
    <3> QED BY <3>1, <3>2 DEF Supported, SupportedAt, Header
  <2>5. ASSUME p.vol = NoVolume, Selected(n), Supported(p)
        PROVE  UnlockedBelow(Header(p), 1 .. n - 1)
    BY <2>1, <2>3, <2>5 DEF LocatedAt
  <2> QED BY <2>2, <2>4, <2>5 DEF Header
<1> QED BY <1>1, SpecRead, PTL

(* What was added on top keeps the rest of a read as it was exactly if it  *)
(* has no layer for the sector.                                            *)
LEMMA PassedOnTop ==
  ASSUME NEW h \in Seq(Layers), NEW u \in Seq(Layers), NEW s
  PROVE  Passed(h \o u, s) = Passed(h, s) <=> Passed(u, s) = <<>>
<1>1. Passed(h \o u, s) = Passed(h, s) \o Passed(u, s)
  BY KeepConcat DEF Passed
<1>2. Passed(h, s) \in Seq(Layers) /\ Passed(u, s) \in Seq(Layers)
  BY PassesNone
<1>3. ASSUME NEW a \in Seq(Layers), NEW b \in Seq(Layers)
      PROVE  a \o b = a <=> b = <<>>
  <2>1. Len(a \o b) = Len(a) + Len(b) /\ Len(a) \in Nat /\ Len(b) \in Nat
    BY LenProperties, ConcatProperties
  <2>2. a \o b = a => Len(b) = 0
    BY <2>1
  <2>3. Len(b) = 0 => b = <<>>
    BY EmptySeq
  <2>4. b = <<>> => a \o b = a
    BY ConcatEmptySeq
  <2> QED BY <2>2, <2>3, <2>4
<1> QED BY <1>1, <1>2, <1>3

(* On any disk, what was loaded of a partition can be read again through   *)
(* the reader of the disk exactly if no partition unlocked after it starts *)
(* at or below its tree.                                                   *)
THEOREM ReadsBackHolds == Spec => []ReadsBack
<1>1. ReadInv => ReadsBack
  <2> SUFFICES ASSUME ReadInv, phase = "done", NEW n \in DOMAIN report,
                      parts[n].table = 0, report[n] # {}
               PROVE  ReadFile(handler, TreeAt(parts[n])).kind = "fs"
                        <=> ~UnlockedBelow(TreeAt(parts[n]), n + 1 .. Len(parts))
    BY DEF ReadsBack
  <2> DEFINE s == TreeAt(parts[n])
  <2>1. /\ IInv /\ n \in 1 .. Len(parts) /\ Len(parts) \in Nat /\ parts[n].vol # NoVolume
        /\ parts[n].vol.fs # {} /\ DOMAIN parts = 1 .. Len(parts) /\ handler \in Seq(Layers)
    BY DEF ReadInv, IInv, Reported, Partitions, TypeOK
  <2>2. ReadOnce(n, s)
    BY <2>1 DEF ReadInv, RecordsRead, RecordsAt
  <2> HIDE DEF s
  <2>3. ~(s >= img.size) /\ Data(s).kind = "fs"
    BY <2>2 DEF ReadOnce
  <2>4. PICK h, u \in Seq(Layers) : Splits(h, u, n) /\ Passed(h, s) = Sector(s).enc
    BY <2>2 DEF ReadOnce
  <2>5. ReadFile(handler, s).kind = "fs" <=> Passed(handler, s) = Sector(s).enc
    BY <2>3 DEF ReadFile, Data, Noise
  <2>6. Passed(handler, s) = Passed(h, s) <=> Passed(u, s) = <<>>
    <3>1. Passed(h \o u, s) = Passed(h, s) <=> Passed(u, s) = <<>>
      BY <2>4, PassedOnTop
    <3>2. handler = h \o u
      BY <2>4 DEF Splits
    <3> QED BY <3>1, <3>2, Zenon
  <2>7. Passed(u, s) = <<>> <=> \A l \in ToSet(u) : ~(l.start <= s)
    BY <2>4, PassesNone
  <2>8. \A l \in Layers : l \in ToSet(u) <=>
          \E m \in n + 1 .. Len(parts) :
            Unlocked(m) /\ l = [key |-> Meta(parts[m]).key, start |-> parts[m].start]
    BY <2>4 DEF Splits
  <2>9. ToSet(u) \subseteq Layers
    BY <2>4, RangeOfSeq, ToSetRange
  <2>10. ASSUME NEW m \in n + 1 .. Len(parts), Unlocked(m)
         PROVE  [key |-> Meta(parts[m]).key, start |-> parts[m].start] \in Layers
    <3>1. m \in DOMAIN parts
      BY <2>1
    <3>2. [key |-> Meta(parts[m]).key, start |-> parts[m].start] \in ToSet(handler)
      BY <2>1, <2>10, <3>1 DEF IInv, HandlerIsUnlocks
    <3>3. ToSet(handler) \subseteq Layers
      BY <2>1, RangeOfSeq, ToSetRange
    <3> QED BY <3>2, <3>3
  <2>11. (\A l \in ToSet(u) : ~(l.start <= s)) <=> ~UnlockedBelow(s, n + 1 .. Len(parts))
    <3>1. ASSUME NEW l \in ToSet(u), l.start <= s PROVE UnlockedBelow(s, n + 1 .. Len(parts))
      <4>1. PICK m \in n + 1 .. Len(parts) :
              Unlocked(m) /\ l = [key |-> Meta(parts[m]).key, start |-> parts[m].start]
        BY <2>8, <2>9, <3>1
      <4>2. parts[m].start <= s
        BY <3>1, <4>1
      <4> QED BY <4>1, <4>2 DEF UnlockedBelow
    <3>2. ASSUME UnlockedBelow(s, n + 1 .. Len(parts)) PROVE \E l \in ToSet(u) : l.start <= s
      <4>1. PICK m \in n + 1 .. Len(parts) : Unlocked(m) /\ parts[m].start <= s
        BY <3>2 DEF UnlockedBelow
      <4> DEFINE l == [key |-> Meta(parts[m]).key, start |-> parts[m].start]
      <4>2. l \in Layers
        BY <2>10, <4>1
      <4>3. l \in ToSet(u)
        BY <2>8, <4>1, <4>2
      <4> QED BY <4>1, <4>3
    <3> QED BY <3>1, <3>2
  <2> QED BY <2>4, <2>5, <2>6, <2>7, <2>11 DEF s
<1> QED BY <1>1, SpecRead, PTL
=============================================================================
