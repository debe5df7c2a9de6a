------------------------------- MODULE MCDisk --------------------------------
(* Disks for TLC: a table and up to three partitions of eight sectors each, in   *)
(* every order of listing, with sound and damaged volumes.                     *)
EXTENDS Disk

Clear(data) == [enc |-> <<>>, data |-> data]
FS(id)       == [kind |-> "fs", id |-> id]
Boot(root)   == [kind |-> "ntfs", root |-> root]
Super(root)  == [kind |-> "btrfs", root |-> root]
Table(es)    == [kind |-> "mbr", valid |-> TRUE, entries |-> es]
Entry(t, s)  == [type |-> t, start |-> s]

At(s, seq) == [x \in s .. s + Len(seq) - 1 |-> seq[x - s + 1]]

NTFS(s, id)   == At(s, <<Clear(Boot(1)), Clear(FS(id))>>)
NoMFT(s, id)  == At(s, <<Clear(Boot(1))>>)
BTRFS(s, id)  == At(s + 1, <<Clear(Super(2)), Clear(FS(id))>>)
NoTree(s, id) == At(s + 1, <<Clear(Super(2))>>)
NoRoot(s, id) == At(s + 1, <<Clear(Super(2)), Clear([kind |-> "noroot"])>>)
\* A RAID member with a tree, on a disk that held BTRFS before.
RaidWith(s, tree) ==
  At(s + 1, <<Clear([kind |-> "raid", offset |-> 3]), Clear(Super(5)),
              Clear([kind |-> "lvm", area |-> 1]), Clear(Blank), Clear(Super(3)),
              Clear(FS("old")), Clear(tree)>>)
Raid(s, id) == RaidWith(s, FS(id))
RaidNoRoot(s, id) == RaidWith(s, [kind |-> "noroot"])
RaidNoFS(s, id) == At(s + 1, <<Clear([kind |-> "raid", offset |-> 3]), Clear(Blank), Clear([kind |-> "lvm", area |-> 1])>>)
RaidNoLVM(s, id) == At(s + 1, <<Clear([kind |-> "raid", offset |-> 3])>>)
Nothing(s, id) == At(s, <<Clear(Blank)>>)

\* Datums: one shape for the entries of a metadata block and those in a VMK.
Datum(type)      == [type |-> type, clear |-> FALSE, nested |-> <<>>, method |-> "none", salt |-> 0,
                     under |-> NoKey, holds |-> NoBlob]
Sealed(k, blob)  == [Datum("sealed") EXCEPT !.under = k, !.holds = blob]
Stretch(method, salt) == [Datum("stretch") EXCEPT !.method = method, !.salt = salt]
KeyDatum(method, salt) == [Datum("key") EXCEPT !.method = method, !.salt = salt]
VMK(clear, nested) == [Datum("vmk") EXCEPT !.clear = clear, !.nested = nested]

\* A VMK and an FVEK: keys of 32 bytes with methods in ascending order, unless told.
MK(id)   == [id |-> id, size |-> 44, low |-> 3]
FVEK     == [id |-> 9, size |-> 44, low |-> 4]
FVEKDatum(blob) == Sealed(MasterKey(1), blob)

Groups == <<7, 0, 65535, 2, 3, 4, 5, 6>>
PW(x, salt)  == VMK(FALSE, <<Stretch("password", salt), Sealed(PasswordKey(x, salt), MK(1))>>)
RKOf(groups, salt) == VMK(FALSE, <<Stretch("recovery", salt), Sealed(RecoveryKey(groups, salt), MK(1))>>)
RK(salt)     == RKOf(Groups, salt)
ClearVMK     == VMK(TRUE, <<KeyDatum("aes-ccm", 4), Sealed(ClearKey(4), MK(1))>>)

\* A block of metadata with all its datums.
Block(id, datums) ==
  [kind |-> "meta", bver |-> 2, units |-> 7 + Len(datums), version |-> 1, datums |-> datums,
   key |-> id, header |-> 3, method |-> "xts"]
Default(id, vmks) == Block(id, vmks \o <<FVEKDatum(FVEK)>>)

\* A BitLocker volume: its metadata, a second copy of it, and what lies inside.
FVE(s, id, meta, second, inner) ==
  LET layer == <<[key |-> id, start |-> s]>>
  IN At(s, <<Clear([kind |-> "fve", copies |-> <<1, 2>>]), Clear(meta), Clear(second),
             [enc |-> layer, data |-> inner], [enc |-> layer, data |-> FS(id)]>>)

Locked(s, id, meta) == FVE(s, id, meta, meta, Boot(4))

\* Metadata: protectors in several orders, forms and sizes.
Metadata(kind, id) ==
  LET pw == Default(id, <<PW("a", 1)>>)
  IN CASE kind = "both"    -> Default(id, <<PW("b", 1), RK(2)>>)
       [] kind = "rkpw"    -> Default(id, <<RK(2), PW("a", 1)>>)
       [] kind = "zeros"   -> Default(id, <<RKOf(<<7, 0, 0, 0, 0, 0, 0, 0>>, 2)>>)
       [] kind = "tpm"     -> Default(id, <<VMK(FALSE, <<Datum("unknown"), Sealed(NoKey, MK(1))>>), PW("a", 1)>>)
       [] kind = "clear"   -> Default(id, <<ClearVMK, PW("a", 1)>>)
       [] kind = "late"    -> Default(id, <<PW("a", 1), ClearVMK>>)
       [] kind = "foreign" -> Default(id, <<VMK(FALSE, <<KeyDatum("xts", 4), Sealed(NoKey, MK(1))>>), PW("a", 1)>>)
       \* a key that was stretched for a VMK is used for the next sealed one
       [] kind = "stale"   -> Default(id, <<VMK(FALSE, <<Stretch("password", 1), Datum("unknown")>>),
                                            VMK(FALSE, <<Datum("other"), Sealed(NoKey, MK(1))>>), RK(2)>>)
       [] kind = "erased"  -> Default(id, <<Datum("erased"), PW("a", 1)>>)
       [] kind = "newtype" -> Default(id, <<Datum("unknown"), PW("a", 1)>>)
       [] kind = "nofvek"  -> Block(id, <<PW("a", 1), Datum("unknown"), FVEKDatum(FVEK)>>)
       [] kind = "short"   -> [pw EXCEPT !.units = 8]
       [] kind = "cut"     -> [pw EXCEPT !.units = 6]
       [] kind = "wrapped" -> [pw EXCEPT !.units = 4096]
       [] kind = "bytes"   -> [pw EXCEPT !.bver = 1]
       [] kind = "long"    -> Block(id, <<PW("a", 1), FVEKDatum([FVEK EXCEPT !.size = 76])>>)
       [] kind = "low"     -> Block(id, <<PW("a", 1), FVEKDatum([FVEK EXCEPT !.low = 3])>>)
       [] kind = "v3"      -> [pw EXCEPT !.version = 3]
       [] kind = "diffuser" -> [pw EXCEPT !.method = "other"]
       [] OTHER            -> pw

Volume(kind, s, id) ==
  CASE kind = "ntfs" -> NTFS(s, id) [] kind = "nomft" -> NoMFT(s, id)
    [] kind = "btrfs" -> BTRFS(s, id) [] kind = "notree" -> NoTree(s, id)
    [] kind = "noroot" -> NoRoot(s, id)
    [] kind = "raid" -> Raid(s, id) [] kind = "raidnofs" -> RaidNoFS(s, id)
    [] kind = "raidnoroot" -> RaidNoRoot(s, id)
    [] kind = "raidnolvm" -> RaidNoLVM(s, id) [] kind = "nothing" -> Nothing(s, id)
    [] kind = "badcopy" -> FVE(s, id, Metadata("pw", id), Blank, Boot(4))
    [] kind = "innerbtrfs" -> FVE(s, id, Metadata("pw", id), Metadata("pw", id), Super(4))
    [] kind = "innernomft" -> FVE(s, id, Metadata("pw", id), Metadata("pw", id), Boot(5))
    [] OTHER -> Locked(s, id, Metadata(kind, id))

Protectors == {"zeros", "rkpw", "foreign", "stale", "erased", "newtype", "nofvek", "short", "cut", "wrapped", "bytes", "long", "low",
               "diffuser", "late"}
Encrypted == {"pw", "tpm", "both", "clear", "badcopy", "v3", "innerbtrfs", "innernomft"}
Basic == Encrypted \cup {"ntfs", "nomft", "nothing"}
GPTType(kind) == IF kind \in Basic \cup Protectors THEN "basic" ELSE "raid"
MBRType(kind) == IF kind \in Basic THEN "ntfs" ELSE IF kind \in {"btrfs", "notree", "noroot"} THEN "linux" ELSE "other"

Slot == 8
Start(n) == Slot * n
Ids == <<"p1", "p2", "p3">>

\* kinds says what lies in the slots of the disk, order how the table lists them.
Slots(kinds) == [n \in DOMAIN kinds |-> Volume(kinds[n], Start(n), Ids[n])]
Image(head, kinds) ==
  [size |-> Slot * (Len(kinds) + 1),
   sectors |-> FoldFunction(LAMBDA f, g : f @@ g, head @@ <<>>, Slots(kinds))]

Listed(kinds, order, type(_)) == [n \in DOMAIN order |-> Entry(type(kinds[order[n]]), Start(order[n]))]

GPTImage(kinds, order) ==
  Image(At(0, <<Clear(Table(<<Entry("protective", 1)>>)),
                Clear([kind |-> "gpt", entries |-> Listed(kinds, order, GPTType)])>>), kinds)
MBRImage(kinds, order) == Image(At(0, <<Clear(Table(Listed(kinds, order, MBRType)))>>), kinds)

\* A table at sector 1 lists its partitions relative to itself.
ExtendedImage(kinds, rel) ==
  Image(At(0, <<Clear(Table(<<Entry(MBRType(kinds[1]), Slot), Entry("extended", 1)>>)),
                Clear(Table(<<Entry(MBRType(kinds[2]), rel)>>))>>), kinds)

\* The table lies in the first slot, so that the number of its partition is that of another.
FarExtendedImage(kinds) ==
  [Image(At(0, <<Clear(Table(<<Entry(MBRType(kinds[2]), Start(2)), Entry("extended", Slot)>>))>>), kinds)
     EXCEPT !.sectors = At(Slot, <<Clear(Table(<<Entry(MBRType(kinds[3]), Start(2))>>))>>) @@ @]

GPTKinds == Basic \cup {"raid", "raidnofs", "raidnolvm", "raidnoroot"}
Some     == {"ntfs", "pw", "both", "raid"}
Orders3  == {<<1, 2, 3>>, <<2, 1, 3>>, <<3, 2, 1>>, <<2, 3, 1>>}

Small(seq) == [size |-> 3, sectors |-> At(0, seq)]
OddImage(name) ==
  CASE name = "volume"     -> Small(<<Clear(Boot(1)), Clear(FS("p1"))>>)
    [] name = "empty"      -> Small(<<Clear(Table(<<>>))>>)
    [] name = "unsigned"   -> Small(<<Clear([Table(<<Entry("ntfs", 1)>>) EXCEPT !.valid = FALSE])>>)
    [] name = "farextended" -> Small(<<Clear(Table(<<Entry("extended", 9)>>))>>)
    [] name = "blank"      -> Small(<<Clear(Blank)>>)
    [] name = "fargpt"     -> Small(<<Clear(Table(<<Entry("protective", 1)>>)),
                                      Clear([kind |-> "gpt", entries |-> <<Entry("basic", 9)>>])>>)
    [] name = "farmbr"     -> Small(<<Clear(Table(<<Entry("ntfs", 9)>>))>>)

Name(table, kinds, order) == [table |-> table, kinds |-> kinds, order |-> order]
Build(d) ==
  CASE d.table = "gpt" -> GPTImage(d.kinds, d.order)
    [] d.table = "mbr" -> MBRImage(d.kinds, d.order)
    [] d.table = "ext" -> ExtendedImage(d.kinds, d.order[1])
    [] d.table = "far" -> FarExtendedImage(d.kinds)
    [] d.table = "odd" -> OddImage(d.kinds[1])

Names ==
  {Name("odd", <<k>>, <<>>) : k \in {"volume", "empty", "unsigned", "farextended", "blank", "fargpt", "farmbr"}}
  \cup {Name("gpt", <<k, l>>, o) : k \in GPTKinds, l \in GPTKinds, o \in {<<1, 2>>, <<2, 1>>}}
  \cup {Name("gpt", <<k, l, m>>, o) : k \in Some, l \in Some, m \in Some, o \in Orders3}
  \cup {Name("gpt", <<k>>, <<1>>) : k \in Protectors}
  \cup {Name("mbr", <<k, l>>, <<1, 2>>) : k \in {"ntfs", "pw", "btrfs", "clear", "raid"},
                                         l \in {"ntfs", "btrfs", "nomft", "notree", "noroot"}}
  \cup {Name("ext", <<k, l>>, <<r>>) : k \in {"ntfs", "pw"}, l \in {"ntfs", "nothing", "btrfs"}, r \in {Slot, 2 * Slot - 1}}
  \cup {Name("far", <<"nothing", k, l>>, <<>>) : k \in {"ntfs", "btrfs"}, l \in {"ntfs", "btrfs"}}

MCImages == {Build(d) : d \in Names}

\* Recovery keys: the right one, others typed or put in wrongly.
Right == [g \in 1 .. 8 |-> 11 * Groups[g]]
Short == <<77>>
BadGroup == [Right EXCEPT ![3] = 5]
NoDigit  == [Right EXCEPT ![4] = -1]
TooLarge == [Right EXCEPT ![3] = 11 * 65536]
NineGroups == Append(Right, 11)

Arg(n, p, r) == [partition |-> n, password |-> p, recovery |-> r]
MCArgs == {Arg(0, "", <<>>), Arg(0, "a", <<>>), Arg(2, "a", <<>>), Arg(0, "", Right), Arg(0, "a", Right),
           Arg(0, "b", BadGroup), Arg(0, "", Short), Arg(0, "", NoDigit), Arg(0, "", TooLarge), Arg(0, "a", NineGroups)}

\* One encrypted partition in either kind of table.
OneImages == {Build(Name(t, <<k>>, <<1>>)) : t \in {"mbr", "gpt"}, k \in {"pw", "both"}}
=============================================================================
