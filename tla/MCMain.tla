------------------------------ MODULE MCMain ------------------------------
(***************************************************************************)
(* Main on a few pieces of evidence: at most two partitions of at most six *)
(* records, on a disk of at most twelve sectors.                           *)
(***************************************************************************)
EXTENDS Main

MCLower == [e \in {"jpg", "JPG", "zip", "ZIP", "Zip", ""} |->
              CASE e = "JPG" -> "jpg" [] e \in {"ZIP", "Zip"} -> "zip" [] OTHER -> e]
MCUpper == [e \in {"jpg", "JPG", "zip", "ZIP", "Zip", ""} |->
              CASE e = "jpg" -> "JPG" [] e \in {"zip", "Zip"} -> "ZIP" [] OTHER -> e]

Args == [search |-> FALSE, partition |-> -1, usnjrnl |-> FALSE, logfile |-> FALSE, unallocated |-> FALSE,
         vss |-> FALSE, clusters |-> <<>>, filters |-> <<>>, exts |-> <<>>, level |-> "", tree |-> FALSE, showtree |-> FALSE]

File(id, name, ext, up, parref) ==
  [id |-> id, name |-> name, ext |-> ext, deleted |-> FALSE, folder |-> FALSE, base |-> TRUE,
   up |-> up, parref |-> parref, lsize |-> 1, extents |-> <<>>, header |-> <<<<7>>, <<7>>>>, log |-> <<>>]
Folder(id, name, up, parref) == [File(id, name, "", up, parref) EXCEPT !.folder = TRUE]

NoVss == [catalog |-> 0, blocks |-> (0 :> [entries |-> <<>>, next |-> 500]), stores |-> <<>>, size |-> 1000]

Ntfs1 == [volume |-> "ntfs", offset |-> 1, spc |-> 1, table |-> 7,
          bitmap |-> <<[rel |-> 1, len |-> 2]>>, records |-> <<>>, vss |-> NoVss]
SectorBits(n) == [s \in 0 .. n - 1 |-> <<s % 3 # 0, s % 4 # 1>>]
Job == [parts |-> <<>>, size |-> 10, bits |-> SectorBits(10), rows |-> <<>>, args |-> Args, old |-> <<99>>,
        short |-> FALSE, writable |-> TRUE]

-----------------------------------------------------------------------------
(* The journal *)

Blank == [len |-> 0, name |-> 0, usn |-> 0]
Skip  == [len |-> 99, name |-> 0, usn |-> 0]
Slip  == [len |-> 99, name |-> 99, usn |-> 0]
Usn(id, len, name) == [k \in 1 .. len |-> IF k = 1 THEN [len |-> len, name |-> name, usn |-> id] ELSE Slip]

Frag1 == Usn(1, 2, 1) \o Usn(2, 2, 1)
Frag2 == <<Blank, Skip>> \o Usn(3, 2, 1) \o Usn(4, 2, 1) \o <<Blank, Blank>>
Frag3 == Usn(5, 3, 2) \o <<Slip>> \o Usn(6, 2, 1) \o Usn(7, 2, 1)
Frag4 == <<Blank, Blank>> \o Usn(8, 2, 2)
Bogus == <<[len |-> 3, name |-> 1, usn |-> 0]>> \o Usn(9, 2, 1) \o Usn(10, 2, 1)

Jrnl(lsize, extents) == [File(30, "$UsnJrnl", "", 0, 11) EXCEPT !.lsize = lsize, !.extents = extents]
JRun(rel, frag) == [rel |-> rel, frag |-> frag]

JournalParts(lsize) ==
  <<[Ntfs1 EXCEPT !.spc = 2,
       !.records = <<Jrnl(lsize, <<<<JRun(1, Frag1), JRun(0, <<>>), JRun(1, Frag2)>>, <<JRun(2, Frag3)>>>>),
                     File(31, "a", "jpg", 0, 5)>>],
    [Ntfs1 EXCEPT !.offset = 5,
       !.records = <<Jrnl(1, <<<<JRun(2, Frag4), JRun(1, <<>>), JRun(9, Frag1), JRun(-8, Frag1)>>>>),
                     Jrnl(1, <<<<JRun(1, Frag1)>>>>)>>]>>

JournalJobs ==
  {[Job EXCEPT !.parts = JournalParts(n), !.args.usnjrnl = TRUE, !.args.search = b] :
     n \in 0 .. 2, b \in BOOLEAN} \cup
  {[Job EXCEPT !.parts = <<[Ntfs1 EXCEPT !.volume = "none"], JournalParts(1)[2]>>,
               !.args.usnjrnl = TRUE, !.args.partition = 2],
   [Job EXCEPT !.parts = <<[Ntfs1 EXCEPT !.records = <<Jrnl(2, <<<<JRun(1, Bogus)>>>>)>>]>>,
               !.args.usnjrnl = TRUE],
   [Job EXCEPT !.parts = <<[Ntfs1 EXCEPT !.records = <<[Jrnl(2, <<<<JRun(1, Frag1)>>>>) EXCEPT !.folder = TRUE]>>]>>,
               !.args.usnjrnl = TRUE]}

-----------------------------------------------------------------------------
(* The log: cells of half a page *)

Rest == [kind |-> "rest"]
Restart(version, page) == <<[kind |-> "restart", version |-> version, page |-> page, fixups |-> 2, fault |-> "none"], Rest>>
RecordPage(id) == <<[kind |-> "record", id |-> id, ends |-> 1, fixups |-> 2, fault |-> "none"], Rest>>
EmptyPage == <<Rest, Rest>>

\* Pages from the first behind the restart pages on, those of some numbers empty.
Body(n, empty, id) == FlattenSeq([k \in 1 .. n |-> IF k \in empty THEN EmptyPage ELSE RecordPage(id + k)])
LogOf(version, n, empty, id) == Restart(version, 2) \o Restart(version, 2) \o Body(n, empty, id)

LogRecord(log) == [File(2, "$LogFile", "", 1, 5) EXCEPT !.log = log, !.lsize = Len(log)]
OneLog(version, n) == LogRecord(LogOf(version, n, {3, 36}, 0))

\* One to three logs: of several sizes, the larger ones first or last, with a record
\* page or none at the place behind the end of the next.
SoundLogs ==
  {<<OneLog("1.1", n)>> : n \in 0 .. 7} \cup {<<OneLog("2.0", n)>> : n \in {0, 32, 33, 34, 66}}
    \cup {<<LogRecord(LogOf("1.1", n, e, 0)), LogRecord(LogOf("1.1", m, {}, 50))>> : n \in {3, 6}, m \in 2 .. 7, e \in {{}, {3}, {6}}}
    \cup {<<LogRecord(LogOf("1.1", 6, {}, 0)), LogRecord(LogOf("1.1", 3, {3}, 50)), LogRecord(LogOf("1.1", 2, {}, 90))>>}

Page1(log, field, value) == [log EXCEPT ![1][field] = value]

\* Logs that are damaged, cut off, or not read to their end.
OddLogs ==
  LET sound == LogOf("1.1", 3, {}, 0)
  IN {<<LogRecord(l)>> : l \in {<<>>, EmptyPage, Restart("1.1", 2), SubSeq(sound, 1, 3), Restart("1.1", 2) \o EmptyPage,
                                Page1(sound, "fault", "error"), Page1(sound, "fault", "panic"),
                                SubSeq(sound, 1, 9), [sound EXCEPT ![9].fault = "error"], [sound EXCEPT ![9].fault = "panic"], [sound EXCEPT ![9].ends = 3],
                                Restart("1.1", 2) \o Restart("1.0", 2) \o RecordPage(1),
                                Restart("1.1", 2) \o Restart("1.1", 0) \o RecordPage(1),
                                Restart("1.1", 2) \o Restart("1.1", 1) \o Body(2, {}, 0)}}
     \cup {<<LogRecord(sound), [LogRecord(<<>>) EXCEPT !.lsize = m]>> : m \in {0, 1, 2, 8, 9, 10, 12}}

LogJobs ==
  {[Job EXCEPT !.parts = <<[Ntfs1 EXCEPT !.volume = "none"], [Ntfs1 EXCEPT !.records = <<File(30, "a", "jpg", 1, 5)>> \o logs]>>,
               !.args.logfile = TRUE, !.args.partition = 2] : logs \in SoundLogs \cup OddLogs}
    \cup {[Job EXCEPT !.parts = <<[Ntfs1 EXCEPT !.volume = v]>>, !.args.logfile = TRUE, !.args.partition = n, !.args.search = b] :
             v \in {"none", "btrfs"}, n \in {-1, 1}, b \in BOOLEAN}

-----------------------------------------------------------------------------
(* The unallocated space *)

Bitmaps == {<<[rel |-> 1, len |-> 2]>>, <<[rel |-> 2, len |-> 1], [rel |-> 1, len |-> 1]>>,
            <<[rel |-> 1, len |-> 1], [rel |-> 0, len |-> 1], [rel |-> 3, len |-> 1]>>,
            <<[rel |-> 3, len |-> 1], [rel |-> 1, len |-> 9]>>,
            <<[rel |-> 3, len |-> 3], [rel |-> -2, len |-> 1], [rel |-> 20, len |-> 1]>>,
            <<[rel |-> 3, len |-> 1], [rel |-> 1, len |-> 1], [rel |-> -9, len |-> 1]>>,
            <<[rel |-> -1, len |-> 1], [rel |-> 2, len |-> 1]>>, <<[rel |-> -1, len |-> 0], [rel |-> 3, len |-> 1]>>,
            <<[rel |-> 1, len |-> 1], [rel |-> 1, len |-> 0], [rel |-> 1, len |-> 1], [rel |-> 0, len |-> 1]>>,
            <<[rel |-> 2, len |-> 1], [rel |-> 0, len |-> 1], [rel |-> -3, len |-> 1]>>}

UnallocatedJobs ==
  {[Job EXCEPT !.parts = <<[Ntfs1 EXCEPT !.bitmap = m, !.spc = c],
                           [Ntfs1 EXCEPT !.volume = v, !.offset = 4, !.table = n]>>,
               !.args.unallocated = TRUE, !.args.search = (c = 2 /\ n = 6), !.short = r] :
     m \in Bitmaps, c \in {1, 2}, v \in {"ntfs", "btrfs", "none"}, n \in {6, 7}, r \in BOOLEAN} \cup
  {[Job EXCEPT !.parts = <<[Ntfs1 EXCEPT !.bitmap = m, !.spc = 3]>>,
               !.args.unallocated = TRUE, !.short = r, !.writable = w] : m \in Bitmaps, r \in BOOLEAN, w \in BOOLEAN}

-----------------------------------------------------------------------------
(* The shadow copies *)

Entry(type, store) == [type |-> type, store |-> store]
Block(stores, next) == [entries |-> FlattenSeq([n \in DOMAIN stores |-> <<Entry(2, 0), Entry(3, stores[n])>>]), next |-> next]
Store(ranges, list) == [ranges |-> ranges, list |-> list, whole |-> TRUE, name |-> 20]
RangeOf(start, at, size) == [start |-> start, shadow |-> at, size |-> size]
Moved(original, at) == [original |-> original, shadow |-> at]

\* Ranges and descriptors that overlap, with a range and descriptors that are not used,
\* and a range that begins within a cluster.
Stores ==
  <<Store(<<RangeOf(16, 80, 24), RangeOf(0, 0, 0), RangeOf(64, 8, 16)>>, <<Moved(32, 120), Moved(8, 136), Moved(0, 0)>>),
    Store(<<RangeOf(8, 160, 24)>>, <<Moved(40, 200)>>),
    Store(<<>>, <<Moved(48, 208), Moved(32, 216)>>), Store(<<RangeOf(12, 80, 24)>>, <<>>)>>

\* Catalogs of one to four blocks, one that comes back, ones that leave the disk, and one
\* that ends with something else than an entry.
Catalogs ==
  {<<Block(<<1>>, 0)>>, <<Block(<<1>>, 200), Block(<<2>>, 0)>>, <<Block(<<2, 1>>, 200), Block(<<>>, 0)>>,
   <<Block(<<3>>, 200), Block(<<1>>, 300), Block(<<2>>, 0)>>, <<Block(<<3, 1>>, 200), Block(<<2>>, 300), Block(<<3>>, 400), Block(<<>>, 0)>>,
   <<Block(<<1>>, 200), Block(<<2>>, 100)>>, <<Block(<<1>>, 2000)>>,
   <<Block(<<4>>, 200), Block(<<>>, 0)>>,
   <<[entries |-> <<Entry(1, 0), Entry(3, 2), Entry(0, 0), Entry(3, 1)>>, next |-> 200], Block(<<>>, 0)>>}

VssOf(catalog) == [catalog |-> 100, blocks |-> [b \in {100 * n : n \in DOMAIN catalog} |-> catalog[b \div 100]],
                 stores |-> Stores, size |-> 1000]

Shadowed(vss, spc) == <<[Ntfs1 EXCEPT !.volume = "none"], [Ntfs1 EXCEPT !.vss = vss, !.spc = spc]>>
Clusters == <<0, 1, 2, 3, 4, 5, 6, 8, 9>>

ShadowJob == [Job EXCEPT !.args.vss = TRUE, !.args.partition = 2, !.args.clusters = Clusters]
ShadowJobs ==
  {[ShadowJob EXCEPT !.parts = Shadowed(VssOf(c), s), !.args.vss = v] : c \in Catalogs, s \in {4, 8, 16}, v \in BOOLEAN} \cup
  {[ShadowJob EXCEPT !.parts = Shadowed(v, 8)] :
     v \in {NoVss, [NoVss EXCEPT !.blocks[0].next = 2000],
            [VssOf(<<Block(<<1>>, 200), Block(<<>>, 0)>>) EXCEPT !.stores[1].name = 64],
            [VssOf(<<Block(<<1>>, 200), Block(<<>>, 0)>>) EXCEPT !.stores[1].whole = FALSE]}} \cup
  {[ShadowJob EXCEPT !.parts = Shadowed(NoVss, 8), !.args.partition = n, !.args.vss = v, !.args.search = b] :
     n \in {-1, 2}, v \in BOOLEAN, b \in BOOLEAN} \cup
  {[ShadowJob EXCEPT !.parts = <<[Ntfs1 EXCEPT !.volume = n]>>, !.args.partition = 1, !.args.vss = v, !.args.unallocated = FALSE] :
     n \in {"btrfs", "none"}, v \in BOOLEAN} \cup
  {[ShadowJob EXCEPT !.parts = Shadowed(VssOf(<<Block(<<1>>, 200), Block(<<>>, 0)>>), 8), !.args.unallocated = TRUE]}

-----------------------------------------------------------------------------
(* The loop *)

Root5 == Folder(5, ".", 1, 5)
Files1 ==
  <<Root5, Folder(6, "d", 1, 5),
    [File(30, "a", "JPG", 2, 6) EXCEPT !.header = <<<<1, 2, 3>>, <<7>>>>],
    [File(31, "b", "zip", 2, 6) EXCEPT !.header = <<<<1, 2, 4>>, <<1, 2>>>>, !.deleted = TRUE],
    [File(32, "b", "Zip", 0, 9) EXCEPT !.header = <<<<2, 2, 0>>, <<2>>>>, !.deleted = TRUE],
    [Folder(33, "e", 2, 6) EXCEPT !.base = FALSE, !.lsize = 0]>>
Files2 ==
  <<Folder(6, "d", 2, 7), Folder(7, "d", 1, 6), [File(8, "a", "jpg", 1, 6) EXCEPT !.header = <<<<9>>, <<1, 2, 3>>>>],
    [File(9, "f", "", 0, -1) EXCEPT !.header = <<<<7>>, <<2, 2>>>>], Folder(10, "g", 0, 40),
    [File(11, "b", "jpg", 5, 10) EXCEPT !.deleted = TRUE, !.lsize = 0]>>

Rows == <<[ext |-> "zip", sig |-> <<1>>], [ext |-> "JPG", sig |-> <<1, 2>>],
          [ext |-> "jpg", sig |-> <<1, 2, 3>>], [ext |-> "ZIP", sig |-> <<1, 2, 3>>],
          [ext |-> "zip", sig |-> <<2, 2>>]>>

Filter(kind, keys) == [kind |-> kind, keys |-> keys]
Filters ==
  {<<>>, <<Filter("name", <<{"a", "b"}>>)>>, <<Filter("extension", <<"jpg", "JPG">>)>>,
   <<Filter("name", <<{"a", "d", "g"}>>), Filter("deleted", <<{}>>)>>,
   <<Filter("extension", <<"zip">>), Filter("orphans", <<{}>>), Filter("deleted", <<{}>>)>>,
   <<Filter("entry", <<31, 30, 10, 5>>)>>, <<Filter("entry", <<5, 6, 30>>)>>,
   <<Filter("path", <<[known |-> TRUE, names |-> <<"d">>]>>)>>,
   <<Filter("entry", <<10, 11>>), Filter("path", <<[known |-> FALSE, names |-> <<"g">>]>>)>>}

LoopParts == {<<[Ntfs1 EXCEPT !.records = Files1], [Ntfs1 EXCEPT !.records = Files2]>>,
              <<[Ntfs1 EXCEPT !.records = Files1], [Ntfs1 EXCEPT !.records = Files1]>>,
              <<[Ntfs1 EXCEPT !.volume = "none", !.table = 0], [Ntfs1 EXCEPT !.records = Files2, !.table = 3]>>}

LoopJobs ==
  {[Job EXCEPT !.parts = ps, !.rows = Rows, !.args.filters = f, !.args.level = l,
               !.args.exts = IF f # <<>> /\ f[1].kind = "extension" THEN f[1].keys ELSE <<"">>,
               !.args.tree = (t # "no"), !.args.showtree = (t = "show")] :
     ps \in LoopParts, f \in Filters, l \in {"", "permissive", "strict", "other"},
     t \in {"no", "tree", "show"}} \cup
  {[Job EXCEPT !.parts = <<[Ntfs1 EXCEPT !.records = Files1]>>, !.rows = Rows,
               !.args.search = TRUE, !.args.level = l] : l \in {"", "strict"}} \cup
  {[Job EXCEPT !.parts = <<[Ntfs1 EXCEPT !.records = Files1]>>, !.rows = <<[ext |-> "jpg", sig |-> <<>>]>>,
               !.args.level = "permissive"]}

MCJobs == JournalJobs \cup LogJobs \cup ShadowJobs \cup UnallocatedJobs \cup LoopJobs
===============================================================================
