------------------------------- MODULE MCExport ------------------------------
(* Volumes for TLC: every run list of at most two short runs, files of two  *)
(* or three BTRFS extents, and volumes with several files.                  *)
EXTENDS Export

NoData == [kind |-> "none", runs |-> <<>>, bytes |-> <<>>, items |-> <<>>]
Runs(rs) == [NoData EXCEPT !.kind = "runs", !.runs = rs]
Resident(b) == [NoData EXCEPT !.kind = "resident", !.bytes = b]
Extent(xs) == [NoData EXCEPT !.kind = "extents", !.items = xs]
rn(o, l) == [off |-> o, len |-> l, hole |-> o = 0]
Again(l) == [off |-> 0, len |-> l, hole |-> FALSE]      \* starts where the run before it does
it(t, a, o, l) == [at |-> t, addr |-> a, off |-> o, len |-> l, form |-> "regular"]
File(i, n, d, s, data, linked) ==
  [id |-> i, name |-> n, dir |-> d, folder |-> FALSE, lsize |-> s, data |-> data, linked |-> linked]
Folder(i, n, d) == [File(i, n, d, 0, NoData, <<>>) EXCEPT !.folder = TRUE]
Vol(b, rs) == [offset |-> b, cbc |-> FALSE, chunks |-> {}, records |-> rs]

RunSet == {rn(o, l) : o \in -1 .. 3, l \in 0 .. 2} \cup {Again(1)}
RunLists == {<<r>> : r \in RunSet} \cup {<<r, q>> : r \in RunSet, q \in RunSet}
OneFile(b, r) == [p \in {0} |-> Vol(b, <<r>>)]

SingleJobs == {OneFile(b, File(7, "a", <<>>, s, Runs(rs), <<>>)) :
                 b \in {0, 4}, s \in {0, 3, 7}, rs \in RunLists}

(* Behind an AES-CBC reader.                                               *)
CipherJobs == {[p \in {0} |-> [Vol(4, <<File(7, "a", <<>>, s, Runs(rs), <<>>)>>) EXCEPT !.cbc = TRUE]] :
                 s \in {3, 7}, rs \in {<<rn(1, 2)>>, <<rn(1, 1), rn(-2, 1)>>, <<rn(2, 1), rn(0, 1), rn(-1, 1)>>,
                                      <<rn(2, 2)>>, <<rn(1, 1), Again(1)>>}}

(* Two chunks that are neighbours by logical address but not on the disk.  *)
Chunks == {[key |-> 20, size |-> 6, stripe |-> 6], [key |-> 26, size |-> 6, stripe |-> 0]}
BtrfsFile(s, xs) == [p \in {0} |-> [Vol(2, <<File(7, "a", <<>>, s, Extent(xs), <<>>)>>) EXCEPT !.chunks = Chunks]]
ItemSet == {it(t, a, o, 2) : t \in {2, 4}, a \in {0, 20, 22, 24, 26, 28}, o \in {0, 2}}
             \cup {[it(2, 22, 0, 2) EXCEPT !.form = f] : f \in {"prealloc", "other"}}
ExtentJobs == {BtrfsFile(s, xs) : s \in {3, 6}, xs \in {<<it(0, a, o, 2), x>> : a \in {0, 20, 24}, o \in {0, 2}, x \in ItemSet}}
                \cup {BtrfsFile(s, xs) : s \in {3, 6}, xs \in
                         {<<it(4, 26, 0, 2), it(0, 22, 0, 2), it(2, 24, 0, 2)>>,
                          <<it(0, 20, 0, 2), it(0, 24, 0, 2), it(2, 26, 2, 2)>>,
                          <<it(0, 20, 0, 2), it(2, 22, 0, 2), it(4, 24, 0, 2)>>, <<it(0, 40, 0, 2), it(2, 28, 2, 4)>>,
                          <<it(0, 28, 0, 2), it(2, 0, 0, 2), it(4, 24, 2, 2)>>, <<it(2, 24, 6, 6), it(4, 20, 0, 2)>>,
                          <<>>, <<it(0, 30, 8, 2), it(2, 20, 0, 2)>>}}
                \cup {[p \in {0} |-> [BtrfsFile(3, <<it(0, 0, 0, 2), it(2, 20, 0, 2)>>)[p]
                                       EXCEPT !.chunks = @ \cup {[key |-> 0, size |-> 4, stripe |-> n]}]] : n \in {0, 100}}

LinkedJobs == {OneFile(0, File(7, "a", <<>>, s, NoData, <<Runs(rs), x, Runs(<<rn(2, 1)>>)>>)) :
                 s \in {5, 9, 12}, x \in {NoData, Resident(<<-5>>), Runs(<<rn(3, 1), rn(0, 1)>>)},
                 rs \in {<<rn(1, 1)>>, <<rn(0, 2)>>, <<rn(3, 1), rn(-2, 1)>>, <<rn(1, 1), rn(0, 1), rn(1, 1)>>, <<rn(9, 1)>>,
                         <<rn(1, 1), Again(1)>>}}

Vol1 == Vol(0,
          <<File(0, "m", <<>>, 4, Runs(<<rn(1, 1)>>), <<>>), Folder(5, "d", <<>>),
            File(6, "a", <<"d">>, 3, Runs(<<rn(2, 1)>>), <<>>), File(7, "a", <<"e">>, 2, Resident(<<-5, -6>>), <<>>)>>)
Vol2 == Vol(8,
          <<File(0, "m", <<>>, 4, Runs(<<rn(1, 1)>>), <<>>), File(6, "a", <<"d">>, 5, Runs(<<rn(0, 4), rn(1, 1)>>), <<>>)>>)
Empty == Vol(0, <<>>)

ManyJobs == {[p \in {0, 1, 2} |-> IF p = 0 THEN Vol1 ELSE IF p = 1 THEN Empty
                                  ELSE [Vol2 EXCEPT !.records = SubSeq(@, 1, 1)]],
             [p \in {0, 1} |-> IF p = 0 THEN Vol1 ELSE Vol2]}

(* Directories of BTRFS are sent as files, before or after what is in them,*)
(* from volumes with the same paths; a name may be that of a directory     *)
(* above, or none.                                                         *)
Entry(i, n, d, s) == File(i, n, d, s, Extent(<<>>), <<>>)
Root == Entry(256, "..", <<>>, 1)
DirD == Entry(257, "d", <<"..">>, 1)
InD  == Entry(258, "a", <<"..", "d">>, 2)
TreeJobs == {[p \in {0} |-> Vol(0, rs)] :
               rs \in {<<Root, DirD, InD>>, <<InD, DirD, Root>>, <<Entry(1, "", <<"d">>, 1), Entry(2, "a", <<"d">>, 2), Root>>,
                       <<Entry(1, "", <<>>, 1), Entry(2, "a", <<"d">>, 2)>>, <<Entry(2, "out", <<"..">>, 1), InD, Root>>,
                       <<Entry(3, "b", <<>>, 1), Entry(4, "..", <<"d">>, 2), Entry(5, "d", <<>>, 1)>>}}
              \cup {[p \in {0, 1} |-> Vol(0, IF p = 0 THEN <<Entry(2, "a", <<"d">>, 1)>> ELSE <<Entry(2, "a", <<"d">>, 2)>>)]}

MCLocation == <<Named("out")>>

MCJobs == SingleJobs \cup LinkedJobs \cup CipherJobs \cup ExtentJobs \cup ManyJobs \cup TreeJobs

Opt(i, r, h, s) == [id |-> i, recreate |-> r, hash |-> h, shortReads |-> s]
MCOptions == {Opt(TRUE, FALSE, "md5", FALSE), Opt(FALSE, FALSE, "md5", TRUE), Opt(TRUE, TRUE, "", TRUE),
              Opt(FALSE, TRUE, "other", FALSE)}
HashOptions == {Opt(TRUE, TRUE, "md5", FALSE)}
=============================================================================
