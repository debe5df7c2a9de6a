------------------------------ MODULE MCMFTTable -----------------------------
(* Small $MFT areas of five slots for TLC.                                  *)
EXTENDS MFTTable

R(e, s)       == [ref |-> e, seq |-> s]
X(e, s, l, p) == [ref |-> e, seq |-> s, lsize |-> l, psize |-> p]
ListBlock(refs, f) == [refs |-> refs, full |-> f, indx |-> FALSE, idx |-> <<>>]
IndxBlock(entries) == [refs |-> <<R(0, 0)>>, full |-> FALSE, indx |-> TRUE, idx |-> entries]
BitsBlock          == [refs |-> <<R(65535, 65535)>>, full |-> FALSE, indx |-> FALSE, idx |-> <<>>]
A(t, blocks)       == [type |-> t, blocks |-> blocks, ok |-> TRUE]

Raw(s) == [sig |-> s, fixup |-> TRUE, head |-> EmptyHead, body |-> EmptyBody]
File(e, s, dir, parentRef, list, root, attrs) ==
  [sig |-> "FILE", fixup |-> TRUE,
   head |-> [entry |-> e, seq |-> s, folder |-> dir],
   body |-> [hasFn |-> TRUE, fn |-> parentRef, list |-> list, root |-> root, attrs |-> attrs]]
Ext(e, s, attrs) ==
  [sig |-> "FILE", fixup |-> TRUE,
   head |-> [entry |-> e, seq |-> s, folder |-> FALSE],
   body |-> [EmptyBody EXCEPT !.attrs = attrs]]
MFTFile == File(0, 1, FALSE, R(5, 5), <<>>, <<>>, <<A("data", <<BitsBlock>>)>>)
BadFixup(e) == [File(e, 2, FALSE, R(0, 1), <<>>, <<>>, <<>>) EXCEPT !.fixup = FALSE]

Area(s1, s2, s3, s4) ==
  [i \in Slot |-> CASE i = 0 -> MFTFile [] i = 1 -> s1 [] i = 2 -> s2 [] i = 3 -> s3 [] i = 4 -> s4]

(* Two corrupt slots, a zero one, an unusable fixup array.                  *)
Corrupt == Area(Raw("BAAD"), Raw("other"), Raw("zero"), BadFixup(4))

(* A file stored at another position, a stale copy of it, a record of       *)
(* another table.                                                           *)
Moved == Area(File(2, 3, FALSE, R(0, 1), <<>>, <<>>, <<>>), Raw("zero"),
              File(2, 4, FALSE, R(4, 0), <<>>, <<>>, <<>>),
              File(9, 1, FALSE, R(2, 3), <<>>, <<>>, <<>>))

(* A folder whose list spans two blocks and whose index is in extension     *)
(* record 2; $Bitmap-like data at BitmapEntry; files with a one-block list. *)
Lists == Area(File(1, 1, TRUE, R(0, 1), <<>>, <<X(3, 1, 1, 2)>>,
                   <<A("list", <<ListBlock(<<R(2, 1)>>, TRUE), ListBlock(<<R(1, 1), R(4, 3)>>, FALSE)>>)>>),
              Ext(2, 1, <<A("other", <<BitsBlock, BitsBlock>>), A("index", <<IndxBlock(<<X(4, 1, 2, 2)>>)>>)>>),
              File(3, 1, FALSE, R(1, 1), <<R(3, 1), R(4, 1)>>, <<>>,
                   <<A("data", <<BitsBlock>>), A("list", <<ListBlock(<<R(4, 1)>>, TRUE)>>), A("index", <<>>)>>),
              File(4, 1, FALSE, R(2, 9), <<>>, <<>>, <<[A("list", <<ListBlock(<<R(2, 0)>>, FALSE)>>) EXCEPT !.ok = FALSE]>>))

(* Two folders that index the same file with different sizes, one of them   *)
(* through three index blocks, and references to reused entries.            *)
Links == Area(File(1, 1, TRUE, R(2, 1), <<>>, <<X(3, 2, 1, 1), X(2, 1, 2, 2)>>,
                   <<A("index", <<IndxBlock(<<X(3, 0, 3, 3)>>), IndxBlock(<<X(4, 2, 1, 1)>>), IndxBlock(<<>>)>>)>>),
              File(2, 1, TRUE, R(1, 1), <<>>, <<X(3, 2, 2, 2)>>, <<A("index", <<IndxBlock(<<X(4, 1, 2, 1)>>)>>)>>),
              File(3, 2, FALSE, R(1, 0), <<>>, <<>>, <<>>),
              File(4, 2, FALSE, R(4, 9), <<>>, <<>>, <<>>))

MCImages     == {Corrupt, Moved, Lists, Links}
MCSelections == {{}, {0, 1, 3}}
MCBounds     == {<<0, MaxUint32>>, <<1, 4>>, <<6, MaxUint32>>}
=============================================================================
