------------------------------- MODULE MCCarve -------------------------------
(* Small disks for TLC.                                                      *)
EXTENDS Carve

MFT(l, r) == [valid |-> TRUE, mft |-> TRUE, lsn |-> l, run |-> r]
Other == [valid |-> TRUE, mft |-> FALSE, lsn |-> 9, run |-> 0]
Junk  == [valid |-> FALSE, mft |-> FALSE, lsn |-> 0, run |-> NoRun]

(* A mirror copy with the LSN of the table's first record, a second volume, *)
(* a record without run list, an odd last sector, a record at an odd sector.*)
MCDisks == {<<Junk, Junk, MFT(1, 0), Junk, Other, Junk, MFT(1, 1), Junk, MFT(2, 2), Junk>>,
            <<MFT(3, 0), Junk, Other, Junk, MFT(1, NoRun), Junk, MFT(2, 0), Junk, Junk>>,
            <<Junk, Junk, Junk, MFT(5, 0), Junk, Junk>>,
            <<>>}
MCStarts == {0, 1}
=============================================================================
