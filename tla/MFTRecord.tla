------------------------------ MODULE MFTRecord ------------------------------
(***************************************************************************)
(* The pure part of $MFT handling (FS/NTFS/MFT/MFT.go, attributes/*.go):   *)
(* what one on-disk slot of the $MFT area parses to, what the bytes of a   *)
(* non resident attribute read as, and the rule by which a reference       *)
(* (entry, sequence number) resolves to a slot of the table.               *)
(*                                                                         *)
(* An attribute's content is a sequence of 4096-byte blocks.  A block is   *)
(* what the two parsers make of it:                                        *)
(*   refs  the attribute-list entries it reads as,                         *)
(*   full  no zero tail follows them, the list goes on in the next block,  *)
(*   indx  it starts with the INDX signature and its fixups are sane,      *)
(*   idx   the index entries of such a block.                              *)
(***************************************************************************)
EXTENDS SubSequences, SequencesExt

CONSTANTS
  N,        \* number of slots of the $MFT area, len(mfttable.Records)
  Sizes,    \* the file sizes that index entries carry
  MaxRun,   \* attributes of more blocks are skipped (128 MiB in the code)
  Wrap      \* blocks after which uint16(len) is 0 again (16 in the code)

ASSUME NAssumption    == N \in Nat \ {0}
ASSUME SizeAssumption == 0 \in Sizes
ASSUME WrapAssumption == MaxRun \in Nat /\ Wrap \in Nat \ {0}

Slot == 0 .. N - 1
Nil  == -1                                   \* a nil *Record
SeqNo == 0 .. 65535                          \* uint16

Ref      == [ref : Nat, seq : SeqNo]
IdxEntry == [ref : Nat, seq : SeqNo, lsize : Sizes, psize : Sizes]
Block    == [refs : Seq(Ref), full : BOOLEAN, indx : BOOLEAN, idx : Seq(IdxEntry)]
Attr     == [type : {"list", "index", "data", "other"}, blocks : Seq(Block), ok : BOOLEAN]
NoRef    == [ref |-> 0, seq |-> 0]
ZeroBlock == [refs |-> <<>>, full |-> FALSE, indx |-> FALSE, idx |-> <<>>]

(* A record in memory: the part of the header that later phases read, and  *)
(* the attributes (file name reference, entries of the resident attribute  *)
(* list, index root entries, non resident attributes).                     *)
RecordHead == [entry : Nat, seq : SeqNo, folder : BOOLEAN]
RecordBody == [hasFn : BOOLEAN, fn : Ref, list : Seq(Ref), root : Seq(IdxEntry), attrs : Seq(Attr)]
EmptyHead == [entry |-> 0, seq |-> 0, folder |-> FALSE]
EmptyBody == [hasFn |-> FALSE, fn |-> NoRef, list |-> <<>>, root |-> <<>>, attrs |-> <<>>]

(* One 1024-byte slot of the $MFT area on disk.                            *)
SlotData == [sig : {"zero", "BAAD", "other", "FILE"}, fixup : BOOLEAN, head : RecordHead, body : RecordBody]
-----------------------------------------------------------------------------
(* Mutation: zero slots are refused too.                                   *)
MutRefusedZeroToo(d) == d.sig # "FILE"

(* record.Process: which slots it refuses with ErrCorruptRecord or         *)
(* ErrNotValidRecord, and the record it leaves behind otherwise.  A zero   *)
(* slot leaves the zero Record, a slot whose fixup array is unusable its   *)
(* header only: both also return an error, but neither of these two.       *)
Refused(d) == d.sig \in {"BAAD", "other"}

ProcessHead(d) == IF d.sig = "FILE" THEN d.head ELSE EmptyHead

ProcessBody(d) == IF d.sig = "FILE" /\ d.fixup THEN d.body ELSE EmptyBody

(* GetLinkedRecordsInfo: entries stored in the base record itself are left *)
(* out.                                                                    *)
LinkedRecordsInfo(refs, entry) == Keep(refs, {x \in Ref : x.ref # entry})

(* Mutation: the slot's own entry number is not compared.                  *)
MutGetRecordAnyEntry(heads, r) ==
  IF r.ref < N /\ (heads[r.ref].seq - r.seq) % 65536 <= 1 THEN r.ref ELSE Nil

(* GetRecord: the slot a reference resolves to, or Nil.  The difference of *)
(* the sequence numbers is a uint16.                                       *)
GetRecord(heads, r) ==
  IF /\ r.ref < N
     /\ heads[r.ref].entry = r.ref
     /\ (heads[r.ref].seq - r.seq) % 65536 <= 1
  THEN r.ref
  ELSE Nil
-----------------------------------------------------------------------------
(* The worker's scratch buffer.                                            *)

(* cap(scratch) < runLength: a fresh zeroed buffer of exactly runLength.   *)
Grow(s, n) == IF Len(s) < n THEN [i \in 1 .. n |-> ZeroBlock] ELSE s

(* GetContent into buf[:runLength], of which the first k blocks arrive.    *)
Overlay(s, blocks, k) == [i \in 1 .. Len(s) |-> IF i <= k THEN blocks[i] ELSE s[i]]

(* Where the two parsing loops break: the first block that a list does not *)
(* fill, the first one that is no index block; the block after the last    *)
(* when there is none.                                                     *)
ListStop(s)  == Min({i \in 1 .. Len(s) : ~s[i].full} \cup {Len(s) + 1})
IndexStop(s) == Min({i \in 1 .. Len(s) : ~s[i].indx} \cup {Len(s) + 1})

(* The entries of the first n blocks, one after the other.                 *)
RefsUpTo(s, n) == FlattenSeq([i \in 1 .. n |-> s[i].refs])

(* Mutation: the break comes before the append.                            *)
MutParseListBreakFirst(buf) ==
  LET s == SubSeq(buf, 1, Len(buf) % Wrap)
  IN  RefsUpTo(s, ListStop(s) - 1)

(* AttributeListEntries.Parse over the whole buffer.  Its bound is         *)
(* uint16(len(data)); the entry read from a zero tail is appended before   *)
(* the loop breaks.                                                        *)
ParseList(buf) ==
  LET s == SubSeq(buf, 1, Len(buf) % Wrap)
  IN  IF ListStop(s) > Len(s) THEN RefsUpTo(s, Len(s)) ELSE Append(RefsUpTo(s, ListStop(s)), NoRef)

(* IndexAllocationRecords.Parse: chunk after chunk while INDX is there.    *)
ParseIndex(buf) == [i \in 1 .. IndexStop(buf) - 1 |-> buf[i].idx]

(* What the attribute itself holds on disk (the reference for the two).    *)
OwnRefs(blocks) == RefsUpTo(blocks, Min({ListStop(blocks), Len(blocks)}))
=============================================================================
