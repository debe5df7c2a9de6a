------------------------------ MODULE MFTTable -------------------------------
(***************************************************************************)
(* NTFS.Process from the moment the $MFT area is in memory                 *)
(* (disk/volume/ntfs.go, FS/NTFS/MFT/Table.go, FS/NTFS/MFT/MFT.go): five   *)
(* phases separated by wg.Wait.                                            *)
(*   load    one goroutine per slot parses it and stores the record under  *)
(*           the entry number the record claims; the counter of refused    *)
(*           records is incremented without a lock;                        *)
(*   nonres  a pool reads the non resident attributes, each worker through *)
(*           one scratch buffer it keeps for all its records;              *)
(*   link    attribute-list references become LinkedRecords;               *)
(*   parents file-name references become Parent;                           *)
(*   sizes   a pool copies the sizes found in folder indexes to the files. *)
(* The channels are as large as the table, so the feeding loop never       *)
(* blocks: a pool starts with its channel full and closed.                 *)
(***************************************************************************)
EXTENDS MFTRecord, FiniteSets

CONSTANTS
  Images,      \* the contents the $MFT area may have: SUBSET [Slot -> SlotData]
  Selections,  \* the user's entry lists: sets of sets of entry numbers
  Bounds,      \* the user's from and to entries: pairs
  MaxUint32,   \* "to" when the user gave none
  BitmapEntry, \* entry number of $Bitmap (6 in the code)
  Workers      \* goroutines of a pool

ASSUME ImageAssumption ==
  \A im \in Images : /\ im \in [Slot -> SlotData]
                     /\ im[0].sig = "FILE" /\ im[0].fixup /\ im[0].head.entry = 0
ASSUME WorkersAssumption == Workers # {}

VARIABLES
  area, sel, full,       \* the area, the selected slots, "no selection given"
  phase,
  head, body,            \* mfttable.Records: headers and attributes
  pc, tmp, nonValid,     \* load goroutines; mfttable.NonValidRecords
  ch,                    \* the channel of the running pool
  job, ai, scratch,      \* nonres workers: record, next attribute, buffer
  info, alloc,           \* LinkedRecordsInfo; parsed $INDEX_ALLOCATION chunks
  linked, origin, parent,
  todo, cur, lsize, psize \* sizes workers; I30LSize and I30PSize

loadVars == <<pc, tmp, nonValid>>
nonresVars == <<job, ai, scratch, info, alloc>>
linkVars == <<linked, origin, parent>>
sizeVars == <<todo, cur, lsize, psize>>
inputs == <<area, sel, full>>
vars == <<inputs, phase, head, body, loadVars, ch, nonresVars, linkVars, sizeVars>>
-----------------------------------------------------------------------------
(* ProcessMFT's test on slot i.                                            *)
SelectedSlots(list, from, to) == {i \in Slot : (list = {} \/ i \in list) /\ i <= to /\ i >= from}

SelectionPanics(from, to) == from > N \/ (to # MaxUint32 /\ to > N)

Write == [slot : Slot, l : Sizes, p : Sizes]
NoWrite == [slot |-> Nil, l |-> 0, p |-> 0]

Init ==
  /\ area \in Images
  /\ \E list \in Selections, b \in Bounds :
       /\ sel = SelectedSlots(list, b[1], b[2])
       /\ full = (list = {} /\ b[1] = 0 /\ b[2] = MaxUint32)
       /\ phase = IF SelectionPanics(b[1], b[2]) THEN "panic" ELSE "load"
  /\ head = [e \in Slot |-> EmptyHead] /\ body = [e \in Slot |-> EmptyBody]
  /\ pc = [i \in Slot |-> "start"] /\ tmp = [i \in Slot |-> 0] /\ nonValid = 0
  /\ ch = <<>>
  /\ job = [w \in Workers |-> Nil] /\ ai = [w \in Workers |-> 1]
  /\ scratch = [w \in Workers |-> <<ZeroBlock>>]
  /\ info = [e \in Slot |-> <<>>] /\ alloc = [e \in Slot |-> <<>>]
  /\ linked = [e \in Slot |-> <<>>]
  /\ origin = [e \in Slot |-> Nil] /\ parent = [e \in Slot |-> Nil]
  /\ todo = [w \in Workers |-> <<>>] /\ cur = [w \in Workers |-> NoWrite]
  /\ lsize = [e \in Slot |-> 0] /\ psize = [e \in Slot |-> 0]
-----------------------------------------------------------------------------
(* The entry number under which slot i is stored.                          *)
Claims(i) == ProcessHead(area[i]).entry

(* MFTWorker for slot i.                                                   *)

Finish(i) == pc' = [pc EXCEPT ![i] = "done"]

(* Mutation: a dropped record leaves without wg.Done.                      *)
MutReturnNoDone(i) ==
  /\ phase = "load" /\ pc[i] = "start" /\ i \notin sel
  /\ Finish(i)
  /\ UNCHANGED <<inputs, phase, head, body, tmp, nonValid, ch, nonresVars, linkVars, sizeVars>>

(* Mutation: the bound on the entry number is off by one.                  *)
MutReturnLastEntry(i) ==
  /\ phase = "load" /\ pc[i] = "start"
  /\ i \notin sel \/ (~Refused(area[i]) /\ ProcessHead(area[i]).entry >= N - 1)
  /\ Finish(i)
  /\ UNCHANGED <<inputs, phase, head, body, tmp, nonValid, ch, nonresVars, linkVars, sizeVars>>

(* Unselected slots have no data; records of another table are dropped.    *)
MFTWorkerReturn(i) ==
  /\ phase = "load" /\ pc[i] = "start"
  /\ \/ i \notin sel
     \/ ~Refused(area[i]) /\ ProcessHead(area[i]).entry >= N
  /\ Finish(i)
  /\ UNCHANGED <<inputs, phase, head, body, tmp, nonValid, ch, nonresVars, linkVars, sizeVars>>

(* mfttable.NonValidRecords++ is a read and a write.                       *)
MFTWorkerRefuse(i) ==
  /\ phase = "load" /\ pc[i] = "start" /\ i \in sel
  /\ Refused(area[i])
  /\ tmp' = [tmp EXCEPT ![i] = nonValid]
  /\ pc' = [pc EXCEPT ![i] = "count"]
  /\ UNCHANGED <<inputs, phase, head, body, nonValid, ch, nonresVars, linkVars, sizeVars>>

MFTWorkerCount(i) ==
  /\ phase = "load" /\ pc[i] = "count"
  /\ nonValid' = tmp[i] + 1
  /\ Finish(i)
  /\ UNCHANGED <<inputs, phase, head, body, tmp, ch, nonresVars, linkVars, sizeVars>>

(* Mutation: stored by position, as ProcessRecords of a full table might.  *)
MutStoreByPosition(i) ==
  /\ phase = "load" /\ pc[i] = "start" /\ i \in sel
  /\ ~Refused(area[i])
  /\ ProcessHead(area[i]).entry < N /\ head' = [head EXCEPT ![i] = ProcessHead(area[i])]
  /\ pc' = [pc EXCEPT ![i] = "store"]
  /\ UNCHANGED <<inputs, phase, body, tmp, nonValid, ch, nonresVars, linkVars, sizeVars>>

(* mfttable.Records[record.Entry] = record copies a struct word by word:   *)
(* the header first, the attributes after it.                              *)
MFTWorkerStoreHead(i) ==
  /\ phase = "load" /\ pc[i] = "start" /\ i \in sel
  /\ ~Refused(area[i])
  /\ LET h == ProcessHead(area[i])
     IN  h.entry < N /\ head' = [head EXCEPT ![h.entry] = h]
  /\ pc' = [pc EXCEPT ![i] = "store"]
  /\ UNCHANGED <<inputs, phase, body, tmp, nonValid, ch, nonresVars, linkVars, sizeVars>>

MFTWorkerStoreBody(i) ==
  /\ phase = "load" /\ pc[i] = "store"
  /\ LET e == ProcessHead(area[i]).entry
         b == ProcessBody(area[i])
     IN  /\ body' = [body EXCEPT ![e] = b]
         /\ info' = [info EXCEPT ![e] = LinkedRecordsInfo(b.list, e)]
  /\ Finish(i)
  /\ UNCHANGED <<inputs, phase, head, tmp, nonValid, ch, job, ai, scratch, alloc, linkVars, sizeVars>>

(* Mutation: the pool is fed with positions that start at 1.               *)
MutFeedFromOne ==
  /\ phase = "load" /\ \A i \in Slot : pc[i] = "done"
  /\ phase' = "nonres"
  /\ ch' = [k \in 1 .. N |-> k]
  /\ UNCHANGED <<inputs, head, body, loadVars, nonresVars, linkVars, sizeVars>>

(* wg.Wait of ProcessRecordsAsync, then ProcessNonResidentRecords sends    *)
(* every slot of the table.                                                *)
ProcessNonResidentRecords ==
  /\ phase = "load" /\ \A i \in Slot : pc[i] = "done"
  /\ phase' = "nonres"
  /\ ch' = [k \in 1 .. N |-> k - 1]
  /\ UNCHANGED <<inputs, head, body, loadVars, nonresVars, linkVars, sizeVars>>
-----------------------------------------------------------------------------
(* ProcessNoNResidentAttributesWorker.                                     *)

TakeRecord(w) ==
  /\ phase = "nonres" /\ job[w] = Nil /\ ch # <<>>
  /\ job' = [job EXCEPT ![w] = IF body[Head(ch)].attrs = <<>> THEN Nil ELSE Head(ch)]
  /\ ai' = [ai EXCEPT ![w] = 1]
  /\ ch' = Tail(ch)
  /\ UNCHANGED <<inputs, phase, head, body, loadVars, scratch, info, alloc, linkVars, sizeVars>>

Skipped(a, entry) ==
  \/ a.type = "data" /\ entry # BitmapEntry
  \/ a.blocks = <<>>
  \/ Len(a.blocks) > MaxRun

(* FindAttribute returns the first attribute of a type.                    *)
IsFirstIndex(attrs, k) == attrs[k].type = "index" /\ \A j \in 1 .. k - 1 : attrs[j].type # "index"

NextAttr(w) ==
  IF ai[w] = Len(body[job[w]].attrs)
  THEN job' = [job EXCEPT ![w] = Nil] /\ ai' = ai
  ELSE job' = job /\ ai' = [ai EXCEPT ![w] = @ + 1]

SkipAttribute(w) ==
  /\ phase = "nonres" /\ job[w] # Nil
  /\ Skipped(body[job[w]].attrs[ai[w]], head[job[w]].entry)
  /\ NextAttr(w)
  /\ UNCHANGED <<inputs, phase, head, body, loadVars, ch, scratch, info, alloc, linkVars, sizeVars>>

(* GetContent fails after k blocks reached the buffer.                     *)
ReadFails(w) ==
  /\ phase = "nonres" /\ job[w] # Nil
  /\ LET a == body[job[w]].attrs[ai[w]]
     IN  /\ ~Skipped(a, head[job[w]].entry) /\ ~a.ok
         /\ \E k \in 0 .. Len(a.blocks) :
              scratch' = [scratch EXCEPT ![w] = Overlay(Grow(@, Len(a.blocks)), a.blocks, k)]
  /\ NextAttr(w)
  /\ UNCHANGED <<inputs, phase, head, body, loadVars, ch, info, alloc, linkVars, sizeVars>>

(* The attribute is parsed from the whole scratch buffer.                  *)
ParseAttribute(w) ==
  /\ phase = "nonres" /\ job[w] # Nil
  /\ LET e   == job[w]
         a   == body[e].attrs[ai[w]]
         buf == Overlay(Grow(scratch[w], Len(a.blocks)), a.blocks, Len(a.blocks))
     IN  /\ ~Skipped(a, head[e].entry) /\ a.ok
         /\ scratch' = [scratch EXCEPT ![w] = buf]
         /\ info' = IF a.type = "list"
                    THEN [info EXCEPT ![e] = @ \o LinkedRecordsInfo(ParseList(buf), head[e].entry)]
                    ELSE info
         /\ alloc' = IF IsFirstIndex(body[e].attrs, ai[w])
                     THEN [alloc EXCEPT ![e] = ParseIndex(buf)]
                     ELSE alloc
  /\ NextAttr(w)
  /\ UNCHANGED <<inputs, phase, head, body, loadVars, ch, linkVars, sizeVars>>

NonResidentDone ==
  /\ phase = "nonres" /\ ch = <<>> /\ \A w \in Workers : job[w] = Nil
  /\ phase' = "link"
  /\ UNCHANGED <<inputs, head, body, loadVars, ch, nonresVars, linkVars, sizeVars>>
-----------------------------------------------------------------------------
(* CreateLinkedRecords and FindParentRecords run in one goroutine.         *)

Targets(e) ==
  LET refs == Keep(info[e], {r \in Ref : r.ref # head[e].entry /\ GetRecord(head, r) # Nil})
  IN  [k \in 1 .. Len(refs) |-> refs[k].ref]

(* The slots whose list reaches e; the last one visited owns the origin.   *)
Linkers(e) == {b \in Slot : \E k \in 1 .. Len(Targets(b)) : Targets(b)[k] = e}

CreateLinkedRecords ==
  /\ phase = "link"
  /\ linked' = [e \in Slot |-> Targets(e)]
  /\ origin' = [e \in Slot |-> IF Linkers(e) = {} THEN Nil ELSE Max(Linkers(e))]
  /\ phase' = IF full THEN "parents" ELSE "done"
  /\ UNCHANGED <<inputs, head, body, loadVars, ch, nonresVars, parent, sizeVars>>

(* The channel of CalculateFileSizes carries entry numbers, 0 for a slot   *)
(* that was never filled.                                                  *)
FindParentRecords ==
  /\ phase = "parents"
  /\ parent' = [e \in Slot |-> IF body[e].hasFn THEN GetRecord(head, body[e].fn) ELSE Nil]
  /\ phase' = "sizes"
  /\ ch' = [k \in 1 .. N |-> head[k - 1].entry]
  /\ UNCHANGED <<inputs, head, body, loadVars, nonresVars, linked, origin, sizeVars>>
-----------------------------------------------------------------------------
(* CalculateFileSizes.  The entries of one index or chunk are visited in   *)
(* the order of an unstable sort on a key they share: in any order.        *)

(* Mutation: the reference's sequence number is not compared.              *)
MutSizeWritesAnySeq(entries) ==
  {[slot |-> x.ref, l |-> x.lsize, p |-> x.psize] :
     x \in {y \in Range(entries) : y.ref < N /\ head[y.ref].entry = y.ref /\ ~head[y.ref].folder}}

SizeWrites(entries) ==
  {[slot |-> x.ref, l |-> x.lsize, p |-> x.psize] :
     x \in {y \in Range(entries) : GetRecord(head, y) # Nil /\ ~head[y.ref].folder}}

CheckAndSetI30Size(e) == <<SizeWrites(body[e].root)>> \o [k \in 1 .. Len(alloc[e]) |-> SizeWrites(alloc[e][k])]

FolderWrites(e) ==
  Keep(CheckAndSetI30Size(head[e].entry)
         \o FlattenSeq([k \in 1 .. Len(linked[e]) |-> CheckAndSetI30Size(head[linked[e][k]].entry)]),
       (SUBSET Write) \ {{}})

TakeFolder(w) ==
  /\ phase = "sizes" /\ todo[w] = <<>> /\ ch # <<>>
  /\ todo' = [todo EXCEPT ![w] = IF head[Head(ch)].folder THEN FolderWrites(Head(ch)) ELSE <<>>]
  /\ ch' = Tail(ch)
  /\ UNCHANGED <<inputs, phase, head, body, loadVars, nonresVars, linkVars, cur, lsize, psize>>

(* referencedEntry.I30LSize = ..., then referencedEntry.I30PSize = ...     *)
SetI30LSize(w) ==
  /\ phase = "sizes" /\ todo[w] # <<>> /\ cur[w] = NoWrite
  /\ \E x \in Head(todo[w]) :
       /\ cur' = [cur EXCEPT ![w] = x]
       /\ lsize' = [lsize EXCEPT ![x.slot] = x.l]
  /\ UNCHANGED <<inputs, phase, head, body, loadVars, ch, nonresVars, linkVars, todo, psize>>

SetI30PSize(w) ==
  /\ phase = "sizes" /\ cur[w] # NoWrite
  /\ psize' = [psize EXCEPT ![cur[w].slot] = cur[w].p]
  /\ LET rest == Head(todo[w]) \ {cur[w]}
     IN  todo' = [todo EXCEPT ![w] = IF rest = {} THEN Tail(@) ELSE <<rest>> \o Tail(@)]
  /\ cur' = [cur EXCEPT ![w] = NoWrite]
  /\ UNCHANGED <<inputs, phase, head, body, loadVars, ch, nonresVars, linkVars, lsize>>

SizesDone ==
  /\ phase = "sizes" /\ ch = <<>> /\ \A w \in Workers : todo[w] = <<>>
  /\ phase' = "done"
  /\ UNCHANGED <<inputs, head, body, loadVars, ch, nonresVars, linkVars, sizeVars>>

(* Process has returned, or panicked on the selection.                     *)
Returned == phase \in {"done", "panic"} /\ UNCHANGED vars
-----------------------------------------------------------------------------
Load(i) == \/ MFTWorkerReturn(i) \/ MFTWorkerRefuse(i) \/ MFTWorkerCount(i)
           \/ MFTWorkerStoreHead(i) \/ MFTWorkerStoreBody(i)

NonResident(w) == TakeRecord(w) \/ SkipAttribute(w) \/ ReadFails(w) \/ ParseAttribute(w)

FileSizes(w) == TakeFolder(w) \/ SetI30LSize(w) \/ SetI30PSize(w)

Next ==
  \/ \E i \in Slot : Load(i)
  \/ ProcessNonResidentRecords
  \/ \E w \in Workers : NonResident(w)
  \/ NonResidentDone
  \/ CreateLinkedRecords
  \/ FindParentRecords
  \/ \E w \in Workers : FileSizes(w)
  \/ SizesDone
  \/ Returned

Spec == Init /\ [][Next]_vars

(* Runnable goroutines are scheduled.                                      *)
FairSpec == Spec /\ WF_vars(Next)
-----------------------------------------------------------------------------
(* Vocabulary of the properties.                                           *)

Loaded == phase \notin {"load", "panic"}

(* Slots whose goroutine stores a record, and where it stores it.          *)
Stores(i) == i \in sel /\ area[i].sig \notin {"BAAD", "other"} /\ Claims(i) < N
AloneAt(i) == \A j \in Slot \ {i} : Stores(j) => Claims(j) # Claims(i)

(* The references that record e's attribute lists hold on disk: those in   *)
(* the record itself, then those of its readable non resident lists.       *)
ListAttrs(e) ==
  {k \in 1 .. Len(body[e].attrs) :
     LET a == body[e].attrs[k] IN a.type = "list" /\ a.ok /\ ~Skipped(a, e)}

OwnList(e, k) == LinkedRecordsInfo(OwnRefs(body[e].attrs[k].blocks), e)

OwnInfo(e) ==
  LinkedRecordsInfo(body[e].list, e)
    \o FlattenSeq([k \in 1 .. Len(body[e].attrs) |-> IF k \in ListAttrs(e) THEN OwnList(e, k) ELSE <<>>])

(* Every index entry on the volume that a selected record carries.         *)
DiskIndexEntries ==
  UNION {Range(area[i].body.root)
           \cup UNION {Range(b.idx) : b \in UNION {Range(a.blocks) : a \in Range(area[i].body.attrs)}}
         : i \in sel}

(* The entries of e's own index root and of its readable index blocks.     *)
IndexAttrs(e) ==
  {k \in 1 .. Len(body[e].attrs) :
     LET a == body[e].attrs[k] IN IsFirstIndex(body[e].attrs, k) /\ a.ok /\ ~Skipped(a, e)}

IndexBlocks(blocks) == {j \in 1 .. Len(blocks) : \A i \in 1 .. j : blocks[i].indx}

OwnIndex(e) ==
  Range(body[e].root)
    \cup UNION {UNION {Range(body[e].attrs[k].blocks[j].idx) : j \in IndexBlocks(body[e].attrs[k].blocks)}
                : k \in IndexAttrs(e)}

(* The size the file in slot s has is one that an index entry on the volume*)
(* gives it, through a reference with a current sequence number.           *)
LSizeGiven(s) == \E x \in DiskIndexEntries : GetRecord(head, x) = s /\ x.lsize = lsize[s]
PSizeGiven(s) == \E x \in DiskIndexEntries : GetRecord(head, x) = s /\ x.psize = psize[s]
-----------------------------------------------------------------------------
(* Every variable stays in its range; entry numbers handed to a pool are   *)
(* slots of the table (Records[idx] is never out of bounds).               *)
TypeOK ==
  /\ phase \in {"load", "nonres", "link", "parents", "sizes", "done", "panic"}
  /\ sel \subseteq Slot /\ full \in BOOLEAN /\ area \in Images
  /\ head \in [Slot -> RecordHead] /\ body \in [Slot -> RecordBody]
  /\ pc \in [Slot -> {"start", "count", "store", "done"}]
  /\ tmp \in [Slot -> Nat] /\ nonValid \in Nat
  /\ ch \in Seq(Slot)
  /\ job \in [Workers -> Slot \cup {Nil}] /\ ai \in [Workers -> Nat \ {0}]
  /\ scratch \in [Workers -> Seq(Block)]
  /\ info \in [Slot -> Seq(Ref)] /\ alloc \in [Slot -> Seq(Seq(IdxEntry))]
  /\ linked \in [Slot -> Seq(Slot)]
  /\ origin \in [Slot -> Slot \cup {Nil}] /\ parent \in [Slot -> Slot \cup {Nil}]
  /\ cur \in [Workers -> Write \cup {NoWrite}]
  /\ lsize \in [Slot -> Sizes] /\ psize \in [Slot -> Sizes]

(* However the load goroutines interleave, a slot of the table is empty or *)
(* holds a record that claims it: both its header and its attributes come  *)
(* from a selected slot of the area with that entry number (Table.go:86).  *)
SlotOwner ==
  \A e \in Slot :
    /\ head[e] = EmptyHead \/ \E i \in sel : Stores(i) /\ Claims(i) = e /\ head[e] = ProcessHead(area[i])
    /\ body[e] = EmptyBody \/ \E i \in sel : Stores(i) /\ Claims(i) = e /\ body[e] = ProcessBody(area[i])

(* After wg.Wait no record is lost or torn unless two slots of the area    *)
(* claim the same entry: a slot that is alone at its entry is in the table *)
(* whole.                                                                  *)
LoadExact ==
  Loaded => \A i \in Slot : Stores(i) /\ AloneAt(i) =>
              /\ head[Claims(i)] = ProcessHead(area[i])
              /\ body[Claims(i)] = ProcessBody(area[i])

(* The unlocked NonValidRecords++ may lose counts but never invents one,   *)
(* and never misses that there was one: GetNoNValidRecords is 0 only for a *)
(* table without corrupt or foreign slots.                                 *)
CounterBounds ==
  LET bad == {i \in sel : area[i].sig \in {"BAAD", "other"}}
  IN  /\ nonValid <= Cardinality(bad)
      /\ Loaded /\ bad # {} => nonValid >= 1

(* The references of e's list that lead to slot t.                         *)
Listed(e, t) == {k \in DOMAIN info[e] : info[e][k].ref = t /\ GetRecord(head, info[e][k]) # Nil}

LinkedAsListed(e) ==
  phase \in {"parents", "sizes", "done"} => \A t \in Slot :
    /\ Cardinality({k \in DOMAIN linked[e] : linked[e][k] = t}) =
         IF t = head[e].entry THEN 0 ELSE Cardinality(Listed(e, t))
    /\ Listed(e, t) # {} /\ t # head[e].entry
         => origin[t] # Nil /\ e <= origin[t] /\ t \in Range(linked[origin[t]])

(* Slot t is 0 or holds a record that claims it.                           *)
Filled(t) == t # 0 => \E i \in sel : area[i].sig = "FILE" /\ Claims(i) = t

LinksResolve(e) ==
  \A k \in 1 .. Len(linked[e]) :
    LET t == linked[e][k]
    IN  /\ t # head[e].entry /\ Filled(t)
        /\ \E r \in Range(info[e]) : r.ref = t /\ (head[t].seq - r.seq) % 65536 \in {0, 1}

ParentResolves(e) ==
  parent[e] # Nil => Filled(parent[e]) /\ (head[parent[e]].seq - body[e].fn.seq) % 65536 \in {0, 1}

(* LinkedRecords and Parent never point at a slot without a record (slot 0 *)
(* apart, which an unfilled reference reaches), nor at a record reused     *)
(* more than once since the reference was written (GetRecord), nor does a  *)
(* record link itself.  Once linked, a record is linked as often as it is  *)
(* listed, by every record that lists it, and the origin it keeps is the   *)
(* last of these (CreateLinkedRecords).                                    *)
NoDanglingLinks == \A e \in Slot : LinkedAsListed(e) /\ LinksResolve(e) /\ ParentResolves(e)

(* As long as no buffer reaches 64 KiB, whichever worker reads it and      *)
(* whatever that worker read before, a record keeps every reference of its *)
(* own attribute lists; in order and first, if it has one such list (with  *)
(* two, what a used buffer holds behind the first comes in between).       *)
OwnListKept ==
  phase \notin {"load", "nonres", "panic"} /\ (\A w \in Workers : Len(scratch[w]) < Wrap)
    => \A e \in Slot : head[e].entry = e =>
         /\ Range(OwnInfo(e)) \subseteq Range(info[e])
         /\ (\A j, k \in ListAttrs(e) : j = k) => IsPrefix(OwnInfo(e), info[e])

(* Stale scratch bytes and racing workers never give a file a size that no *)
(* index entry on the volume gives it, and folders get none.  When Process *)
(* returns without a selection, every file that a folder's index root,     *)
(* index blocks or linked records list has both sizes from such entries.   *)
SizesExact ==
  /\ \A e \in Slot : /\ lsize[e] # 0 => LSizeGiven(e) /\ ~head[e].folder
                     /\ psize[e] # 0 => PSizeGiven(e) /\ ~head[e].folder
  /\ phase = "done" /\ full =>
       \A f \in Slot : head[f].entry = f /\ head[f].folder =>
         \A g \in {f} \cup Range(linked[f]) : \A x \in OwnIndex(g) :
           GetRecord(head, x) # Nil /\ ~head[x.ref].folder => LSizeGiven(x.ref) /\ PSizeGiven(x.ref)

(* Every schedule ends: no goroutine is left waiting at a wg.Wait or on a  *)
(* channel.                                                                *)
Termination == <>(phase \in {"done", "panic"})

(* MFT.go:785 "zero area skip": a zero slot leaves the table alone, so the *)
(* $MFT record survives when no other FILE slot claims entry 0.            *)
ZeroAreaSkipped ==
  Loaded /\ 0 \in sel /\ (\A i \in Slot \ {0} : area[i].sig = "FILE" => Claims(i) # 0)
    => head[0] = area[0].head /\ body[0] = area[0].body

(* MFT.go:76 "holds attrs list entries": LinkedRecordsInfo holds what the  *)
(* record's own attribute lists say and nothing else.                      *)
InfoHoldsListEntries ==
  phase \notin {"load", "nonres", "panic"} => \A e \in Slot : Range(info[e]) \subseteq Range(OwnInfo(e))
=============================================================================
