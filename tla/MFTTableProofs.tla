--------------------------- MODULE MFTTableProofs ----------------------------
(***************************************************************************)
(* Loading the $MFT with one goroutine per slot, for every area and every  *)
(* number of slots: no record is misplaced, lost or torn unless two slots  *)
(* claim one entry, and the unlocked counter stays between the truth and   *)
(* the loss of updates.  Then the phases of NTFS.Process that follow, for  *)
(* every number of workers: the pools stay within the table, links lead to *)
(* records that exist, sizes come from index entries on the volume and     *)
(* none is missed, and no attribute list loses a reference.                *)
(***************************************************************************)
EXTENDS MFTTable, SequenceProofs, FiniteSetTheorems, TLAPS

LoadType ==
  /\ area \in [Slot -> SlotData] /\ sel \subseteq Slot
  /\ pc \in [Slot -> {"start", "count", "store", "done"}]
  /\ tmp \in [Slot -> Nat] /\ nonValid \in Nat
  /\ head \in [Slot -> RecordHead] /\ body \in [Slot -> RecordBody]

(* Where a goroutine can be: only a record that is stored gets to "store", *)
(* only a refused one to "count".                                          *)
Bad == {i \in sel : Refused(area[i])}

Placement ==
  /\ \A i \in Slot : pc[i] = "store" => Stores(i)
  /\ \A i \in Slot : pc[i] = "count" => i \in Bad
  /\ Loaded => \A i \in Slot : pc[i] = "done"

(* A slot that is alone at its entry keeps what its goroutine stored.      *)
Kept ==
  \A i \in Slot : Stores(i) /\ AloneAt(i) =>
    /\ pc[i] \in {"store", "done"} => head[Claims(i)] = ProcessHead(area[i])
    /\ pc[i] = "done" => body[Claims(i)] = ProcessBody(area[i])

(* Counts read so far never exceed the goroutines that are through.        *)
Counted == {i \in Bad : pc[i] = "done"}

Counter ==
  /\ nonValid <= Cardinality(Counted)
  /\ \A i \in Slot : pc[i] = "count" => tmp[i] <= Cardinality(Counted)
  /\ Counted # {} => nonValid >= 1

LoadInv == LoadType /\ Placement /\ SlotOwner /\ Kept /\ Counter
-----------------------------------------------------------------------------
(* What record.Process leaves behind is a record.                          *)
LEMMA ProcessType ==
  ASSUME NEW d \in SlotData
  PROVE  ProcessHead(d) \in RecordHead /\ ProcessBody(d) \in RecordBody
PROOF
<1>1. EmptyHead \in RecordHead
  BY DEF EmptyHead, RecordHead, SeqNo
<1>2. EmptyBody \in RecordBody
  BY DEF EmptyBody, RecordBody, NoRef, Ref, SeqNo
<1> QED BY <1>1, <1>2 DEF ProcessHead, ProcessBody, SlotData

(* A record that is stored is stored in a slot of the table.               *)
LEMMA StoresInTable ==
  ASSUME LoadType, NEW i \in Slot
  PROVE  /\ Claims(i) \in Nat
         /\ Stores(i) <=> i \in sel /\ ~Refused(area[i]) /\ Claims(i) < N
         /\ Stores(i) => Claims(i) \in Slot /\ i \notin Bad
PROOF
<1>1. area[i] \in SlotData
  BY DEF LoadType
<1>2. Claims(i) \in Nat
  BY <1>1, ProcessType DEF Claims, RecordHead
<1> QED BY <1>2, NAssumption DEF Stores, Refused, Slot, Bad

(* The goroutines through with a refused record are finitely many.         *)
LEMMA CountedFinite ==
  ASSUME LoadType
  PROVE  IsFiniteSet(Bad) /\ IsFiniteSet(Counted) /\ Cardinality(Counted) \in Nat
         /\ Cardinality(Counted) <= Cardinality(Bad)
PROOF
<1>1. IsFiniteSet(Slot)
  BY FS_Interval, NAssumption DEF Slot
<1>2. Bad \subseteq Slot /\ Counted \subseteq Bad
  BY DEF Bad, Counted, LoadType
<1>3. IsFiniteSet(Bad)
  BY <1>1, <1>2, FS_Subset
<1> QED BY <1>2, <1>3, FS_Subset, FS_CardinalityType
-----------------------------------------------------------------------------
(* The table starts empty.                                                 *)
LEMMA InitLoadInv == Init => LoadInv
PROOF
<1> SUFFICES ASSUME Init PROVE LoadInv
  OBVIOUS
<1> USE DEF Init
<1>1. EmptyHead \in RecordHead /\ EmptyBody \in RecordBody
  BY DEF EmptyHead, RecordHead, EmptyBody, RecordBody, NoRef, Ref, SeqNo
<1>2. sel \subseteq Slot
  BY DEF SelectedSlots
<1>3. area \in [Slot -> SlotData]
  BY ImageAssumption
<1>4. LoadType
  BY <1>1, <1>2, <1>3 DEF LoadType
<1>5. Placement
  BY DEF Placement, Loaded
<1>6. SlotOwner /\ Kept
  BY DEF SlotOwner, Kept
<1>7. Counter
  <2>1. Counted = {}
    BY <1>2 DEF Counted, Bad
  <2> QED BY <2>1, FS_EmptySet DEF Counter
<1> QED BY <1>4, <1>5, <1>6, <1>7 DEF LoadInv

(* What the area and the selection determine never changes.                *)
LEMMA SameArea ==
  ASSUME UNCHANGED inputs
  PROVE  /\ \A i : Stores(i)' = Stores(i) /\ Claims(i)' = Claims(i) /\ AloneAt(i)' = AloneAt(i)
         /\ Bad' = Bad
PROOF BY DEF inputs, Stores, Claims, AloneAt, Bad
(* A goroutine that drops its slot changes nothing but its place.          *)
LEMMA MFTWorkerReturnInv == \A i \in Slot : LoadInv /\ MFTWorkerReturn(i) => LoadInv'
PROOF
<1> SUFFICES ASSUME NEW i \in Slot, LoadInv, MFTWorkerReturn(i) PROVE LoadInv'
  OBVIOUS
<1> USE DEF MFTWorkerReturn, LoadInv
<1>1. /\ \A j : Stores(j)' = Stores(j) /\ Claims(j)' = Claims(j) /\ AloneAt(j)' = AloneAt(j)
      /\ Bad' = Bad /\ area' = area /\ sel' = sel
  BY SameArea DEF inputs
<1>2. phase = "load" /\ phase' = "load" /\ ~Loaded'
  BY DEF Loaded
<1>3. pc'[i] = "done" /\ \A j \in Slot \ {i} : pc'[j] = pc[j]
  BY DEF LoadType, Finish
<1>4. i \notin Bad /\ ~Stores(i)
  <2>1. CASE i \notin sel
    BY <2>1 DEF Bad, Stores
  <2>2. CASE ~Refused(area[i]) /\ ProcessHead(area[i]).entry >= N
    <3>1. Claims(i) \in Nat
      BY StoresInTable
    <3>2. ~(Claims(i) < N)
      BY <2>2, <3>1, NAssumption DEF Claims
    <3> QED BY <2>2, <3>2 DEF Stores, Bad
  <2> QED BY <2>1, <2>2
<1>5. LoadType'
  BY <1>1 DEF LoadType, Finish
<1>6. Placement' /\ SlotOwner' /\ Kept'
  BY <1>1, <1>2, <1>3, <1>4 DEF Placement, SlotOwner, Kept
<1>7. Counter'
  <2>1. Counted' = Counted
    BY <1>1, <1>3, <1>4 DEF Counted, Bad, LoadType
  <2> QED BY <1>3, <2>1 DEF Counter
<1> QED BY <1>5, <1>6, <1>7

(* A goroutine reads the counter.                                          *)
LEMMA MFTWorkerRefuseInv == \A i \in Slot : LoadInv /\ MFTWorkerRefuse(i) => LoadInv'
PROOF
<1> SUFFICES ASSUME NEW i \in Slot, LoadInv, MFTWorkerRefuse(i) PROVE LoadInv'
  OBVIOUS
<1> USE DEF MFTWorkerRefuse, LoadInv
<1>1. /\ \A j : Stores(j)' = Stores(j) /\ Claims(j)' = Claims(j) /\ AloneAt(j)' = AloneAt(j)
      /\ Bad' = Bad /\ area' = area /\ sel' = sel
  BY SameArea DEF inputs
<1>2. phase = "load" /\ phase' = "load" /\ ~Loaded'
  BY DEF Loaded
<1>3. pc'[i] = "count" /\ \A j \in Slot \ {i} : pc'[j] = pc[j]
  BY DEF LoadType, Finish
<1>4. i \in Bad /\ ~Stores(i)
  BY StoresInTable DEF Bad
<1>5. LoadType'
  BY <1>1 DEF LoadType
<1>6. Placement' /\ SlotOwner' /\ Kept'
  BY <1>1, <1>2, <1>3, <1>4 DEF Placement, SlotOwner, Kept
<1>7. Counter'
  <2>1. Counted' = Counted
    BY <1>1, <1>3 DEF Counted, Bad, LoadType
  <2>2. tmp'[i] = nonValid /\ \A j \in Slot \ {i} : tmp'[j] = tmp[j]
    BY DEF LoadType
  <2> QED BY <1>3, <2>1, <2>2 DEF Counter
<1> QED BY <1>5, <1>6, <1>7

(* A goroutine writes the counter back, plus one.                          *)
LEMMA MFTWorkerCountInv == \A i \in Slot : LoadInv /\ MFTWorkerCount(i) => LoadInv'
PROOF
<1> SUFFICES ASSUME NEW i \in Slot, LoadInv, MFTWorkerCount(i) PROVE LoadInv'
  OBVIOUS
<1> USE DEF MFTWorkerCount, LoadInv
<1>1. /\ \A j : Stores(j)' = Stores(j) /\ Claims(j)' = Claims(j) /\ AloneAt(j)' = AloneAt(j)
      /\ Bad' = Bad /\ area' = area /\ sel' = sel
  BY SameArea DEF inputs
<1>2. phase = "load" /\ phase' = "load" /\ ~Loaded'
  BY DEF Loaded
<1>3. pc'[i] = "done" /\ \A j \in Slot \ {i} : pc'[j] = pc[j]
  BY DEF LoadType, Finish
<1>4. i \in Bad /\ ~Stores(i)
  BY StoresInTable DEF Placement
<1>5. LoadType'
  BY <1>1 DEF LoadType, Finish
<1>6. Placement' /\ SlotOwner' /\ Kept'
  BY <1>1, <1>2, <1>3, <1>4 DEF Placement, SlotOwner, Kept
<1>7. Counter'
  <2>1. Counted' = Counted \cup {i} /\ i \notin Counted
    BY <1>1, <1>3, <1>4 DEF Counted, Bad, LoadType
  <2>2. Cardinality(Counted') = Cardinality(Counted) + 1 /\ Cardinality(Counted) \in Nat
    BY <2>1, CountedFinite, FS_AddElement
  <2>3. tmp[i] <= Cardinality(Counted) /\ tmp[i] \in Nat /\ nonValid' = tmp[i] + 1 /\ tmp' = tmp
    BY DEF Counter, LoadType
  <2>4. \A j \in Slot : pc'[j] = "count" => tmp[j] <= Cardinality(Counted) + 1
    BY <1>3, <2>2 DEF Counter, LoadType
  <2> QED BY <2>2, <2>3, <2>4 DEF Counter
<1> QED BY <1>5, <1>6, <1>7

(* A goroutine stores the header of its record.                            *)
LEMMA MFTWorkerStoreHeadInv == \A i \in Slot : LoadInv /\ MFTWorkerStoreHead(i) => LoadInv'
PROOF
<1> SUFFICES ASSUME NEW i \in Slot, LoadInv, MFTWorkerStoreHead(i) PROVE LoadInv'
  OBVIOUS
<1> USE DEF MFTWorkerStoreHead, LoadInv
<1>1. /\ \A j : Stores(j)' = Stores(j) /\ Claims(j)' = Claims(j) /\ AloneAt(j)' = AloneAt(j)
      /\ Bad' = Bad /\ area' = area /\ sel' = sel
  BY SameArea DEF inputs
<1>2. phase = "load" /\ phase' = "load" /\ ~Loaded'
  BY DEF Loaded
<1>3. pc'[i] = "store" /\ \A j \in Slot \ {i} : pc'[j] = pc[j]
  BY DEF LoadType, Finish
<1> DEFINE e == Claims(i)
<1>4. Stores(i) /\ e \in Slot /\ i \notin Bad
  BY StoresInTable DEF Claims
<1>5. head' = [head EXCEPT ![e] = ProcessHead(area[i])]
  BY DEF Claims
<1>6. head'[e] = ProcessHead(area[i]) /\ \A f \in Slot \ {e} : head'[f] = head[f]
  BY <1>4, <1>5 DEF LoadType
<1>7. LoadType'
  <2>1. ProcessHead(area[i]) \in RecordHead
    BY ProcessType DEF LoadType
  <2>2. head' \in [Slot -> RecordHead]
    BY <1>5, <2>1 DEF LoadType
  <2> QED BY <1>1, <2>2 DEF LoadType
<1> HIDE DEF e
<1>8. Placement'
  BY <1>1, <1>2, <1>3, <1>4 DEF Placement
<1>9. SlotOwner'
  <2>1. i \in sel /\ Claims(i) = e
    BY <1>4, StoresInTable DEF e
  <2>2. \A f \in Slot : head'[f] = EmptyHead
                       \/ \E j \in sel : Stores(j) /\ Claims(j) = f /\ head'[f] = ProcessHead(area[j])
    BY <1>4, <1>6, <2>1 DEF SlotOwner
  <2> QED BY <1>1, <2>2 DEF SlotOwner
<1>10. Kept'
  <2> SUFFICES ASSUME NEW j \in Slot, Stores(j), AloneAt(j)
               PROVE  /\ pc'[j] \in {"store", "done"} => head'[Claims(j)] = ProcessHead(area[j])
                      /\ pc'[j] = "done" => body[Claims(j)] = ProcessBody(area[j])
    BY <1>1 DEF Kept
  <2>1. Claims(j) \in Slot
    BY StoresInTable
  <2>2. CASE j = i
    BY <1>3, <1>6, <2>2 DEF e
  <2>3. CASE j # i
    <3>1. Claims(j) # e
      BY <1>4, <2>3 DEF AloneAt, e
    <3> QED BY <1>3, <1>6, <2>1, <2>3, <3>1 DEF Kept
  <2> QED BY <2>2, <2>3
<1>11. Counter'
  <2>1. Counted' = Counted
    BY <1>1, <1>3, <1>4 DEF Counted, Bad, LoadType
  <2> QED BY <1>3, <2>1 DEF Counter
<1> QED BY <1>7, <1>8, <1>9, <1>10, <1>11

(* A goroutine stores the attributes of its record.                        *)
LEMMA MFTWorkerStoreBodyInv == \A i \in Slot : LoadInv /\ MFTWorkerStoreBody(i) => LoadInv'
PROOF
<1> SUFFICES ASSUME NEW i \in Slot, LoadInv, MFTWorkerStoreBody(i) PROVE LoadInv'
  OBVIOUS
<1> USE DEF MFTWorkerStoreBody, LoadInv
<1>1. /\ \A j : Stores(j)' = Stores(j) /\ Claims(j)' = Claims(j) /\ AloneAt(j)' = AloneAt(j)
      /\ Bad' = Bad /\ area' = area /\ sel' = sel
  BY SameArea DEF inputs
<1>2. phase = "load" /\ phase' = "load" /\ ~Loaded'
  BY DEF Loaded
<1>3. pc'[i] = "done" /\ \A j \in Slot \ {i} : pc'[j] = pc[j]
  BY DEF LoadType, Finish
<1> DEFINE e == Claims(i)
<1>4. Stores(i) /\ e \in Slot /\ i \notin Bad
  BY StoresInTable DEF Placement
<1>5. body' = [body EXCEPT ![e] = ProcessBody(area[i])]
  BY DEF Claims
<1>6. body'[e] = ProcessBody(area[i]) /\ \A f \in Slot \ {e} : body'[f] = body[f]
  BY <1>4, <1>5 DEF LoadType
<1>7. LoadType'
  <2>1. ProcessBody(area[i]) \in RecordBody
    BY ProcessType DEF LoadType
  <2>2. body' \in [Slot -> RecordBody]
    BY <1>5, <2>1 DEF LoadType
  <2> QED BY <1>1, <2>2 DEF LoadType, Finish
<1> HIDE DEF e
<1>8. Placement'
  BY <1>1, <1>2, <1>3, <1>4 DEF Placement
<1>9. SlotOwner'
  <2>1. i \in sel /\ Claims(i) = e
    BY <1>4, StoresInTable DEF e
  <2>2. \A f \in Slot : body'[f] = EmptyBody
                       \/ \E j \in sel : Stores(j) /\ Claims(j) = f /\ body'[f] = ProcessBody(area[j])
    BY <1>4, <1>6, <2>1 DEF SlotOwner
  <2> QED BY <1>1, <2>2 DEF SlotOwner
<1>10. Kept'
  <2> SUFFICES ASSUME NEW j \in Slot, Stores(j), AloneAt(j)
               PROVE  /\ pc'[j] \in {"store", "done"} => head[Claims(j)] = ProcessHead(area[j])
                      /\ pc'[j] = "done" => body'[Claims(j)] = ProcessBody(area[j])
    BY <1>1 DEF Kept
  <2>1. Claims(j) \in Slot
    BY StoresInTable
  <2>2. CASE j = i
    BY <1>3, <1>6, <2>2 DEF Kept, e
  <2>3. CASE j # i
    <3>1. Claims(j) # e
      BY <1>4, <2>3 DEF AloneAt, e
    <3> QED BY <1>3, <1>6, <2>1, <2>3, <3>1 DEF Kept
  <2> QED BY <2>2, <2>3
<1>11. Counter'
  <2>1. Counted' = Counted
    BY <1>1, <1>3, <1>4 DEF Counted, Bad, LoadType
  <2> QED BY <1>3, <2>1 DEF Counter
<1> QED BY <1>7, <1>8, <1>9, <1>10, <1>11

(* The later phases leave the loaded table alone, and only a table whose   *)
(* goroutines are all through gets there.                                  *)
LEMMA LaterInv ==
  ASSUME LoadInv, UNCHANGED <<area, sel, head, body, pc, tmp, nonValid>>,
         Loaded' => \A i \in Slot : pc[i] = "done"
  PROVE  LoadInv'
PROOF
<1>1. /\ \A j : Stores(j)' = Stores(j) /\ Claims(j)' = Claims(j) /\ AloneAt(j)' = AloneAt(j)
      /\ Bad' = Bad /\ Counted' = Counted
  BY DEF Stores, Claims, AloneAt, Bad, Counted
<1>2. LoadType' /\ Placement'
  BY <1>1 DEF LoadInv, LoadType, Placement
<1>3. SlotOwner' /\ Kept' /\ Counter'
  BY <1>1 DEF LoadInv, SlotOwner, Kept, Counter
<1> QED BY <1>2, <1>3 DEF LoadInv

(* Every step keeps the invariant.                                         *)
LEMMA NextLoadInv == LoadInv /\ [Next]_vars => LoadInv'
PROOF
<1> SUFFICES ASSUME LoadInv, [Next]_vars PROVE LoadInv'
  OBVIOUS
<1>1. ASSUME NEW i \in Slot, Load(i) PROVE LoadInv'
  BY <1>1, MFTWorkerReturnInv, MFTWorkerRefuseInv, MFTWorkerCountInv, MFTWorkerStoreHeadInv, MFTWorkerStoreBodyInv
     DEF Load
<1>2. CASE ProcessNonResidentRecords
  BY <1>2, LaterInv DEF ProcessNonResidentRecords, inputs, loadVars
<1>3. ASSUME NEW w \in Workers, NonResident(w) PROVE LoadInv'
  <2>1. /\ UNCHANGED <<area, sel, head, body, pc, tmp, nonValid>> /\ phase' = phase
    BY <1>3 DEF NonResident, TakeRecord, SkipAttribute, ReadFails, ParseAttribute, inputs, loadVars
  <2> QED BY <2>1, LaterInv DEF Loaded, LoadInv, Placement
<1>4. CASE NonResidentDone \/ CreateLinkedRecords \/ FindParentRecords \/ SizesDone
  <2>1. UNCHANGED <<area, sel, head, body, pc, tmp, nonValid>> /\ Loaded
    BY <1>4 DEF NonResidentDone, CreateLinkedRecords, FindParentRecords, SizesDone, inputs, loadVars, Loaded
  <2> QED BY <2>1, LaterInv DEF LoadInv, Placement
<1>5. ASSUME NEW w \in Workers, FileSizes(w) PROVE LoadInv'
  <2>1. /\ UNCHANGED <<area, sel, head, body, pc, tmp, nonValid>> /\ phase' = phase
    BY <1>5 DEF FileSizes, TakeFolder, SetI30LSize, SetI30PSize, inputs, loadVars
  <2> QED BY <2>1, LaterInv DEF Loaded, LoadInv, Placement
<1>6. CASE UNCHANGED vars
  BY <1>6, LaterInv DEF vars, inputs, loadVars, Loaded, LoadInv, Placement
<1> QED BY <1>1, <1>2, <1>3, <1>4, <1>5, <1>6 DEF Next, Returned

(* The load invariant holds of every reachable state.                      *)
LEMMA LoadInvariance == Spec => []LoadInv
PROOF BY InitLoadInv, NextLoadInv, PTL DEF Spec
-----------------------------------------------------------------------------
(* Every slot of the table is empty or filled from slots of the area that  *)
(* claim it (MFTWorker, Table.go:86).                                      *)
THEOREM SlotOwnerHolds == Spec => []SlotOwner
PROOF
<1>1. LoadInv => SlotOwner
  BY DEF LoadInv
<1> QED BY <1>1, LoadInvariance, PTL

(* After the load no record is lost or torn unless two slots of the area   *)
(* claim the same entry (ProcessRecordsAsync).                             *)
THEOREM LoadExactHolds == Spec => []LoadExact
PROOF
<1>1. LoadInv => LoadExact
  BY DEF LoadInv, LoadExact, Kept, Placement
<1> QED BY <1>1, LoadInvariance, PTL

(* NonValidRecords++ without a lock never counts too many, and never       *)
(* reports 0 for a table with refused slots (Table.go:78).                 *)
THEOREM CounterBoundsHolds == Spec => []CounterBounds
PROOF
<1>1. ASSUME LoadInv PROVE CounterBounds
  <2>1. Bad = {i \in sel : area[i].sig \in {"BAAD", "other"}}
    BY DEF Bad, Refused
  <2>2. nonValid <= Cardinality(Bad)
    <3>1. /\ nonValid \in Nat /\ nonValid <= Cardinality(Counted) /\ Cardinality(Counted) \in Nat
          /\ Cardinality(Counted) <= Cardinality(Bad) /\ Cardinality(Bad) \in Nat
      BY <1>1, CountedFinite, FS_CardinalityType DEF LoadInv, LoadType, Counter
    <3> QED BY <3>1
  <2>3. ASSUME Loaded, Bad # {} PROVE nonValid >= 1
    <3>1. Counted = Bad
      BY <1>1, <2>3 DEF LoadInv, Placement, Counted, Bad, LoadType
    <3> QED BY <1>1, <2>3, <3>1 DEF LoadInv, Counter
  <2> QED BY <2>1, <2>2, <2>3 DEF CounterBounds
<1> QED BY <1>1, LoadInvariance, PTL
-----------------------------------------------------------------------------
(* The pools and what follows them                                         *)

(* The state of the pools.  A worker's next attribute exists, a size that  *)
(* is half written belongs to the writes the worker has left.              *)
WorkType ==
  /\ phase \in {"load", "nonres", "link", "parents", "sizes", "done", "panic"}
  /\ full \in BOOLEAN /\ area \in Images
  /\ ch \in Seq(Slot)
  /\ job \in [Workers -> Slot \cup {Nil}] /\ ai \in [Workers -> Nat \ {0}]
  /\ \A w \in Workers : job[w] # Nil => ai[w] <= Len(body[job[w]].attrs)
  /\ scratch \in [Workers -> Seq(Block)]
  /\ info \in [Slot -> Seq(Ref)] /\ alloc \in [Slot -> Seq(Seq(IdxEntry))]
  /\ linked \in [Slot -> Seq(Slot)]
  /\ origin \in [Slot -> Slot \cup {Nil}] /\ parent \in [Slot -> Slot \cup {Nil}]
  /\ todo \in [Workers -> Seq((SUBSET Write) \ {{}})]
  /\ cur \in [Workers -> Write \cup {NoWrite}]
  /\ \A w \in Workers : cur[w] # NoWrite => todo[w] # <<>> /\ cur[w] \in Head(todo[w])
  /\ lsize \in [Slot -> Sizes] /\ psize \in [Slot -> Sizes]

(* What a phase has not begun is as it was.                                *)
Idle ==
  /\ phase \in {"load", "link", "parents", "panic"} =>
       /\ \A w \in Workers : job[w] = Nil
       /\ phase \in {"load", "panic"} => \A e \in Slot : alloc[e] = <<>>
  /\ phase \in {"load", "nonres", "link", "parents", "panic"} =>
       /\ \A w \in Workers : todo[w] = <<>> /\ cur[w] = NoWrite
       /\ \A e \in Slot : lsize[e] = 0 /\ psize[e] = 0

(* Links are set once, from the table as the earlier phases leave it.      *)
LastLinker(e) == IF Linkers(e) = {} THEN Nil ELSE Max(Linkers(e))

Linking ==
  /\ \A e \in Slot : IF phase \in {"parents", "sizes", "done"}
                     THEN linked[e] = Targets(e) /\ origin[e] = LastLinker(e)
                     ELSE linked[e] = <<>> /\ origin[e] = Nil
  /\ \A e \in Slot : parent[e] # Nil => phase \in {"sizes", "done"} /\ parent[e] = GetRecord(head, body[e].fn)

PoolInv == LoadInv /\ WorkType /\ Idle /\ Linking
-----------------------------------------------------------------------------
(* Attribute k of record e has still to be read.                           *)
Pending(e, k) == phase = "nonres" /\ (e \in Range(ch) \/ \E w \in Workers : job[w] = e /\ ai[w] <= k)

(* Whatever a buffer or a parsed chunk holds was on the volume.            *)
FromDisk(entries) == Range(entries) \subseteq DiskIndexEntries

Buffers ==
  /\ \A w \in Workers : \A i \in DOMAIN scratch[w] : FromDisk(scratch[w][i].idx)
  /\ \A e \in Slot : \A i \in DOMAIN alloc[e] : FromDisk(alloc[e][i])

(* A readable index is either still to be read or in memory.               *)
BlockEntries(e, k) ==
  UNION {Range(body[e].attrs[k].blocks[j].idx) : j \in IndexBlocks(body[e].attrs[k].blocks)}

Chunks(e) == UNION {Range(alloc[e][i]) : i \in DOMAIN alloc[e]}

IndexRead ==
  phase \notin {"load", "panic"} =>
    \A e \in Slot : \A k \in IndexAttrs(e) : Pending(e, k) \/ BlockEntries(e, k) \subseteq Chunks(e)

IndexInv == PoolInv /\ Buffers /\ IndexRead
-----------------------------------------------------------------------------
(* A size to write is one of an index entry for a file.                    *)
Sound(x) ==
  /\ ~head[x.slot].folder
  /\ \E y \in DiskIndexEntries : GetRecord(head, y) = x.slot /\ y.lsize = x.l /\ y.psize = x.p

Writes ==
  /\ \A w \in Workers : \A i \in DOMAIN todo[w] : \A x \in todo[w][i] : Sound(x)
  /\ \A w \in Workers : cur[w] # NoWrite => LSizeGiven(cur[w].slot)
  /\ \A e \in Slot : /\ lsize[e] # 0 => LSizeGiven(e) /\ ~head[e].folder
                     /\ psize[e] # 0 => PSizeGiven(e) /\ ~head[e].folder

(* A file some index names has its sizes, or a worker is about to write    *)
(* them, or the folder waits in the channel.                               *)
Owed(s) == \E w \in Workers : \E i \in DOMAIN todo[w] : \E x \in todo[w][i] : x.slot = s

Delivered ==
  (phase = "sizes" \/ (phase = "done" /\ full)) =>
    \A f \in Slot : head[f].entry = f /\ head[f].folder =>
      \/ phase = "sizes" /\ f \in Range(ch)
      \/ \A g \in {f} \cup Range(linked[f]) : \A x \in OwnIndex(g) :
           GetRecord(head, x) # Nil /\ ~head[x.ref].folder
             => (phase = "sizes" /\ Owed(x.ref)) \/ (LSizeGiven(x.ref) /\ PSizeGiven(x.ref))

SizesInv == IndexInv /\ Writes /\ Delivered
-----------------------------------------------------------------------------
(* A readable list is either still to be read or its references are kept;  *)
(* the references in the record come first, those of its only list next.   *)
Small == \A w \in Workers : Len(scratch[w]) < Wrap

OwnBase(e) == LinkedRecordsInfo(body[e].list, e)

Begins(q, x) == \E t \in Seq(Ref) : x = q \o t

ListsRead ==
  /\ phase = "load" => \A e \in Slot : info[e] = OwnBase(e)
  /\ phase \notin {"load", "panic"} /\ Small => \A e \in Slot : head[e].entry = e =>
       /\ Begins(OwnBase(e), info[e])
       /\ \A k \in ListAttrs(e) :
            Pending(e, k) \/ Range(OwnList(e, k)) \subseteq Range(info[e])
       /\ \A k \in ListAttrs(e) : ListAttrs(e) = {k} =>
            \/ Pending(e, k) /\ info[e] = OwnBase(e)
            \/ Begins(OwnBase(e) \o OwnList(e, k), info[e])

ListsInv == PoolInv /\ ListsRead
-----------------------------------------------------------------------------
(* The blocks and records of the model have the types they claim.          *)
LEMMA ZeroBlockType == ZeroBlock \in Block
PROOF BY EmptySeq DEF ZeroBlock, Block

(* A base record's own entries are left out; the rest is a list again.     *)
LEMMA LinkedType == \A e : \A s \in Seq(Ref) : LinkedRecordsInfo(s, e) \in Seq(Ref)
PROOF BY KeepSeq DEF LinkedRecordsInfo

(* A buffer that the first k blocks of an attribute reach: it never gets   *)
(* shorter, and each of its blocks is the attribute's, an older one or     *)
(* zero.                                                                   *)
LEMMA Overlaid ==
  ASSUME NEW s \in Seq(Block), NEW b \in Seq(Block), NEW k \in 0 .. Len(b),
         NEW u, u = Overlay(Grow(s, Len(b)), b, k)
  PROVE  /\ u \in Seq(Block)
         /\ Len(u) \in Nat /\ Len(s) \in Nat /\ Len(b) \in Nat
         /\ Len(s) <= Len(u) /\ Len(b) <= Len(u)
         /\ \A i \in 1 .. k : i \in 1 .. Len(u) /\ u[i] = b[i]
         /\ \A i \in 1 .. Len(u) :
              \/ i \in 1 .. Len(b) /\ u[i] = b[i]
              \/ i \in 1 .. Len(s) /\ u[i] = s[i]
              \/ u[i] = ZeroBlock
PROOF
<1> DEFINE g == Grow(s, Len(b))
<1>1. Len(s) \in Nat /\ Len(b) \in Nat
  BY LenProperties
<1>2. \A i \in 1 .. Len(b) : b[i] \in Block
  BY ElementOfSeq
<1>3. /\ g \in Seq(Block) /\ Len(g) \in Nat /\ Len(s) <= Len(g) /\ Len(b) <= Len(g)
      /\ \A i \in 1 .. Len(g) : g[i] \in Block /\ ((i \in 1 .. Len(s) /\ g[i] = s[i]) \/ g[i] = ZeroBlock)
  <2>1. CASE Len(s) < Len(b)
    <3>1. g = [i \in 1 .. Len(b) |-> ZeroBlock]
      BY <2>1 DEF Grow
    <3>2. g \in Seq(Block) /\ Len(g) = Len(b)
      BY <1>1, <3>1, ZeroBlockType
    <3> QED BY <1>1, <2>1, <3>1, <3>2, ZeroBlockType
  <2>2. CASE ~(Len(s) < Len(b))
    <3>1. g = s
      BY <2>2 DEF Grow
    <3> QED BY <1>1, <2>2, <3>1, ElementOfSeq
  <2> QED BY <2>1, <2>2
<1> HIDE DEF g
<1>4. u = [i \in 1 .. Len(g) |-> IF i <= k THEN b[i] ELSE g[i]]
  BY DEF Overlay, g
<1>5. \A i \in 1 .. Len(g) : u[i] = (IF i <= k THEN b[i] ELSE g[i])
  BY <1>4
<1>6. \A i \in 1 .. Len(g) : i <= k => i \in 1 .. Len(b)
  BY <1>1, <1>3
<1>7. \A i \in 1 .. Len(g) : u[i] \in Block
  BY <1>2, <1>3, <1>5, <1>6
<1>8. u \in Seq(Block) /\ Len(u) = Len(g)
  BY <1>3, <1>4, <1>7
<1>9. \A i \in 1 .. k : i \in 1 .. Len(g) /\ u[i] = b[i]
  BY <1>1, <1>3, <1>5
<1> QED BY <1>1, <1>3, <1>5, <1>6, <1>8, <1>9

(* Where the parsing loops stop.                                           *)
LEMMA ListStops ==
  ASSUME NEW s \in Seq(Block)
  PROVE  /\ ListStop(s) \in 1 .. Len(s) + 1 /\ Len(s) \in Nat
         /\ \A i \in 1 .. Len(s) : i < ListStop(s) => s[i].full
         /\ ListStop(s) <= Len(s) => ~s[ListStop(s)].full
PROOF
<1> DEFINE A == {i \in 1 .. Len(s) : ~s[i].full} \cup {Len(s) + 1}
<1>1. Len(s) \in Nat
  BY LenProperties
<1>2. A \subseteq Nat /\ A # {} /\ Len(s) + 1 \in A
  BY <1>1
<1>3. ListStop(s) \in A /\ \A y \in A : ListStop(s) <= y
  <2>1. ListStop(s) = Min(A)
    BY DEF ListStop
  <2> HIDE DEF A
  <2> QED BY <1>2, <2>1, MinOf
<1>4. ListStop(s) \in 1 .. Len(s) + 1
  BY <1>1, <1>3
<1>5. ASSUME NEW i \in 1 .. Len(s), i < ListStop(s) PROVE s[i].full
  <2>1. ~(ListStop(s) <= i)
    BY <1>4, <1>5
  <2> QED BY <1>3, <2>1
<1>6. ASSUME ListStop(s) <= Len(s) PROVE ~s[ListStop(s)].full
  <2>1. ListStop(s) # Len(s) + 1
    BY <1>1, <1>6
  <2> QED BY <1>3, <2>1
<1> QED BY <1>1, <1>4, <1>5, <1>6

LEMMA IndexStops ==
  ASSUME NEW s \in Seq(Block)
  PROVE  /\ IndexStop(s) \in 1 .. Len(s) + 1 /\ Len(s) \in Nat
         /\ \A i \in 1 .. Len(s) : i < IndexStop(s) => s[i].indx
         /\ IndexStop(s) <= Len(s) => ~s[IndexStop(s)].indx
PROOF
<1> DEFINE A == {i \in 1 .. Len(s) : ~s[i].indx} \cup {Len(s) + 1}
<1>1. Len(s) \in Nat
  BY LenProperties
<1>2. A \subseteq Nat /\ A # {} /\ Len(s) + 1 \in A
  BY <1>1
<1>3. IndexStop(s) \in A /\ \A y \in A : IndexStop(s) <= y
  <2>1. IndexStop(s) = Min(A)
    BY DEF IndexStop
  <2> HIDE DEF A
  <2> QED BY <1>2, <2>1, MinOf
<1>4. IndexStop(s) \in 1 .. Len(s) + 1
  BY <1>1, <1>3
<1>5. ASSUME NEW i \in 1 .. Len(s), i < IndexStop(s) PROVE s[i].indx
  <2>1. ~(IndexStop(s) <= i)
    BY <1>4, <1>5
  <2> QED BY <1>3, <2>1
<1>6. ASSUME IndexStop(s) <= Len(s) PROVE ~s[IndexStop(s)].indx
  <2>1. IndexStop(s) # Len(s) + 1
    BY <1>1, <1>6
  <2> QED BY <1>3, <2>1
<1> QED BY <1>1, <1>4, <1>5, <1>6

(* The entries of some first blocks are a list.                            *)
LEMMA RefsType == \A s \in Seq(Block) : \A n \in 0 .. Len(s) :
  [i \in 1 .. n |-> s[i].refs] \in Seq(Seq(Ref)) /\ RefsUpTo(s, n) \in Seq(Ref)
PROOF
<1> SUFFICES ASSUME NEW s \in Seq(Block), NEW n \in 0 .. Len(s)
             PROVE  [i \in 1 .. n |-> s[i].refs] \in Seq(Seq(Ref)) /\ RefsUpTo(s, n) \in Seq(Ref)
  OBVIOUS
<1> DEFINE f == [i \in 1 .. n |-> s[i].refs]
<1>1. Len(s) \in Nat
  BY LenProperties
<1>2. \A i \in 1 .. n : s[i].refs \in Seq(Ref)
  <2> SUFFICES ASSUME NEW i \in 1 .. n PROVE s[i].refs \in Seq(Ref)
    OBVIOUS
  <2>1. s[i] \in Block
    BY <1>1, ElementOfSeq
  <2> QED BY <2>1 DEF Block
<1>3. f \in Seq(Seq(Ref))
  BY <1>1, <1>2
<1> HIDE DEF f
<1>4. FlattenSeq(f) \in Seq(Ref)
  BY <1>3, FlattenType
<1> QED BY <1>3, <1>4 DEF RefsUpTo, f

(* Whatever fills the buffer, the two parsers return lists of references   *)
(* and of index entries.                                                   *)
LEMMA ParseListType == \A s \in Seq(Block) : ParseList(s) \in Seq(Ref)
PROOF
<1> SUFFICES ASSUME NEW s \in Seq(Block) PROVE ParseList(s) \in Seq(Ref)
  OBVIOUS
<1> DEFINE t == SubSeq(s, 1, Len(s) % Wrap)
<1>1. Len(s) \in Nat /\ Len(s) % Wrap \in 0 .. Len(s)
  <2>1. Len(s) \in Nat
    BY LenProperties
  <2> QED BY <2>1, WrapAssumption
<1>2. t \in Seq(Block)
  <2>1. \A i \in 1 .. Len(s) % Wrap : s[i] \in Block
    BY <1>1, ElementOfSeq
  <2> QED BY <1>1, <2>1, SubSeqProperties
<1> HIDE DEF t
<1>3. ListStop(t) \in 1 .. Len(t) + 1 /\ Len(t) \in Nat
  BY <1>2, ListStops
<1>4. NoRef \in Ref
  BY DEF NoRef, Ref, SeqNo
<1>5. ListStop(t) > Len(t) => RefsUpTo(t, Len(t)) \in Seq(Ref)
  BY <1>2, <1>3, RefsType
<1>6. ~(ListStop(t) > Len(t)) => Append(RefsUpTo(t, ListStop(t)), NoRef) \in Seq(Ref)
  <2> SUFFICES ASSUME ~(ListStop(t) > Len(t)) PROVE Append(RefsUpTo(t, ListStop(t)), NoRef) \in Seq(Ref)
    OBVIOUS
  <2>1. RefsUpTo(t, ListStop(t)) \in Seq(Ref)
    BY <1>2, <1>3, RefsType
  <2> QED BY <1>4, <2>1, AppendProperties
<1> QED BY <1>5, <1>6 DEF ParseList, t

LEMMA ParseIndexType ==
  ASSUME NEW s \in Seq(Block)
  PROVE  /\ ParseIndex(s) \in Seq(Seq(IdxEntry))
         /\ DOMAIN ParseIndex(s) = 1 .. IndexStop(s) - 1
         /\ \A i \in DOMAIN ParseIndex(s) : i \in DOMAIN s /\ ParseIndex(s)[i] = s[i].idx
PROOF
<1>1. IndexStop(s) \in 1 .. Len(s) + 1 /\ Len(s) \in Nat /\ DOMAIN s = 1 .. Len(s)
  BY IndexStops, LenProperties
<1>2. \A i \in 1 .. IndexStop(s) - 1 : i \in 1 .. Len(s) /\ s[i].idx \in Seq(IdxEntry)
  <2> SUFFICES ASSUME NEW i \in 1 .. IndexStop(s) - 1 PROVE i \in 1 .. Len(s) /\ s[i].idx \in Seq(IdxEntry)
    OBVIOUS
  <2>1. i \in 1 .. Len(s) /\ s[i] \in Block
    BY <1>1, ElementOfSeq
  <2> QED BY <2>1 DEF Block
<1> DEFINE p == [i \in 1 .. IndexStop(s) - 1 |-> s[i].idx]
<1>3. IndexStop(s) - 1 \in Nat /\ p \in Seq(Seq(IdxEntry))
  BY <1>1, <1>2
<1>4. DOMAIN p = 1 .. IndexStop(s) - 1 /\ \A i \in DOMAIN p : p[i] = s[i].idx
  OBVIOUS
<1>5. ParseIndex(s) = p
  BY DEF ParseIndex
<1> HIDE DEF p
<1> QED BY <1>1, <1>2, <1>3, <1>4, <1>5
-----------------------------------------------------------------------------
(* A sequence number is an integer.                                        *)
LEMMA SeqNoInt == SeqNo \subseteq Int
PROOF BY DEF SeqNo

(* The difference of two sequence numbers, as a uint16.                    *)
LEMMA Modulo == \A a \in Int, b \in Int : (a - b) % 65536 \in Nat
PROOF
<1>1. ASSUME NEW a \in Int, NEW b \in Int PROVE (a - b) % 65536 \in Nat
  OBVIOUS
<1> QED BY <1>1

(* A reference that resolves leads to a filled slot, or to slot 0, of the  *)
(* number it names, reused at most once since.                             *)
LEMMA Resolves ==
  ASSUME LoadType, NEW r, r.ref \in Nat, r.seq \in SeqNo
  PROVE  /\ GetRecord(head, r) \in Slot \cup {Nil}
         /\ GetRecord(head, r) # Nil =>
              /\ r.ref \in Slot /\ GetRecord(head, r) = r.ref /\ head[r.ref].entry = r.ref
              /\ (head[r.ref].seq - r.seq) % 65536 \in {0, 1}
PROOF
<1>1. r.ref < N => r.ref \in Slot
  BY NAssumption DEF Slot
<1>2. ASSUME r.ref \in Slot PROVE (head[r.ref].seq - r.seq) % 65536 \in Nat
  <2>1. head[r.ref].seq \in SeqNo
    BY <1>2 DEF LoadType, RecordHead
  <2>2. head[r.ref].seq \in Int /\ r.seq \in Int
    BY <2>1, SeqNoInt
  <2> QED BY <2>2, Modulo
<1>3. r.ref # Nil
  BY DEF Nil
<1> DEFINE d == (head[r.ref].seq - r.seq) % 65536
<1>4. d \in Nat /\ d <= 1 => d \in {0, 1}
  <2> HIDE DEF d
  <2> QED OBVIOUS
<1> QED BY <1>1, <1>2, <1>3, <1>4 DEF GetRecord

(* A slot of the table is empty or holds the record that claims it.        *)
LEMMA EntrySlot ==
  ASSUME LoadInv, NEW e \in Slot
  PROVE  head[e].entry \in Slot /\ (head[e].entry = e \/ head[e].entry = 0)
         /\ (head[e].entry # 0 => \E i \in sel : area[i].sig = "FILE" /\ Claims(i) = e)
PROOF
<1>1. 0 \in Slot
  BY NAssumption DEF Slot
<1>2. CASE head[e] = EmptyHead
  BY <1>1, <1>2 DEF EmptyHead
<1>3. CASE \E i \in sel : Stores(i) /\ Claims(i) = e /\ head[e] = ProcessHead(area[i])
  <2>1. PICK i \in sel : Stores(i) /\ Claims(i) = e /\ head[e] = ProcessHead(area[i])
    BY <1>3
  <2>2. head[e].entry = e
    BY <2>1 DEF Claims
  <2>3. area[i].sig # "FILE" => head[e].entry = 0
    BY <2>1 DEF ProcessHead, EmptyHead
  <2> QED BY <2>1, <2>2, <2>3
<1> QED BY <1>2, <1>3 DEF LoadInv, SlotOwner

(* The references of record e that become links.                           *)
LinkRefs(e) == {r \in Ref : r.ref # head[e].entry /\ GetRecord(head, r) # Nil}

LEMMA TargetsType ==
  ASSUME LoadType, info \in [Slot -> Seq(Ref)], NEW e \in Slot
  PROVE  /\ Targets(e) \in Seq(Slot)
         /\ Keep(info[e], LinkRefs(e)) \in Seq(Ref)
         /\ DOMAIN Targets(e) = DOMAIN Keep(info[e], LinkRefs(e))
         /\ \A k \in DOMAIN Targets(e) :
              /\ Targets(e)[k] = Keep(info[e], LinkRefs(e))[k].ref
              /\ Keep(info[e], LinkRefs(e))[k] \in LinkRefs(e)
PROOF
<1> DEFINE K == Keep(info[e], LinkRefs(e))
<1>1. K \in Seq(Ref) /\ K \in Seq(Ref \cap LinkRefs(e))
  BY KeepSeq, KeepType
<1>2. DOMAIN K = 1 .. Len(K) /\ Len(K) \in Nat /\ \A k \in 1 .. Len(K) : K[k] \in LinkRefs(e)
  <2> HIDE DEF K
  <2> QED BY <1>1, LenProperties, ElementOfSeq
<1>3. Targets(e) = [k \in 1 .. Len(K) |-> K[k].ref]
  BY DEF Targets, LinkRefs
<1> HIDE DEF K
<1>4. \A k \in 1 .. Len(K) : K[k].ref \in Slot
  <2> SUFFICES ASSUME NEW k \in 1 .. Len(K) PROVE K[k].ref \in Slot
    OBVIOUS
  <2>1. K[k] \in Ref /\ GetRecord(head, K[k]) # Nil
    BY <1>2 DEF LinkRefs
  <2>2. K[k].ref \in Nat /\ K[k].seq \in SeqNo
    BY <2>1 DEF Ref
  <2> QED BY <2>1, <2>2, Resolves
<1>5. Targets(e) \in Seq(Slot)
  BY <1>2, <1>3, <1>4
<1> QED BY <1>1, <1>2, <1>3, <1>5 DEF K

(* What the entries of an index have a worker write.                       *)
LEMMA SizeWritesType ==
  ASSUME LoadType, NEW s \in Seq(IdxEntry)
  PROVE  /\ SizeWrites(s) \subseteq Write
         /\ \A z \in SizeWrites(s) : \E x \in Range(s) :
              /\ GetRecord(head, x) = z.slot /\ z.slot = x.ref /\ x.lsize = z.l /\ x.psize = z.p
              /\ ~head[z.slot].folder
PROOF
<1> SUFFICES ASSUME NEW z \in SizeWrites(s)
             PROVE  /\ z \in Write
                    /\ \E x \in Range(s) :
                         /\ GetRecord(head, x) = z.slot /\ z.slot = x.ref /\ x.lsize = z.l /\ x.psize = z.p
                         /\ ~head[z.slot].folder
  OBVIOUS
<1>1. PICK x \in Range(s) : /\ z = [slot |-> x.ref, l |-> x.lsize, p |-> x.psize]
                            /\ GetRecord(head, x) # Nil /\ ~head[x.ref].folder
  BY DEF SizeWrites
<1>2. x \in IdxEntry
  BY ElementOfSeq, LenProperties DEF Range
<1>3. x.ref \in Nat /\ x.seq \in SeqNo /\ x.lsize \in Sizes /\ x.psize \in Sizes
  BY <1>2 DEF IdxEntry
<1>4. x.ref \in Slot /\ GetRecord(head, x) = x.ref
  BY <1>1, <1>3, Resolves
<1> QED BY <1>1, <1>3, <1>4 DEF Write

(* What is put in front of a sequence is in its range.                     *)
LEMMA PutInFront ==
  ASSUME NEW S, NEW r \in S, NEW f \in Seq(S)
  PROVE  <<r>> \o f \in Seq(S) /\ Range(<<r>> \o f) = {r} \cup Range(f)
PROOF
<1>1. <<r>> \in Seq(S)
  OBVIOUS
<1>2. \A s \in Seq(S) : s \o f \in Seq(S)
  OBVIOUS
<1>3. \A s \in Seq(S) : Range(s \o f) = Range(s) \cup Range(f)
  BY RangeConcatenation
<1>4. Range(<<r>>) = {r}
  BY DEF Range
<1> QED BY <1>1, <1>2, <1>3, <1>4, Zenon

(* A folder's own writes are those of its root and of each of its index    *)
(* records, in that order.                                                 *)
LEMMA CheckType ==
  ASSUME LoadType, alloc \in [Slot -> Seq(Seq(IdxEntry))], NEW e \in Slot
  PROVE  /\ CheckAndSetI30Size(e) \in Seq(SUBSET Write)
         /\ Range(CheckAndSetI30Size(e)) =
              {SizeWrites(body[e].root)} \cup {SizeWrites(alloc[e][i]) : i \in DOMAIN alloc[e]}
PROOF
<1> DEFINE f == [k \in 1 .. Len(alloc[e]) |-> SizeWrites(alloc[e][k])]
           S == SUBSET Write
           r == SizeWrites(body[e].root)
<1>1. Len(alloc[e]) \in Nat /\ DOMAIN alloc[e] = 1 .. Len(alloc[e])
      /\ \A k \in 1 .. Len(alloc[e]) : alloc[e][k] \in Seq(IdxEntry)
  <2>1. alloc[e] \in Seq(Seq(IdxEntry))
    OBVIOUS
  <2> QED BY <2>1, LenProperties, ElementOfSeq
<1>2. \A k \in 1 .. Len(alloc[e]) : SizeWrites(alloc[e][k]) \in S
  BY <1>1, SizeWritesType
<1>3. body[e].root \in Seq(IdxEntry)
  BY DEF LoadType, RecordBody
<1>4. r \in S
  BY <1>3, SizeWritesType
<1>5. f \in Seq(S) /\ DOMAIN f = DOMAIN alloc[e] /\ \A k \in DOMAIN f : f[k] = SizeWrites(alloc[e][k])
  <2> HIDE DEF S
  <2> QED BY <1>1, <1>2
<1>6. CheckAndSetI30Size(e) = <<r>> \o f
  BY DEF CheckAndSetI30Size
<1> HIDE DEF f, r, S
<1>8. <<r>> \o f \in Seq(S) /\ Range(<<r>> \o f) = {r} \cup Range(f)
  BY <1>4, <1>5, PutInFront, Zenon
<1>9. Range(f) = {SizeWrites(alloc[e][i]) : i \in DOMAIN alloc[e]}
  BY <1>5 DEF Range
<1> QED BY <1>6, <1>8, <1>9 DEF r, S

LEMMA FolderWritesType ==
  ASSUME LoadInv, alloc \in [Slot -> Seq(Seq(IdxEntry))], linked \in [Slot -> Seq(Slot)], NEW e \in Slot
  PROVE  /\ FolderWrites(e) \in Seq((SUBSET Write) \ {{}})
         /\ Range(FolderWrites(e)) =
              (Range(CheckAndSetI30Size(head[e].entry))
                 \cup UNION {Range(CheckAndSetI30Size(head[linked[e][k]].entry)) : k \in DOMAIN linked[e]})
              \cap ((SUBSET Write) \ {{}})
PROOF
<1> DEFINE S == SUBSET Write
           T == (SUBSET Write) \ {{}}
           own == CheckAndSetI30Size(head[e].entry)
           f == [k \in 1 .. Len(linked[e]) |-> CheckAndSetI30Size(head[linked[e][k]].entry)]
<1>1. /\ Len(linked[e]) \in Nat /\ DOMAIN linked[e] = 1 .. Len(linked[e])
      /\ \A k \in 1 .. Len(linked[e]) : linked[e][k] \in Slot
  <2>1. linked[e] \in Seq(Slot)
    OBVIOUS
  <2> QED BY <2>1, LenProperties, ElementOfSeq
<1>2. LoadType
  BY DEF LoadInv
<1>3. own \in Seq(S)
  BY <1>2, EntrySlot, CheckType
<1>4. \A k \in 1 .. Len(linked[e]) : CheckAndSetI30Size(head[linked[e][k]].entry) \in Seq(S)
  BY <1>1, <1>2, EntrySlot, CheckType
<1>5. /\ f \in Seq(Seq(S)) /\ DOMAIN f = DOMAIN linked[e]
      /\ \A k \in DOMAIN f : f[k] = CheckAndSetI30Size(head[linked[e][k]].entry)
  <2> DEFINE Q == Seq(S)
  <2>1. \A k \in 1 .. Len(linked[e]) : CheckAndSetI30Size(head[linked[e][k]].entry) \in Q
    BY <1>4
  <2> HIDE DEF Q
  <2>2. f \in Seq(Q)
    BY <1>1, <2>1
  <2> QED BY <1>1, <2>2 DEF Q
<1>6. FolderWrites(e) = Keep(own \o FlattenSeq(f), T)
  BY DEF FolderWrites
<1> HIDE DEF own, f
<1>7. FlattenSeq(f) \in Seq(S) /\ Range(FlattenSeq(f)) = UNION {Range(f[k]) : k \in DOMAIN f}
  BY <1>5, FlattenType, FlattenRange
<1> DEFINE u == own \o FlattenSeq(f)
<1>8. u \in Seq(S) /\ Range(u) = Range(own) \cup Range(FlattenSeq(f))
  <2> HIDE DEF S
  <2> QED BY <1>3, <1>7, ConcatProperties, RangeConcatenation
<1> HIDE DEF u
<1>9. Keep(u, T) \in Seq(S \cap T) /\ Range(Keep(u, T)) = Range(u) \cap T
  <2> HIDE DEF S, T
  <2> QED BY <1>8, KeepType, KeepRange
<1>10. S \cap T = T
  OBVIOUS
<1>11. UNION {Range(f[k]) : k \in DOMAIN f}
         = UNION {Range(CheckAndSetI30Size(head[linked[e][k]].entry)) : k \in DOMAIN linked[e]}
  BY <1>5
<1> QED BY <1>6, <1>7, <1>8, <1>9, <1>10, <1>11 DEF u, own

(* The origin of a slot is a slot that lists it, or nil.                   *)
LEMMA LastLinkerType ==
  ASSUME NEW e \in Slot
  PROVE  /\ LastLinker(e) \in Slot \cup {Nil}
         /\ Linkers(e) # {} => LastLinker(e) \in Linkers(e) /\ \A b \in Linkers(e) : b <= LastLinker(e)
PROOF
<1>1. Linkers(e) \subseteq 0 .. N - 1 /\ N - 1 \in Nat
  BY NAssumption DEF Linkers, Slot
<1>2. Linkers(e) # {} => Max(Linkers(e)) \in Linkers(e) /\ \A b \in Linkers(e) : b <= Max(Linkers(e))
  <2> DEFINE L == Linkers(e)
             n == N - 1
  <2> HIDE DEF L, n
  <2> QED BY <1>1, MaxOf DEF L, n
<1> QED BY <1>1, <1>2 DEF LastLinker, Slot

(* What the links and sizes are computed from is settled by then.          *)
LEMMA SameLinks ==
  ASSUME head' = head, info' = info
  PROVE  \A e : Targets(e)' = Targets(e) /\ LastLinker(e)' = LastLinker(e)
PROOF
<1>1. \A r : GetRecord(head, r)' = GetRecord(head, r)
  BY DEF GetRecord
<1> QED BY <1>1 DEF Targets, LastLinker, Linkers
-----------------------------------------------------------------------------
(* Before the load everything is idle.                                     *)
LEMMA InitPoolInv == Init => PoolInv
PROOF
<1> SUFFICES ASSUME Init PROVE PoolInv
  OBVIOUS
<1>1. LoadInv
  BY InitLoadInv
<1>2. <<ZeroBlock>> \in Seq(Block)
  BY ZeroBlockType
<1>3. 0 \in Sizes /\ \A S : <<>> \in Seq(S)
  BY SizeAssumption, EmptySeq
<1>4. phase \in {"load", "panic"} /\ full \in BOOLEAN
  BY DEF Init
<1>5. WorkType
  BY <1>2, <1>3, <1>4 DEF Init, WorkType, NoWrite
<1>6. Idle /\ Linking
  BY <1>4 DEF Init, Idle, Linking
<1> QED BY <1>1, <1>5, <1>6 DEF PoolInv

(* The load goroutines leave the pools alone; a stored record brings the   *)
(* references of its resident list.                                        *)
LEMMA LoadPoolInv == \A i \in Slot : PoolInv /\ Load(i) => WorkType' /\ Idle' /\ Linking'
PROOF
<1> SUFFICES ASSUME NEW i \in Slot, PoolInv, Load(i) PROVE WorkType' /\ Idle' /\ Linking'
  OBVIOUS
<1> USE DEF PoolInv
<1>1. /\ phase = "load" /\ phase' = "load" /\ UNCHANGED <<full, area, ch, job, ai, scratch, alloc, linkVars, sizeVars>>
  BY DEF Load, MFTWorkerReturn, MFTWorkerRefuse, MFTWorkerCount, MFTWorkerStoreHead, MFTWorkerStoreBody,
         inputs, nonresVars
<1>2. info' \in [Slot -> Seq(Ref)]
  <2>1. CASE UNCHANGED nonresVars
    BY <2>1 DEF WorkType, nonresVars
  <2>2. CASE MFTWorkerStoreBody(i)
    <3> DEFINE e == ProcessHead(area[i]).entry
               b == ProcessBody(area[i])
    <3>1. info' = [info EXCEPT ![e] = LinkedRecordsInfo(b.list, e)]
      BY <2>2 DEF MFTWorkerStoreBody
    <3>2. area[i] \in SlotData
      BY DEF LoadInv, LoadType
    <3>3. b.list \in Seq(Ref)
      BY <3>2, ProcessType DEF RecordBody
    <3>4. LinkedRecordsInfo(b.list, e) \in Seq(Ref)
      BY <3>3, LinkedType
    <3> QED BY <3>1, <3>4 DEF WorkType
  <2> QED BY <2>1, <2>2 DEF Load, MFTWorkerReturn, MFTWorkerRefuse, MFTWorkerCount, MFTWorkerStoreHead
<1>3. WorkType'
  BY <1>1, <1>2 DEF WorkType, Idle, linkVars, sizeVars
<1>4. Idle' /\ Linking'
  BY <1>1 DEF Idle, Linking, linkVars, sizeVars
<1> QED BY <1>3, <1>4

(* The steps that begin the next phase.                                    *)
LEMMA PhasePoolInv ==
  PoolInv /\ (ProcessNonResidentRecords \/ NonResidentDone \/ SizesDone) => WorkType' /\ Idle' /\ Linking'
PROOF
<1> SUFFICES ASSUME PoolInv, ProcessNonResidentRecords \/ NonResidentDone \/ SizesDone
             PROVE  WorkType' /\ Idle' /\ Linking'
  OBVIOUS
<1> USE DEF PoolInv
<1>1. UNCHANGED <<full, area, head, body, job, ai, scratch, info, alloc, linkVars, sizeVars>>
  BY DEF ProcessNonResidentRecords, NonResidentDone, SizesDone, inputs, nonresVars
<1>2. \A e : Targets(e)' = Targets(e) /\ LastLinker(e)' = LastLinker(e) /\ GetRecord(head, body[e].fn)' = GetRecord(head, body[e].fn)
  BY <1>1, SameLinks DEF GetRecord
<1>3. CASE ProcessNonResidentRecords
  <2>1. phase = "load" /\ phase' = "nonres" /\ ch' = [k \in 1 .. N |-> k - 1]
    BY <1>3 DEF ProcessNonResidentRecords
  <2>2. ch' \in Seq(Slot)
    <3>1. \A k \in 1 .. N : k - 1 \in Slot
      BY NAssumption DEF Slot
    <3> QED BY <2>1, <3>1, NAssumption
  <2>3. WorkType'
    BY <1>1, <2>1, <2>2 DEF WorkType, linkVars, sizeVars
  <2>4. Idle' /\ Linking'
    BY <1>1, <1>2, <2>1 DEF Idle, Linking, linkVars, sizeVars
  <2> QED BY <2>3, <2>4
<1>4. CASE NonResidentDone
  <2>1. phase = "nonres" /\ phase' = "link" /\ ch' = ch /\ \A w \in Workers : job[w] = Nil
    BY <1>4 DEF NonResidentDone
  <2>2. WorkType'
    BY <1>1, <2>1 DEF WorkType, linkVars, sizeVars
  <2>3. Idle' /\ Linking'
    BY <1>1, <1>2, <2>1 DEF Idle, Linking, linkVars, sizeVars
  <2> QED BY <2>2, <2>3
<1>5. CASE SizesDone
  <2>1. phase = "sizes" /\ phase' = "done" /\ ch' = ch
    BY <1>5 DEF SizesDone
  <2>2. WorkType'
    BY <1>1, <2>1 DEF WorkType, linkVars, sizeVars
  <2>3. Idle' /\ Linking'
    BY <1>1, <1>2, <2>1 DEF Idle, Linking, linkVars, sizeVars
  <2> QED BY <2>2, <2>3
<1> QED BY <1>3, <1>4, <1>5

(* A record's attributes form a sequence.                                  *)
LEMMA BodyAttrs ==
  ASSUME LoadInv, NEW e \in Slot
  PROVE  body[e].attrs \in Seq(Attr) /\ Len(body[e].attrs) \in Int
PROOF
<1>1. body[e].attrs \in Seq(Attr)
  BY DEF LoadInv, LoadType, RecordBody
<1> QED BY <1>1, LenProperties

(* The non resident pool: a worker takes a record, or steps through the    *)
(* attributes of the one it has.                                           *)
LEMMA NextAttrType ==
  ASSUME LoadInv, WorkType, NEW w \in Workers, job[w] # Nil, NextAttr(w)
  PROVE  /\ job' \in [Workers -> Slot \cup {Nil}] /\ ai' \in [Workers -> Nat \ {0}]
         /\ \A v \in Workers : job'[v] # Nil => ai'[v] <= Len(body[job'[v]].attrs)
         /\ \A v \in Workers \ {w} : job'[v] = job[v] /\ ai'[v] = ai[v]
         /\ \/ ai[w] = Len(body[job[w]].attrs) /\ job'[w] = Nil
            \/ ai[w] < Len(body[job[w]].attrs) /\ job'[w] = job[w] /\ ai'[w] = ai[w] + 1
PROOF
<1>1. ai[w] \in Nat \ {0} /\ ai[w] <= Len(body[job[w]].attrs)
  BY DEF WorkType
<1>2. CASE ai[w] = Len(body[job[w]].attrs)
  <2>1. job' = [job EXCEPT ![w] = Nil] /\ ai' = ai
    BY <1>2 DEF NextAttr
  <2> QED BY <1>2, <2>1 DEF WorkType
<1>3. CASE ai[w] # Len(body[job[w]].attrs)
  <2>1. job' = job /\ ai' = [ai EXCEPT ![w] = @ + 1]
    BY <1>3 DEF NextAttr
  <2> DEFINE n == Len(body[job[w]].attrs)
             m == ai[w]
  <2>2. m \in Nat \ {0} /\ m <= n /\ m # n /\ n \in Int => m < n /\ m + 1 <= n /\ m + 1 \in Nat \ {0}
    <3> HIDE DEF n, m
    <3> QED OBVIOUS
  <2>3. m # 0 /\ n \in Int
    <3>1. job[w] \in Slot
      BY DEF WorkType
    <3> QED BY <1>1, <3>1, BodyAttrs
  <2>4. /\ m < n /\ m + 1 <= n /\ m + 1 \in Nat \ {0}
    BY <1>1, <1>3, <2>2, <2>3
  <2>5. ai'[w] = m + 1 /\ \A v \in Workers \ {w} : ai'[v] = ai[v]
    BY <2>1 DEF WorkType
  <2>6. ai' \in [Workers -> Nat \ {0}]
    BY <2>1, <2>4 DEF WorkType
  <2> QED BY <2>1, <2>4, <2>5, <2>6 DEF WorkType
<1> QED BY <1>2, <1>3

LEMMA TakeRecordPoolInv == \A w \in Workers : PoolInv /\ TakeRecord(w) => WorkType' /\ Idle' /\ Linking'
PROOF
<1> SUFFICES ASSUME NEW w \in Workers, PoolInv, TakeRecord(w) PROVE WorkType' /\ Idle' /\ Linking'
  OBVIOUS
<1> USE DEF PoolInv
<1>1. /\ phase = "nonres" /\ phase' = "nonres" /\ ch # <<>> /\ ch' = Tail(ch)
      /\ job' = [job EXCEPT ![w] = IF body[Head(ch)].attrs = <<>> THEN Nil ELSE Head(ch)]
      /\ ai' = [ai EXCEPT ![w] = 1]
      /\ UNCHANGED <<full, area, head, body, scratch, info, alloc, linkVars, sizeVars>>
  BY DEF TakeRecord, inputs
<1>2. Head(ch) \in Slot /\ ch' \in Seq(Slot)
  BY <1>1, HeadTailProperties DEF WorkType
<1>3. Len(body[Head(ch)].attrs) \in Nat /\ (body[Head(ch)].attrs # <<>> => 1 <= Len(body[Head(ch)].attrs))
  <2>1. body[Head(ch)].attrs \in Seq(Attr)
    BY <1>2, BodyAttrs
  <2> QED BY <2>1, EmptySeq, LenProperties
<1>4. /\ job' \in [Workers -> Slot \cup {Nil}] /\ ai' \in [Workers -> Nat \ {0}]
  BY <1>1, <1>2 DEF WorkType
<1>5. ASSUME NEW v \in Workers, job'[v] # Nil PROVE ai'[v] <= Len(body[job'[v]].attrs)
  <2>1. CASE v = w
    <3>1. job'[w] = (IF body[Head(ch)].attrs = <<>> THEN Nil ELSE Head(ch)) /\ ai'[w] = 1
      BY <1>1 DEF WorkType
    <3> QED BY <1>3, <1>5, <2>1, <3>1
  <2>2. CASE v # w
    <3>1. job'[v] = job[v] /\ ai'[v] = ai[v]
      BY <1>1, <2>2 DEF WorkType
    <3> QED BY <1>5, <3>1 DEF WorkType
  <2> QED BY <2>1, <2>2
<1>6. WorkType'
  BY <1>1, <1>2, <1>4, <1>5 DEF WorkType, linkVars, sizeVars
<1>7. Idle' /\ Linking'
  BY <1>1 DEF Idle, Linking, linkVars, sizeVars
<1> QED BY <1>6, <1>7

(* Reading an attribute changes the worker's buffer and, when it is        *)
(* parsed, what the record holds; both stay in their types.                *)
LEMMA ReadType ==
  ASSUME PoolInv, NEW w \in Workers, phase = "nonres", job[w] # Nil
  PROVE  /\ job[w] \in Slot /\ ai[w] \in 1 .. Len(body[job[w]].attrs) /\ ai[w] \in DOMAIN body[job[w]].attrs
         /\ body[job[w]].attrs[ai[w]] \in Attr
         /\ body[job[w]].attrs[ai[w]].blocks \in Seq(Block)
         /\ scratch[w] \in Seq(Block)
PROOF
<1>1. job[w] \in Slot /\ ai[w] \in Nat \ {0} /\ ai[w] <= Len(body[job[w]].attrs) /\ scratch[w] \in Seq(Block)
  BY DEF PoolInv, WorkType
<1>2. body[job[w]].attrs \in Seq(Attr)
  BY <1>1, BodyAttrs DEF PoolInv
<1>3. DOMAIN body[job[w]].attrs = 1 .. Len(body[job[w]].attrs) /\ Len(body[job[w]].attrs) \in Nat
  BY <1>2, LenProperties
<1>4. ai[w] \in 1 .. Len(body[job[w]].attrs)
  BY <1>1, <1>3
<1>5. body[job[w]].attrs[ai[w]] \in Attr
  BY <1>2, <1>4, ElementOfSeq
<1> QED BY <1>1, <1>3, <1>4, <1>5 DEF Attr

LEMMA AttributePoolInv ==
  \A w \in Workers : PoolInv /\ (SkipAttribute(w) \/ ReadFails(w) \/ ParseAttribute(w))
                     => WorkType' /\ Idle' /\ Linking'
PROOF
<1> SUFFICES ASSUME NEW w \in Workers, PoolInv, SkipAttribute(w) \/ ReadFails(w) \/ ParseAttribute(w)
             PROVE  WorkType' /\ Idle' /\ Linking'
  OBVIOUS
<1> USE DEF PoolInv
<1>1. /\ phase = "nonres" /\ phase' = "nonres" /\ job[w] # Nil /\ NextAttr(w)
      /\ UNCHANGED <<full, area, head, body, ch, linkVars, sizeVars>>
  BY DEF SkipAttribute, ReadFails, ParseAttribute, inputs
<1> DEFINE e == job[w]
           b == body[e].attrs[ai[w]].blocks
<1>2. e \in Slot /\ b \in Seq(Block) /\ scratch[w] \in Seq(Block)
  BY <1>1, ReadType
<1>3. scratch' \in [Workers -> Seq(Block)] /\ info' \in [Slot -> Seq(Ref)] /\ alloc' \in [Slot -> Seq(Seq(IdxEntry))]
  <2>1. CASE SkipAttribute(w)
    BY <2>1 DEF SkipAttribute, WorkType
  <2>2. CASE ReadFails(w)
    <3>1. PICK k \in 0 .. Len(b) : scratch' = [scratch EXCEPT ![w] = Overlay(Grow(@, Len(b)), b, k)]
      BY <2>2 DEF ReadFails
    <3>2. Overlay(Grow(scratch[w], Len(b)), b, k) \in Seq(Block)
      BY <1>2, Overlaid
    <3>3. info' = info /\ alloc' = alloc
      BY <2>2 DEF ReadFails
    <3> QED BY <3>1, <3>2, <3>3 DEF WorkType
  <2>3. CASE ParseAttribute(w)
    <3> DEFINE buf == Overlay(Grow(scratch[w], Len(b)), b, Len(b))
               more == LinkedRecordsInfo(ParseList(buf), head[e].entry)
    <3>1. /\ scratch' = [scratch EXCEPT ![w] = buf]
          /\ info' = [info EXCEPT ![e] = @ \o more] \/ info' = info
          /\ alloc' = [alloc EXCEPT ![e] = ParseIndex(buf)] \/ alloc' = alloc
      BY <2>3 DEF ParseAttribute
    <3>2. Len(b) \in 0 .. Len(b)
      BY <1>2, LenProperties
    <3>3. buf \in Seq(Block)
      BY <1>2, <3>2, Overlaid
    <3> HIDE DEF buf
    <3>4. more \in Seq(Ref) /\ ParseIndex(buf) \in Seq(Seq(IdxEntry))
      BY <3>3, ParseListType, ParseIndexType, LinkedType
    <3> HIDE DEF more
    <3>5. info[e] \o more \in Seq(Ref)
      BY <1>2, <3>4, ConcatProperties DEF WorkType
    <3>6. info' \in [Slot -> Seq(Ref)]
      BY <3>1, <3>5 DEF WorkType
    <3>7. alloc' \in [Slot -> Seq(Seq(IdxEntry))]
      BY <3>1, <3>4 DEF WorkType
    <3>8. scratch' \in [Workers -> Seq(Block)]
      BY <3>1, <3>3 DEF WorkType
    <3> QED BY <3>6, <3>7, <3>8
  <2> QED BY <2>1, <2>2, <2>3
<1>4. WorkType'
  <2>1. /\ job' \in [Workers -> Slot \cup {Nil}] /\ ai' \in [Workers -> Nat \ {0}]
        /\ \A v \in Workers : job'[v] # Nil => ai'[v] <= Len(body[job'[v]].attrs)
    BY <1>1, NextAttrType
  <2> QED BY <1>1, <1>3, <2>1 DEF WorkType, linkVars, sizeVars
<1>5. Idle' /\ Linking'
  BY <1>1 DEF Idle, Linking, linkVars, sizeVars
<1> QED BY <1>4, <1>5

(* The links and parents are computed in one step each.                    *)
LEMMA LinkPoolInv == PoolInv /\ (CreateLinkedRecords \/ FindParentRecords) => WorkType' /\ Idle' /\ Linking'
PROOF
<1> SUFFICES ASSUME PoolInv, CreateLinkedRecords \/ FindParentRecords PROVE WorkType' /\ Idle' /\ Linking'
  OBVIOUS
<1> USE DEF PoolInv
<1>1. UNCHANGED <<full, area, head, body, job, ai, scratch, info, alloc, sizeVars>>
  BY DEF CreateLinkedRecords, FindParentRecords, inputs, nonresVars
<1>2. \A e : Targets(e)' = Targets(e) /\ LastLinker(e)' = LastLinker(e)
  BY <1>1, SameLinks
<1>3. \A e : GetRecord(head, body[e].fn)' = GetRecord(head, body[e].fn)
  BY <1>1 DEF GetRecord
<1>4. CASE CreateLinkedRecords
  <2>1. /\ phase = "link" /\ phase' \in {"parents", "done"} /\ ch' = ch /\ parent' = parent
        /\ linked' = [e \in Slot |-> Targets(e)] /\ origin' = [e \in Slot |-> LastLinker(e)]
    BY <1>4 DEF CreateLinkedRecords, LastLinker
  <2>2. linked' \in [Slot -> Seq(Slot)] /\ origin' \in [Slot -> Slot \cup {Nil}]
    <3>1. LoadType /\ info \in [Slot -> Seq(Ref)]
      BY DEF LoadInv, WorkType
    <3>2. \A e \in Slot : Targets(e) \in Seq(Slot) /\ LastLinker(e) \in Slot \cup {Nil}
      BY <3>1, TargetsType, LastLinkerType
    <3> QED BY <2>1, <3>2
  <2>3. WorkType'
    BY <1>1, <2>1, <2>2 DEF WorkType, sizeVars
  <2>4. Idle'
    BY <1>1, <2>1 DEF Idle, sizeVars
  <2>5. Linking'
    BY <1>2, <2>1 DEF Linking
  <2> QED BY <2>3, <2>4, <2>5
<1>5. CASE FindParentRecords
  <2>1. /\ phase = "parents" /\ phase' = "sizes" /\ linked' = linked /\ origin' = origin
        /\ parent' = [e \in Slot |-> IF body[e].hasFn THEN GetRecord(head, body[e].fn) ELSE Nil]
        /\ ch' = [k \in 1 .. N |-> head[k - 1].entry]
    BY <1>5 DEF FindParentRecords
  <2>2. ch' \in Seq(Slot)
    <3>1. \A k \in 1 .. N : k - 1 \in Slot
      BY NAssumption DEF Slot
    <3>2. \A k \in 1 .. N : head[k - 1].entry \in Slot
      BY <3>1, EntrySlot
    <3> QED BY <2>1, <3>2, NAssumption
  <2>3. \A e \in Slot : GetRecord(head, body[e].fn) \in Slot \cup {Nil}
    <3> SUFFICES ASSUME NEW e \in Slot PROVE GetRecord(head, body[e].fn) \in Slot \cup {Nil}
      OBVIOUS
    <3>1. body[e].fn \in Ref
      BY DEF LoadInv, LoadType, RecordBody
    <3>2. body[e].fn.ref \in Nat /\ body[e].fn.seq \in SeqNo
      BY <3>1 DEF Ref
    <3>3. LoadType
      BY DEF LoadInv
    <3> QED BY <3>2, <3>3, Resolves
  <2>4. parent' \in [Slot -> Slot \cup {Nil}]
    BY <2>1, <2>3
  <2>5. WorkType'
    BY <1>1, <2>1, <2>2, <2>4 DEF WorkType, sizeVars
  <2>6. Idle'
    BY <1>1, <2>1 DEF Idle, sizeVars
  <2>7. Linking'
    BY <1>2, <1>3, <2>1 DEF Linking
  <2> QED BY <2>5, <2>6, <2>7
<1> QED BY <1>4, <1>5

(* The sizes pool: a folder's writes are taken, and each is done in two    *)
(* halves.                                                                 *)
LEMMA TakeFolderPoolInv == \A w \in Workers : PoolInv /\ TakeFolder(w) => WorkType' /\ Idle' /\ Linking'
PROOF
<1> SUFFICES ASSUME NEW w \in Workers, PoolInv, TakeFolder(w) PROVE WorkType' /\ Idle' /\ Linking'
  OBVIOUS
<1> USE DEF PoolInv
<1>1. /\ phase = "sizes" /\ phase' = "sizes" /\ todo[w] = <<>> /\ ch # <<>> /\ ch' = Tail(ch)
      /\ todo' = [todo EXCEPT ![w] = IF head[Head(ch)].folder THEN FolderWrites(Head(ch)) ELSE <<>>]
      /\ UNCHANGED <<full, area, head, body, nonresVars, linkVars, cur, lsize, psize>>
  BY DEF TakeFolder, inputs
<1>2. Head(ch) \in Slot /\ ch' \in Seq(Slot)
  BY <1>1, HeadTailProperties DEF WorkType
<1>3. FolderWrites(Head(ch)) \in Seq((SUBSET Write) \ {{}})
  BY <1>2, FolderWritesType DEF WorkType
<1>4. <<>> \in Seq((SUBSET Write) \ {{}})
  BY EmptySeq
<1>5. todo' \in [Workers -> Seq((SUBSET Write) \ {{}})] /\ \A v \in Workers \ {w} : todo'[v] = todo[v]
  <2> DEFINE S == (SUBSET Write) \ {{}}
  <2>1. FolderWrites(Head(ch)) \in Seq(S) /\ <<>> \in Seq(S) /\ todo \in [Workers -> Seq(S)]
    BY <1>3, <1>4 DEF WorkType
  <2> HIDE DEF S
  <2>2. todo' \in [Workers -> Seq(S)] /\ \A v \in Workers \ {w} : todo'[v] = todo[v]
    BY <1>1, <2>1
  <2> QED BY <2>2 DEF S
<1>6. cur[w] = NoWrite
  BY <1>1 DEF WorkType
<1>7. WorkType'
  BY <1>1, <1>2, <1>5, <1>6 DEF WorkType, nonresVars, linkVars
<1>8. Idle'
  BY <1>1 DEF Idle, nonresVars
<1>9. Linking'
  <2>1. \A e : Targets(e)' = Targets(e) /\ LastLinker(e)' = LastLinker(e) /\ GetRecord(head, body[e].fn)' = GetRecord(head, body[e].fn)
    BY <1>1, SameLinks DEF GetRecord, nonresVars
  <2> QED BY <1>1, <2>1 DEF Linking, linkVars
<1> QED BY <1>7, <1>8, <1>9

LEMMA SetI30LSizePoolInv == \A w \in Workers : PoolInv /\ SetI30LSize(w) => WorkType' /\ Idle' /\ Linking'
PROOF
<1> SUFFICES ASSUME NEW w \in Workers, PoolInv, SetI30LSize(w) PROVE WorkType' /\ Idle' /\ Linking'
  OBVIOUS
<1> USE DEF PoolInv
<1>1. PICK x \in Head(todo[w]) : cur' = [cur EXCEPT ![w] = x] /\ lsize' = [lsize EXCEPT ![x.slot] = x.l]
  BY DEF SetI30LSize
<1>2. /\ phase = "sizes" /\ phase' = "sizes" /\ todo[w] # <<>> /\ cur[w] = NoWrite
      /\ UNCHANGED <<full, area, head, body, ch, nonresVars, linkVars, todo, psize>>
  BY DEF SetI30LSize, inputs
<1>3. x \in Write
  <2>1. Head(todo[w]) \in (SUBSET Write) \ {{}}
    BY <1>2, HeadTailProperties DEF WorkType
  <2> QED BY <2>1
<1>4. x.slot \in Slot /\ x.l \in Sizes
  BY <1>3 DEF Write
<1>5. cur' \in [Workers -> Write \cup {NoWrite}] /\ cur'[w] = x /\ \A v \in Workers \ {w} : cur'[v] = cur[v]
  BY <1>1, <1>3 DEF WorkType
<1>6. lsize' \in [Slot -> Sizes]
  BY <1>1, <1>4 DEF WorkType
<1>7. WorkType'
  BY <1>2, <1>5, <1>6 DEF WorkType, nonresVars, linkVars
<1>8. Idle'
  BY <1>2 DEF Idle, nonresVars
<1>9. Linking'
  <2>1. \A e : Targets(e)' = Targets(e) /\ LastLinker(e)' = LastLinker(e) /\ GetRecord(head, body[e].fn)' = GetRecord(head, body[e].fn)
    BY <1>2, SameLinks DEF GetRecord, nonresVars
  <2> QED BY <1>2, <2>1 DEF Linking, linkVars
<1> QED BY <1>7, <1>8, <1>9

(* The writes of a worker after it completes cur[w].                       *)
LEMMA RestOfWrites ==
  ASSUME WorkType, NEW w \in Workers, SetI30PSize(w)
  PROVE  /\ cur[w] \in Write /\ todo[w] # <<>> /\ cur[w] \in Head(todo[w])
         /\ todo' \in [Workers -> Seq((SUBSET Write) \ {{}})]
         /\ \A v \in Workers \ {w} : todo'[v] = todo[v]
         /\ \A i \in DOMAIN todo'[w] : \A x \in todo'[w][i] : \E j \in DOMAIN todo[w] : x \in todo[w][j]
         /\ \A j \in DOMAIN todo[w] : \A x \in todo[w][j] :
              x = cur[w] \/ \E i \in DOMAIN todo'[w] : x \in todo'[w][i]
PROOF
<1> DEFINE S == (SUBSET Write) \ {{}}
           s == todo[w]
           rest == Head(s) \ {cur[w]}
           t == IF rest = {} THEN Tail(s) ELSE <<rest>> \o Tail(s)
<1>1. cur[w] \in Write /\ s # <<>> /\ cur[w] \in Head(s) /\ s \in Seq(S)
  BY DEF WorkType, SetI30PSize
<1>2. todo' = [todo EXCEPT ![w] = t] /\ todo \in [Workers -> Seq(S)]
  BY DEF SetI30PSize, WorkType
<1>3. /\ Head(s) \in S /\ Tail(s) \in Seq(S) /\ Len(Tail(s)) = Len(s) - 1 /\ Len(s) \in Nat /\ Len(s) >= 1
      /\ Head(s) = s[1] /\ \A i \in 1 .. Len(s) - 1 : Tail(s)[i] = s[i + 1]
      /\ DOMAIN s = 1 .. Len(s) /\ DOMAIN Tail(s) = 1 .. Len(s) - 1
  <2> HIDE DEF S
  <2>1. Head(s) \in S /\ Tail(s) \in Seq(S) /\ Len(Tail(s)) = Len(s) - 1
        /\ \A i \in 1 .. Len(Tail(s)) : Tail(s)[i] = s[i + 1]
    BY <1>1, HeadTailProperties
  <2>2. Len(s) \in Nat /\ Len(s) # 0 /\ DOMAIN s = 1 .. Len(s) /\ DOMAIN Tail(s) = 1 .. Len(Tail(s))
    BY <1>1, <2>1, LenProperties, EmptySeq
  <2> QED BY <2>1, <2>2
<1> HIDE DEF s
<1>4. CASE rest = {}
  <2>1. t = Tail(s)
    BY <1>4
  <2>2. \A i \in DOMAIN t : i + 1 \in DOMAIN s /\ t[i] = s[i + 1]
    <3> HIDE DEF t
    <3>1. DOMAIN t = 1 .. Len(s) - 1 /\ \A i \in 1 .. Len(s) - 1 : t[i] = s[i + 1]
      BY <1>3, <2>1
    <3> QED BY <1>3, <3>1
  <2>3. \A j \in DOMAIN s : j = 1 \/ (j - 1 \in DOMAIN t /\ t[j - 1] = s[j])
    <3> SUFFICES ASSUME NEW j \in DOMAIN s, j # 1 PROVE j - 1 \in DOMAIN t /\ t[j - 1] = s[j]
      OBVIOUS
    <3>1. j - 1 \in 1 .. Len(s) - 1 /\ (j - 1) + 1 = j
      BY <1>3
    <3> HIDE DEF t
    <3> QED BY <1>3, <2>1, <3>1
  <2>4. \A x \in s[1] : x = cur[w]
    BY <1>3, <1>4
  <2> HIDE DEF t, S
  <2>5. t \in Seq(S)
    BY <1>3, <2>1
  <2>6. todo' \in [Workers -> Seq(S)] /\ todo'[w] = t /\ \A v \in Workers \ {w} : todo'[v] = todo[v]
    BY <1>2, <2>5
  <2> QED BY <1>1, <2>2, <2>3, <2>4, <2>6 DEF S, s
<1>5. CASE rest # {}
  <2>1. t = <<rest>> \o Tail(s)
    BY <1>5
  <2>2. rest \in S
    BY <1>3, <1>5
  <2>3. \A x \in s[1] : x = cur[w] \/ x \in rest
    BY <1>3
  <2>4. rest \subseteq s[1]
    BY <1>3
  <2> HIDE DEF t, S, rest
  <2>5. <<rest>> \in Seq(S) /\ Len(<<rest>>) = 1 /\ <<rest>>[1] = rest
    BY <2>2
  <2>6. /\ t \in Seq(S) /\ Len(t) = Len(s)
        /\ \A i \in 1 .. Len(t) : t[i] = IF i <= 1 THEN <<rest>>[i] ELSE Tail(s)[i - 1]
    <3> DEFINE a == <<rest>>
               z == Tail(s)
    <3>1. a \in Seq(S) /\ z \in Seq(S) /\ Len(a) = 1 /\ Len(z) = Len(s) - 1 /\ Len(s) \in Nat
      BY <1>3, <2>5
    <3>2. t = a \o z
      BY <2>1
    <3> HIDE DEF a, z
    <3>3. a \o z \in Seq(S) /\ Len(a \o z) = Len(a) + Len(z)
          /\ \A i \in 1 .. Len(a) + Len(z) : (a \o z)[i] = IF i <= Len(a) THEN a[i] ELSE z[i - Len(a)]
      BY <3>1, ConcatProperties
    <3>4. Len(a) + Len(z) = Len(s)
      BY <3>1
    <3>5. /\ t \in Seq(S) /\ Len(t) = Len(s)
          /\ \A i \in 1 .. Len(t) : t[i] = IF i <= 1 THEN a[i] ELSE z[i - 1]
      BY <3>1, <3>2, <3>3, <3>4, Zenon
    <3> QED BY <3>5 DEF a, z
  <2>7. DOMAIN t = 1 .. Len(s)
    BY <2>6, LenProperties
  <2>8. t[1] = rest /\ \A i \in 2 .. Len(s) : t[i] = s[i]
    <3>1. t[1] = rest
      BY <1>3, <2>5, <2>6
    <3>2. ASSUME NEW i \in 2 .. Len(s) PROVE t[i] = s[i]
      <4>1. t[i] = Tail(s)[i - 1] /\ i - 1 \in 1 .. Len(s) - 1 /\ (i - 1) + 1 = i
        BY <1>3, <2>6
      <4> QED BY <1>3, <4>1
    <3> QED BY <3>1, <3>2
  <2>9. \A i \in DOMAIN t : i \in DOMAIN s /\ t[i] \subseteq s[i]
    BY <1>3, <2>4, <2>7, <2>8
  <2>10. \A j \in DOMAIN s : \A x \in s[j] : x = cur[w] \/ (j \in DOMAIN t /\ x \in t[j])
    BY <1>3, <2>3, <2>7, <2>8
  <2>11. todo' \in [Workers -> Seq(S)] /\ todo'[w] = t /\ \A v \in Workers \ {w} : todo'[v] = todo[v]
    BY <1>2, <2>6
  <2> QED BY <1>1, <2>9, <2>10, <2>11 DEF S, s
<1> QED BY <1>4, <1>5

LEMMA SetI30PSizePoolInv == \A w \in Workers : PoolInv /\ SetI30PSize(w) => WorkType' /\ Idle' /\ Linking'
PROOF
<1> SUFFICES ASSUME NEW w \in Workers, PoolInv, SetI30PSize(w) PROVE WorkType' /\ Idle' /\ Linking'
  OBVIOUS
<1> USE DEF PoolInv
<1>1. /\ phase = "sizes" /\ phase' = "sizes"
      /\ psize' = [psize EXCEPT ![cur[w].slot] = cur[w].p] /\ cur' = [cur EXCEPT ![w] = NoWrite]
      /\ UNCHANGED <<full, area, head, body, ch, nonresVars, linkVars, lsize>>
  BY DEF SetI30PSize, inputs
<1>2. /\ cur[w] \in Write /\ todo' \in [Workers -> Seq((SUBSET Write) \ {{}})]
      /\ \A v \in Workers \ {w} : todo'[v] = todo[v]
  BY RestOfWrites
<1>3. cur[w].slot \in Slot /\ cur[w].p \in Sizes
  BY <1>2 DEF Write
<1>4. psize' \in [Slot -> Sizes]
  BY <1>1, <1>3 DEF WorkType
<1>5. cur' \in [Workers -> Write \cup {NoWrite}] /\ cur'[w] = NoWrite /\ \A v \in Workers \ {w} : cur'[v] = cur[v]
  BY <1>1 DEF WorkType
<1>6. WorkType'
  BY <1>1, <1>2, <1>4, <1>5 DEF WorkType, nonresVars, linkVars
<1>7. Idle'
  BY <1>1 DEF Idle, nonresVars
<1>8. Linking'
  <2>1. \A e : Targets(e)' = Targets(e) /\ LastLinker(e)' = LastLinker(e) /\ GetRecord(head, body[e].fn)' = GetRecord(head, body[e].fn)
    BY <1>1, SameLinks DEF GetRecord, nonresVars
  <2> QED BY <1>1, <2>1 DEF Linking, linkVars
<1> QED BY <1>6, <1>7, <1>8

(* Every step keeps the pools in order.                                    *)
LEMMA NextPoolInv == PoolInv /\ [Next]_vars => PoolInv'
PROOF
<1> SUFFICES ASSUME PoolInv, [Next]_vars PROVE PoolInv'
  OBVIOUS
<1>1. LoadInv'
  BY NextLoadInv DEF PoolInv
<1>2. WorkType' /\ Idle' /\ Linking'
  <2>1. CASE \E i \in Slot : Load(i)
    BY <2>1, LoadPoolInv
  <2>2. CASE ProcessNonResidentRecords \/ NonResidentDone \/ SizesDone
    BY <2>2, PhasePoolInv
  <2>3. CASE \E w \in Workers : NonResident(w)
    BY <2>3, TakeRecordPoolInv, AttributePoolInv DEF NonResident
  <2>4. CASE CreateLinkedRecords \/ FindParentRecords
    BY <2>4, LinkPoolInv
  <2>5. CASE \E w \in Workers : FileSizes(w)
    BY <2>5, TakeFolderPoolInv, SetI30LSizePoolInv, SetI30PSizePoolInv DEF FileSizes
  <2>6. CASE UNCHANGED vars
    <3>1. UNCHANGED <<phase, full, area, head, body, ch, job, ai, scratch, info, alloc, linked, origin, parent,
                      todo, cur, lsize, psize>>
      BY <2>6 DEF vars, inputs, nonresVars, linkVars, sizeVars
    <3>2. \A e : Targets(e)' = Targets(e) /\ LastLinker(e)' = LastLinker(e) /\ GetRecord(head, body[e].fn)' = GetRecord(head, body[e].fn)
      BY <3>1, SameLinks DEF GetRecord
    <3>3. WorkType'
      BY <3>1 DEF PoolInv, WorkType
    <3> QED BY <3>1, <3>2, <3>3 DEF PoolInv, Idle, Linking
  <2> QED BY <2>1, <2>2, <2>3, <2>4, <2>5, <2>6 DEF Next, Returned
<1> QED BY <1>1, <1>2 DEF PoolInv

LEMMA PoolInvariance == Spec => []PoolInv
PROOF BY InitPoolInv, NextPoolInv, PTL DEF Spec

(* Every variable stays in its range: the entry numbers handed to a pool   *)
(* and the slots of links and sizes are slots of the table, so the code's  *)
(* Records[idx] is never out of bounds (Table.go:86, 120, 173).            *)
THEOREM TypeOKHolds == Spec => []TypeOK
PROOF
<1>1. PoolInv => TypeOK
  <2> SUFFICES ASSUME PoolInv PROVE TypeOK
    OBVIOUS
  <2> QED BY DEF PoolInv, LoadInv, LoadType, WorkType, TypeOK
<1> QED BY <1>1, PoolInvariance, PTL
-----------------------------------------------------------------------------
(* Record e links t as often as it lists t with a reference that resolves, *)
(* unless t is e itself, and then t has an origin, the last lister.        *)
LEMMA LinkedCount ==
  ASSUME PoolInv, phase \in {"parents", "sizes", "done"}, NEW e \in Slot, NEW t \in Slot,
         NEW listed, listed = Listed(e, t)
  PROVE  /\ Cardinality({k \in DOMAIN linked[e] : linked[e][k] = t}) =
              IF t = head[e].entry THEN 0 ELSE Cardinality(listed)
         /\ listed # {} /\ t # head[e].entry => origin[t] # Nil /\ e <= origin[t] /\ t \in Range(linked[origin[t]])
PROOF
<1> DEFINE s == info[e]
           T == LinkRefs(e)
           K == Keep(s, T)
           A == {r \in Ref : r.ref = t}
<1>1. s \in Seq(Ref) /\ LoadType /\ info \in [Slot -> Seq(Ref)]
  BY DEF PoolInv, WorkType, LoadInv
<1>2. \A b \in Slot : linked[b] = Targets(b) /\ origin[b] = LastLinker(b)
  BY DEF PoolInv, Linking
<1>3. /\ DOMAIN linked[e] = DOMAIN K
      /\ \A k \in DOMAIN linked[e] : linked[e][k] = K[k].ref /\ K[k] \in T
  BY <1>1, <1>2, TargetsType
<1>4. \A i \in DOMAIN s : s[i] \in Ref
  <2> HIDE DEF s
  <2> QED BY <1>1, LenProperties, ElementOfSeq
<1>5. T \subseteq Ref /\ \A r \in Ref : r \in T <=> r.ref # head[e].entry /\ GetRecord(head, r) # Nil
  BY DEF LinkRefs
<1> HIDE DEF s, T
<1>6. Cardinality(Where(K, A)) = Cardinality(Where(s, T \cap A))
  <2> HIDE DEF A
  <2> QED BY <1>1, KeepCount
<1>7. Range(K) = Range(s) \cap T
  BY <1>1, KeepRange
<1> HIDE DEF K
<1>8. {k \in DOMAIN linked[e] : linked[e][k] = t} = Where(K, A)
  BY <1>3, <1>5 DEF Where
<1>9. t # head[e].entry => Where(s, T \cap A) = listed
  BY <1>4, <1>5 DEF s, Where, Listed
<1>10. t = head[e].entry => Where(s, T \cap A) = {}
  BY <1>5 DEF Where
<1>11. ASSUME listed # {}, t # head[e].entry
       PROVE  origin[t] # Nil /\ e <= origin[t] /\ t \in Range(linked[origin[t]])
  <2>1. PICK i \in DOMAIN s : s[i].ref = t /\ GetRecord(head, s[i]) # Nil
    BY <1>11 DEF s, Listed
  <2>2. s[i] \in Range(K)
    BY <1>4, <1>5, <1>7, <1>11, <2>1 DEF Range
  <2>3. PICK k \in DOMAIN K : K[k] = s[i]
    BY <2>2 DEF Range
  <2>4. k \in DOMAIN Targets(e) /\ Targets(e)[k] = t
    BY <1>2, <1>3, <2>1, <2>3
  <2>5. \A b \in Slot : DOMAIN Targets(b) = 1 .. Len(Targets(b))
    <3> SUFFICES ASSUME NEW b \in Slot PROVE DOMAIN Targets(b) = 1 .. Len(Targets(b))
      OBVIOUS
    <3>1. Targets(b) \in Seq(Slot)
      BY <1>1, TargetsType
    <3> QED BY <3>1, LenProperties
  <2>6. e \in Linkers(t)
    BY <2>4, <2>5 DEF Linkers
  <2>7. LastLinker(t) \in Linkers(t) /\ e <= LastLinker(t)
    BY <2>6, LastLinkerType
  <2>8. PICK b \in Slot : b = LastLinker(t) /\ \E j \in 1 .. Len(Targets(b)) : Targets(b)[j] = t
    BY <2>7 DEF Linkers
  <2>9. b # Nil
    BY NAssumption DEF Slot, Nil
  <2>10. t \in Range(Targets(b))
    BY <2>5, <2>8 DEF Range
  <2> QED BY <1>2, <2>7, <2>8, <2>9, <2>10
<1>12. Cardinality({}) = 0
  BY FS_EmptySet
<1> QED BY <1>6, <1>8, <1>9, <1>10, <1>11, <1>12

(* Whatever a record links is filled, resolves, and is listed.             *)
LEMMA LinkedResolves ==
  ASSUME PoolInv, NEW e \in Slot, NEW k \in 1 .. Len(linked[e]), NEW t, t = linked[e][k]
  PROVE  /\ t # head[e].entry
         /\ t # 0 => \E i \in sel : area[i].sig = "FILE" /\ Claims(i) = t
         /\ \E r \in Range(info[e]) : r.ref = t /\ (head[t].seq - r.seq) % 65536 \in {0, 1}
PROOF
<1> DEFINE K == Keep(info[e], LinkRefs(e))
<1>1. info[e] \in Seq(Ref) /\ LoadType /\ info \in [Slot -> Seq(Ref)] /\ LoadInv
  BY DEF PoolInv, WorkType, LoadInv
<1>2. linked[e] = Targets(e)
  <2>1. linked[e] # <<>>
    <3>1. Len(<<>>) = 0
      BY EmptySeq
    <3> QED BY <3>1
  <2> QED BY <2>1 DEF PoolInv, Linking
<1>3. k \in DOMAIN linked[e]
  <2>1. linked[e] \in Seq(Slot)
    BY DEF PoolInv, WorkType
  <2> QED BY <2>1, LenProperties
<1>4. /\ K[k] \in LinkRefs(e) /\ t = K[k].ref /\ k \in DOMAIN K
  BY <1>1, <1>2, <1>3, TargetsType
<1>5. Range(K) = Range(info[e]) \cap LinkRefs(e)
  BY <1>1, KeepRange
<1> HIDE DEF K
<1> DEFINE r == K[k]
<1>6. r \in Range(info[e])
  BY <1>4, <1>5 DEF Range
<1>7. r \in Ref /\ r.ref # head[e].entry /\ GetRecord(head, r) # Nil /\ r.ref = t
  BY <1>4 DEF LinkRefs
<1> HIDE DEF r
<1>8. r.ref \in Nat /\ r.seq \in SeqNo
  BY <1>7 DEF Ref
<1>9. r.ref \in Slot /\ head[r.ref].entry = r.ref /\ (head[r.ref].seq - r.seq) % 65536 \in {0, 1}
  BY <1>1, <1>7, <1>8, Resolves
<1>10. t # 0 => \E i \in sel : area[i].sig = "FILE" /\ Claims(i) = t
  BY <1>1, <1>7, <1>9, EntrySlot
<1> QED BY <1>6, <1>7, <1>9, <1>10

(* LinkedRecords and Parent never point at a slot without a record (slot 0 *)
(* apart) nor at one reused more than once; a record is linked as often as *)
(* it is listed, and its origin is the last record that lists it           *)
(* (CreateLinkedRecords, FindParentRecords, GetRecord).                    *)
THEOREM NoDanglingLinksHolds == Spec => []NoDanglingLinks
PROOF
<1>1. PoolInv => NoDanglingLinks
  <2> SUFFICES ASSUME PoolInv, NEW e \in Slot
               PROVE  LinkedAsListed(e) /\ LinksResolve(e) /\ ParentResolves(e)
    BY DEF NoDanglingLinks
  <2>1. LinkedAsListed(e)
    BY LinkedCount DEF LinkedAsListed
  <2>2. LinksResolve(e)
    BY LinkedResolves DEF LinksResolve, Filled
  <2>3. ParentResolves(e)
    <3> DEFINE t == parent[e]
               r == body[e].fn
    <3> SUFFICES ASSUME t # Nil PROVE Filled(t) /\ (head[t].seq - r.seq) % 65536 \in {0, 1}
      BY DEF ParentResolves
    <3>1. t = GetRecord(head, r)
      BY DEF PoolInv, Linking
    <3>2. r \in Ref /\ LoadType /\ LoadInv
      BY DEF PoolInv, LoadInv, LoadType, RecordBody
    <3> HIDE DEF t, r
    <3>3. r.ref \in Nat /\ r.seq \in SeqNo
      BY <3>2 DEF Ref
    <3>4. r.ref \in Slot /\ t = r.ref /\ head[r.ref].entry = r.ref /\ (head[r.ref].seq - r.seq) % 65536 \in {0, 1}
      BY <3>1, <3>2, <3>3, Resolves DEF t
    <3>5. Filled(t)
      BY <3>2, <3>4, EntrySlot DEF Filled
    <3> QED BY <3>4, <3>5 DEF t, r
  <2> QED BY <2>1, <2>2, <2>3
<1> QED BY <1>1, PoolInvariance, PTL
-----------------------------------------------------------------------------
(* An attribute waits until its record is taken and the worker gets to it. *)
LEMMA PendingStart ==
  ASSUME ProcessNonResidentRecords, NEW e \in Slot, NEW k
  PROVE  Pending(e, k)'
PROOF
<1>1. phase' = "nonres" /\ ch' = [i \in 1 .. N |-> i - 1]
  BY DEF ProcessNonResidentRecords
<1>2. e + 1 \in 1 .. N /\ (e + 1) - 1 = e
  BY NAssumption DEF Slot
<1>3. e + 1 \in DOMAIN ch' /\ ch'[e + 1] = e
  BY <1>1, <1>2
<1>4. e \in Range(ch')
  BY <1>3 DEF Range
<1> QED BY <1>1, <1>4 DEF Pending

LEMMA PendingTake ==
  ASSUME PoolInv, NEW w \in Workers, TakeRecord(w), NEW e \in Slot, NEW k \in 1 .. Len(body[e].attrs),
         Pending(e, k)
  PROVE  Pending(e, k)'
PROOF
<1>1. /\ phase = "nonres" /\ phase' = "nonres" /\ ch # <<>> /\ ch' = Tail(ch) /\ job[w] = Nil
      /\ job' = [job EXCEPT ![w] = IF body[Head(ch)].attrs = <<>> THEN Nil ELSE Head(ch)]
      /\ ai' = [ai EXCEPT ![w] = 1]
  BY DEF TakeRecord
<1>2. ch \in Seq(Slot) /\ job \in [Workers -> Slot \cup {Nil}] /\ ai \in [Workers -> Nat \ {0}]
  BY DEF PoolInv, WorkType
<1>3. CASE \E v \in Workers : job[v] = e /\ ai[v] <= k
  <2>1. PICK v \in Workers : job[v] = e /\ ai[v] <= k
    BY <1>3
  <2>2. v # w
    BY <1>1, <2>1, NAssumption DEF Slot, Nil
  <2>3. job'[v] = e /\ ai'[v] = ai[v]
    BY <1>1, <1>2, <2>1, <2>2
  <2> QED BY <1>1, <2>1, <2>3 DEF Pending
<1>4. CASE e \in Range(ch)
  <2>1. Range(ch) = {Head(ch)} \cup Range(Tail(ch))
    BY <1>1, <1>2, HeadTailRange
  <2>2. CASE e = Head(ch)
    <3>1. body[e].attrs # <<>>
      <4>1. Len(<<>>) = 0
        BY EmptySeq
      <4> QED BY <4>1
    <3>2. job'[w] = e /\ ai'[w] = 1 /\ 1 <= k
      BY <1>1, <1>2, <2>2, <3>1
    <3> QED BY <1>1, <3>2 DEF Pending
  <2>3. CASE e \in Range(Tail(ch))
    BY <1>1, <2>3 DEF Pending
  <2> QED BY <1>4, <2>1, <2>2, <2>3
<1> QED BY <1>3, <1>4 DEF Pending

LEMMA PendingNext ==
  ASSUME PoolInv, NEW w \in Workers, NextAttr(w), job[w] # Nil, phase' = phase, ch' = ch,
         NEW e \in Slot, NEW k \in 1 .. Len(body[e].attrs), Pending(e, k)
  PROVE  Pending(e, k)' \/ (job[w] = e /\ ai[w] = k)
PROOF
<1>1. /\ \A v \in Workers \ {w} : job'[v] = job[v] /\ ai'[v] = ai[v]
      /\ \/ ai[w] = Len(body[job[w]].attrs) /\ job'[w] = Nil
         \/ ai[w] < Len(body[job[w]].attrs) /\ job'[w] = job[w] /\ ai'[w] = ai[w] + 1
  BY NextAttrType DEF PoolInv
<1>2. CASE e \in Range(ch)
  BY <1>2 DEF Pending
<1>3. CASE \E v \in Workers : job[v] = e /\ ai[v] <= k
  <2>1. PICK v \in Workers : job[v] = e /\ ai[v] <= k
    BY <1>3
  <2>2. CASE v # w
    BY <1>1, <2>1, <2>2 DEF Pending
  <2>3. CASE v = w
    <3> DEFINE n == Len(body[e].attrs)
               m == ai[w]
    <3>1. m \in Nat /\ n \in Int /\ k \in 1 .. n /\ m <= k
      BY <2>1, <2>3, BodyAttrs DEF PoolInv, WorkType
    <3>2. m = k \/ (m < k /\ m # n /\ m + 1 <= k)
      <4> HIDE DEF m, n
      <4> QED BY <3>1
    <3>3. m # n => job'[w] = e /\ ai'[w] = m + 1
      BY <1>1, <2>1, <2>3
    <3> QED BY <2>1, <2>3, <3>2, <3>3 DEF Pending
  <2> QED BY <2>2, <2>3
<1> QED BY <1>2, <1>3 DEF Pending

(* Nothing waits once the pool is through.                                 *)
LEMMA PendingEnd ==
  ASSUME PoolInv, NEW e \in Slot, NEW k
  PROVE  /\ phase # "nonres" => ~Pending(e, k)
         /\ ch = <<>> /\ (\A w \in Workers : job[w] = Nil) => ~Pending(e, k)
PROOF
<1>1. Range(<<>>) = {}
  BY EmptySeq DEF Range
<1>2. e # Nil
  BY NAssumption DEF Slot, Nil
<1> QED BY <1>1, <1>2 DEF Pending

(* The volume does not change.                                             *)
LEMMA SameDisk ==
  ASSUME area' = area, sel' = sel
  PROVE  DiskIndexEntries' = DiskIndexEntries /\ \A s : FromDisk(s)' = FromDisk(s)
PROOF BY DEF DiskIndexEntries, FromDisk

(* Whatever index entries a record in memory has were on the volume.       *)
LEMMA BodyFromDisk ==
  ASSUME LoadInv, NEW e \in Slot
  PROVE  /\ FromDisk(body[e].root)
         /\ \A k \in DOMAIN body[e].attrs : \A j \in DOMAIN body[e].attrs[k].blocks :
              FromDisk(body[e].attrs[k].blocks[j].idx)
PROOF
<1>1. Range(<<>>) = {} /\ DOMAIN <<>> = {}
  BY EmptySeq DEF Range
<1>2. CASE body[e] = EmptyBody
  BY <1>1, <1>2 DEF EmptyBody, FromDisk
<1>3. CASE \E i \in sel : body[e] = area[i].body
  <2>1. PICK i \in sel : body[e] = area[i].body
    BY <1>3
  <2>2. Range(area[i].body.root) \subseteq DiskIndexEntries
    BY DEF DiskIndexEntries
  <2>3. ASSUME NEW a \in Range(area[i].body.attrs), NEW b \in Range(a.blocks)
        PROVE  Range(b.idx) \subseteq DiskIndexEntries
    BY DEF DiskIndexEntries
  <2>4. ASSUME NEW k \in DOMAIN body[e].attrs, NEW j \in DOMAIN body[e].attrs[k].blocks
        PROVE  FromDisk(body[e].attrs[k].blocks[j].idx)
    <3>1. body[e].attrs[k] \in Range(area[i].body.attrs)
      BY <2>1 DEF Range
    <3>2. body[e].attrs[k].blocks[j] \in Range(body[e].attrs[k].blocks)
      BY DEF Range
    <3> QED BY <2>3, <3>1, <3>2 DEF FromDisk
  <2> QED BY <2>1, <2>2, <2>4 DEF FromDisk
<1> QED BY <1>2, <1>3 DEF LoadInv, SlotOwner, ProcessBody

(* Whatever a buffer held, it holds blocks of the volume after a read, and *)
(* what is parsed from it is from the volume too.                          *)
LEMMA OverlaidFromDisk ==
  ASSUME NEW s \in Seq(Block), NEW b \in Seq(Block), NEW k \in 0 .. Len(b),
         \A i \in DOMAIN s : FromDisk(s[i].idx), \A i \in DOMAIN b : FromDisk(b[i].idx),
         NEW u, u = Overlay(Grow(s, Len(b)), b, k)
  PROVE  \A i \in DOMAIN u : FromDisk(u[i].idx)
PROOF
<1>1. /\ u \in Seq(Block)
      /\ \A i \in 1 .. Len(u) : \/ i \in 1 .. Len(b) /\ u[i] = b[i]
                                \/ i \in 1 .. Len(s) /\ u[i] = s[i]
                                \/ u[i] = ZeroBlock
  BY Overlaid
<1>2. DOMAIN u = 1 .. Len(u) /\ DOMAIN b = 1 .. Len(b) /\ DOMAIN s = 1 .. Len(s)
  BY <1>1, LenProperties
<1>3. FromDisk(ZeroBlock.idx)
  BY EmptySeq DEF ZeroBlock, FromDisk, Range
<1> QED BY <1>1, <1>2, <1>3

(* An element of one sequence is one of all of them.                       *)
LEMMA OneOfAll == \A f : \A i \in DOMAIN f : Range(f[i]) \subseteq UNION {Range(f[j]) : j \in DOMAIN f}
PROOF OBVIOUS

(* A complete read brings every readable block of the attribute.           *)
LEMMA ParsedBlocks ==
  ASSUME NEW s \in Seq(Block), NEW b \in Seq(Block), NEW u, u = Overlay(Grow(s, Len(b)), b, Len(b))
  PROVE  \A j \in IndexBlocks(b) : j \in DOMAIN ParseIndex(u) /\ ParseIndex(u)[j] = b[j].idx
PROOF
<1> SUFFICES ASSUME NEW j \in IndexBlocks(b)
             PROVE  j \in DOMAIN ParseIndex(u) /\ ParseIndex(u)[j] = b[j].idx
  OBVIOUS
<1>1. Len(b) \in 0 .. Len(b)
  BY LenProperties
<1>2. /\ u \in Seq(Block) /\ Len(u) \in Nat /\ Len(b) \in Nat /\ Len(b) <= Len(u)
      /\ \A i \in 1 .. Len(b) : i \in 1 .. Len(u) /\ u[i] = b[i]
  BY <1>1, Overlaid
<1>3. j \in 1 .. Len(b) /\ \A i \in 1 .. j : b[i].indx
  BY DEF IndexBlocks
<1>4. \A i \in 1 .. j : i \in 1 .. Len(b) /\ u[i].indx
  BY <1>2, <1>3
<1>5. IndexStop(u) \in 1 .. Len(u) + 1 /\ (IndexStop(u) <= Len(u) => ~u[IndexStop(u)].indx)
  BY <1>2, IndexStops
<1>6. j < IndexStop(u)
  <2> SUFFICES ASSUME IndexStop(u) \in 1 .. j PROVE FALSE
    BY <1>3, <1>5
  <2> QED BY <1>2, <1>3, <1>4, <1>5
<1>7. j \in 1 .. IndexStop(u) - 1
  BY <1>3, <1>5, <1>6
<1>8. j \in DOMAIN ParseIndex(u) /\ ParseIndex(u)[j] = u[j].idx
  BY <1>2, <1>7, ParseIndexType
<1> QED BY <1>2, <1>3, <1>8

(* Only the first index attribute of a record counts.                      *)
LEMMA OneIndex ==
  ASSUME LoadInv, NEW e \in Slot
  PROVE  \A j, k \in IndexAttrs(e) : j = k
PROOF
<1>1. Len(body[e].attrs) \in Int
  BY BodyAttrs
<1> SUFFICES ASSUME NEW j \in IndexAttrs(e), NEW k \in IndexAttrs(e), j < k PROVE FALSE
  BY <1>1 DEF IndexAttrs
<1>2. j \in 1 .. k - 1 /\ body[e].attrs[j].type = "index"
  BY <1>1 DEF IndexAttrs, IsFirstIndex
<1> QED BY <1>2 DEF IndexAttrs, IsFirstIndex

LEMMA InitIndexInv == Init => IndexInv
PROOF
<1> SUFFICES ASSUME Init PROVE IndexInv
  OBVIOUS
<1>1. PoolInv
  BY InitPoolInv
<1>2. FromDisk(ZeroBlock.idx) /\ DOMAIN <<>> = {}
  BY EmptySeq DEF ZeroBlock, FromDisk, Range
<1>3. Buffers
  BY <1>2 DEF Init, Buffers
<1>4. IndexRead
  BY DEF Init, IndexRead
<1> QED BY <1>1, <1>3, <1>4 DEF IndexInv

(* Reading and parsing an attribute.                                       *)
LEMMA AttributeIndexInv ==
  \A w \in Workers : IndexInv /\ (SkipAttribute(w) \/ ReadFails(w) \/ ParseAttribute(w)) => Buffers' /\ IndexRead'
PROOF
<1> SUFFICES ASSUME NEW w \in Workers, IndexInv, SkipAttribute(w) \/ ReadFails(w) \/ ParseAttribute(w)
             PROVE  Buffers' /\ IndexRead'
  OBVIOUS
<1> USE DEF IndexInv
<1> DEFINE e == job[w]
           a == body[e].attrs[ai[w]]
           b == a.blocks
<1>1. /\ phase = "nonres" /\ phase' = "nonres" /\ e # Nil /\ NextAttr(w)
      /\ UNCHANGED <<area, sel, head, body, ch>>
  BY DEF SkipAttribute, ReadFails, ParseAttribute, inputs
<1>2. \A s : FromDisk(s)' = FromDisk(s)
  BY <1>1, SameDisk
<1>3. /\ e \in Slot /\ ai[w] \in 1 .. Len(body[e].attrs) /\ b \in Seq(Block) /\ scratch[w] \in Seq(Block)
      /\ (\A i \in DOMAIN b : FromDisk(b[i].idx)) /\ \A i \in DOMAIN scratch[w] : FromDisk(scratch[w][i].idx)
  <2>1. /\ e \in Slot /\ ai[w] \in 1 .. Len(body[e].attrs) /\ b \in Seq(Block) /\ scratch[w] \in Seq(Block)
        /\ ai[w] \in DOMAIN body[e].attrs
    BY <1>1, ReadType
  <2>2. \A i \in DOMAIN b : FromDisk(b[i].idx)
    BY <2>1, BodyFromDisk DEF PoolInv
  <2>3. \A i \in DOMAIN scratch[w] : FromDisk(scratch[w][i].idx)
    BY DEF Buffers
  <2> QED BY <2>1, <2>2, <2>3
<1>4. /\ scratch \in [Workers -> Seq(Block)] /\ alloc \in [Slot -> Seq(Seq(IdxEntry))]
  BY DEF PoolInv, WorkType
<1>5. \A f \in Slot : IndexAttrs(f)' = IndexAttrs(f) /\ \A k : BlockEntries(f, k)' = BlockEntries(f, k)
  BY <1>1 DEF IndexAttrs, BlockEntries
<1>6. \A f \in Slot : \A k \in IndexAttrs(f) : Pending(f, k) => Pending(f, k)' \/ (job[w] = f /\ ai[w] = k)
  <2>1. \A f \in Slot : \A k \in IndexAttrs(f) : k \in 1 .. Len(body[f].attrs)
    BY DEF IndexAttrs
  <2> QED BY <1>1, <2>1, PendingNext
<1>7. CASE SkipAttribute(w) \/ ReadFails(w)
  <2>1. alloc' = alloc /\ (Skipped(a, head[e].entry) \/ ~a.ok)
    BY <1>7 DEF SkipAttribute, ReadFails
  <2>2. Buffers'
    <3>1. CASE scratch' = scratch
      BY <1>2, <2>1, <3>1 DEF Buffers
    <3>2. CASE ReadFails(w)
      <4>1. PICK k \in 0 .. Len(b) : scratch' = [scratch EXCEPT ![w] = Overlay(Grow(@, Len(b)), b, k)]
        BY <3>2 DEF ReadFails
      <4> DEFINE u == Overlay(Grow(scratch[w], Len(b)), b, k)
      <4>2. \A i \in DOMAIN u : FromDisk(u[i].idx)
        BY <1>3, OverlaidFromDisk
      <4> HIDE DEF u
      <4>3. scratch' = [scratch EXCEPT ![w] = u]
        BY <4>1 DEF u
      <4>4. \A v \in Workers : scratch'[v] = u \/ scratch'[v] = scratch[v]
        BY <1>4, <4>3
      <4> QED BY <1>2, <2>1, <4>2, <4>4 DEF Buffers
    <3> QED BY <1>7, <3>1, <3>2 DEF SkipAttribute
  <2>3. ~(ai[w] \in IndexAttrs(e))
    BY <2>1 DEF IndexAttrs, Skipped, IsFirstIndex
  <2>4. \A f \in Slot : Chunks(f)' = Chunks(f)
    BY <2>1 DEF Chunks
  <2>5. IndexRead'
    BY <1>1, <1>5, <1>6, <2>3, <2>4 DEF IndexRead
  <2> QED BY <2>2, <2>5
<1>8. CASE ParseAttribute(w)
  <2> DEFINE u == Overlay(Grow(scratch[w], Len(b)), b, Len(b))
             isIndex == IsFirstIndex(body[e].attrs, ai[w])
  <2>1. /\ scratch' = [scratch EXCEPT ![w] = u] /\ ~Skipped(a, head[e].entry) /\ a.ok
        /\ alloc' = IF isIndex THEN [alloc EXCEPT ![e] = ParseIndex(u)] ELSE alloc
    BY <1>8 DEF ParseAttribute
  <2>2. Len(b) \in 0 .. Len(b)
    BY <1>3, LenProperties
  <2>3. (\A i \in DOMAIN u : FromDisk(u[i].idx)) /\ u \in Seq(Block)
    <3>1. \A i \in DOMAIN u : FromDisk(u[i].idx)
      BY <1>3, <2>2, OverlaidFromDisk
    <3>2. u \in Seq(Block)
      BY <1>3, <2>2, Overlaid
    <3> QED BY <3>1, <3>2
  <2>4. \A j \in IndexBlocks(b) : j \in DOMAIN ParseIndex(u) /\ ParseIndex(u)[j] = b[j].idx
    BY <1>3, ParsedBlocks
  <2> HIDE DEF u
  <2>5. \A i \in DOMAIN ParseIndex(u) : FromDisk(ParseIndex(u)[i])
    BY <2>3, ParseIndexType
  <2>6. \A v \in Workers : scratch'[v] = u \/ scratch'[v] = scratch[v]
    BY <1>4, <2>1
  <2>7. \A f \in Slot : alloc'[f] = alloc[f] \/ (f = e /\ isIndex /\ alloc'[f] = ParseIndex(u))
    BY <1>3, <1>4, <2>1
  <2>8. Buffers'
    BY <1>2, <2>3, <2>5, <2>6, <2>7 DEF Buffers
  <2>9. isIndex => ai[w] \in IndexAttrs(e) /\ alloc'[e] = ParseIndex(u)
    BY <1>3, <1>4, <2>1 DEF IndexAttrs, Skipped, IsFirstIndex
  <2>10. ai[w] \in IndexAttrs(e) => isIndex
    BY DEF IndexAttrs
  <2>11. \A f : f = e /\ isIndex => BlockEntries(f, ai[w]) \subseteq Chunks(f)'
    <3> SUFFICES ASSUME NEW f, f = e, isIndex, NEW j \in IndexBlocks(b), NEW x \in Range(b[j].idx)
                 PROVE  x \in Chunks(f)'
      BY DEF BlockEntries
    <3>1. j \in DOMAIN alloc'[e] /\ alloc'[e][j] = b[j].idx
      BY <2>4, <2>9
    <3> DEFINE c == alloc'[e]
               y == b[j].idx
    <3>2. j \in DOMAIN c /\ c[j] = y /\ x \in Range(y)
      BY <3>1
    <3> HIDE DEF c, y
    <3>3. x \in UNION {Range(c[i]) : i \in DOMAIN c}
      BY <3>2, OneOfAll
    <3>4. x \in UNION {Range(alloc'[f][i]) : i \in DOMAIN alloc'[f]}
      BY <3>3 DEF c
    <3> QED BY <3>4 DEF Chunks
  <2>12. ASSUME NEW f \in Slot, NEW k \in IndexAttrs(f)
         PROVE  Pending(f, k)' \/ BlockEntries(f, k) \subseteq Chunks(f)'
    <3>1. CASE f = e /\ isIndex
      <4>1. LoadInv /\ k \in IndexAttrs(f) /\ ai[w] \in IndexAttrs(f)
        BY <2>9, <2>12, <3>1 DEF PoolInv
      <4>2. k = ai[w]
        BY <4>1, OneIndex
      <4> QED BY <2>11, <3>1, <4>2
    <3>2. CASE ~(f = e /\ isIndex)
      <4>1. Chunks(f)' = Chunks(f)
        <5>1. alloc'[f] = alloc[f]
          BY <2>7, <3>2
        <5> QED BY <5>1 DEF Chunks
      <4>2. ~(job[w] = f /\ ai[w] = k)
        BY <2>10, <2>12, <3>2
      <4> QED BY <1>1, <1>6, <2>12, <4>1, <4>2 DEF IndexRead
    <3> QED BY <3>1, <3>2
  <2>13. IndexRead'
    BY <1>5, <2>12 DEF IndexRead
  <2> QED BY <2>8, <2>13
<1> QED BY <1>7, <1>8

(* A step that leaves the buffers and chunks alone leaves them so.         *)
LEMMA BuffersKept ==
  ASSUME Buffers, UNCHANGED <<area, sel, scratch, alloc>>
  PROVE  Buffers'
PROOF
<1>1. \A s : FromDisk(s)' = FromDisk(s)
  BY SameDisk
<1> QED BY <1>1 DEF Buffers

LEMMA NextIndexInv == IndexInv /\ [Next]_vars => IndexInv'
PROOF
<1> SUFFICES ASSUME IndexInv, [Next]_vars PROVE IndexInv'
  OBVIOUS
<1> USE DEF IndexInv
<1>1. PoolInv'
  BY NextPoolInv
<1>2. Buffers' /\ IndexRead'
  <2>0. ASSUME UNCHANGED <<body, alloc>>
        PROVE  \A e : /\ IndexAttrs(e)' = IndexAttrs(e) /\ Chunks(e)' = Chunks(e)
                      /\ \A k : BlockEntries(e, k)' = BlockEntries(e, k)
    BY <2>0 DEF IndexAttrs, Chunks, BlockEntries
  <2>1. CASE \E i \in Slot : Load(i)
    <3>1. UNCHANGED <<area, sel, scratch, alloc>> /\ phase' = "load"
      BY <2>1 DEF Load, MFTWorkerReturn, MFTWorkerRefuse, MFTWorkerCount, MFTWorkerStoreHead, MFTWorkerStoreBody,
         inputs, nonresVars
    <3> QED BY <3>1, BuffersKept DEF IndexRead
  <2>2. CASE ProcessNonResidentRecords
    <3>1. UNCHANGED <<area, sel, scratch, alloc>>
      BY <2>2 DEF ProcessNonResidentRecords, inputs, nonresVars
    <3>2. IndexRead'
      BY <2>2, PendingStart DEF IndexRead
    <3> QED BY <3>1, <3>2, BuffersKept
  <2>3. ASSUME NEW w \in Workers, NonResident(w) PROVE Buffers' /\ IndexRead'
    <3>1. CASE TakeRecord(w)
      <4>1. UNCHANGED <<area, sel, body, scratch, alloc>> /\ phase = "nonres"
        BY <3>1 DEF TakeRecord, inputs
      <4>2. \A e \in Slot : \A k \in IndexAttrs(e) : k \in 1 .. Len(body[e].attrs)
        BY DEF IndexAttrs
      <4>3. \A e \in Slot : \A k \in IndexAttrs(e) : Pending(e, k) => Pending(e, k)'
        BY <3>1, <4>2, PendingTake
      <4>4. IndexRead'
        BY <2>0, <4>1, <4>3 DEF IndexRead
      <4> QED BY <4>1, <4>4, BuffersKept
    <3> QED BY <2>3, <3>1, AttributeIndexInv DEF NonResident
  <2>4. CASE NonResidentDone
    <3>1. UNCHANGED <<area, sel, body, scratch, alloc>> /\ phase = "nonres" /\ ch = <<>> /\ \A w \in Workers : job[w] = Nil
      BY <2>4 DEF NonResidentDone, inputs, nonresVars
    <3>2. \A e \in Slot : \A k : ~Pending(e, k)
      BY <3>1, PendingEnd
    <3>3. IndexRead'
      BY <2>0, <3>1, <3>2 DEF IndexRead
    <3> QED BY <3>1, <3>3, BuffersKept
  <2>5. ASSUME UNCHANGED <<area, sel, body, scratch, alloc>>, phase \in {"link", "parents", "sizes"}
        PROVE  Buffers' /\ IndexRead'
    <3>1. \A e \in Slot : \A k : ~Pending(e, k)
      BY <2>5, PendingEnd
    <3>2. IndexRead'
      BY <2>0, <2>5, <3>1 DEF IndexRead
    <3> QED BY <2>5, <3>2, BuffersKept
  <2>6. CASE CreateLinkedRecords \/ FindParentRecords \/ SizesDone
    <3>1. UNCHANGED <<area, sel, body, scratch, alloc>> /\ phase \in {"link", "parents", "sizes"}
      BY <2>6 DEF CreateLinkedRecords, FindParentRecords, SizesDone, inputs, nonresVars
    <3> QED BY <2>5, <3>1
  <2>7. CASE \E w \in Workers : FileSizes(w)
    <3>1. UNCHANGED <<area, sel, body, scratch, alloc>> /\ phase \in {"link", "parents", "sizes"}
      BY <2>7 DEF FileSizes, TakeFolder, SetI30LSize, SetI30PSize, inputs, nonresVars, PoolInv, Idle, WorkType
    <3> QED BY <2>5, <3>1
  <2>8. CASE UNCHANGED vars
    <3>1. UNCHANGED <<area, sel, body, scratch, alloc, phase, ch, job, ai>>
      BY <2>8 DEF vars, inputs, nonresVars
    <3>2. \A e, k : Pending(e, k)' = Pending(e, k)
      BY <3>1 DEF Pending
    <3>3. IndexRead'
      BY <2>0, <3>1, <3>2 DEF IndexRead
    <3> QED BY <3>1, <3>3, BuffersKept
  <2> QED BY <2>1, <2>2, <2>3, <2>4, <2>6, <2>7, <2>8 DEF Next, Returned
<1> QED BY <1>1, <1>2
-----------------------------------------------------------------------------
(* Every size a folder's writes carry is that of an index entry on the     *)
(* volume for a file with a current reference.                             *)
LEMMA CheckSound ==
  ASSUME IndexInv, NEW e \in Slot
  PROVE  \A s \in Range(CheckAndSetI30Size(e)) : \A z \in s : Sound(z)
PROOF
<1>1. LoadType /\ LoadInv /\ alloc \in [Slot -> Seq(Seq(IdxEntry))]
  BY DEF IndexInv, PoolInv, LoadInv, WorkType
<1>2. body[e].root \in Seq(IdxEntry) /\ FromDisk(body[e].root)
  BY <1>1, BodyFromDisk DEF LoadType, RecordBody
<1>3. \A i \in DOMAIN alloc[e] : alloc[e][i] \in Seq(IdxEntry) /\ FromDisk(alloc[e][i])
  <2>1. alloc[e] \in Seq(Seq(IdxEntry))
    BY <1>1
  <2>2. \A i \in DOMAIN alloc[e] : alloc[e][i] \in Seq(IdxEntry)
    BY <2>1, LenProperties, ElementOfSeq
  <2> QED BY <2>2 DEF IndexInv, Buffers
<1>4. \A q \in Seq(IdxEntry) : FromDisk(q) => \A z \in SizeWrites(q) : Sound(z)
  <2> SUFFICES ASSUME NEW q \in Seq(IdxEntry), FromDisk(q), NEW z \in SizeWrites(q) PROVE Sound(z)
    OBVIOUS
  <2>1. PICK x \in Range(q) : GetRecord(head, x) = z.slot /\ x.lsize = z.l /\ x.psize = z.p /\ ~head[z.slot].folder
    BY <1>1, SizeWritesType
  <2>2. x \in DiskIndexEntries
    BY DEF FromDisk
  <2> QED BY <2>1, <2>2 DEF Sound
<1>5. Range(CheckAndSetI30Size(e)) = {SizeWrites(body[e].root)} \cup {SizeWrites(alloc[e][i]) : i \in DOMAIN alloc[e]}
  BY <1>1, CheckType
<1> QED BY <1>2, <1>3, <1>4, <1>5

LEMMA FolderSound ==
  ASSUME IndexInv, NEW e \in Slot
  PROVE  \A i \in DOMAIN FolderWrites(e) : \A z \in FolderWrites(e)[i] : Sound(z)
PROOF
<1>1. LoadInv /\ alloc \in [Slot -> Seq(Seq(IdxEntry))] /\ linked \in [Slot -> Seq(Slot)]
  BY DEF IndexInv, PoolInv, WorkType
<1>2. head[e].entry \in Slot /\ \A k \in DOMAIN linked[e] : head[linked[e][k]].entry \in Slot
  <2>1. linked[e] \in Seq(Slot)
    BY <1>1
  <2>2. \A k \in DOMAIN linked[e] : linked[e][k] \in Slot
    BY <2>1, LenProperties, ElementOfSeq
  <2> QED BY <1>1, <2>2, EntrySlot
<1>3. \A s \in Range(FolderWrites(e)) :
        \/ s \in Range(CheckAndSetI30Size(head[e].entry))
        \/ \E k \in DOMAIN linked[e] : s \in Range(CheckAndSetI30Size(head[linked[e][k]].entry))
  BY <1>1, FolderWritesType
<1>4. \A s \in Range(FolderWrites(e)) : \A z \in s : Sound(z)
  BY <1>2, <1>3, CheckSound
<1> QED BY <1>4 DEF Range

(* Every file that an index of the folder or of its linked records names   *)
(* is among the folder's writes.                                           *)
LEMMA CheckComplete ==
  ASSUME IndexInv, phase \in {"sizes", "done"}, NEW e \in Slot, NEW x \in OwnIndex(e),
         GetRecord(head, x) # Nil, ~head[x.ref].folder
  PROVE  \E s \in Range(CheckAndSetI30Size(e)) : \E z \in s : z.slot = x.ref
PROOF
<1>1. LoadType /\ alloc \in [Slot -> Seq(Seq(IdxEntry))]
  BY DEF IndexInv, PoolInv, LoadInv, WorkType
<1>2. Range(CheckAndSetI30Size(e)) = {SizeWrites(body[e].root)} \cup {SizeWrites(alloc[e][i]) : i \in DOMAIN alloc[e]}
  BY <1>1, CheckType
<1>3. \A q : x \in Range(q) => \E z \in SizeWrites(q) : z.slot = x.ref
  <2> SUFFICES ASSUME NEW q, x \in Range(q) PROVE \E z \in SizeWrites(q) : z.slot = x.ref
    OBVIOUS
  <2> DEFINE z == [slot |-> x.ref, l |-> x.lsize, p |-> x.psize]
  <2>1. z \in SizeWrites(q)
    BY DEF SizeWrites
  <2> QED BY <2>1
<1>4. CASE x \in Range(body[e].root)
  BY <1>2, <1>3, <1>4
<1>5. CASE \E k \in IndexAttrs(e) : x \in BlockEntries(e, k)
  <2>1. PICK k \in IndexAttrs(e) : x \in BlockEntries(e, k)
    BY <1>5
  <2>2. ~Pending(e, k)
    BY PendingEnd DEF IndexInv
  <2>3. x \in Chunks(e)
    BY <2>1, <2>2 DEF IndexInv, IndexRead
  <2>4. PICK i \in DOMAIN alloc[e] : x \in Range(alloc[e][i])
    BY <2>3 DEF Chunks
  <2> QED BY <1>2, <1>3, <2>4
<1> QED BY <1>4, <1>5 DEF OwnIndex, BlockEntries

LEMMA FolderComplete ==
  ASSUME IndexInv, phase = "sizes", NEW e \in Slot, head[e].entry = e,
         NEW g \in {e} \cup Range(linked[e]), NEW x \in OwnIndex(g), GetRecord(head, x) # Nil, ~head[x.ref].folder
  PROVE  \E i \in DOMAIN FolderWrites(e) : \E z \in FolderWrites(e)[i] : z.slot = x.ref
PROOF
<1>1. /\ LoadInv /\ LoadType /\ alloc \in [Slot -> Seq(Seq(IdxEntry))] /\ linked \in [Slot -> Seq(Slot)]
      /\ info \in [Slot -> Seq(Ref)] /\ linked[e] = Targets(e)
  BY DEF IndexInv, PoolInv, LoadInv, WorkType, Linking
<1>2. g \in Slot /\ head[g].entry = g /\ (g = e \/ \E k \in DOMAIN linked[e] : g = linked[e][k])
  <2>1. CASE g = e
    BY <2>1
  <2>2. CASE g \in Range(linked[e])
    <3>1. PICK k \in DOMAIN linked[e] : g = linked[e][k]
      BY <2>2 DEF Range
    <3> DEFINE r == Keep(info[e], LinkRefs(e))[k]
    <3>2. g = r.ref /\ r \in LinkRefs(e)
      BY <1>1, <3>1, TargetsType
    <3> HIDE DEF r
    <3>3. r.ref \in Nat /\ r.seq \in SeqNo /\ GetRecord(head, r) # Nil
      BY <3>2 DEF LinkRefs, Ref
    <3>4. r.ref \in Slot /\ head[r.ref].entry = r.ref
      BY <1>1, <3>3, Resolves
    <3> QED BY <3>1, <3>2, <3>4
  <2> QED BY <2>1, <2>2
<1>3. PICK s \in Range(CheckAndSetI30Size(g)) : \E z \in s : z.slot = x.ref
  BY <1>2, CheckComplete
<1>4. s \in (SUBSET Write) \ {{}}
  <2>1. CheckAndSetI30Size(g) \in Seq(SUBSET Write)
    BY <1>1, <1>2, CheckType
  <2>2. s \in SUBSET Write
    BY <2>1, LenProperties, ElementOfSeq DEF Range
  <2>3. s # {}
    BY <1>3
  <2>4. \A S : s \in S => s \in S \ {{}}
    BY <2>3
  <2> QED BY <2>2, <2>4
<1>5. \/ s \in Range(CheckAndSetI30Size(head[e].entry))
      \/ \E k \in DOMAIN linked[e] : s \in Range(CheckAndSetI30Size(head[linked[e][k]].entry))
  BY <1>2
<1>6. s \in Range(FolderWrites(e))
  <2> DEFINE own == Range(CheckAndSetI30Size(head[e].entry))
             others == UNION {Range(CheckAndSetI30Size(head[linked[e][k]].entry)) : k \in DOMAIN linked[e]}
  <2>1. s \in own \cup others
    BY <1>5
  <2>2. Range(FolderWrites(e)) = (own \cup others) \cap ((SUBSET Write) \ {{}})
    BY <1>1, FolderWritesType
  <2> HIDE DEF own, others
  <2> QED BY <1>4, <2>1, <2>2
<1> QED BY <1>3, <1>6 DEF Range
-----------------------------------------------------------------------------
(* What makes a size sound lies in the volume and the headers.             *)
LEMMA SameSound ==
  ASSUME area' = area, sel' = sel, head' = head
  PROVE  /\ \A x : Sound(x)' = Sound(x)
         /\ \A x : GetRecord(head, x)' = GetRecord(head, x)
         /\ lsize' = lsize => \A s : LSizeGiven(s)' = LSizeGiven(s)
         /\ psize' = psize => \A s : PSizeGiven(s)' = PSizeGiven(s)
PROOF
<1>1. DiskIndexEntries' = DiskIndexEntries
  BY SameDisk
<1>2. \A x : GetRecord(head, x)' = GetRecord(head, x)
  BY DEF GetRecord
<1> QED BY <1>1, <1>2 DEF Sound, LSizeGiven, PSizeGiven

(* Nothing is written before the sizes phase.                              *)
LEMMA IdleWrites ==
  ASSUME PoolInv, phase \in {"load", "nonres", "link", "parents", "panic"}, UNCHANGED sizeVars
  PROVE  Writes'
PROOF
<1>1. /\ \A w \in Workers : todo'[w] = <<>> /\ cur'[w] = NoWrite
      /\ \A e \in Slot : lsize'[e] = 0 /\ psize'[e] = 0
  BY DEF PoolInv, Idle, sizeVars
<1>2. DOMAIN <<>> = {}
  BY EmptySeq
<1> QED BY <1>1, <1>2 DEF Writes

LEMMA InitSizesInv == Init => SizesInv
PROOF
<1> SUFFICES ASSUME Init PROVE SizesInv
  OBVIOUS
<1>1. IndexInv
  BY InitIndexInv
<1>2. DOMAIN <<>> = {}
  BY EmptySeq
<1>3. Writes
  BY <1>2 DEF Init, Writes
<1>4. Delivered
  BY DEF Init, Delivered
<1> QED BY <1>1, <1>3, <1>4 DEF SizesInv

(* Every folder waits when the sizes phase begins.                         *)
LEMMA FindParentsDelivers == PoolInv /\ FindParentRecords => Delivered'
PROOF
<1> SUFFICES ASSUME PoolInv, FindParentRecords, NEW f \in Slot, head'[f].entry = f
             PROVE  phase' = "sizes" /\ f \in Range(ch')
  BY DEF Delivered
<1>1. phase' = "sizes" /\ head' = head /\ ch' = [k \in 1 .. N |-> head[k - 1].entry]
  BY DEF FindParentRecords
<1>2. f + 1 \in 1 .. N /\ (f + 1) - 1 = f
  BY NAssumption DEF Slot
<1>3. f + 1 \in DOMAIN ch' /\ ch'[f + 1] = f
  BY <1>1, <1>2
<1> QED BY <1>1, <1>3 DEF Range

(* Taking a folder out of the channel puts its writes before the worker.   *)
LEMMA TakeFolderSizes == \A w \in Workers : SizesInv /\ TakeFolder(w) => Writes' /\ Delivered'
PROOF
<1> SUFFICES ASSUME NEW w \in Workers, SizesInv, TakeFolder(w) PROVE Writes' /\ Delivered'
  OBVIOUS
<1> USE DEF SizesInv
<1> DEFINE F == Head(ch)
           t == IF head[F].folder THEN FolderWrites(F) ELSE <<>>
<1>1. /\ phase = "sizes" /\ phase' = "sizes" /\ todo[w] = <<>> /\ ch # <<>> /\ ch' = Tail(ch)
      /\ todo' = [todo EXCEPT ![w] = t]
      /\ UNCHANGED <<area, sel, head, body, linked, cur, lsize, psize>>
  BY DEF TakeFolder, inputs, linkVars
<1>2. ch \in Seq(Slot) /\ todo \in [Workers -> Seq((SUBSET Write) \ {{}})]
  BY DEF IndexInv, PoolInv, WorkType
<1>3. F \in Slot /\ Range(ch) = {F} \cup Range(Tail(ch))
  BY <1>1, <1>2, HeadTailProperties, HeadTailRange
<1>4. DOMAIN <<>> = {}
  BY EmptySeq
<1>5. \A i \in DOMAIN t : \A x \in t[i] : Sound(x)
  BY <1>3, <1>4, FolderSound
<1>6. /\ todo'[w] = t /\ \A v \in Workers \ {w} : todo'[v] = todo[v]
  BY <1>1, <1>2
<1>7. /\ \A x : Sound(x)' = Sound(x)
      /\ \A x : GetRecord(head, x)' = GetRecord(head, x)
      /\ \A s : LSizeGiven(s)' = LSizeGiven(s) /\ PSizeGiven(s)' = PSizeGiven(s)
  BY <1>1, SameSound
<1> HIDE DEF t
<1>8. Writes'
  BY <1>1, <1>5, <1>6, <1>7 DEF Writes
<1>9. \A s : Owed(s) => Owed(s)'
  <2> SUFFICES ASSUME NEW s, Owed(s) PROVE Owed(s)'
    OBVIOUS
  <2>1. PICK v \in Workers : \E i \in DOMAIN todo[v] : \E x \in todo[v][i] : x.slot = s
    BY DEF Owed
  <2>2. v # w
    BY <1>1, <1>4, <2>1
  <2> QED BY <1>6, <2>1, <2>2 DEF Owed
<1>10. \A g : OwnIndex(g)' = OwnIndex(g)
  BY <1>1 DEF OwnIndex, IndexAttrs
<1>11. Delivered'
  <2> SUFFICES ASSUME NEW f \in Slot, head[f].entry = f, head[f].folder, f \notin Range(Tail(ch)),
                      NEW g \in {f} \cup Range(linked[f]), NEW x \in OwnIndex(g),
                      GetRecord(head, x) # Nil, ~head[x.ref].folder
               PROVE  Owed(x.ref)' \/ (LSizeGiven(x.ref) /\ PSizeGiven(x.ref))
    BY <1>1, <1>7, <1>10 DEF Delivered
  <2>1. CASE f \in Range(ch)
    <3>1. f = F
      BY <1>3, <2>1
    <3>2. \E i \in DOMAIN FolderWrites(f) : \E z \in FolderWrites(f)[i] : z.slot = x.ref
      BY <1>1, FolderComplete
    <3>3. t = FolderWrites(f)
      BY <3>1 DEF t
    <3> QED BY <1>6, <3>2, <3>3 DEF Owed
  <2>2. CASE f \notin Range(ch)
    <3>1. Owed(x.ref) \/ (LSizeGiven(x.ref) /\ PSizeGiven(x.ref))
      BY <1>1, <2>2 DEF Delivered
    <3> QED BY <1>9, <3>1
  <2> QED BY <2>1, <2>2
<1> QED BY <1>8, <1>11

(* The files that an index of a record or its linked records names are     *)
(* slots of the table.                                                     *)
LEMMA NamedSlot ==
  ASSUME IndexInv, NEW f \in Slot, NEW g \in {f} \cup Range(linked[f]), NEW x \in OwnIndex(g),
         GetRecord(head, x) # Nil
  PROVE  x.ref \in Slot
PROOF
<1>1. LoadInv /\ LoadType /\ linked[f] \in Seq(Slot)
  BY DEF IndexInv, PoolInv, LoadInv, WorkType
<1>2. g \in Slot
  BY <1>1, RangeOfSeq
<1>3. body[g] \in RecordBody /\ body[g].attrs \in Seq(Attr) /\ body[g].root \in Seq(IdxEntry)
  BY <1>1, <1>2 DEF LoadType, RecordBody
<1>4. x \in IdxEntry
  <2>1. CASE x \in Range(body[g].root)
    BY <1>3, <2>1, RangeOfSeq
  <2>2. CASE \E k \in IndexAttrs(g) : x \in UNION {Range(body[g].attrs[k].blocks[j].idx) : j \in IndexBlocks(body[g].attrs[k].blocks)}
    <3>1. PICK k \in IndexAttrs(g) : x \in UNION {Range(body[g].attrs[k].blocks[j].idx) : j \in IndexBlocks(body[g].attrs[k].blocks)}
      BY <2>2
    <3> DEFINE b == body[g].attrs[k].blocks
    <3>2. k \in DOMAIN body[g].attrs
      BY <1>3, LenProperties DEF IndexAttrs
    <3>3. body[g].attrs[k] \in Attr
      BY <1>3, <3>2, ElementOfSeq, LenProperties
    <3>4. b \in Seq(Block)
      BY <3>3 DEF Attr
    <3>5. PICK j \in IndexBlocks(b) : x \in Range(b[j].idx)
      BY <3>1
    <3>6. b[j] \in Block
      BY <3>4, <3>5, ElementOfSeq DEF IndexBlocks
    <3>7. b[j].idx \in Seq(IdxEntry)
      BY <3>6 DEF Block
    <3> QED BY <3>5, <3>7, RangeOfSeq
  <2> QED BY <2>1, <2>2 DEF OwnIndex
<1> QED BY <1>1, <1>4, Resolves DEF IdxEntry

(* The first half of a write.                                              *)
LEMMA SetI30LSizeSizes == \A w \in Workers : SizesInv /\ SetI30LSize(w) => Writes' /\ Delivered'
PROOF
<1> SUFFICES ASSUME NEW w \in Workers, SizesInv, SetI30LSize(w) PROVE Writes' /\ Delivered'
  OBVIOUS
<1> USE DEF SizesInv
<1>1. PICK x \in Head(todo[w]) : cur' = [cur EXCEPT ![w] = x] /\ lsize' = [lsize EXCEPT ![x.slot] = x.l]
  BY DEF SetI30LSize
<1>2. /\ phase = "sizes" /\ phase' = "sizes" /\ todo[w] # <<>>
      /\ UNCHANGED <<area, sel, head, body, ch, linked, todo, psize>>
  BY DEF SetI30LSize, inputs, linkVars
<1>3. /\ todo[w] \in Seq((SUBSET Write) \ {{}}) /\ cur \in [Workers -> Write \cup {NoWrite}]
      /\ lsize \in [Slot -> Sizes]
  BY DEF IndexInv, PoolInv, WorkType
<1>4. 1 \in DOMAIN todo[w] /\ x \in todo[w][1] /\ x \in Write
  <2>1. Head(todo[w]) = todo[w][1] /\ Head(todo[w]) \in (SUBSET Write) \ {{}}
    BY <1>2, <1>3, HeadTailProperties
  <2>2. Len(todo[w]) \in Nat /\ Len(todo[w]) # 0 /\ DOMAIN todo[w] = 1 .. Len(todo[w])
    BY <1>2, <1>3, LenProperties, EmptySeq
  <2> QED BY <2>1, <2>2
<1>5. Sound(x) /\ x.slot \in Slot
  BY <1>4 DEF Writes, Write
<1>6. /\ lsize'[x.slot] = x.l /\ \A s \in Slot \ {x.slot} : lsize'[s] = lsize[s]
      /\ cur'[w] = x /\ \A v \in Workers \ {w} : cur'[v] = cur[v]
  BY <1>1, <1>3, <1>5
<1>7. /\ DiskIndexEntries' = DiskIndexEntries /\ \A y : GetRecord(head, y)' = GetRecord(head, y)
      /\ \A y : Sound(y)' = Sound(y)
      /\ \A s : PSizeGiven(s)' = PSizeGiven(s) /\ Owed(s)' = Owed(s)
  BY <1>2, SameSound, SameDisk DEF Owed
<1>8. \A s : s = x.slot => LSizeGiven(s)'
  BY <1>5, <1>6, <1>7 DEF LSizeGiven, Sound
<1>9. \A s \in Slot : LSizeGiven(s) => LSizeGiven(s)'
  <2> SUFFICES ASSUME NEW s \in Slot, LSizeGiven(s), s # x.slot PROVE LSizeGiven(s)'
    BY <1>8
  <2>1. lsize'[s] = lsize[s]
    BY <1>6
  <2> QED BY <1>7, <2>1 DEF LSizeGiven
<1>10. Writes'
  <2>1. \A v \in Workers : \A i \in DOMAIN todo'[v] : \A y \in todo'[v][i] : Sound(y)'
    BY <1>2, <1>7 DEF Writes
  <2>2. ASSUME NEW v \in Workers, cur'[v] # NoWrite, NEW s, s = cur'[v].slot PROVE LSizeGiven(s)'
    <3>1. CASE v = w
      BY <1>6, <1>8, <2>2, <3>1
    <3>2. CASE v # w
      <4>1. cur[v] \in Write /\ LSizeGiven(s) /\ s = cur[v].slot
        BY <1>3, <1>6, <2>2, <3>2 DEF Writes
      <4> QED BY <1>9, <4>1 DEF Write
    <3> QED BY <3>1, <3>2
  <2>3. ASSUME NEW e \in Slot PROVE /\ lsize'[e] # 0 => LSizeGiven(e)' /\ ~head'[e].folder
                                    /\ psize'[e] # 0 => PSizeGiven(e)' /\ ~head'[e].folder
    <3>1. CASE e = x.slot
      BY <1>2, <1>5, <1>7, <1>8, <3>1 DEF Writes, Sound
    <3>2. CASE e # x.slot
      BY <1>2, <1>6, <1>7, <1>9, <3>2 DEF Writes
    <3> QED BY <3>1, <3>2
  <2> QED BY <2>1, <2>2, <2>3 DEF Writes
<1>12. Delivered'
  <2>1. \A g : OwnIndex(g)' = OwnIndex(g)
    BY <1>2 DEF OwnIndex, IndexAttrs
  <2>2. \A s \in Slot : LSizeGiven(s) /\ PSizeGiven(s) => LSizeGiven(s)' /\ PSizeGiven(s)'
    BY <1>7, <1>9
  <2> QED BY <1>2, <1>7, <2>1, <2>2, NamedSlot DEF Delivered
<1> QED BY <1>10, <1>12

(* The second half of a write, and the end of it.                          *)
LEMMA SetI30PSizeSizes == \A w \in Workers : SizesInv /\ SetI30PSize(w) => Writes' /\ Delivered'
PROOF
<1> SUFFICES ASSUME NEW w \in Workers, SizesInv, SetI30PSize(w) PROVE Writes' /\ Delivered'
  OBVIOUS
<1> USE DEF SizesInv
<1> DEFINE x == cur[w]
<1>1. /\ phase = "sizes" /\ phase' = "sizes" /\ x # NoWrite
      /\ psize' = [psize EXCEPT ![x.slot] = x.p] /\ cur' = [cur EXCEPT ![w] = NoWrite]
      /\ UNCHANGED <<area, sel, head, body, ch, linked, lsize>>
  BY DEF SetI30PSize, inputs, linkVars
<1>2. WorkType /\ cur \in [Workers -> Write \cup {NoWrite}] /\ psize \in [Slot -> Sizes]
      /\ todo[w] \in Seq((SUBSET Write) \ {{}})
  BY DEF IndexInv, PoolInv, WorkType
<1>3. /\ x \in Write /\ todo[w] # <<>> /\ x \in Head(todo[w])
      /\ \A v \in Workers \ {w} : todo'[v] = todo[v]
      /\ \A i \in DOMAIN todo'[w] : \A y \in todo'[w][i] : \E j \in DOMAIN todo[w] : y \in todo[w][j]
      /\ \A j \in DOMAIN todo[w] : \A y \in todo[w][j] :
           y = x \/ \E i \in DOMAIN todo'[w] : y \in todo'[w][i]
  BY <1>2, RestOfWrites
<1>4. 1 \in DOMAIN todo[w] /\ x \in todo[w][1]
  <2>1. Head(todo[w]) = todo[w][1]
    BY <1>2, <1>3, HeadTailProperties
  <2>2. Len(todo[w]) \in Nat /\ Len(todo[w]) # 0 /\ DOMAIN todo[w] = 1 .. Len(todo[w])
    BY <1>2, <1>3, LenProperties, EmptySeq
  <2> QED BY <1>3, <2>1, <2>2
<1>5. Sound(x) /\ x.slot \in Slot /\ LSizeGiven(x.slot)
  BY <1>1, <1>3, <1>4 DEF Writes, Write
<1>6. /\ psize'[x.slot] = x.p /\ \A s \in Slot \ {x.slot} : psize'[s] = psize[s]
      /\ cur'[w] = NoWrite /\ \A v \in Workers \ {w} : cur'[v] = cur[v]
  BY <1>1, <1>2, <1>5
<1>7. /\ DiskIndexEntries' = DiskIndexEntries /\ \A y : GetRecord(head, y)' = GetRecord(head, y)
      /\ \A y : Sound(y)' = Sound(y)
      /\ \A s : LSizeGiven(s)' = LSizeGiven(s)
  BY <1>1, SameSound, SameDisk
<1>8. \A s : s = x.slot => PSizeGiven(s)'
  <2>1. \E y \in DiskIndexEntries : GetRecord(head, y) = x.slot /\ y.psize = x.p
    BY <1>5 DEF Sound
  <2> QED BY <1>6, <1>7, <2>1 DEF PSizeGiven
<1>9. \A s \in Slot : PSizeGiven(s) => PSizeGiven(s)'
  <2> SUFFICES ASSUME NEW s \in Slot, PSizeGiven(s), s # x.slot PROVE PSizeGiven(s)'
    BY <1>8
  <2>1. psize'[s] = psize[s]
    BY <1>6
  <2> QED BY <1>7, <2>1 DEF PSizeGiven
<1>10. Writes'
  <2>1. \A v \in Workers : \A i \in DOMAIN todo'[v] : \A y \in todo'[v][i] : Sound(y)'
    BY <1>3, <1>7 DEF Writes
  <2>2. ASSUME NEW v \in Workers, cur'[v] # NoWrite, NEW s, s = cur'[v].slot PROVE LSizeGiven(s)'
    <3>1. v # w /\ cur'[v] = cur[v]
      BY <1>6, <2>2
    <3> QED BY <1>7, <2>2, <3>1 DEF Writes
  <2>3. ASSUME NEW e \in Slot PROVE /\ lsize'[e] # 0 => LSizeGiven(e)' /\ ~head'[e].folder
                                    /\ psize'[e] # 0 => PSizeGiven(e)' /\ ~head'[e].folder
    <3>1. CASE e = x.slot
      BY <1>1, <1>5, <1>7, <1>8, <3>1 DEF Sound
    <3>2. CASE e # x.slot
      BY <1>1, <1>6, <1>7, <1>9, <3>2 DEF Writes
    <3> QED BY <3>1, <3>2
  <2> QED BY <2>1, <2>2, <2>3 DEF Writes
<1>11. \A s : Owed(s) => Owed(s)' \/ s = x.slot
  <2> SUFFICES ASSUME NEW s, Owed(s), s # x.slot PROVE Owed(s)'
    OBVIOUS
  <2>1. PICK v \in Workers : \E i \in DOMAIN todo[v] : \E y \in todo[v][i] : y.slot = s
    BY DEF Owed
  <2>2. CASE v = w
    <3>1. PICK j \in DOMAIN todo[w] : \E y \in todo[w][j] : y.slot = s
      BY <2>1, <2>2
    <3>2. PICK y \in todo[w][j] : y.slot = s
      BY <3>1
    <3>3. \E i \in DOMAIN todo'[w] : y \in todo'[w][i]
      BY <1>3, <3>2
    <3> QED BY <3>2, <3>3 DEF Owed
  <2>3. CASE v # w
    BY <1>3, <2>1, <2>3 DEF Owed
  <2> QED BY <2>2, <2>3
<1>12. Delivered'
  <2>1. \A g : OwnIndex(g)' = OwnIndex(g)
    BY <1>1 DEF OwnIndex, IndexAttrs
  <2>2. \A s \in Slot : LSizeGiven(s) /\ PSizeGiven(s) => LSizeGiven(s)' /\ PSizeGiven(s)'
    BY <1>7, <1>9
  <2>3. \A s : s = x.slot => LSizeGiven(s)' /\ PSizeGiven(s)'
    BY <1>5, <1>7, <1>8
  <2>4. \A s \in Slot : Owed(s) \/ (LSizeGiven(s) /\ PSizeGiven(s)) => Owed(s)' \/ (LSizeGiven(s)' /\ PSizeGiven(s)')
    BY <1>11, <2>2, <2>3
  <2> QED BY <1>1, <1>7, <2>1, <2>4, NamedSlot DEF Delivered
<1> QED BY <1>10, <1>12

(* When the channel and the workers are empty nothing is owed any more.    *)
LEMMA SizesDoneSizes == SizesInv /\ SizesDone => Writes' /\ Delivered'
PROOF
<1> SUFFICES ASSUME SizesInv, SizesDone PROVE Writes' /\ Delivered'
  OBVIOUS
<1> USE DEF SizesInv
<1>1. /\ phase = "sizes" /\ phase' = "done" /\ ch = <<>> /\ \A w \in Workers : todo[w] = <<>>
      /\ UNCHANGED <<area, sel, head, body, linked, todo, cur, lsize, psize>>
  BY DEF SizesDone, inputs, linkVars, sizeVars
<1>2. DOMAIN <<>> = {} /\ Range(<<>>) = {}
  BY EmptySeq DEF Range
<1>3. \A s : ~Owed(s)
  BY <1>1, <1>2 DEF Owed
<1>4. /\ \A x : Sound(x)' = Sound(x)
      /\ \A x : GetRecord(head, x)' = GetRecord(head, x)
      /\ \A s : LSizeGiven(s)' = LSizeGiven(s) /\ PSizeGiven(s)' = PSizeGiven(s)
  BY <1>1, SameSound
<1>5. \A g : OwnIndex(g)' = OwnIndex(g)
  BY <1>1 DEF OwnIndex, IndexAttrs
<1>6. Writes'
  BY <1>1, <1>4 DEF Writes
<1>7. Delivered'
  BY <1>1, <1>2, <1>3, <1>4, <1>5 DEF Delivered
<1> QED BY <1>6, <1>7

(* A step that changes nothing keeps what was written and owed.            *)
LEMMA SameSizes == SizesInv /\ UNCHANGED vars => Writes' /\ Delivered'
PROOF
<1> SUFFICES ASSUME SizesInv, UNCHANGED vars PROVE Writes' /\ Delivered'
  OBVIOUS
<1>1. UNCHANGED <<area, sel, full, phase, head, body, ch, linked, todo, cur, lsize, psize>>
  BY DEF vars, inputs, linkVars, sizeVars
<1>2. /\ \A x : Sound(x)' = Sound(x)
      /\ \A x : GetRecord(head, x)' = GetRecord(head, x)
      /\ \A s : LSizeGiven(s)' = LSizeGiven(s) /\ PSizeGiven(s)' = PSizeGiven(s)
  BY <1>1, SameSound
<1>3. (\A g : OwnIndex(g)' = OwnIndex(g)) /\ \A s : Owed(s)' = Owed(s)
  BY <1>1 DEF OwnIndex, IndexAttrs, Owed
<1>4. Writes'
  BY <1>1, <1>2 DEF Writes, SizesInv
<1>5. Delivered'
  BY <1>1, <1>2, <1>3 DEF Delivered, SizesInv
<1> QED BY <1>4, <1>5

(* Every step keeps it.                                                    *)
LEMMA NextSizesInv == SizesInv /\ [Next]_vars => SizesInv'
PROOF
<1> SUFFICES ASSUME SizesInv, [Next]_vars PROVE SizesInv'
  OBVIOUS
<1>1. IndexInv' /\ PoolInv
  BY NextIndexInv DEF SizesInv, IndexInv
<1>2. ASSUME UNCHANGED sizeVars, phase \in {"load", "nonres", "link", "parents", "panic"},
             phase' # "sizes", ~(phase' = "done" /\ full')
      PROVE  Writes' /\ Delivered'
  BY <1>1, <1>2, IdleWrites DEF Delivered
<1>3. Writes' /\ Delivered'
  <2>1. CASE \E i \in Slot : Load(i)
    <3>1. UNCHANGED sizeVars /\ phase = "load" /\ phase' = "load"
      BY <2>1 DEF Load, MFTWorkerReturn, MFTWorkerRefuse, MFTWorkerCount, MFTWorkerStoreHead, MFTWorkerStoreBody
    <3> QED BY <1>2, <3>1
  <2>2. CASE ProcessNonResidentRecords \/ NonResidentDone
    <3>1. UNCHANGED sizeVars /\ phase \in {"load", "nonres"} /\ phase' \in {"nonres", "link"}
      BY <2>2 DEF ProcessNonResidentRecords, NonResidentDone
    <3> QED BY <1>2, <3>1
  <2>3. CASE \E w \in Workers : NonResident(w)
    <3>1. UNCHANGED sizeVars /\ phase = "nonres" /\ phase' = "nonres"
      BY <2>3 DEF NonResident, TakeRecord, SkipAttribute, ReadFails, ParseAttribute
    <3> QED BY <1>2, <3>1
  <2>4. CASE CreateLinkedRecords
    <3>1. UNCHANGED sizeVars /\ phase = "link" /\ phase' = (IF full THEN "parents" ELSE "done") /\ full' = full
      BY <2>4 DEF CreateLinkedRecords, inputs
    <3> QED BY <1>2, <3>1
  <2>5. CASE FindParentRecords
    <3>1. UNCHANGED sizeVars /\ phase = "parents"
      BY <2>5 DEF FindParentRecords
    <3> QED BY <1>1, <2>5, <3>1, IdleWrites, FindParentsDelivers
  <2>6. CASE \E w \in Workers : FileSizes(w)
    BY <2>6, TakeFolderSizes, SetI30LSizeSizes, SetI30PSizeSizes DEF FileSizes
  <2>7. CASE SizesDone
    BY <2>7, SizesDoneSizes
  <2>8. CASE UNCHANGED vars
    BY <2>8, SameSizes
  <2> QED BY <2>1, <2>2, <2>3, <2>4, <2>5, <2>6, <2>7, <2>8 DEF Next, Returned
<1> QED BY <1>1, <1>3 DEF SizesInv

(* The invariant about the sizes holds in every state.                     *)
LEMMA SizesInvariance == Spec => []SizesInv
PROOF
<1>1. Init => SizesInv
  BY InitSizesInv
<1>2. SizesInv /\ [Next]_vars => SizesInv'
  BY NextSizesInv
<1> QED BY <1>1, <1>2, PTL DEF Spec

(* For every $MFT, every selection and every number of workers: no race    *)
(* and no stale scratch byte gives a file a size that no index entry on    *)
(* the volume gives it, and when Process returns every file that a folder  *)
(* or its linked records list has both of its sizes (CalculateFileSizes).  *)
THEOREM SizesExactHolds == Spec => []SizesExact
PROOF
<1>1. SizesInv => SizesExact
  <2> SUFFICES ASSUME SizesInv PROVE SizesExact
    OBVIOUS
  <2>1. \A e \in Slot : /\ lsize[e] # 0 => LSizeGiven(e) /\ ~head[e].folder
                        /\ psize[e] # 0 => PSizeGiven(e) /\ ~head[e].folder
    BY DEF SizesInv, Writes
  <2>2. ASSUME phase = "done", full
        PROVE \A f \in Slot : head[f].entry = f /\ head[f].folder =>
                \A g \in {f} \cup Range(linked[f]) : \A x \in OwnIndex(g) :
                  GetRecord(head, x) # Nil /\ ~head[x.ref].folder => LSizeGiven(x.ref) /\ PSizeGiven(x.ref)
    BY <2>2 DEF SizesInv, Delivered
  <2> QED BY <2>1, <2>2 DEF SizesExact
<1> QED BY <1>1, SizesInvariance, PTL
-----------------------------------------------------------------------------
(* The entries of the first blocks are the entries of fewer of them, and   *)
(* more after those.                                                       *)
LEMMA RefsSplit ==
  ASSUME NEW s \in Seq(Block), NEW n \in 0 .. Len(s), NEW m \in 0 .. n
  PROVE  \E t \in Seq(Ref) : RefsUpTo(s, n) = RefsUpTo(s, m) \o t
PROOF
<1> DEFINE f == [i \in 1 .. n |-> s[i].refs]
           g == [i \in 1 .. m |-> s[i].refs]
           h == [i \in 1 .. n - m |-> s[m + i].refs]
<1>1. n \in Nat /\ m \in Nat /\ n - m \in Nat /\ m + (n - m) = n /\ m \in 0 .. Len(s) /\ Len(s) \in Nat
  BY LenProperties
<1>2. f \in Seq(Seq(Ref)) /\ g \in Seq(Seq(Ref)) /\ RefsUpTo(s, m) \in Seq(Ref)
  BY <1>1, RefsType
<1>3. h \in Seq(Seq(Ref))
  <2>1. \A i \in 1 .. n - m : s[m + i].refs \in Seq(Ref)
    <3> SUFFICES ASSUME NEW i \in 1 .. n - m PROVE s[m + i].refs \in Seq(Ref)
      OBVIOUS
    <3>1. m + i \in 1 .. Len(s)
      BY <1>1
    <3>2. s[m + i] \in Block
      BY <3>1, ElementOfSeq
    <3> QED BY <3>2 DEF Block
  <2> QED BY <1>1, <2>1
<1>4. Len(f) = n /\ Len(g) = m /\ Len(h) = n - m
  BY <1>1
<1>5. /\ \A i \in 1 .. n : f[i] = s[i].refs
      /\ \A i \in 1 .. m : g[i] = s[i].refs
      /\ \A i \in 1 .. n - m : h[i] = s[m + i].refs
  OBVIOUS
<1> HIDE DEF f, g, h
<1>6. f = g \o h
  <2>1. /\ g \o h \in Seq(Seq(Ref)) /\ Len(g \o h) = n
        /\ \A i \in 1 .. n : (g \o h)[i] = IF i <= m THEN g[i] ELSE h[i - m]
    <3>1. /\ g \o h \in Seq(Seq(Ref)) /\ Len(g \o h) = Len(g) + Len(h)
          /\ \A i \in 1 .. Len(g) + Len(h) : (g \o h)[i] = IF i <= Len(g) THEN g[i] ELSE h[i - Len(g)]
      BY <1>2, <1>3, ConcatProperties
    <3>2. Len(g) + Len(h) = n
      BY <1>1, <1>4
    <3> QED BY <1>4, <3>1, <3>2, Zenon
  <2>2. \A i \in 1 .. n : (g \o h)[i] = f[i]
    <3> SUFFICES ASSUME NEW i \in 1 .. n PROVE (g \o h)[i] = f[i]
      OBVIOUS
    <3>1. CASE i <= m
      <4>1. i \in 1 .. m
        BY <1>1, <3>1
      <4> QED BY <1>5, <2>1, <3>1, <4>1
    <3>2. CASE ~(i <= m)
      <4>1. i - m \in 1 .. n - m /\ m + (i - m) = i
        BY <1>1, <3>2
      <4> QED BY <1>5, <2>1, <3>2, <4>1
    <3> QED BY <3>1, <3>2
  <2> QED BY <1>2, <1>4, <2>1, <2>2, SeqEqual
<1>7. FlattenSeq(f) = FlattenSeq(g) \o FlattenSeq(h)
  BY <1>2, <1>3, <1>6, FlattenConcat
<1>8. FlattenSeq(h) \in Seq(Ref)
  BY <1>3, FlattenType
<1>9. RefsUpTo(s, n) = FlattenSeq(f) /\ RefsUpTo(s, m) = FlattenSeq(g)
  BY DEF RefsUpTo, f, g
<1> QED BY <1>7, <1>8, <1>9

(* A list that begins with another one, and holds more after it.           *)
LEMMA ConcatTwice ==
  \A s, t, u \in Seq(Ref) : (s \o t) \o u = s \o (t \o u) /\ s \o t \in Seq(Ref) /\ t \o u \in Seq(Ref)
PROOF
<1> SUFFICES ASSUME NEW s \in Seq(Ref), NEW t \in Seq(Ref), NEW u \in Seq(Ref)
             PROVE  (s \o t) \o u = s \o (t \o u) /\ s \o t \in Seq(Ref) /\ t \o u \in Seq(Ref)
  OBVIOUS
<1>1. (s \o t) \o u = s \o (t \o u)
  BY ConcatAssociative
<1>2. s \o t \in Seq(Ref) /\ t \o u \in Seq(Ref)
  BY ConcatProperties
<1> QED BY <1>1, <1>2

(* The uint16 of a length that fits is the length.                         *)
LEMMA SmallModulo == \A n \in Nat, w \in Nat \ {0} : n < w => n % w = n
PROOF OBVIOUS

(* What a zero tail parses to has the type of a reference.                 *)
LEMMA NoRefType == NoRef \in Ref
PROOF BY DEF NoRef, Ref, SeqNo

(* While the buffer is not full, what is parsed from it after a complete   *)
(* read begins with the attribute's own references.                        *)
LEMMA OwnFirst ==
  ASSUME NEW s \in Seq(Block), NEW b \in Seq(Block), NEW u, u = Overlay(Grow(s, Len(b)), b, Len(b)),
         Len(u) < Wrap
  PROVE  \E t \in Seq(Ref) : ParseList(u) = OwnRefs(b) \o t /\ OwnRefs(b) \in Seq(Ref)
PROOF
<1>1. Len(b) \in 0 .. Len(b)
  BY LenProperties
<1>2. /\ u \in Seq(Block) /\ Len(u) \in Nat /\ Len(b) \in Nat /\ Len(b) <= Len(u)
      /\ \A i \in 1 .. Len(b) : i \in 1 .. Len(u) /\ u[i] = b[i]
  BY <1>1, Overlaid
<1>3. SubSeq(u, 1, Len(u) % Wrap) = u
  <2>1. Len(u) % Wrap = Len(u)
    BY <1>2, WrapAssumption, SmallModulo
  <2> QED BY <1>2, <2>1, SubSeqFull
<1> DEFINE m == Min({ListStop(b), Len(b)})
           x == IF ListStop(u) > Len(u) THEN Len(u) ELSE ListStop(u)
           own == OwnRefs(b)
<1>4. /\ ListStop(b) \in 1 .. Len(b) + 1 /\ \A i \in 1 .. Len(b) : i < ListStop(b) => b[i].full
      /\ ListStop(u) \in 1 .. Len(u) + 1 /\ (ListStop(u) <= Len(u) => ~u[ListStop(u)].full)
  BY <1>2, ListStops
<1>5. m \in {ListStop(b), Len(b)} /\ m <= ListStop(b) /\ m <= Len(b)
  <2> DEFINE A == {ListStop(b), Len(b)}
  <2>1. A \subseteq Nat /\ A # {} /\ ListStop(b) \in A /\ Len(b) \in A
    BY <1>2, <1>4
  <2> HIDE DEF A
  <2>2. Min(A) \in A /\ \A y \in A : Min(A) <= y
    BY <2>1, MinOf
  <2> QED BY <2>1, <2>2 DEF A
<1> HIDE DEF m
<1>6. m \in 0 .. Len(b) /\ m \in 0 .. Len(u)
  BY <1>2, <1>4, <1>5
<1>7. x \in 0 .. Len(u) /\ m \in 0 .. x
  <2>1. CASE ListStop(u) > Len(u)
    BY <1>2, <1>6, <2>1
  <2>2. CASE ~(ListStop(u) > Len(u))
    <3>1. ListStop(u) \in 1 .. Len(u) /\ ~u[ListStop(u)].full
      BY <1>2, <1>4, <2>2
    <3>2. ~(ListStop(u) < m)
      <4> SUFFICES ASSUME ListStop(u) < m PROVE FALSE
        OBVIOUS
      <4>1. ListStop(u) \in 1 .. Len(b) /\ ListStop(u) < ListStop(b)
        BY <1>2, <1>4, <1>5, <1>6, <3>1
      <4> QED BY <1>2, <1>4, <3>1, <4>1
    <3> QED BY <1>2, <1>6, <2>2, <3>1, <3>2
  <2> QED BY <2>1, <2>2
<1> HIDE DEF x
<1>8. PICK t \in Seq(Ref) : RefsUpTo(u, x) = RefsUpTo(u, m) \o t
  BY <1>2, <1>7, RefsSplit
<1>9. RefsUpTo(u, m) = own /\ own \in Seq(Ref)
  <2>1. \A i \in 1 .. m : u[i].refs = b[i].refs
    <3>1. \A i \in 1 .. m : i \in 1 .. Len(b)
      BY <1>2, <1>6
    <3> QED BY <1>2, <3>1, Zenon
  <2>2. RefsUpTo(u, m) = RefsUpTo(b, m)
    <3>1. [i \in 1 .. m |-> u[i].refs] = [i \in 1 .. m |-> b[i].refs]
      BY <2>1, Zenon
    <3> QED BY <3>1 DEF RefsUpTo
  <2>3. RefsUpTo(b, m) \in Seq(Ref)
    BY <1>6, RefsType
  <2> QED BY <2>2, <2>3 DEF OwnRefs, m
<1> HIDE DEF own
<1>10. ParseList(u) = RefsUpTo(u, x) \/ ParseList(u) = Append(RefsUpTo(u, x), NoRef)
  BY <1>3 DEF ParseList, x
<1>11. CASE ParseList(u) = RefsUpTo(u, x)
  BY <1>8, <1>9, <1>11 DEF own
<1>12. CASE ParseList(u) = Append(RefsUpTo(u, x), NoRef)
  <2>1. NoRef \in Ref
    BY NoRefType
  <2>2. own \o t \in Seq(Ref) /\ <<NoRef>> \in Seq(Ref)
    BY <1>9, <2>1, ConcatProperties
  <2>3. Append(own \o t, NoRef) = (own \o t) \o <<NoRef>>
    BY <2>1, <2>2, AppendIsConcat
  <2>4. (own \o t) \o <<NoRef>> = own \o (t \o <<NoRef>>) /\ t \o <<NoRef>> \in Seq(Ref)
    <3>1. own \in Seq(Ref) /\ t \in Seq(Ref) /\ <<NoRef>> \in Seq(Ref)
      BY <1>8, <1>9, <2>2
    <3> DEFINE last == <<NoRef>>
    <3>2. last \in Seq(Ref)
      BY <3>1
    <3> HIDE DEF last
    <3>3. (own \o t) \o last = own \o (t \o last) /\ t \o last \in Seq(Ref)
      BY <3>1, <3>2, ConcatTwice, SMTT(30)
    <3> QED BY <3>3 DEF last
  <2> QED BY <1>8, <1>9, <1>12, <2>3, <2>4 DEF own
<1> QED BY <1>10, <1>11, <1>12

(* A buffer never gets shorter.                                            *)
LEMMA OverlaidLength ==
  \A s \in Seq(Block), b \in Seq(Block) : \A k \in 0 .. Len(b) :
    LET u == Overlay(Grow(s, Len(b)), b, k) IN Len(s) <= Len(u) /\ Len(u) \in Nat /\ Len(s) \in Nat
PROOF BY Overlaid

(* The same for the references that leave the record itself out.           *)
LEMMA OwnListFirst ==
  \A e : \A s \in Seq(Block), b \in Seq(Block) :
    LET u == Overlay(Grow(s, Len(b)), b, Len(b))
    IN  Len(u) < Wrap =>
          \E t \in Seq(Ref) : LinkedRecordsInfo(ParseList(u), e) = LinkedRecordsInfo(OwnRefs(b), e) \o t
PROOF
<1>1. ASSUME NEW e, NEW s \in Seq(Block), NEW b \in Seq(Block), NEW u,
             u = Overlay(Grow(s, Len(b)), b, Len(b)), Len(u) < Wrap
      PROVE  \E t \in Seq(Ref) : LinkedRecordsInfo(ParseList(u), e) = LinkedRecordsInfo(OwnRefs(b), e) \o t
  <2>1. PICK t \in Seq(Ref) : ParseList(u) = OwnRefs(b) \o t /\ OwnRefs(b) \in Seq(Ref)
    BY <1>1, OwnFirst
  <2>2. \A T : Keep(OwnRefs(b) \o t, T) = Keep(OwnRefs(b), T) \o Keep(t, T)
    BY <2>1, KeepConcat
  <2>3. \A T : Keep(t, T) \in Seq(Ref)
    BY KeepSeq
  <2> QED BY <2>1, <2>2, <2>3 DEF LinkedRecordsInfo
<1> DEFINE P(u, b, e) == Len(u) < Wrap =>
             \E t \in Seq(Ref) : LinkedRecordsInfo(ParseList(u), e) = LinkedRecordsInfo(OwnRefs(b), e) \o t
<1>2. \A e : \A s \in Seq(Block), b \in Seq(Block) : \A u :
        u = Overlay(Grow(s, Len(b)), b, Len(b)) => P(u, b, e)
  BY <1>1, Zenon
<1> HIDE DEF P
<1>3. \A e : \A s \in Seq(Block), b \in Seq(Block) : P(Overlay(Grow(s, Len(b)), b, Len(b)), b, e)
  BY <1>2, Zenon
<1> QED BY <1>3 DEF P

(* The references that a record's own entries leave are a list.            *)
LEMMA OwnListType ==
  ASSUME LoadInv, NEW e \in Slot
  PROVE  OwnBase(e) \in Seq(Ref) /\ \A k \in DOMAIN body[e].attrs : OwnList(e, k) \in Seq(Ref)
PROOF
<1>1. body[e] \in RecordBody /\ body[e].list \in Seq(Ref) /\ body[e].attrs \in Seq(Attr)
  BY DEF LoadInv, LoadType, RecordBody
<1>2. OwnBase(e) \in Seq(Ref)
  BY <1>1, LinkedType DEF OwnBase
<1>3. ASSUME NEW k \in DOMAIN body[e].attrs PROVE OwnList(e, k) \in Seq(Ref)
  <2> DEFINE b == body[e].attrs[k].blocks
  <2>1. body[e].attrs[k] \in Attr
    BY <1>1, LenProperties, ElementOfSeq
  <2>2. b \in Seq(Block)
    BY <2>1 DEF Attr
  <2> HIDE DEF b
  <2>3. ListStop(b) \in 1 .. Len(b) + 1 /\ Len(b) \in Nat
    BY <2>2, ListStops
  <2> DEFINE A == {ListStop(b), Len(b)}
  <2>4. A \subseteq Nat /\ A # {} /\ Len(b) \in A
    BY <2>3
  <2>5. Min(A) \in A /\ Min(A) <= Len(b)
    <3> HIDE DEF A
    <3> QED BY <2>4, MinOf
  <2>6. Min(A) \in 0 .. Len(b)
    BY <2>3, <2>4, <2>5
  <2>7. OwnRefs(b) \in Seq(Ref)
    BY <2>2, <2>6, RefsType DEF OwnRefs
  <2> QED BY <2>7, LinkedType DEF OwnList, b
<1> QED BY <1>2, <1>3

(* A step that leaves the references and what waits alone keeps them.      *)
LEMMA ListsKept ==
  ASSUME ListsRead, UNCHANGED <<head, body, info>>, phase \notin {"load", "panic"}, phase' \notin {"load", "panic"},
         Small' => Small,
         \A e \in Slot : head[e].entry = e => \A k \in ListAttrs(e) : Pending(e, k) => Pending(e, k)'
  PROVE  ListsRead'
PROOF
<1>1. \A e : /\ ListAttrs(e)' = ListAttrs(e) /\ OwnBase(e)' = OwnBase(e)
             /\ \A k : OwnList(e, k)' = OwnList(e, k)
  BY DEF ListAttrs, OwnBase, OwnList
<1> SUFFICES ASSUME Small, NEW e \in Slot, head[e].entry = e
             PROVE  /\ Begins(OwnBase(e), info[e])
                    /\ \A k \in ListAttrs(e) :
                         Pending(e, k)' \/ Range(OwnList(e, k)) \subseteq Range(info[e])
                    /\ \A k \in ListAttrs(e) : ListAttrs(e) = {k} =>
                         \/ Pending(e, k)' /\ info[e] = OwnBase(e)
                         \/ Begins(OwnBase(e) \o OwnList(e, k), info[e])
  BY <1>1 DEF ListsRead
<1>2. /\ Begins(OwnBase(e), info[e])
      /\ \A k \in ListAttrs(e) :
           Pending(e, k) \/ Range(OwnList(e, k)) \subseteq Range(info[e])
      /\ \A k \in ListAttrs(e) : ListAttrs(e) = {k} =>
           \/ Pending(e, k) /\ info[e] = OwnBase(e)
           \/ Begins(OwnBase(e) \o OwnList(e, k), info[e])
  BY DEF ListsRead
<1> QED BY <1>2

(* While the table is loaded each record has its own entries.              *)
LEMMA LoadListsRead == \A i \in Slot : ListsInv /\ Load(i) => ListsRead'
PROOF
<1> SUFFICES ASSUME NEW i \in Slot, ListsInv, Load(i) PROVE ListsRead'
  OBVIOUS
<1> USE DEF ListsInv
<1>1. phase = "load" /\ phase' = "load"
  BY DEF Load, MFTWorkerReturn, MFTWorkerRefuse, MFTWorkerCount, MFTWorkerStoreHead, MFTWorkerStoreBody
<1>2. info \in [Slot -> Seq(Ref)] /\ body \in [Slot -> RecordBody]
  BY DEF PoolInv, WorkType, LoadInv, LoadType
<1>3. \A e \in Slot : info[e] = LinkedRecordsInfo(body[e].list, e)
  BY <1>1 DEF ListsRead, OwnBase
<1>4. \A e \in Slot : info'[e] = LinkedRecordsInfo(body'[e].list, e)
  <2>1. CASE MFTWorkerStoreBody(i)
    <3> DEFINE c == ProcessHead(area[i]).entry
               b == ProcessBody(area[i])
    <3>1. body' = [body EXCEPT ![c] = b] /\ info' = [info EXCEPT ![c] = LinkedRecordsInfo(b.list, c)]
      BY <2>1 DEF MFTWorkerStoreBody
    <3> HIDE DEF c, b
    <3> QED BY <1>2, <1>3, <3>1
  <2>2. CASE UNCHANGED <<body, info>>
    BY <1>3, <2>2
  <2> QED BY <2>1, <2>2 DEF Load, MFTWorkerReturn, MFTWorkerRefuse, MFTWorkerCount, MFTWorkerStoreHead, nonresVars
<1> QED BY <1>1, <1>4 DEF ListsRead, OwnBase

(* A list begins with itself, and with what it begins with however it is   *)
(* extended.                                                               *)
LEMMA BeginsLonger ==
  ASSUME NEW x \in Seq(Ref)
  PROVE  Begins(x, x) /\ \A q \in Seq(Ref), z \in Seq(Ref) : Begins(q, x) => Begins(q, x \o z)
PROOF
<1>1. x = x \o <<>> /\ <<>> \in Seq(Ref)
  BY ConcatEmptySeq, EmptySeq
<1>2. ASSUME NEW q \in Seq(Ref), NEW z \in Seq(Ref), Begins(q, x) PROVE Begins(q, x \o z)
  <2>1. PICK t \in Seq(Ref) : x = q \o t
    BY <1>2 DEF Begins
  <2>2. (q \o t) \o z = q \o (t \o z) /\ t \o z \in Seq(Ref)
    BY ConcatTwice
  <2> QED BY <2>1, <2>2 DEF Begins
<1> QED BY <1>1, <1>2 DEF Begins

(* A list that another one and more are added to keeps what it held and    *)
(* holds what is added.                                                    *)
LEMMA ListGrows ==
  \A own, r, x \in Seq(Ref) :
    Range(x) \subseteq Range(x \o (own \o r)) /\ Range(own) \subseteq Range(x \o (own \o r))
PROOF
<1> SUFFICES ASSUME NEW own \in Seq(Ref), NEW r \in Seq(Ref), NEW x \in Seq(Ref)
             PROVE  Range(x) \subseteq Range(x \o (own \o r)) /\ Range(own) \subseteq Range(x \o (own \o r))
  OBVIOUS
<1> DEFINE z == own \o r
<1>1. z \in Seq(Ref) /\ Range(z) = Range(own) \cup Range(r)
  BY ConcatProperties, RangeConcatenation
<1> HIDE DEF z
<1>2. Range(x \o z) = Range(x) \cup Range(z)
  BY <1>1, RangeConcatenation
<1> QED BY <1>1, <1>2 DEF z

(* Reading an attribute keeps every reference of the lists already read    *)
(* and adds those of the list it reads.                                    *)
LEMMA AttributeListsRead ==
  \A w \in Workers : ListsInv /\ (SkipAttribute(w) \/ ReadFails(w) \/ ParseAttribute(w)) => ListsRead'
PROOF
<1> SUFFICES ASSUME NEW w \in Workers, ListsInv, SkipAttribute(w) \/ ReadFails(w) \/ ParseAttribute(w)
             PROVE  ListsRead'
  OBVIOUS
<1> USE DEF ListsInv
<1> DEFINE e == job[w]
           a == body[e].attrs[ai[w]]
           b == a.blocks
<1>1. /\ phase = "nonres" /\ phase' = "nonres" /\ e # Nil /\ NextAttr(w)
      /\ UNCHANGED <<area, sel, head, body, ch>>
  BY DEF SkipAttribute, ReadFails, ParseAttribute, inputs
<1>2. /\ e \in Slot /\ ai[w] \in 1 .. Len(body[e].attrs) /\ ai[w] \in DOMAIN body[e].attrs
      /\ b \in Seq(Block) /\ scratch[w] \in Seq(Block)
  BY <1>1, ReadType
<1>3. scratch \in [Workers -> Seq(Block)] /\ info \in [Slot -> Seq(Ref)] /\ LoadInv
  BY DEF PoolInv, WorkType
<1>4. \A f \in Slot : \A k \in ListAttrs(f) : Pending(f, k) => Pending(f, k)' \/ (f = e /\ k = ai[w])
  <2>1. \A f \in Slot : \A k \in ListAttrs(f) : k \in 1 .. Len(body[f].attrs)
    BY DEF ListAttrs
  <2> QED BY <1>1, <2>1, PendingNext
<1>5. ASSUME NEW k \in 0 .. Len(b), scratch' = [scratch EXCEPT ![w] = Overlay(Grow(@, Len(b)), b, k)]
      PROVE  (Small' => Small) /\ (Small' => Len(Overlay(Grow(scratch[w], Len(b)), b, k)) < Wrap)
  <2> DEFINE u == Overlay(Grow(scratch[w], Len(b)), b, k)
  <2>1. Len(scratch[w]) <= Len(u) /\ Len(u) \in Nat /\ Len(scratch[w]) \in Nat
    BY <1>2, OverlaidLength
  <2>2. scratch' = [scratch EXCEPT ![w] = u]
    BY <1>5
  <2> HIDE DEF u
  <2>3. scratch'[w] = u /\ \A v \in Workers \ {w} : scratch'[v] = scratch[v]
    BY <1>3, <2>2
  <2>4. Small' => Len(u) < Wrap /\ \A v \in Workers \ {w} : Len(scratch[v]) < Wrap
    BY <2>3 DEF Small
  <2>5. Small' => Len(scratch[w]) < Wrap
    BY <2>1, <2>4, WrapAssumption
  <2>6. Small' => Small
    BY <2>4, <2>5 DEF Small
  <2> QED BY <2>4, <2>6 DEF u
<1>6. CASE SkipAttribute(w) \/ ReadFails(w)
  <2>1. info' = info /\ (Skipped(a, head[e].entry) \/ ~a.ok)
    BY <1>6 DEF SkipAttribute, ReadFails
  <2>2. head[e].entry = e => ai[w] \notin ListAttrs(e)
    BY <2>1 DEF ListAttrs
  <2>3. \A f \in Slot : head[f].entry = f => \A k \in ListAttrs(f) : Pending(f, k) => Pending(f, k)'
    BY <1>4, <2>2
  <2>4. Small' => Small
    <3>1. CASE SkipAttribute(w)
      BY <3>1 DEF SkipAttribute, Small
    <3>2. CASE ReadFails(w)
      <4>1. PICK k \in 0 .. Len(b) : scratch' = [scratch EXCEPT ![w] = Overlay(Grow(@, Len(b)), b, k)]
        BY <3>2 DEF ReadFails
      <4> QED BY <1>5, <4>1
    <3> QED BY <1>6, <3>1, <3>2
  <2> QED BY <1>1, <2>1, <2>3, <2>4, ListsKept
<1>7. CASE ParseAttribute(w) /\ a.type # "list"
  <2>1. /\ info' = info /\ scratch' = [scratch EXCEPT ![w] = Overlay(Grow(@, Len(b)), b, Len(b))]
    BY <1>7 DEF ParseAttribute
  <2>2. ai[w] \notin ListAttrs(e)
    BY <1>7 DEF ListAttrs
  <2>3. \A f \in Slot : head[f].entry = f => \A k \in ListAttrs(f) : Pending(f, k) => Pending(f, k)'
    BY <1>4, <2>2
  <2>4. Len(b) \in 0 .. Len(b)
    BY <1>2, LenProperties
  <2>5. Small' => Small
    BY <1>5, <2>1, <2>4
  <2> QED BY <1>1, <2>1, <2>3, <2>5, ListsKept
<1>8. CASE ParseAttribute(w) /\ a.type = "list"
  <2> DEFINE u == Overlay(Grow(scratch[w], Len(b)), b, Len(b))
             new == LinkedRecordsInfo(ParseList(u), head[e].entry)
  <2>1. /\ scratch' = [scratch EXCEPT ![w] = u] /\ ~Skipped(a, head[e].entry) /\ a.ok
        /\ info' = [info EXCEPT ![e] = @ \o new]
    BY <1>8 DEF ParseAttribute
  <2>2. Len(b) \in 0 .. Len(b)
    BY <1>2, LenProperties
  <2>3. (Small' => Small) /\ (Small' => Len(u) < Wrap)
    BY <1>5, <2>1, <2>2
  <2>4. ASSUME head[e].entry = e PROVE ai[w] \in ListAttrs(e) /\ OwnList(e, ai[w]) = LinkedRecordsInfo(OwnRefs(b), e)
    BY <1>2, <1>8, <2>1, <2>4 DEF ListAttrs, OwnList
  <2>5. ASSUME Small', head[e].entry = e PROVE \E t \in Seq(Ref) : new = OwnList(e, ai[w]) \o t
    <3>1. \E t \in Seq(Ref) : LinkedRecordsInfo(ParseList(u), e) = LinkedRecordsInfo(OwnRefs(b), e) \o t
      BY <1>2, <2>3, <2>5, OwnListFirst
    <3> QED BY <2>4, <2>5, <3>1
  <2>6. OwnBase(e) \in Seq(Ref) /\ OwnList(e, ai[w]) \in Seq(Ref)
    BY <1>2, <1>3, OwnListType
  <2> HIDE DEF u, new
  <2>7. info'[e] = info[e] \o new /\ \A f \in Slot \ {e} : info'[f] = info[f]
    BY <1>2, <1>3, <2>1
  <2>8. \A f : /\ ListAttrs(f)' = ListAttrs(f) /\ OwnBase(f)' = OwnBase(f)
               /\ \A k : OwnList(f, k)' = OwnList(f, k)
    BY <1>1 DEF ListAttrs, OwnBase, OwnList
  <2> SUFFICES ASSUME Small', NEW f \in Slot, head[f].entry = f
               PROVE  /\ Begins(OwnBase(f), info'[f])
                      /\ \A k \in ListAttrs(f) :
                           Pending(f, k)' \/ Range(OwnList(f, k)) \subseteq Range(info'[f])
                      /\ \A k \in ListAttrs(f) : ListAttrs(f) = {k} =>
                           \/ Pending(f, k)' /\ info'[f] = OwnBase(f)
                           \/ Begins(OwnBase(f) \o OwnList(f, k), info'[f])
    BY <1>1, <2>8 DEF ListsRead
  <2>9. /\ Begins(OwnBase(f), info[f])
        /\ \A k \in ListAttrs(f) :
             Pending(f, k) \/ Range(OwnList(f, k)) \subseteq Range(info[f])
        /\ \A k \in ListAttrs(f) : ListAttrs(f) = {k} =>
             \/ Pending(f, k) /\ info[f] = OwnBase(f)
             \/ Begins(OwnBase(f) \o OwnList(f, k), info[f])
    BY <1>1, <2>3 DEF ListsRead
  <2>10. CASE f # e
    <3>1. info'[f] = info[f] /\ \A k \in ListAttrs(f) : Pending(f, k) => Pending(f, k)'
      BY <1>4, <2>7, <2>10
    <3> QED BY <2>9, <3>1
  <2>11. CASE f = e
    <3> DEFINE own == OwnList(f, ai[w])
               base == OwnBase(f)
    <3>1. PICK r \in Seq(Ref) : new = own \o r
      BY <2>5, <2>11
    <3>2. base \in Seq(Ref) /\ own \in Seq(Ref) /\ info[f] \in Seq(Ref) /\ base \o own \in Seq(Ref)
      BY <1>3, <2>6, <2>11, ConcatProperties
    <3>3. info'[f] = info[f] \o (own \o r)
      BY <2>7, <2>11, <3>1
    <3>4. /\ \A q \in Seq(Ref) : Begins(q, info[f]) => Begins(q, info'[f])
          /\ Range(info[f]) \subseteq Range(info'[f]) /\ Range(own) \subseteq Range(info'[f])
          /\ info[f] = base => Begins(base \o own, info'[f])
      <4> DEFINE x == info[f]
                 z == own \o r
      <4>1. base \in Seq(Ref) /\ own \in Seq(Ref) /\ x \in Seq(Ref) /\ r \in Seq(Ref) /\ z \in Seq(Ref)
        BY <3>1, <3>2, ConcatProperties
      <4>2. info'[f] = x \o z
        BY <3>3
      <4>3. (base \o own) \o r = base \o z
        <5> HIDE DEF base, own
        <5>1. base \in Seq(Ref) /\ own \in Seq(Ref) /\ r \in Seq(Ref)
          BY <4>1
        <5>2. (base \o own) \o r = base \o (own \o r)
          BY <5>1, ConcatTwice, SMTT(30)
        <5> QED BY <5>2
      <4>4. Range(x) \subseteq Range(x \o z) /\ Range(own) \subseteq Range(x \o z)
        BY <4>1, ListGrows
      <4> HIDE DEF own, base, x, z
      <4>5. \A q \in Seq(Ref) : Begins(q, x) => Begins(q, x \o z)
        BY <4>1, BeginsLonger
      <4>6. x = base => Begins(base \o own, x \o z)
        BY <4>1, <4>3 DEF Begins
      <4> QED BY <4>2, <4>4, <4>5, <4>6 DEF x
    <3>5. Begins(base, info'[f])
      BY <2>9, <3>2, <3>4
    <3>6. ASSUME NEW k \in ListAttrs(f) PROVE Pending(f, k)' \/ Range(OwnList(f, k)) \subseteq Range(info'[f])
      <4>1. CASE k = ai[w]
        BY <3>4, <4>1
      <4>2. CASE k # ai[w]
        BY <1>4, <2>9, <3>4, <3>6, <4>2
      <4> QED BY <4>1, <4>2
    <3>7. ASSUME NEW k \in ListAttrs(f), ListAttrs(f) = {k}
          PROVE  Begins(base \o own, info'[f]) /\ k = ai[w]
      <4>1. k = ai[w]
        BY <2>4, <2>11, <3>7
      <4>2. info[f] = base \/ Begins(base \o own, info[f])
        BY <2>9, <3>7, <4>1
      <4>3. Begins(base \o own, info'[f])
        BY <3>2, <3>4, <4>2
      <4> QED BY <4>1, <4>3
    <3> QED BY <3>5, <3>6, <3>7
  <2> QED BY <2>10, <2>11
<1> QED BY <1>6, <1>7, <1>8

(* No reference is kept before the table is loaded.                        *)
LEMMA InitListsInv == Init => ListsInv
PROOF
<1> SUFFICES ASSUME Init PROVE ListsInv
  OBVIOUS
<1>1. PoolInv
  BY InitPoolInv
<1>2. \A e : Keep(<<>>, {x \in Ref : x.ref # e}) = <<>>
  BY KeepEmpty
<1>3. ListsRead
  <2>1. phase \in {"load", "panic"} /\ \A e \in Slot : info[e] = <<>> /\ body[e].list = <<>>
    BY DEF Init, EmptyBody
  <2> QED BY <1>2, <2>1 DEF ListsRead, OwnBase, LinkedRecordsInfo
<1> QED BY <1>1, <1>3 DEF ListsInv

(* When the pool starts, every list has still to be read.                  *)
LEMMA StartListsRead == ListsInv /\ ProcessNonResidentRecords => ListsRead'
PROOF
<1> SUFFICES ASSUME ListsInv, ProcessNonResidentRecords PROVE ListsRead'
  OBVIOUS
<1>1. phase = "load" /\ phase' = "nonres" /\ UNCHANGED <<head, body, info>>
  BY DEF ProcessNonResidentRecords, nonresVars
<1>2. \A e : /\ ListAttrs(e)' = ListAttrs(e) /\ OwnBase(e)' = OwnBase(e)
             /\ \A k : OwnList(e, k)' = OwnList(e, k)
  BY <1>1 DEF ListAttrs, OwnBase, OwnList
<1>3. \A e \in Slot : info[e] = OwnBase(e)
  BY <1>1 DEF ListsInv, ListsRead
<1>4. \A e \in Slot : Begins(OwnBase(e), info[e])
  <2> SUFFICES ASSUME NEW e \in Slot PROVE Begins(OwnBase(e), info[e])
    OBVIOUS
  <2>1. info[e] \in Seq(Ref)
    BY DEF ListsInv, PoolInv, WorkType
  <2>2. Begins(info[e], info[e])
    BY <2>1, BeginsLonger
  <2> QED BY <1>3, <2>2
<1>5. \A e \in Slot : \A k : Pending(e, k)'
  BY PendingStart
<1> QED BY <1>1, <1>2, <1>3, <1>4, <1>5 DEF ListsRead

(* Every step keeps it.                                                    *)
LEMMA NextListsInv == ListsInv /\ [Next]_vars => ListsInv'
PROOF
<1> SUFFICES ASSUME ListsInv, [Next]_vars PROVE ListsInv'
  OBVIOUS
<1> USE DEF ListsInv
<1>1. PoolInv'
  BY NextPoolInv
<1>2. ASSUME UNCHANGED <<head, body, info, scratch>>, phase \notin {"load", "panic"}, phase' \notin {"load", "panic"},
             \A e \in Slot : \A k \in ListAttrs(e) : Pending(e, k) => Pending(e, k)'
      PROVE  ListsRead'
  <2>1. Small' => Small
    BY <1>2 DEF Small
  <2> QED BY <1>2, <2>1, ListsKept
<1>3. ListsRead'
  <2>1. CASE \E i \in Slot : Load(i)
    BY <2>1, LoadListsRead
  <2>2. CASE ProcessNonResidentRecords
    BY <2>2, StartListsRead
  <2>3. ASSUME NEW w \in Workers, NonResident(w) PROVE ListsRead'
    <3>1. CASE TakeRecord(w)
      <4>1. UNCHANGED <<head, body, info, scratch>> /\ phase = "nonres" /\ phase' = "nonres"
        BY <3>1 DEF TakeRecord
      <4>2. \A e \in Slot : \A k \in ListAttrs(e) : k \in 1 .. Len(body[e].attrs)
        BY DEF ListAttrs
      <4>3. \A e \in Slot : \A k \in ListAttrs(e) : Pending(e, k) => Pending(e, k)'
        BY <3>1, <4>2, PendingTake
      <4> QED BY <1>2, <4>1, <4>3
    <3> QED BY <2>3, <3>1, AttributeListsRead DEF NonResident
  <2>4. CASE NonResidentDone
    <3>1. UNCHANGED <<head, body, info, scratch>> /\ phase = "nonres" /\ phase' = "link" /\ ch = <<>>
          /\ \A w \in Workers : job[w] = Nil
      BY <2>4 DEF NonResidentDone, nonresVars
    <3>2. \A e \in Slot : \A k : ~Pending(e, k)
      BY <3>1, PendingEnd
    <3> QED BY <1>2, <3>1, <3>2
  <2>5. CASE CreateLinkedRecords \/ FindParentRecords \/ (\E w \in Workers : FileSizes(w)) \/ SizesDone
    <3>1. UNCHANGED <<head, body, info, scratch>> /\ phase \in {"link", "parents", "sizes"}
      BY <2>5 DEF CreateLinkedRecords, FindParentRecords, FileSizes, TakeFolder, SetI30LSize, SetI30PSize, SizesDone,
         nonresVars, PoolInv, Idle, WorkType
    <3>2. phase' \notin {"load", "panic"}
      BY <2>5, <3>1 DEF CreateLinkedRecords, FindParentRecords, FileSizes, TakeFolder, SetI30LSize, SetI30PSize, SizesDone
    <3>3. \A e \in Slot : \A k : ~Pending(e, k)
      BY <3>1, PendingEnd
    <3> QED BY <1>2, <3>1, <3>2, <3>3
  <2>6. CASE UNCHANGED vars
    <3>1. UNCHANGED <<phase, head, body, ch, job, ai, scratch, info>>
      BY <2>6 DEF vars, nonresVars
    <3>2. \A e, k : Pending(e, k)' = Pending(e, k)
      BY <3>1 DEF Pending
    <3>3. CASE phase \notin {"load", "panic"}
      BY <1>2, <3>1, <3>2, <3>3
    <3>4. CASE phase \in {"load", "panic"}
      <4>1. \A e : OwnBase(e)' = OwnBase(e)
        BY <3>1 DEF OwnBase
      <4> QED BY <3>1, <3>4, <4>1 DEF ListsRead
    <3> QED BY <3>3, <3>4
  <2> QED BY <2>1, <2>2, <2>3, <2>4, <2>5, <2>6 DEF Next, Returned
<1> QED BY <1>1, <1>3

(* The invariant about the attribute lists holds in every state.           *)
LEMMA ListsInvariance == Spec => []ListsInv
PROOF
<1>1. Init => ListsInv
  BY InitListsInv
<1>2. ListsInv /\ [Next]_vars => ListsInv'
  BY NextListsInv
<1> QED BY <1>1, <1>2, PTL DEF Spec

(* What a record's attribute lists hold on disk, list by list.             *)
LEMMA OwnInfoParts ==
  ASSUME LoadInv, NEW e \in Slot
  PROVE  /\ Range(OwnInfo(e)) = Range(OwnBase(e)) \cup UNION {Range(OwnList(e, k)) : k \in ListAttrs(e)}
         /\ ListAttrs(e) = {} => OwnInfo(e) = OwnBase(e)
         /\ \A k \in ListAttrs(e) : ListAttrs(e) = {k} => OwnInfo(e) = OwnBase(e) \o OwnList(e, k)
PROOF
<1> DEFINE n == Len(body[e].attrs)
           A == ListAttrs(e)
           base == OwnBase(e)
           L(k) == OwnList(e, k)
           ss == [k \in 1 .. n |-> IF k \in A THEN L(k) ELSE <<>>]
<1>1. n \in Nat /\ DOMAIN body[e].attrs = 1 .. n
  BY BodyAttrs, LenProperties
<1>2. A \subseteq 1 .. n
  BY DEF ListAttrs
<1>3. base \in Seq(Ref) /\ \A k \in 1 .. n : L(k) \in Seq(Ref)
  BY <1>1, OwnListType
<1>4. OwnInfo(e) = base \o FlattenSeq(ss)
  BY DEF OwnInfo, OwnBase
<1> HIDE DEF n, A, base, L
<1>5. <<>> \in Seq(Ref) /\ Range(<<>>) = {}
  BY EmptySeq DEF Range
<1>6. /\ ss \in Seq(Seq(Ref)) /\ Len(ss) = n
      /\ \A k \in 1 .. n : ss[k] = IF k \in A THEN L(k) ELSE <<>>
  BY <1>1, <1>3, <1>5
<1> HIDE DEF ss
<1>7. DOMAIN ss = 1 .. n
  BY <1>6, LenProperties
<1>8. Range(FlattenSeq(ss)) = UNION {Range(ss[k]) : k \in 1 .. n} /\ FlattenSeq(ss) \in Seq(Ref)
  BY <1>6, <1>7, FlattenRange, FlattenType
<1>9. UNION {Range(ss[k]) : k \in 1 .. n} = UNION {Range(L(k)) : k \in A}
  BY <1>2, <1>5, <1>6
<1>10. Range(base \o FlattenSeq(ss)) = Range(base) \cup Range(FlattenSeq(ss))
  BY <1>3, <1>8, RangeConcatenation
<1>11. ASSUME A = {} PROVE base \o FlattenSeq(ss) = base
  <2>1. \A j \in 1 .. Len(ss) : j # 0 => ss[j] = <<>>
    BY <1>6, <1>11
  <2>2. FlattenSeq(ss) = <<>>
    <3>1. FlattenSeq(ss) = IF 0 \in 1 .. Len(ss) THEN ss[0] ELSE <<>>
      BY <1>6, <2>1, FlattenOne
    <3>2. 0 \notin 1 .. Len(ss)
      BY <1>1, <1>6
    <3> QED BY <3>1, <3>2
  <2> QED BY <1>3, <2>2, ConcatEmptySeq
<1>12. ASSUME NEW k \in A, A = {k} PROVE FlattenSeq(ss) = L(k)
  <2>1. k \in 1 .. Len(ss) /\ ss[k] = L(k) /\ \A j \in 1 .. Len(ss) : j # k => ss[j] = <<>>
    BY <1>2, <1>6, <1>12
  <2> QED BY <1>6, <2>1, FlattenOne
<1>13. Range(OwnInfo(e)) = Range(base) \cup UNION {Range(L(k)) : k \in A}
  BY <1>4, <1>8, <1>9, <1>10
<1> QED BY <1>4, <1>11, <1>12, <1>13 DEF A, base, L

(* For every $MFT and every number of workers, as long as no buffer        *)
(* reaches 64 KiB a record ends up with every reference of its own         *)
(* attribute lists, and they come first if it has one list, whatever else  *)
(* the worker's buffer held (ProcessNoNResidentAttributesWorker).          *)
THEOREM OwnListKeptHolds == Spec => []OwnListKept
PROOF
<1>1. ListsInv => OwnListKept
  <2> SUFFICES ASSUME ListsInv, phase \notin {"load", "nonres", "panic"}, Small, NEW e \in Slot, head[e].entry = e
               PROVE  /\ Range(OwnInfo(e)) \subseteq Range(info[e])
                      /\ (\A j, k \in ListAttrs(e) : j = k) => IsPrefix(OwnInfo(e), info[e])
    BY DEF OwnListKept, Small
  <2>1. PoolInv /\ LoadInv /\ \A k : ~Pending(e, k)
    BY PendingEnd DEF ListsInv, PoolInv
  <2>2. /\ Begins(OwnBase(e), info[e])
        /\ \A k \in ListAttrs(e) : Range(OwnList(e, k)) \subseteq Range(info[e])
        /\ \A k \in ListAttrs(e) : ListAttrs(e) = {k} => Begins(OwnBase(e) \o OwnList(e, k), info[e])
    BY <2>1 DEF ListsInv, ListsRead
  <2>3. /\ Range(OwnInfo(e)) = Range(OwnBase(e)) \cup UNION {Range(OwnList(e, k)) : k \in ListAttrs(e)}
        /\ ListAttrs(e) = {} => OwnInfo(e) = OwnBase(e)
        /\ \A k \in ListAttrs(e) : ListAttrs(e) = {k} => OwnInfo(e) = OwnBase(e) \o OwnList(e, k)
    BY <2>1, OwnInfoParts
  <2>4. OwnBase(e) \in Seq(Ref) /\ \A k \in ListAttrs(e) : OwnList(e, k) \in Seq(Ref)
    <3>1. DOMAIN body[e].attrs = 1 .. Len(body[e].attrs)
      BY <2>1, BodyAttrs, LenProperties
    <3> QED BY <2>1, <3>1, OwnListType DEF ListAttrs
  <2>5. Range(OwnBase(e)) \subseteq Range(info[e])
    <3>1. PICK t \in Seq(Ref) : info[e] = OwnBase(e) \o t
      BY <2>2 DEF Begins
    <3> QED BY <2>4, <3>1, RangeConcatenation
  <2>6. \A q \in Seq(Ref) : Begins(q, info[e]) => IsPrefix(q, info[e])
    BY PrefixConcat DEF Begins
  <2>7. ASSUME \A j, k \in ListAttrs(e) : j = k PROVE IsPrefix(OwnInfo(e), info[e])
    <3>1. CASE ListAttrs(e) = {}
      BY <2>2, <2>3, <2>4, <2>6, <3>1
    <3>2. CASE ListAttrs(e) # {}
      <4>1. PICK k \in ListAttrs(e) : ListAttrs(e) = {k}
        BY <2>7, <3>2
      <4>2. OwnBase(e) \o OwnList(e, k) \in Seq(Ref)
        BY <2>4, <4>1, ConcatProperties
      <4> QED BY <2>2, <2>3, <2>6, <4>1, <4>2
    <3> QED BY <3>1, <3>2
  <2> QED BY <2>2, <2>3, <2>5, <2>7
<1> QED BY <1>1, ListsInvariance, PTL
=============================================================================
