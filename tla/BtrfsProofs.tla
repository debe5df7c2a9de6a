----------------------------- MODULE BtrfsProofs ------------------------------
(***************************************************************************)
(* Loading a BTRFS volume, for all volumes, any number of trees and any    *)
(* capacity of the channels: the two goroutines of a tree amount to one    *)
(* sequential descent, and what a loaded tree has is what that read.       *)
(***************************************************************************)
EXTENDS BtrfsTrees, SequenceTheorems, FiniteSetTheorems, WellFoundedInduction, TLAPS

AnyLeaf == {n \in UNION {Range(d.nodes) : d \in Disks} : n.kind = "leaf"}
AnyItem == (UNION {Range(n.items) : n \in AnyLeaf}) \cup (UNION {Range(d.system) : d \in Disks})

(* The leaves read for a tree so far: those collected, those in the        *)
(* channel, and the one about to be sent.                                  *)
Got(t) == (cons[t].nodes \o ch[t]) \o (IF prod[t].pc = "send" THEN <<prod[t].leaf>> ELSE <<>>)

Record(t) ==
  /\ DOMAIN prod[t] = {"pc", "walk", "want", "leaf"}
  /\ DOMAIN cons[t] = {"pc", "nodes", "files"}
  /\ DOMAIN trees[t] = {"at", "nodes", "files"}

Held(t) ==
  /\ cons[t].nodes \in Seq(AnyLeaf) /\ ch[t] \in Seq(AnyLeaf)
  /\ prod[t].pc = "send" => prod[t].leaf \in AnyLeaf

(* What holds of a tree by where its goroutines are.                       *)
Stage(t) ==
  /\ t \in todo => prod[t].pc = "idle" /\ cons[t].pc = "idle"
  /\ prod[t].pc = "read" => prod[t].walk.kids # <<>>
  /\ prod[t].pc = "closed" => prod[t].walk.kids = <<>>
  /\ cons[t].pc \in {"idle", "begin"} => cons[t].nodes = <<>>
  /\ cons[t].pc \in {"write", "done"} => ch[t] = <<>> /\ prod[t].pc = "closed"
  /\ trees[t].nodes = IF cons[t].pc = "done" THEN cons[t].nodes ELSE <<>>

(* A descent reads where it has sought.                                    *)
Aim(t) == prod[t].pc = "read" => ReadAt(t) \in LocatePhysicalOffset(Head(prod[t].walk.kids))

Phases ==
  /\ phase \in {"chunks", "roots"} => DOMAIN trees = {}
  /\ phase = "done" => \A t \in DOMAIN trees : prod[t].pc = "closed" /\ cons[t].pc = "done"

IInv ==
  /\ TypeOK /\ items \in Seq(AnyItem) /\ Phases
  /\ \A t \in DOMAIN trees : Record(t) /\ Held(t) /\ Stage(t) /\ (Undisturbed => Aim(t))

(* A step visits the next node of tree t and has read it.                  *)
Visits(t) ==
  /\ prod[t].walk.kids # <<>>
  /\ \E o \in {prod[t].want, fp} :
       LET node == ReadNode(o)
       IN /\ Undisturbed => o \in LocatePhysicalOffset(Head(prod[t].walk.kids))
          /\ prod'[t].walk = Advance(prod[t].walk, node)
          /\ Got(t)' = IF node.kind = "leaf" THEN Append(Got(t), node) ELSE Got(t)

Stays(t) == prod'[t].walk = prod[t].walk /\ Got(t)' = Got(t)

(* However the goroutines of all trees are scheduled, to each tree it      *)
(* looks as if one loop descended from its root, read one node after the   *)
(* other and appended the leaves; if no other descent moves the file       *)
(* pointer, each node is the one its parent points to (ParseTreeNodeCh,    *)
(* Update).                                                                *)
SequentialDescent ==
  [][/\ DOMAIN trees \subseteq DOMAIN trees'
     /\ \A t \in DOMAIN trees : Stays(t) \/ Visits(t)
     /\ \A t \in DOMAIN trees' \ DOMAIN trees : prod'[t].walk = Start(trees'[t].at) /\ Got(t)' = <<>>]_vars

(* Of a loaded volume every tree was descended to the end, and the tree    *)
(* has the leaves that were read, none of them left in the channel.        *)
LoadedWhole ==
  phase = "done" => \A t \in DOMAIN trees : prod[t].walk.kids = <<>> /\ trees[t].nodes = Got(t)
-----------------------------------------------------------------------------
(* A nonempty set of positions in a sequence has a greatest one.           *)
LEMMA GreatestPosition ==
  ASSUME NEW n \in Nat, NEW S \in SUBSET (1 .. n), S # {}
  PROVE  Max(S) \in S
PROOF
<1> DEFINE T == {n - k : k \in S}
<1>1. /\ \A k \in S : k \in Nat /\ n - k \in Nat
      /\ T \subseteq Nat /\ T # {}
  <2>1. \A k \in S : k \in Nat /\ n - k \in Nat
    OBVIOUS
  <2> QED BY <2>1
<1>2. \E x \in T : \A y \in T : ~(<<y, x>> \in OpToRel(<, Nat))
  <2> HIDE DEF T
  <2> QED BY <1>1, NatLessThanWellFounded, WFMin
<1>3. PICK k \in S : \A y \in T : ~(<<y, n - k>> \in OpToRel(<, Nat))
  BY <1>2
<1>4. \A j \in S : k >= j
  <2> SUFFICES ASSUME NEW j \in S PROVE k >= j
    OBVIOUS
  <2>1. n - j \in T /\ n - j \in Nat /\ n - k \in Nat
    BY <1>1
  <2>2. ~(n - j < n - k)
    <3> HIDE DEF T
    <3> QED BY <1>3, <2>1 DEF OpToRel
  <2> QED BY <1>1, <2>2
<1> QED BY <1>3, <1>4 DEF Max

LEMMA ChunkItems == \A i \in AnyItem : i.type = "chunk" => i.val \in Chunk
PROOF
<1>1. ASSUME NEW n \in AnyLeaf PROVE \A i \in Range(n.items) : i.type = "chunk" => i.val \in Chunk
  <2>1. PICK d \in Disks : n \in Range(d.nodes)
    BY DEF AnyLeaf
  <2>2. PICK o \in DOMAIN d.nodes : n = d.nodes[o]
    BY <2>1 DEF Range
  <2>3. n.kind = "leaf"
    BY DEF AnyLeaf
  <2>4. d.nodes[o].kind = "leaf" => Listed(d.nodes[o].items)
    BY BtrfsAssumption
  <2> QED BY <2>2, <2>3, <2>4 DEF Listed
<1>2. \A d \in Disks : \A i \in Range(d.system) : i.type = "chunk" => i.val \in Chunk
  BY BtrfsAssumption DEF Listed
<1> SUFFICES ASSUME NEW i \in AnyItem PROVE i.type = "chunk" => i.val \in Chunk
  OBVIOUS
<1>3. (\E n \in AnyLeaf : i \in Range(n.items)) \/ (\E d \in Disks : i \in Range(d.system))
  BY DEF AnyItem
<1> QED BY <1>1, <1>2, <1>3

(* Adding chunks to a map of chunks gives one (UpdateChunkMaps).           *)
LEMMA AddChunksType ==
  ASSUME NEW map, map \in [DOMAIN map -> Chunk], NEW its \in Seq(AnyItem)
  PROVE  AddChunks(map, its) \in [DOMAIN AddChunks(map, its) -> Chunk]
PROOF
<1> DEFINE found == {n \in DOMAIN its : its[n].type = "chunk"}
           of(k) == {n \in found : its[n].off = k}
           dom   == DOMAIN map \cup {its[n].off : n \in found}
           value(k) == IF of(k) = {} THEN map[k] ELSE its[Max(of(k))].val
<1>1. AddChunks(map, its) = [k \in dom |-> value(k)]
  BY DEF AddChunks
<1>2. \A k \in dom : value(k) \in Chunk
  <2> SUFFICES ASSUME NEW k \in dom PROVE value(k) \in Chunk
    OBVIOUS
  <2>1. CASE of(k) = {}
    BY <2>1
  <2>2. CASE of(k) # {}
    <3>1. of(k) \in SUBSET (1 .. Len(its)) /\ Len(its) \in Nat
      OBVIOUS
    <3>2. Max(of(k)) \in of(k)
      <4> HIDE DEF of
      <4> QED BY <3>1, <2>2, GreatestPosition
    <3>3. its[Max(of(k))] \in AnyItem /\ its[Max(of(k))].type = "chunk"
      BY <3>1, <3>2
    <3> QED BY <2>2, <3>3, ChunkItems
  <2> QED BY <2>1, <2>2
<1> HIDE DEF value, dom
<1> QED BY <1>1, <1>2

(* What a read gives that is a leaf is a leaf of the disk.                 *)
LEMMA ReadLeaf ==
  ASSUME disk \in Disks, NEW o, ReadNode(o).kind = "leaf"
  PROVE  ReadNode(o) \in AnyLeaf /\ ReadNode(o).items \in Seq(AnyItem)
PROOF
<1>1. o \in DOMAIN disk.nodes /\ ReadNode(o) = disk.nodes[o]
  BY DEF ReadNode, Bad, Gone
<1>2. ReadNode(o) \in AnyLeaf
  BY <1>1 DEF AnyLeaf, Range
<1>3. ReadNode(o).items \in Seq(Range(ReadNode(o).items))
  BY <1>1, BtrfsAssumption DEF Listed
<1>4. Range(ReadNode(o).items) \subseteq AnyItem
  BY <1>2 DEF AnyItem
<1> QED BY <1>2, <1>3, <1>4, SeqMonotonic

(* Trees start without nodes (DiscoverTrees).                              *)
LEMMA NewTrees ==
  ASSUME NEW its
  PROVE  \A t \in DOMAIN TreesOf(its) : /\ DOMAIN TreesOf(its)[t] = {"at", "nodes", "files"}
                                        /\ TreesOf(its)[t].nodes = <<>>
PROOF BY DEF TreesOf

(* Everything but the program counter of the loop is as it was.            *)
LEMMA SameTrees ==
  ASSUME IInv, UNCHANGED <<disk, chunks, items, trees, todo, prod, ch, cons, fp>>,
         phase' \in {"wait", "done", "error", "fatal", "panic", "roots"},
         phase' = "roots" => phase \in {"chunks", "roots"},
         phase' = "done" => \A t \in DOMAIN trees : prod[t].pc = "closed" /\ cons[t].pc = "done"
  PROVE  IInv'
PROOF
<1> USE DEF IInv
<1>1. TypeOK'
  BY DEF TypeOK
<1>2. \A t \in DOMAIN trees' : Record(t)' /\ Held(t)' /\ Stage(t)'
  BY DEF Record, Held, Stage
<1>3. Phases' /\ items' \in Seq(AnyItem)
  BY DEF Phases
<1>4. \A t \in DOMAIN trees' : Undisturbed' => Aim(t)'
  BY DEF Aim, Undisturbed, ReadAt, LocatePhysicalOffset
<1> QED BY <1>1, <1>2, <1>3, <1>4

(* Nothing is loaded yet.                                                  *)
LEMMA InitIInv == Init => IInv
PROOF
<1> SUFFICES ASSUME Init PROVE IInv
  OBVIOUS
<1>1. disk \in Disks /\ DOMAIN trees = {} /\ todo = {} /\ items = <<>> /\ phase = "chunks"
      /\ DOMAIN prod = {} /\ DOMAIN ch = {} /\ DOMAIN cons = {}
  BY DEF Init
<1>2. chunks \in [DOMAIN chunks -> Chunk]
  <2>1. disk.system \in Seq(Range(disk.system))
    BY <1>1, BtrfsAssumption DEF Listed
  <2>2. Range(disk.system) \subseteq AnyItem
    BY <1>1 DEF AnyItem
  <2>3. disk.system \in Seq(AnyItem)
    BY <2>1, <2>2, SeqMonotonic
  <2>4. <<>> \in [DOMAIN <<>> -> Chunk]
    OBVIOUS
  <2> QED BY <2>3, <2>4, AddChunksType DEF Init
<1>3. TypeOK
  BY <1>1, <1>2 DEF TypeOK
<1>4. items \in Seq(AnyItem) /\ Phases
  BY <1>1 DEF Phases
<1> QED BY <1>1, <1>3, <1>4 DEF IInv
-----------------------------------------------------------------------------
(* The steps before the goroutines.                                        *)

LEMMA ParseTreeNodeIInv == IInv /\ ParseTreeNode => IInv'
PROOF
<1> SUFFICES ASSUME IInv, ParseTreeNode PROVE IInv'
  OBVIOUS
<1>1. CASE \E how \in {"fatal", "panic", "error"} : End(how)
  BY <1>1, SameTrees DEF End, loadVars
<1>2. CASE \E o : /\ items' = IF ReadNode(o).kind = "leaf" THEN items \o ReadNode(o).items ELSE items
                  /\ UNCHANGED <<disk, phase, chunks, trees, todo, prod, ch, cons, fp>>
  <2>1. PICK o : /\ items' = IF ReadNode(o).kind = "leaf" THEN items \o ReadNode(o).items ELSE items
                 /\ UNCHANGED <<disk, phase, chunks, trees, todo, prod, ch, cons, fp>>
    BY <1>2
  <2>2. DOMAIN trees = {}
    BY DEF IInv, Phases, ParseTreeNode
  <2>3. items' \in Seq(AnyItem)
    BY <2>1, ReadLeaf, ConcatProperties DEF IInv, TypeOK
  <2>4. TypeOK'
    BY <2>1 DEF IInv, TypeOK
  <2>5. Phases'
    BY <2>1, <2>2 DEF Phases, IInv
  <2>6. DOMAIN trees' = {}
    BY <2>1, <2>2
  <2> QED BY <2>3, <2>4, <2>5, <2>6 DEF IInv
<1> QED BY <1>1, <1>2 DEF ParseTreeNode

LEMMA UpdateChunkMapsIInv == IInv /\ UpdateChunkMaps => IInv'
PROOF
<1> SUFFICES ASSUME IInv, UpdateChunkMaps PROVE IInv'
  OBVIOUS
<1>1. CASE End("panic")
  BY <1>1, SameTrees DEF End, loadVars
<1>2. CASE /\ chunks' = AddChunks(chunks, items) /\ items' = <<>> /\ phase' = "roots"
           /\ UNCHANGED <<disk, trees, todo, prod, ch, cons, fp>>
  <2>1. DOMAIN trees = {}
    BY DEF IInv, Phases, UpdateChunkMaps
  <2>2. chunks' \in [DOMAIN chunks' -> Chunk]
    BY <1>2, AddChunksType DEF IInv, TypeOK
  <2>3. TypeOK'
    BY <1>2, <2>2 DEF IInv, TypeOK
  <2>4. DOMAIN trees' = {} /\ items' \in Seq(AnyItem) /\ Phases'
    BY <1>2, <2>1 DEF Phases
  <2> QED BY <2>3, <2>4 DEF IInv
<1> QED BY <1>1, <1>2 DEF UpdateChunkMaps

LEMMA DiscoverTreesIInv == IInv /\ DiscoverTrees => IInv'
PROOF
<1> SUFFICES ASSUME IInv, DiscoverTrees PROVE IInv'
  OBVIOUS
<1>1. /\ UNCHANGED <<disk, chunks, items, fp>> /\ phase' = "descend" /\ todo' = DOMAIN trees'
      /\ DOMAIN prod' = DOMAIN trees' /\ DOMAIN ch' = DOMAIN trees' /\ DOMAIN cons' = DOMAIN trees'
      /\ \A t \in DOMAIN trees' :
           /\ DOMAIN prod'[t] = {"pc", "walk", "want", "leaf"} /\ prod'[t].pc = "idle"
           /\ DOMAIN cons'[t] = {"pc", "nodes", "files"} /\ cons'[t].pc = "idle" /\ cons'[t].nodes = <<>>
           /\ ch'[t] = <<>>
  BY DEF DiscoverTrees, loadVars
<1>2. \A t \in DOMAIN trees' : DOMAIN trees'[t] = {"at", "nodes", "files"} /\ trees'[t].nodes = <<>>
  BY NewTrees DEF DiscoverTrees
<1>3. <<>> \in Seq(AnyLeaf) /\ Len(<<>>) <= ChannelSize
  BY BtrfsAssumption
<1>4. TypeOK'
  BY <1>1, <1>3 DEF IInv, TypeOK
<1>5. \A t \in DOMAIN trees' : Record(t)' /\ Held(t)' /\ Stage(t)' /\ Aim(t)'
  BY <1>1, <1>2, <1>3 DEF Record, Held, Stage, Aim
<1>6. Phases' /\ items' \in Seq(AnyItem)
  BY <1>1 DEF IInv, Phases
<1> QED BY <1>4, <1>5, <1>6 DEF IInv
-----------------------------------------------------------------------------
(* The steps of the goroutines.                                            *)

Typed(t) ==
  /\ prod[t].pc \in {"idle", "seek", "read", "send", "closed"} /\ Len(ch[t]) <= ChannelSize
  /\ cons[t].pc \in {"idle", "begin", "range", "write", "done"}

(* All trees but one are left alone.                                       *)
Only(t) ==
  /\ Running /\ t \in DOMAIN trees
  /\ UNCHANGED <<disk, phase, loadVars>> /\ todo' \subseteq todo
  /\ DOMAIN trees' = DOMAIN trees /\ DOMAIN prod' = DOMAIN prod
  /\ DOMAIN ch' = DOMAIN ch /\ DOMAIN cons' = DOMAIN cons
  /\ \A u \in DOMAIN trees \ {t} :
       trees'[u] = trees[u] /\ prod'[u] = prod[u] /\ ch'[u] = ch[u] /\ cons'[u] = cons[u]

(* A step of one tree that keeps what is to hold of it keeps it of all: if *)
(* there are others, no descent reads by the common file pointer.          *)
LEMMA OnlyIInv ==
  ASSUME IInv, NEW t, Only(t), Typed(t)', Record(t)', Held(t)', Stage(t)', Undisturbed' => Aim(t)'
  PROVE  IInv'
PROOF
<1> USE DEF IInv, Only
<1>1. UNCHANGED <<disk, phase, chunks, items>> /\ Undisturbed' = Undisturbed
  BY DEF loadVars, Undisturbed
<1>2. \A u \in DOMAIN trees : Typed(u)'
  BY DEF Typed, TypeOK
<1>3. TypeOK'
  BY <1>1, <1>2 DEF TypeOK, Typed
<1>4. Phases' /\ items' \in Seq(AnyItem)
  BY <1>1 DEF Phases, Running
<1>5. \A u \in DOMAIN trees : Record(u)' /\ Held(u)' /\ Stage(u)'
  <2> SUFFICES ASSUME NEW u \in DOMAIN trees, u # t PROVE Record(u)' /\ Held(u)' /\ Stage(u)'
    OBVIOUS
  <2>1. Record(u) /\ Held(u) /\ Stage(u)
    OBVIOUS
  <2> QED BY <2>1 DEF Record, Held, Stage
<1>6. \A u \in DOMAIN trees : Undisturbed' => Aim(u)'
  <2> SUFFICES ASSUME NEW u \in DOMAIN trees, u # t, Undisturbed PROVE Aim(u)'
    BY <1>1
  <2>1. ~disk.drive /\ Aim(u) /\ prod'[u] = prod[u]
    BY DEF Undisturbed
  <2> QED BY <1>1, <2>1 DEF Aim, ReadAt, LocatePhysicalOffset
<1> QED BY <1>3, <1>4, <1>5, <1>6

(* What the invariant says of one tree.                                    *)
LEMMA OfTree ==
  ASSUME IInv, NEW t \in DOMAIN trees
  PROVE  /\ Typed(t) /\ Record(t) /\ Held(t) /\ Stage(t) /\ (Undisturbed => Aim(t))
         /\ DOMAIN prod = DOMAIN trees /\ DOMAIN cons = DOMAIN trees /\ DOMAIN ch = DOMAIN trees
PROOF BY DEF IInv, TypeOK, Typed

(* A descent that stays where it is keeps its aim.                         *)
LEMMA SameAim ==
  ASSUME IInv, NEW t \in DOMAIN trees, UNCHANGED <<disk, chunks, fp>>, DOMAIN trees' = DOMAIN trees,
         prod'[t] = prod[t]
  PROVE  Undisturbed' => Aim(t)'
PROOF BY OfTree DEF Undisturbed, Aim, ReadAt, LocatePhysicalOffset

LEMMA DescendTreeIInv == ASSUME IInv, NEW t \in DOMAIN trees, DescendTree(t) PROVE Only(t) /\ IInv'
PROOF
<1>1. Only(t)
  BY OfTree DEF DescendTree, Only, Running
<1>2. /\ prod'[t] = [prod[t] EXCEPT !.pc = "seek"] /\ cons'[t] = [cons[t] EXCEPT !.pc = "begin"]
      /\ t \in todo /\ t \notin todo' /\ trees' = trees /\ ch' = ch
  BY OfTree DEF DescendTree
<1>4. Typed(t)' /\ Record(t)'
  BY <1>2, OfTree DEF Typed, Record
<1>5. Held(t)'
  BY <1>2, OfTree DEF Held
<1>6. Stage(t)' /\ Aim(t)'
  BY <1>2, OfTree DEF Stage, Aim
<1> QED BY <1>1, <1>4, <1>5, <1>6, OnlyIInv

LEMMA SendIInv == ASSUME IInv, NEW t \in DOMAIN trees, Send(t) PROVE Only(t) /\ IInv'
PROOF
<1>1. Only(t)
  BY OfTree DEF Send, Only, Running
<1>2. /\ prod[t].pc = "send" /\ Len(ch[t]) < ChannelSize
      /\ prod'[t] = [prod[t] EXCEPT !.pc = "seek"] /\ ch'[t] = Append(ch[t], prod[t].leaf)
      /\ todo' = todo /\ trees' = trees /\ cons' = cons
  BY OfTree DEF Send
<1>3. ch'[t] \in Seq(AnyLeaf) /\ Len(ch'[t]) <= ChannelSize
  BY <1>2, OfTree, AppendProperties, LenProperties, BtrfsAssumption DEF Held
<1>4. Typed(t)' /\ Record(t)'
  BY <1>2, <1>3, OfTree DEF Typed, Record
<1>5. Held(t)'
  BY <1>2, <1>3, OfTree DEF Held
<1>6. Stage(t)' /\ Aim(t)'
  BY <1>2, OfTree DEF Stage, Aim
<1> QED BY <1>1, <1>4, <1>5, <1>6, OnlyIInv

LEMMA CloseIInv == ASSUME IInv, NEW t \in DOMAIN trees, Close(t) PROVE Only(t) /\ IInv'
PROOF
<1>1. Only(t)
  BY OfTree DEF Close, Only, Running
<1>2. /\ prod[t].pc = "seek" /\ prod[t].walk.kids = <<>>
      /\ prod'[t] = [prod[t] EXCEPT !.pc = "closed"]
      /\ todo' = todo /\ trees' = trees /\ cons' = cons /\ ch' = ch
  BY OfTree DEF Close
<1>4. Typed(t)' /\ Record(t)'
  BY <1>2, OfTree DEF Typed, Record
<1>5. Held(t)'
  BY <1>2, OfTree DEF Held
<1>6. Stage(t)' /\ Aim(t)'
  BY <1>2, OfTree DEF Stage, Aim
<1> QED BY <1>1, <1>4, <1>5, <1>6, OnlyIInv

LEMMA BeginIInv == ASSUME IInv, NEW t \in DOMAIN trees, Begin(t) PROVE Only(t) /\ IInv'
PROOF
<1>1. Only(t)
  BY OfTree DEF Begin, Only, Running
<1>2. /\ cons[t].pc = "begin" /\ cons'[t] = [pc |-> "range", nodes |-> trees[t].nodes, files |-> trees[t].files]
      /\ todo' = todo /\ trees' = trees /\ prod' = prod /\ ch' = ch
  BY OfTree DEF Begin
<1>4. Typed(t)' /\ Record(t)'
  BY <1>2, OfTree DEF Typed, Record
<1>5. Held(t)'
  BY <1>2, OfTree, EmptySeq DEF Held, Stage
<1>6. Stage(t)'
  BY <1>2, OfTree DEF Stage
<1>7. Undisturbed' => Aim(t)'
  BY SameAim, <1>1, <1>2 DEF Only, loadVars, Begin
<1> QED BY <1>1, <1>4, <1>5, <1>6, <1>7, OnlyIInv

LEMMA ReceiveIInv == ASSUME IInv, NEW t \in DOMAIN trees, Receive(t) PROVE Only(t) /\ IInv'
PROOF
<1>1. Only(t)
  BY OfTree DEF Receive, Only, Running
<1>2. /\ cons[t].pc = "range" /\ ch[t] # <<>>
      /\ cons'[t] = [cons[t] EXCEPT !.nodes = Append(@, Head(ch[t])), !.files = AddLeaf(@, Head(ch[t]))]
      /\ ch'[t] = Tail(ch[t]) /\ todo' = todo /\ trees' = trees /\ prod' = prod
  BY OfTree DEF Receive
<1>3. /\ ch'[t] \in Seq(AnyLeaf) /\ Len(ch'[t]) <= Len(ch[t]) /\ Len(ch'[t]) \in Nat /\ Len(ch[t]) \in Nat
      /\ Append(cons[t].nodes, Head(ch[t])) \in Seq(AnyLeaf)
  BY <1>2, OfTree, HeadTailProperties, AppendProperties, LenProperties DEF Held
<1>4. Typed(t)' /\ Record(t)'
  BY <1>2, <1>3, OfTree, BtrfsAssumption DEF Typed, Record
<1>5. Held(t)'
  BY <1>2, <1>3, OfTree DEF Held, Record
<1>6. Stage(t)'
  BY <1>2, OfTree DEF Stage
<1>7. Undisturbed' => Aim(t)'
  BY SameAim, <1>1, <1>2 DEF Only, loadVars, Receive
<1> QED BY <1>1, <1>4, <1>5, <1>6, <1>7, OnlyIInv

LEMMA RangedIInv == ASSUME IInv, NEW t \in DOMAIN trees, Ranged(t) PROVE Only(t) /\ IInv'
PROOF
<1>1. Only(t)
  BY OfTree DEF Ranged, Only, Running
<1>2. /\ cons[t].pc = "range" /\ ch[t] = <<>> /\ prod[t].pc = "closed"
      /\ cons'[t] = [cons[t] EXCEPT !.pc = "write", !.files = BuildPath(@)]
      /\ todo' = todo /\ trees' = trees /\ prod' = prod /\ ch' = ch
  BY OfTree DEF Ranged
<1>4. Typed(t)' /\ Record(t)'
  BY <1>2, OfTree DEF Typed, Record
<1>5. Held(t)'
  BY <1>2, OfTree DEF Held
<1>6. Stage(t)' /\ Aim(t)'
  BY <1>2, OfTree DEF Stage, Aim
<1> QED BY <1>1, <1>4, <1>5, <1>6, OnlyIInv

LEMMA StoreIInv == ASSUME IInv, NEW t \in DOMAIN trees, Store(t) PROVE Only(t) /\ IInv'
PROOF
<1>1. Only(t)
  BY OfTree DEF Store, Only, Running
<1>2. /\ cons[t].pc = "write" /\ cons'[t] = [cons[t] EXCEPT !.pc = "done"]
      /\ trees'[t] = [trees[t] EXCEPT !.nodes = cons[t].nodes, !.files = cons[t].files]
      /\ todo' = todo /\ prod' = prod /\ ch' = ch
  BY OfTree DEF Store
<1>4. Typed(t)' /\ Record(t)'
  BY <1>2, OfTree DEF Typed, Record
<1>5. Held(t)'
  BY <1>2, OfTree DEF Held
<1>6. Stage(t)' /\ Aim(t)'
  BY <1>2, OfTree DEF Stage, Aim
<1> QED BY <1>1, <1>4, <1>5, <1>6, OnlyIInv

LEMMA SeekIInv == ASSUME IInv, NEW t \in DOMAIN trees, Seek(t), phase' = phase PROVE Only(t) /\ IInv'
PROOF
<1>1. PICK o \in LocatePhysicalOffset(Head(prod[t].walk.kids)) :
        /\ prod' = [prod EXCEPT ![t].pc = "read", ![t].want = o]
        /\ fp' = IF disk.drive THEN o ELSE fp
        /\ UNCHANGED <<disk, phase, loadVars, trees, todo, ch, cons>>
  BY DEF Seek, End, Running
<1>2. Only(t)
  BY <1>1, OfTree DEF Seek, Only
<1>3. /\ prod[t].pc = "seek" /\ prod[t].walk.kids # <<>>
      /\ prod'[t] = [prod[t] EXCEPT !.pc = "read", !.want = o]
      /\ todo' = todo /\ trees' = trees /\ cons' = cons /\ ch' = ch
  BY <1>1, OfTree DEF Seek
<1>4. Typed(t)' /\ Record(t)'
  BY <1>3, OfTree DEF Typed, Record
<1>5. Held(t)' /\ Stage(t)'
  BY <1>3, OfTree DEF Held, Stage, Record
<1>6. Aim(t)'
  BY <1>1, <1>3, OfTree DEF Aim, ReadAt, LocatePhysicalOffset, Record, loadVars
<1> QED BY <1>2, <1>4, <1>5, <1>6, OnlyIInv

LEMMA ReadIInv == ASSUME IInv, NEW t \in DOMAIN trees, Read(t), phase' = phase PROVE Only(t) /\ IInv'
PROOF
<1> DEFINE node == ReadNode(ReadAt(t))
<1>1. /\ prod' = [prod EXCEPT ![t].pc = IF node.kind = "leaf" THEN "send" ELSE "seek",
                              ![t].walk = Advance(@, node), ![t].leaf = IF node.kind = "leaf" THEN node ELSE @]
      /\ UNCHANGED <<disk, phase, loadVars, trees, todo, ch, cons>>
  BY DEF Read, End, Running
<1>2. Only(t)
  BY <1>1, OfTree DEF Read, Only
<1>3. /\ prod[t].pc = "read" /\ DOMAIN prod'[t] = DOMAIN prod[t]
      /\ prod'[t].pc = (IF node.kind = "leaf" THEN "send" ELSE "seek")
      /\ prod'[t].leaf = IF node.kind = "leaf" THEN node ELSE prod[t].leaf
      /\ todo' = todo /\ trees' = trees /\ cons' = cons /\ ch' = ch
  BY <1>1, OfTree DEF Read, Record
<1>4. node.kind = "leaf" => node \in AnyLeaf
  BY ReadLeaf DEF IInv, TypeOK
<1> HIDE DEF node
<1>5. Typed(t)' /\ Record(t)'
  BY <1>3, OfTree DEF Typed, Record
<1>6. Held(t)' /\ Stage(t)'
  BY <1>3, <1>4, OfTree DEF Held, Stage
<1>7. Aim(t)'
  BY <1>3 DEF Aim
<1> QED BY <1>2, <1>5, <1>6, <1>7, OnlyIInv

LEMMA TreeStepIInv ==
  ASSUME IInv, NEW t \in DOMAIN trees, phase' = phase,
         DescendTree(t) \/ ParseTreeNodeCh(t) \/ Update(t)
  PROVE  Only(t) /\ IInv'
PROOF BY DescendTreeIInv, SeekIInv, ReadIInv, SendIInv, CloseIInv, BeginIInv, ReceiveIInv, RangedIInv, StoreIInv
      DEF ParseTreeNodeCh, Update

(* A step of a tree that changes the phase ends the program.               *)
LEMMA TreeStepEnds ==
  ASSUME NEW t \in DOMAIN trees, phase' # phase,
         DescendTree(t) \/ ParseTreeNodeCh(t) \/ Update(t)
  PROVE  \E how \in {"fatal", "panic"} : End(how)
PROOF
<1>1. CASE Seek(t)
  BY <1>1 DEF Seek
<1>2. CASE Read(t)
  BY <1>2 DEF Read
<1> QED BY <1>1, <1>2 DEF ParseTreeNodeCh, Update, DescendTree, Send, Close, Begin, Receive, Ranged, Store

LEMMA NextIInv == IInv /\ [Next]_vars => IInv'
PROOF
<1> SUFFICES ASSUME IInv, [Next]_vars PROVE IInv'
  OBVIOUS
<1>1. CASE ParseTreeNode
  BY <1>1, ParseTreeNodeIInv
<1>2. CASE UpdateChunkMaps
  BY <1>2, UpdateChunkMapsIInv
<1>3. CASE DiscoverTrees
  BY <1>3, DiscoverTreesIInv
<1>4. CASE Descended
  BY <1>4, SameTrees DEF Descended, loadVars
<1>5. CASE MapFault
  BY <1>5, SameTrees DEF MapFault, End, loadVars
<1>6. CASE Wait
  BY <1>6, SameTrees DEF Wait, loadVars
<1>7. CASE UNCHANGED vars
  <2>1. phase \in {"chunks", "roots", "descend", "wait", "done", "error", "fatal", "panic"}
    BY DEF IInv, TypeOK
  <2>2. UNCHANGED <<disk, phase, chunks, items, trees, todo, prod, ch, cons, fp>>
    BY <1>7 DEF vars, loadVars
  <2>3. TypeOK' /\ Phases' /\ items' \in Seq(AnyItem)
    BY <2>2 DEF IInv, TypeOK, Phases
  <2>4. \A t \in DOMAIN trees' : Record(t)' /\ Held(t)' /\ Stage(t)' /\ (Undisturbed' => Aim(t)')
    BY <2>2 DEF IInv, Record, Held, Stage, Aim, Undisturbed, ReadAt, LocatePhysicalOffset
  <2> QED BY <2>3, <2>4 DEF IInv
<1>8. ASSUME NEW t \in DOMAIN trees, DescendTree(t) \/ ParseTreeNodeCh(t) \/ Update(t) PROVE IInv'
  <2>1. CASE phase' = phase
    BY <1>8, <2>1, TreeStepIInv
  <2>2. CASE phase' # phase
    BY <1>8, <2>2, TreeStepEnds, SameTrees DEF End, loadVars
  <2> QED BY <2>1, <2>2
<1> QED BY <1>1, <1>2, <1>3, <1>4, <1>5, <1>6, <1>7, <1>8 DEF Next, Returned

(* Whatever the volume and the schedule, every variable keeps its type, no *)
(* channel has more than its capacity, and the maps have the same trees.   *)
THEOREM TypeCorrect == Spec => []TypeOK
PROOF
<1>1. IInv => TypeOK
  BY DEF IInv
<1> QED BY InitIInv, NextIInv, <1>1, PTL DEF Spec
-----------------------------------------------------------------------------
(* What the steps add to the leaves that were read.                        *)

(* A receive moves the first of the channel to the end of the collected.   *)
LEMMA MovedHead ==
  ASSUME NEW S, NEW n \in Seq(S), NEW c \in Seq(S), c # <<>>
  PROVE  Append(n, Head(c)) \o Tail(c) = n \o c
PROOF
<1>1. /\ Head(c) \in S /\ Tail(c) \in Seq(S) /\ Append(n, Head(c)) \in Seq(S)
      /\ Len(n) \in Nat /\ Len(c) \in Nat \ {0} /\ Head(c) = c[1] /\ Len(Tail(c)) = Len(c) - 1
      /\ \A i \in 1 .. Len(c) - 1 : Tail(c)[i] = c[i + 1]
      /\ Len(Append(n, Head(c))) = Len(n) + 1 /\ Append(n, Head(c))[Len(n) + 1] = c[1]
      /\ \A i \in 1 .. Len(n) : Append(n, Head(c))[i] = n[i]
  BY HeadTailProperties, AppendProperties, LenProperties
<1> DEFINE l == Append(n, Head(c)) \o Tail(c)
           r == n \o c
<1>2. l \in Seq(S) /\ r \in Seq(S) /\ Len(l) = Len(n) + Len(c) /\ Len(r) = Len(n) + Len(c)
  BY <1>1, ConcatProperties
<1>3. ASSUME NEW i \in 1 .. Len(l) PROVE l[i] = r[i]
  <2>1. r[i] = IF i <= Len(n) THEN n[i] ELSE c[i - Len(n)]
    BY <1>1, <1>2, ConcatProperties
  <2>2. l[i] = IF i <= Len(n) + 1 THEN Append(n, Head(c))[i] ELSE Tail(c)[i - (Len(n) + 1)]
    BY <1>1, <1>2, ConcatProperties
  <2>3. CASE i <= Len(n)
    BY <1>1, <2>1, <2>2, <2>3
  <2>4. CASE i = Len(n) + 1
    BY <1>1, <2>1, <2>2, <2>4
  <2>5. CASE i > Len(n) + 1
    <3>1. i - (Len(n) + 1) \in 1 .. Len(c) - 1 /\ (i - (Len(n) + 1)) + 1 = i - Len(n)
      BY <1>1, <1>2, <2>5
    <3> QED BY <1>1, <2>1, <2>2, <2>5, <3>1
  <2> QED BY <1>1, <1>2, <2>3, <2>4, <2>5
<1> HIDE DEF l, r
<1>4. l = r
  BY <1>2, <1>3, SeqEqual
<1> QED BY <1>4 DEF l, r

LEMMA Moves ==
  \A n, c \in Seq(AnyLeaf), l \in AnyLeaf :
    /\ (n \o Append(c, l)) \o <<>> = (n \o c) \o <<l>>
    /\ (n \o c) \o <<l>> = Append((n \o c) \o <<>>, l)
PROOF
<1> SUFFICES ASSUME NEW n \in Seq(AnyLeaf), NEW c \in Seq(AnyLeaf), NEW l \in AnyLeaf
             PROVE  /\ (n \o Append(c, l)) \o <<>> = (n \o c) \o <<l>>
                    /\ (n \o c) \o <<l>> = Append((n \o c) \o <<>>, l)
  OBVIOUS
<1>1. n \o c \in Seq(AnyLeaf) /\ Append(c, l) \in Seq(AnyLeaf) /\ <<l>> \in Seq(AnyLeaf)
  BY ConcatProperties, AppendProperties
<1>2. n \o Append(c, l) \in Seq(AnyLeaf) /\ Append(c, l) = c \o <<l>>
  BY <1>1, ConcatProperties, AppendIsConcat
<1>3. (n \o Append(c, l)) \o <<>> = n \o Append(c, l) /\ (n \o c) \o <<>> = n \o c
  BY <1>1, <1>2, ConcatEmptySeq
<1>4. n \o (c \o <<l>>) = (n \o c) \o <<l>>
  BY <1>1, ConcatAssociative
<1>5. Append(n \o c, l) = (n \o c) \o <<l>>
  BY <1>1, AppendIsConcat
<1> QED BY <1>2, <1>3, <1>4, <1>5

(* The reading of a node visits it.                                        *)
LEMMA ReadVisits == ASSUME IInv, NEW t \in DOMAIN trees, Read(t), phase' = phase PROVE Visits(t)
PROOF
<1> DEFINE node == ReadNode(ReadAt(t))
<1>1. /\ prod[t].pc = "read"
      /\ prod' = [prod EXCEPT ![t].pc = IF node.kind = "leaf" THEN "send" ELSE "seek",
                              ![t].walk = Advance(@, node), ![t].leaf = IF node.kind = "leaf" THEN node ELSE @]
      /\ ch' = ch /\ cons' = cons
  BY DEF Read, End, Running
<1>2. node.kind = "leaf" => node \in AnyLeaf
  BY ReadLeaf DEF IInv, TypeOK
<1>3. /\ prod[t].walk.kids # <<>> /\ ReadAt(t) \in {prod[t].want, fp}
      /\ Undisturbed => ReadAt(t) \in LocatePhysicalOffset(Head(prod[t].walk.kids))
  BY <1>1, OfTree DEF Stage, Aim, ReadAt
<1> HIDE DEF node
<1>4. /\ prod'[t].walk = Advance(prod[t].walk, node)
      /\ prod'[t].pc = (IF node.kind = "leaf" THEN "send" ELSE "seek")
      /\ node.kind = "leaf" => prod'[t].leaf = node
      /\ prod[t].pc = "read" /\ ch'[t] = ch[t] /\ cons'[t].nodes = cons[t].nodes
  BY <1>1, OfTree DEF Record
<1>5. Got(t) = (cons[t].nodes \o ch[t]) \o <<>>
  BY <1>4 DEF Got
<1>6. ASSUME node.kind = "leaf" PROVE Got(t)' = Append(Got(t), node)
  <2>1. Got(t)' = (cons[t].nodes \o ch[t]) \o <<node>>
    BY <1>4, <1>6 DEF Got
  <2>2. cons[t].nodes \in Seq(AnyLeaf) /\ ch[t] \in Seq(AnyLeaf) /\ node \in AnyLeaf
    BY <1>2, <1>6, OfTree DEF Held
  <2>3. (cons[t].nodes \o ch[t]) \o <<node>> = Append((cons[t].nodes \o ch[t]) \o <<>>, node)
    BY <2>2, Moves
  <2> QED BY <1>5, <2>1, <2>3
<1>7. ASSUME node.kind # "leaf" PROVE Got(t)' = Got(t)
  <2>1. prod'[t].pc = "seek"
    BY <1>4, <1>7
  <2> QED BY <1>4, <1>5, <2>1 DEF Got
<1> QED BY <1>3, <1>4, <1>6, <1>7 DEF Visits, node

(* Every other step of a tree leaves the descent and what it read alone.   *)
LEMMA OthersStay ==
  ASSUME IInv, NEW t \in DOMAIN trees, phase' = phase,
         DescendTree(t) \/ Seek(t) \/ Send(t) \/ Close(t) \/ Update(t)
  PROVE  Stays(t)
PROOF
<1>1. CASE DescendTree(t)
  <2>1. prod[t].pc = "idle" /\ prod'[t] = [prod[t] EXCEPT !.pc = "seek"] /\ ch' = ch
        /\ cons'[t] = [cons[t] EXCEPT !.pc = "begin"]
    BY <1>1, OfTree DEF DescendTree, Stage
  <2> QED BY <2>1, OfTree DEF Stays, Got, Record
<1>2. CASE Seek(t)
  <2>1. prod[t].pc = "seek" /\ ch' = ch /\ cons' = cons
        /\ \E o : prod'[t] = [prod[t] EXCEPT !.pc = "read", !.want = o]
    BY <1>2, OfTree DEF Seek, End, Running
  <2> QED BY <2>1, OfTree DEF Stays, Got, Record
<1>3. CASE Send(t)
  <2>1. prod[t].pc = "send" /\ prod'[t] = [prod[t] EXCEPT !.pc = "seek"] /\ cons' = cons
        /\ ch'[t] = Append(ch[t], prod[t].leaf)
    BY <1>3, OfTree DEF Send
  <2>2. prod'[t].pc = "seek" /\ prod'[t].walk = prod[t].walk
    BY <2>1, OfTree DEF Record
  <2>3. /\ Got(t) = (cons[t].nodes \o ch[t]) \o <<prod[t].leaf>>
        /\ Got(t)' = (cons[t].nodes \o Append(ch[t], prod[t].leaf)) \o <<>>
    BY <2>1, <2>2 DEF Got
  <2>4. cons[t].nodes \in Seq(AnyLeaf) /\ ch[t] \in Seq(AnyLeaf) /\ prod[t].leaf \in AnyLeaf
    BY <2>1, OfTree DEF Held
  <2>5. Got(t)' = Got(t)
    BY <2>3, <2>4, Moves
  <2> QED BY <2>2, <2>5 DEF Stays
<1>4. CASE Close(t)
  <2>1. prod[t].pc = "seek" /\ prod'[t] = [prod[t] EXCEPT !.pc = "closed"] /\ ch' = ch /\ cons' = cons
    BY <1>4, OfTree DEF Close
  <2> QED BY <2>1, OfTree DEF Stays, Got, Record
<1>5. CASE Begin(t)
  <2>1. cons'[t].nodes = cons[t].nodes /\ prod' = prod /\ ch' = ch
    BY <1>5, OfTree DEF Begin, Stage
  <2> QED BY <2>1 DEF Stays, Got
<1>6. CASE Receive(t)
  <2>1. ch[t] # <<>> /\ ch'[t] = Tail(ch[t]) /\ prod' = prod /\ cons'[t].nodes = Append(cons[t].nodes, Head(ch[t]))
    BY <1>6, OfTree DEF Receive, Record
  <2>2. Append(cons[t].nodes, Head(ch[t])) \o Tail(ch[t]) = cons[t].nodes \o ch[t]
    BY <2>1, OfTree, MovedHead DEF Held
  <2> QED BY <2>1, <2>2 DEF Stays, Got
<1>7. CASE Ranged(t)
  <2>1. cons'[t].nodes = cons[t].nodes /\ prod' = prod /\ ch' = ch
    BY <1>7, OfTree DEF Ranged, Record
  <2> QED BY <2>1 DEF Stays, Got
<1>8. CASE Store(t)
  <2>1. cons'[t].nodes = cons[t].nodes /\ prod' = prod /\ ch' = ch
    BY <1>8, OfTree DEF Store, Record
  <2> QED BY <2>1 DEF Stays, Got
<1> QED BY <1>1, <1>2, <1>3, <1>4, <1>5, <1>6, <1>7, <1>8 DEF Update

(* A step that leaves the goroutines and the channels alone.               *)
LEMMA AllStay ==
  ASSUME UNCHANGED <<trees, prod, ch, cons>>
  PROVE  DOMAIN trees' = DOMAIN trees /\ \A t \in DOMAIN trees : Stays(t)
PROOF BY DEF Stays, Got

LEMMA NextDescends ==
  ASSUME IInv, [Next]_vars
  PROVE  /\ DOMAIN trees \subseteq DOMAIN trees'
         /\ \A t \in DOMAIN trees : Stays(t) \/ Visits(t)
         /\ \A t \in DOMAIN trees' \ DOMAIN trees : prod'[t].walk = Start(trees'[t].at) /\ Got(t)' = <<>>
PROOF
<1>1. CASE ParseTreeNode \/ UpdateChunkMaps \/ Descended \/ MapFault \/ Wait \/ UNCHANGED vars
  <2>1. UNCHANGED <<trees, prod, ch, cons>>
    BY <1>1 DEF ParseTreeNode, UpdateChunkMaps, Descended, MapFault, Wait, End, vars, loadVars
  <2> QED BY <2>1, AllStay
<1>2. CASE DiscoverTrees
  <2>1. DOMAIN trees = {}
    BY <1>2 DEF DiscoverTrees, IInv, Phases
  <2>2. \A t \in DOMAIN trees' : /\ prod'[t].walk = Start(trees'[t].at) /\ prod'[t].pc = "idle"
                                 /\ ch'[t] = <<>> /\ cons'[t].nodes = <<>>
    BY <1>2 DEF DiscoverTrees
  <2>3. (<<>> \o <<>>) \o <<>> = <<>>
    BY EmptySeq, ConcatEmptySeq
  <2> QED BY <2>1, <2>2, <2>3 DEF Got
<1>3. ASSUME NEW t \in DOMAIN trees, DescendTree(t) \/ ParseTreeNodeCh(t) \/ Update(t)
      PROVE  DOMAIN trees' = DOMAIN trees /\ \A u \in DOMAIN trees : Stays(u) \/ Visits(u)
  <2>1. CASE phase' # phase
    BY <1>3, <2>1, TreeStepEnds, AllStay DEF End
  <2>2. CASE phase' = phase
    <3>1. Only(t)
      BY <1>3, <2>2, TreeStepIInv
    <3>2. \A u \in DOMAIN trees \ {t} : Stays(u)
      BY <3>1 DEF Only, Stays, Got
    <3>3. Stays(t) \/ Visits(t)
      BY <1>3, <2>2, ReadVisits, OthersStay DEF ParseTreeNodeCh
    <3> QED BY <3>1, <3>2, <3>3 DEF Only
  <2> QED BY <2>1, <2>2
<1> QED BY <1>1, <1>2, <1>3 DEF Next, Returned

(* To every tree the goroutines are one sequential descent, whatever the   *)
(* schedule, the number of trees and the capacity of the channels          *)
(* (ParseTreeNodeCh, Update).                                              *)
THEOREM DescentIsSequential == Spec => SequentialDescent
PROOF
<1>1. IInv /\ [Next]_vars =>
        [/\ DOMAIN trees \subseteq DOMAIN trees'
         /\ \A t \in DOMAIN trees : Stays(t) \/ Visits(t)
         /\ \A t \in DOMAIN trees' \ DOMAIN trees : prod'[t].walk = Start(trees'[t].at) /\ Got(t)' = <<>>]_vars
  BY NextDescends
<1> QED BY InitIInv, NextIInv, <1>1, PTL DEF Spec, SequentialDescent

(* When the volume is loaded every tree has exactly what its descent read, *)
(* and that descent is at its end (DescendTreeCh, Update).                 *)
THEOREM LoadedTreesAreWhole == Spec => []LoadedWhole
PROOF
<1>1. IInv => LoadedWhole
  <2> SUFFICES ASSUME IInv, phase = "done", NEW t \in DOMAIN trees
               PROVE  prod[t].walk.kids = <<>> /\ trees[t].nodes = Got(t)
    BY DEF LoadedWhole
  <2>1. prod[t].pc = "closed" /\ cons[t].pc = "done"
    BY DEF IInv, Phases
  <2>2. prod[t].walk.kids = <<>> /\ ch[t] = <<>> /\ trees[t].nodes = cons[t].nodes
    BY <2>1, OfTree DEF Stage
  <2>3. (cons[t].nodes \o <<>>) \o <<>> = cons[t].nodes
    BY OfTree, ConcatEmptySeq DEF Held
  <2> QED BY <2>1, <2>2, <2>3 DEF Got
<1> QED BY InitIInv, NextIInv, <1>1, PTL DEF Spec
===============================================================================
