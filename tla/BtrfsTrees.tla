------------------------------ MODULE BtrfsTrees ------------------------------
(***************************************************************************)
(* Loading a BTRFS volume: the chunk map, the root tree, and all file      *)
(* trees at once, one goroutine that descends and one that collects per    *)
(* tree (disk/volume/btrfs.go, FS/BTRFS).                                  *)
(*                                                                         *)
(* A block holds one node; logical addresses and disk offsets count        *)
(* blocks.  The volume starts at offset 0 (Disk has the partitions).       *)
(* Names, timestamps and extents are left out of the items.                *)
(***************************************************************************)
EXTENDS Integers, Sequences, FiniteSets, SequencesExt, FiniteSetsExt

CONSTANTS
  Disks,        \* [size, nodes, system, chunkRoot, treeRoot, drive]
  ChannelSize,  \* CHANNELSIZE
  Height, Fan   \* bounds of the file trees, for the reference definitions only

\* An item is [type, id, off, val]: its key and what loading looks at of its data,
\* the chunk, the root's address or the name.  Items of type other are parsed and
\* not looked at, those of type unknown are not parsed.

Chunk == [size : Nat, stripe : Nat]

Listed(its) == its \in Seq(Range(its)) /\ \A i \in Range(its) : i.type = "chunk" => i.val \in Chunk

ASSUME BtrfsAssumption ==
  /\ ChannelSize \in Nat \ {0} /\ Height \in Nat /\ Fan \in Nat
  /\ \A d \in Disks :
       /\ d.size \in Nat /\ d.chunkRoot \in Nat /\ d.treeRoot \in Nat /\ d.drive \in BOOLEAN
       /\ Listed(d.system) /\ \A i \in Range(d.system) : i.type = "chunk"
       /\ \A o \in DOMAIN d.nodes :
            \/ d.nodes[o].kind = "leaf" /\ Listed(d.nodes[o].items)
            \/ d.nodes[o].kind = "bad"
            \/ d.nodes[o].kind = "internal" /\ d.nodes[o].kids \in Seq(Nat)

VARIABLES
  disk,          \* drive: read through one file pointer, as physical drives are
  phase,
  chunks,        \* ChunkTreeMap: logical address to size and stripe
  walk, items,   \* ParseTreeNode: what is left to visit, the items of leafNodes
  trees,         \* FsTreeMap
  todo,          \* trees that the range in DescendTreeCh has yet to yield
  prod, ch,      \* ParseTreeNodeCh and its channel, by tree
  cons,          \* FsTreeMap.Update, by tree
  fp             \* the file pointer of a physical drive

loadVars == <<chunks, walk, items>>
vars == <<disk, phase, loadVars, trees, todo, prod, ch, cons, fp>>

-----------------------------------------------------------------------------
(* Reading nodes *)

Bad  == [kind |-> "bad"]    \* the checksum does not fit
Gone == [kind |-> "gone"]   \* nothing was read

ReadNode(o) ==
  IF o >= disk.size THEN Gone ELSE IF o \in DOMAIN disk.nodes THEN disk.nodes[o] ELSE Bad

\* The range over the map stops at any chunk the address is in.
LocatePhysicalOffset(a) ==
  {chunks[k].stripe + a - k : k \in {c \in DOMAIN chunks : c <= a /\ a - c < chunks[c].size}}

\* A descent: the children still to be read of the node at hand, and the stack of
\* inner nodes, each by its children.
Start(a) == [kids |-> <<a>>, stack |-> <<>>]

\* The node of the first child has been read: an inner node is pushed, a bad one
\* skipped; after the last child the next node is popped.
Advance(w, node) ==
  LET stack == IF node.kind = "internal" /\ node.kids # <<>> THEN Append(w.stack, node.kids)
               ELSE w.stack
      more  == Len(w.kids) = 1 /\ stack # <<>>
  IN [kids  |-> IF more THEN Last(stack) ELSE Tail(w.kids),
      stack |-> IF more THEN Front(stack) ELSE stack]

-----------------------------------------------------------------------------
(* Files of a tree *)

NoEntry == [id |-> 0, items |-> <<>>, up |-> <<>>, path |-> <<>>]

Entry(files, id) == IF id \in DOMAIN files THEN files[id] ELSE NoEntry

Put(files, id, e) == [k \in DOMAIN files \cup {id} |-> IF k = id THEN e ELSE files[k]]

\* The name of the first reference.
GetFname(e) ==
  LET refs == SelectSeq(e.items, LAMBDA i : i.type = "ref")
  IN IF refs = <<>> THEN "" ELSE refs[1].val

\* Mutation: an inode item keeps what there is.
MutAddItemKeeps(files, i) ==
  LET with == [Entry(files, i.id) EXCEPT !.items = Append(@, i)]
      p    == Entry(files, i.off)
  IN CASE i.type = "inode"           -> Put(files, i.id, [with EXCEPT !.id = i.id])
       [] i.type \in {"dir", "extent"} -> Put(files, i.id, with)
       [] i.type = "ref" -> Put(Put(files, i.off, p), i.id,
                                [with EXCEPT !.up = Append(p.up, [id |-> p.id, name |-> GetFname(p)])])
       [] OTHER -> files

\* Mutation: the chain of a parent is not taken over.
MutAddItemNoChain(files, i) ==
  LET with == [Entry(files, i.id) EXCEPT !.items = Append(@, i)]
      p    == Entry(files, i.off)
  IN CASE i.type = "inode"           -> Put(files, i.id, [NoEntry EXCEPT !.id = i.id, !.items = <<i>>])
       [] i.type \in {"dir", "extent"} -> Put(files, i.id, with)
       [] i.type = "ref" -> Put(Put(files, i.off, p), i.id,
                                [with EXCEPT !.up = <<[id |-> p.id, name |-> GetFname(p)]>>])
       [] OTHER -> files

\* One item of a leaf: an inode item starts its entry anew, the others are appended.
\* A reference points the entry at a copy of the parent as it is by then, so that
\* up, the chain of parents from the root down, is settled at that moment.
AddItem(files, i) ==
  LET with == [Entry(files, i.id) EXCEPT !.items = Append(@, i)]
      p    == Entry(files, i.off)
  IN CASE i.type = "inode"           -> Put(files, i.id, [NoEntry EXCEPT !.id = i.id, !.items = <<i>>])
       [] i.type \in {"dir", "extent"} -> Put(files, i.id, with)
       [] i.type = "ref" -> Put(Put(files, i.off, p), i.id,
                                [with EXCEPT !.up = Append(p.up, [id |-> p.id, name |-> GetFname(p)])])
       [] OTHER -> files

AddLeaf(files, node) == FoldLeft(AddItem, files, node.items)

Names(up) == SelectSeq([n \in DOMAIN up |-> up[n].name], LAMBDA s : s # "")

BuildPath(files) == [k \in DOMAIN files |-> [files[k] EXCEPT !.path = Names(files[k].up)]]

-----------------------------------------------------------------------------
(* Process: chunks and roots, sequentially *)

\* UpdateChunkMaps: a later chunk item replaces an earlier one.
AddChunks(map, its) ==
  LET found == {n \in DOMAIN its : its[n].type = "chunk"}
      of(k) == {n \in found : its[n].off = k}
  IN [k \in DOMAIN map \cup {its[n].off : n \in found} |->
        IF of(k) = {} THEN map[k] ELSE its[Max(of(k))].val]

Init ==
  /\ disk \in Disks /\ phase = "chunks" /\ fp = 0
  /\ chunks = AddChunks(<<>>, disk.system)
  /\ walk = Start(disk.chunkRoot) /\ items = <<>>
  /\ trees = <<>> /\ todo = {} /\ prod = <<>> /\ ch = <<>> /\ cons = <<>>

End(how) == phase' = how /\ UNCHANGED <<disk, loadVars, trees, todo, prod, ch, cons, fp>>

\* A root that cannot be read: of the chunk tree an error, of the root tree the end.
RootFails(node) ==
  /\ node = Bad
  /\ walk = Start(IF phase = "chunks" THEN disk.chunkRoot ELSE disk.treeRoot)

\* One node of ParseTreeNode.
ParseTreeNode ==
  /\ phase \in {"chunks", "roots"} /\ walk.kids # <<>>
  /\ LET at == LocatePhysicalOffset(Head(walk.kids))
     IN \/ at = {} /\ End("fatal")
        \/ \E o \in at :
             LET node == ReadNode(o)
             IN CASE node = Gone -> End("panic")
                  [] RootFails(node) -> End(IF phase = "chunks" THEN "error" ELSE "fatal")
                  [] OTHER -> /\ walk' = Advance(walk, node)
                              /\ items' = IF node.kind = "leaf" THEN items \o node.items ELSE items
                              /\ UNCHANGED <<disk, phase, chunks, trees, todo, prod, ch, cons, fp>>

\* An item of a type the parser does not know has no data, not even a type of data.
UpdateChunkMaps ==
  /\ phase = "chunks" /\ walk.kids = <<>>
  /\ \/ /\ \E i \in Range(items) : i.type = "unknown"
        /\ End("panic")
     \/ /\ \A i \in Range(items) : i.type # "unknown"
        /\ chunks' = AddChunks(chunks, items)
        /\ walk' = Start(disk.treeRoot) /\ items' = <<>> /\ phase' = "roots"
        /\ UNCHANGED <<disk, trees, todo, prod, ch, cons, fp>>

\* Trees with a root item, and those only referred to, whose address stays 0.
TreesOf(its) ==
  LET of(t) == {n \in DOMAIN its : its[n].type = "root" /\ its[n].id = t}
      ids   == {its[n].id : n \in {m \in DOMAIN its : its[m].type = "root"}}
               \cup {its[n].off : n \in {m \in DOMAIN its : its[m].type = "rootref"}}
  IN [t \in ids |-> [at |-> IF of(t) = {} THEN 0 ELSE its[Max(of(t))].val, nodes |-> <<>>, files |-> <<>>]]

DiscoverTrees ==
  /\ phase = "roots" /\ walk.kids = <<>>
  /\ trees' = TreesOf(items)
  /\ todo' = DOMAIN trees'
  /\ prod' = [t \in DOMAIN trees' |-> [pc |-> "idle", walk |-> Start(trees'[t].at), want |-> 0, leaf |-> Bad]]
  /\ ch' = [t \in DOMAIN trees' |-> <<>>]
  /\ cons' = [t \in DOMAIN trees' |-> [pc |-> "idle", nodes |-> <<>>, files |-> <<>>]]
  /\ phase' = "descend"
  /\ UNCHANGED <<disk, loadVars, fp>>

-----------------------------------------------------------------------------
(* DescendTreeCh and its goroutines *)

Running == phase \in {"descend", "wait"}
Writing == {t \in DOMAIN trees : cons[t].pc = "write"}

\* Two goroutines per tree, in the order of a map.
DescendTree(t) ==
  /\ phase = "descend" /\ t \in todo
  /\ todo' = todo \ {t}
  /\ prod' = [prod EXCEPT ![t].pc = "seek"] /\ cons' = [cons EXCEPT ![t].pc = "begin"]
  /\ UNCHANGED <<disk, phase, loadVars, trees, ch, fp>>

Descended ==
  /\ phase = "descend" /\ todo = {}
  /\ phase' = "wait"
  /\ UNCHANGED <<disk, loadVars, trees, todo, prod, ch, cons, fp>>

\* CreateNode: locating and seeking, then reading, on a drive where the one file
\* pointer is by then.
Seek(t) ==
  /\ Running /\ prod[t].pc = "seek" /\ prod[t].walk.kids # <<>>
  /\ LET at == LocatePhysicalOffset(Head(prod[t].walk.kids))
     IN \/ at = {} /\ End("fatal")
        \/ \E o \in at :
             /\ prod' = [prod EXCEPT ![t].pc = "read", ![t].want = o]
             /\ fp' = IF disk.drive THEN o ELSE fp
             /\ UNCHANGED <<disk, phase, loadVars, trees, todo, ch, cons>>

ReadAt(t) == IF disk.drive THEN fp ELSE prod[t].want

Read(t) ==
  /\ Running /\ prod[t].pc = "read"
  /\ LET node == ReadNode(ReadAt(t))
     IN IF node = Gone THEN End("panic")
        ELSE /\ prod' = [prod EXCEPT ![t].pc = IF node.kind = "leaf" THEN "send" ELSE "seek",
                                     ![t].walk = Advance(@, node),
                                     ![t].leaf = IF node.kind = "leaf" THEN node ELSE @]
             /\ fp' = IF disk.drive THEN fp + 1 ELSE fp
             /\ UNCHANGED <<disk, phase, loadVars, trees, todo, ch, cons>>

\* Mutation: the channel has no capacity.
MutSendUnbounded(t) ==
  /\ Running /\ prod[t].pc = "send"
  /\ ch' = [ch EXCEPT ![t] = Append(@, prod[t].leaf)]
  /\ prod' = [prod EXCEPT ![t].pc = "seek"]
  /\ UNCHANGED <<disk, phase, loadVars, trees, todo, cons, fp>>

Send(t) ==
  /\ Running /\ prod[t].pc = "send" /\ Len(ch[t]) < ChannelSize
  /\ ch' = [ch EXCEPT ![t] = Append(@, prod[t].leaf)]
  /\ prod' = [prod EXCEPT ![t].pc = "seek"]
  /\ UNCHANGED <<disk, phase, loadVars, trees, todo, cons, fp>>

\* Mutation: the early return leaves the channel open.
MutCloseNotOnReturn(t) ==
  /\ Running /\ prod[t].pc = "seek" /\ prod[t].walk.kids = <<>> /\ prod[t].leaf # Bad
  /\ prod' = [prod EXCEPT ![t].pc = "closed"]
  /\ UNCHANGED <<disk, phase, loadVars, trees, todo, ch, cons, fp>>

Close(t) ==
  /\ Running /\ prod[t].pc = "seek" /\ prod[t].walk.kids = <<>>
  /\ prod' = [prod EXCEPT ![t].pc = "closed"]
  /\ UNCHANGED <<disk, phase, loadVars, trees, todo, ch, cons, fp>>

\* Update takes its copy of the tree out of the map.
Begin(t) ==
  /\ Running /\ cons[t].pc = "begin"
  /\ cons' = [cons EXCEPT ![t] = [pc |-> "range", nodes |-> trees[t].nodes, files |-> trees[t].files]]
  /\ UNCHANGED <<disk, phase, loadVars, trees, todo, prod, ch, fp>>

Receive(t) ==
  /\ Running /\ cons[t].pc = "range" /\ ch[t] # <<>>
  /\ cons' = [cons EXCEPT ![t].nodes = Append(@, Head(ch[t])), ![t].files = AddLeaf(@, Head(ch[t]))]
  /\ ch' = [ch EXCEPT ![t] = Tail(@)]
  /\ UNCHANGED <<disk, phase, loadVars, trees, todo, prod, fp>>

\* Mutation: an empty channel counts as a closed one.
MutRangedEarly(t) ==
  /\ Running /\ cons[t].pc = "range" /\ ch[t] = <<>>
  /\ cons' = [cons EXCEPT ![t].pc = "write", ![t].files = BuildPath(@)]
  /\ UNCHANGED <<disk, phase, loadVars, trees, todo, prod, ch, fp>>

\* The range ends; the paths are built and the assignment to the map begins.
Ranged(t) ==
  /\ Running /\ cons[t].pc = "range" /\ ch[t] = <<>> /\ prod[t].pc = "closed"
  /\ cons' = [cons EXCEPT ![t].pc = "write", ![t].files = BuildPath(@)]
  /\ UNCHANGED <<disk, phase, loadVars, trees, todo, prod, ch, fp>>

Store(t) ==
  /\ Running /\ cons[t].pc = "write"
  /\ trees' = [trees EXCEPT ![t].nodes = cons[t].nodes, ![t].files = cons[t].files]
  /\ cons' = [cons EXCEPT ![t].pc = "done"]
  /\ UNCHANGED <<disk, phase, loadVars, todo, prod, ch, fp>>

\* FsTreeMap has no lock: the range over it, the read in Update or another
\* assignment during an assignment may be noticed, which ends the program.
MapFault ==
  /\ Running
  /\ \E t \in Writing : \/ phase = "descend"
                        \/ \E u \in DOMAIN trees : cons[u].pc = "begin"
                        \/ \E u \in Writing : u # t
  /\ End("fatal")

Wait ==
  /\ phase = "wait" /\ \A t \in DOMAIN trees : prod[t].pc = "closed" /\ cons[t].pc = "done"
  /\ phase' = "done"
  /\ UNCHANGED <<disk, loadVars, trees, todo, prod, ch, cons, fp>>

Returned == phase \in {"done", "error", "fatal", "panic"} /\ UNCHANGED vars

ParseTreeNodeCh(t) == Seek(t) \/ Read(t) \/ Send(t) \/ Close(t)
Update(t) == Begin(t) \/ Receive(t) \/ Ranged(t) \/ Store(t)

Next ==
  \/ ParseTreeNode \/ UpdateChunkMaps \/ DiscoverTrees \/ Descended \/ MapFault \/ Wait \/ Returned
  \/ \E t \in DOMAIN trees : DescendTree(t) \/ ParseTreeNodeCh(t) \/ Update(t)

Spec == Init /\ [][Next]_vars

FairSpec == Spec /\ WF_vars(Next)

-----------------------------------------------------------------------------
(* What the disk holds: nodes by their position, the children to take on    *)
(* the way down from the root                                               *)

NodeAt(a) ==
  LET at == LocatePhysicalOffset(a) IN IF at = {} THEN Bad ELSE ReadNode(CHOOSE o \in at : TRUE)

NodeOn(t, p) ==
  FoldLeft(LAMBDA n, k : IF n.kind = "internal" /\ k \in DOMAIN n.kids THEN NodeAt(n.kids[k]) ELSE Bad,
           NodeAt(trees[t].at), p)

Leaves(t) == {p \in UNION {[1 .. n -> 1 .. Fan] : n \in 0 .. Height} : NodeOn(t, p).kind = "leaf"}

\* Leaf p is read before leaf q: where their ways part, leaves come first and in
\* order, and of two inner nodes the one on the right.
Before(p, q) ==
  LET k == Min({n \in DOMAIN p \cap DOMAIN q : p[n] # q[n]})
  IN CASE Len(p) = k /\ Len(q) = k -> p[k] < q[k]
       [] Len(p) = k /\ Len(q) > k -> TRUE
       [] Len(p) > k /\ Len(q) = k -> FALSE
       [] Len(p) > k /\ Len(q) > k -> p[k] > q[k]

InOrder(t) ==
  LET ps == Leaves(t)
      nth(n) == CHOOSE p \in ps : Cardinality({q \in ps \ {p} : Before(q, p)}) = n - 1
  IN [n \in 1 .. Cardinality(ps) |-> NodeOn(t, nth(n))]

\* Items of a tree by leaf and place; those that make up the files.
Places(t) == UNION {{<<p, n>> : n \in DOMAIN NodeOn(t, p).items} : p \in Leaves(t)}
ItemAt(t, x) == NodeOn(t, x[1]).items[x[2]]
OfFiles(t) == {x \in Places(t) : ItemAt(t, x).type \in {"inode", "ref", "dir", "extent"}}
FileItems(t) == {ItemAt(t, x) : x \in OfFiles(t)}

Earlier(x, y) == IF x[1] = y[1] THEN x[2] < y[2] ELSE Before(x[1], y[1])

\* No descent moves the file pointer of another.
Undisturbed == ~disk.drive \/ \A t, u \in DOMAIN trees : t = u

\* A tree that is one leaf or one inner node over readable leaves.
Flat(t) ==
  LET root == NodeAt(trees[t].at)
  IN \/ root.kind = "leaf"
     \/ root.kind = "internal" /\ \A k \in DOMAIN root.kids : NodeAt(root.kids[k]).kind = "leaf"

\* Of the items S of a tree: its inodes, their references, and their ancestors by
\* the last of these.
Inodes(S)       == {i.id : i \in S}
Refs(S, id)     == {i \in S : i.type = "ref" /\ i.id = id}
FirstRef(S, id) == CHOOSE i \in Refs(S, id) : \A j \in Refs(S, id) : i.off <= j.off
LastRef(S, id)  == CHOOSE i \in Refs(S, id) : \A j \in Refs(S, id) : i.off >= j.off
IsRoot(S, id)   == LastRef(S, id).off = id

\* Every inode has references, and what they refer to is there.
Whole(S) ==
  \A id \in Inodes(S) : Refs(S, id) # {} /\ \A r \in Refs(S, id) : r.off \in Inodes(S)

\* The names above an inode, from the root down, as far as there are inodes.
TruePath(S, id) ==
  LET above[n \in 0 .. Cardinality(Inodes(S)), x \in Inodes(S)] ==
        IF n = 0 \/ IsRoot(S, x) THEN <<>>
        ELSE LET up == LastRef(S, x).off IN Append(above[n - 1, up], FirstRef(S, up).val)
  IN above[Cardinality(Inodes(S)), id]

\* All ancestors of an inode have a smaller number than what they hold.
Ascending(S, id) ==
  LET fine[n \in 0 .. Cardinality(Inodes(S)), x \in Inodes(S)] ==
        \/ IsRoot(S, x)
        \/ n > 0 /\ LastRef(S, x).off < x /\ fine[n - 1, LastRef(S, x).off]
  IN fine[Cardinality(Inodes(S)), id]

-----------------------------------------------------------------------------
(* Properties *)

TypeOK ==
  /\ disk \in Disks /\ chunks \in [DOMAIN chunks -> Chunk]
  /\ phase \in {"chunks", "roots", "descend", "wait", "done", "error", "fatal", "panic"}
  /\ todo \subseteq DOMAIN trees
  /\ DOMAIN prod = DOMAIN trees /\ DOMAIN ch = DOMAIN trees /\ DOMAIN cons = DOMAIN trees
  /\ \A t \in DOMAIN trees :
       /\ prod[t].pc \in {"idle", "seek", "read", "send", "closed"} /\ Len(ch[t]) <= ChannelSize
       /\ cons[t].pc \in {"idle", "begin", "range", "write", "done"}

\* However the goroutines are scheduled, the leaves collected for a tree are its
\* readable leaves, each once, in the one order the stack gives; no node of another
\* tree is among them (ParseTreeNodeCh, Update).
LeavesExact ==
  Undisturbed => \A t \in DOMAIN trees :
    /\ IsPrefix(cons[t].nodes \o ch[t], InOrder(t))
    /\ phase = "done" => trees[t].nodes = InOrder(t)

\* An entry has all items of its inode but those that were read before the inode
\* item, which starts it anew: none in a flat tree, in a deeper one those of an
\* inode that spans two inner nodes (btrfs.go:52, the stack of inner nodes).
EntriesExact ==
  Undisturbed /\ phase = "done" => \A t \in DOMAIN trees :
    LET places    == OfFiles(t)
        inodes    == {y \in places : ItemAt(t, y).type = "inode"}
        kept(x)   == ~\E y \in inodes : ItemAt(t, y).id = ItemAt(t, x).id /\ Earlier(x, y)
        has(id)   == IF id \in DOMAIN trees[t].files THEN trees[t].files[id].items ELSE <<>>
        all(id)   == {ItemAt(t, x) : x \in {y \in places : ItemAt(t, y).id = id}}
    IN /\ \A x \in places : kept(x) <=> ItemAt(t, x) \in Range(has(ItemAt(t, x).id))
       /\ \A id \in DOMAIN trees[t].files :
            /\ IsInjective(has(id)) /\ Range(has(id)) \subseteq all(id)
            /\ Flat(t) => Range(has(id)) = all(id)

\* In a flat tree without gaps a file's name and path are those of one of its links exactly if
\* every directory above it is older (has a smaller inode number) than what it
\* holds, and the names of its links are the same: parents are copied when a
\* reference arrives, the path is that of the last link, the name of the first.
PathOfALink ==
  Undisturbed /\ phase = "done" => \A t \in DOMAIN trees : Flat(t) =>
    LET S == FileItems(t)
    IN Whole(S) => \A id \in Inodes(S) : ~IsRoot(S, id) =>
         LET e     == trees[t].files[id]
             links == {<<Append(TruePath(S, r.off), FirstRef(S, r.off).val), r.val>> : r \in Refs(S, id)}
         IN <<e.path, GetFname(e)>> \in links
              <=> Ascending(S, id) /\ FirstRef(S, id).val = LastRef(S, id).val

\* Chunks, roots and every pointer to a node are in order; leaves need not be.
Sound ==
  LET held  == UNION {Range(disk.nodes[o].items) : o \in {x \in DOMAIN disk.nodes : disk.nodes[x].kind = "leaf"}}
      all   == Range(disk.system) \cup {i \in held : i.type = "chunk"}
      inside(a, cs) == \E c \in cs : c.off <= a /\ a - c.off < c.val.size /\ c.val.stripe + a - c.off < disk.size
      holds(a, kinds, cs) == \E c \in cs : /\ c.off <= a /\ a - c.off < c.val.size
                                           /\ c.val.stripe + a - c.off \in DOMAIN disk.nodes
                                           /\ disk.nodes[c.val.stripe + a - c.off].kind \in kinds
  IN /\ holds(disk.chunkRoot, {"leaf"}, Range(disk.system))
     /\ \A i \in held : i.type # "unknown"
     /\ holds(disk.treeRoot, {"leaf", "internal"}, all)
     /\ \A o \in DOMAIN disk.nodes : disk.nodes[o].kind = "internal" =>
          \A k \in DOMAIN disk.nodes[o].kids : inside(disk.nodes[o].kids[k], all)
     /\ \A i \in held : i.type = "root" => inside(i.val, all)
     /\ \A i \in held : i.type = "rootref" => \E j \in held : j.type = "root" /\ j.id = i.off

\* Loading ends: producers, collectors and the wait never wait for each other, with
\* any capacity of the channels.  A volume in order on an image is loaded, unless the
\* runtime ends the program at an access to the map of trees while a finished tree is
\* being assigned to it.
Termination ==
  <>(\/ phase = "done"
     \/ phase = "fatal" /\ Writing # {}
     \/ phase \in {"error", "fatal", "panic"} /\ ~(Sound /\ ~disk.drive))

\* src/README.md:15 "you can explore NTFS or BTRFS by providing physical drive
\* number and partition number": the readable leaves of every tree are all read.
DriveExplored ==
  disk.drive /\ phase = "done" =>
    \A t \in DOMAIN trees : \A p \in Leaves(t) : NodeOn(t, p) \in Range(trees[t].nodes)
===============================================================================
