----------------------------- MODULE MCBtrfsTrees -----------------------------
(* Volumes for TLC: a system chunk with the chunk tree and a data chunk with   *)
(* the root tree and one or two file trees of different shapes.                *)
EXTENDS BtrfsTrees

It(type, id, off, val) == [type |-> type, id |-> id, off |-> off, val |-> val]
Leaf(its)   == [kind |-> "leaf", items |-> its]
Inner(kids) == [kind |-> "internal", kids |-> kids]
Inode(id)   == It("inode", id, 0, "")
Ref(id, up, name) == It("ref", id, up, name)
Dir(id, n)  == It("dir", id, n, "")
Extent(id)  == It("extent", id, 0, "")
Root(id, a) == It("root", id, 0, a)

\* Logical blocks 100.. lie at 2.., the chunk tree at 50 lies at 0.
System == <<It("chunk", 9, 50, [size |-> 2, stripe |-> 0])>>
Data   == It("chunk", 9, 100, [size |-> 20, stripe |-> 2])
Top    == <<Inode(1), Ref(1, 1, "..")>>

Volume(roots, nodes, drive) ==
  [size |-> 3 + Len(nodes), system |-> System, chunkRoot |-> 50, treeRoot |-> 100, drive |-> drive,
   nodes |-> (0 :> Leaf(<<It("other", 0, 0, ""), Data>>)) @@ (2 :> Leaf(roots))
             @@ [o \in 3 .. 2 + Len(nodes) |-> nodes[o - 2]]]

\* Directory 2, file 3 with a link in each of 1 and 2, 4 in the younger 5, 6 in 4.
Linked(name) ==
  <<Inner(<<102, 103, 104, 105>>), Leaf(Top \o <<Inode(2)>>), Leaf(<<Ref(2, 1, "d"), Inode(3), Ref(3, 1, "a")>>),
    Leaf(<<Ref(3, 2, name), Extent(3), Inode(4), Ref(4, 5, "c")>>),
    Leaf(<<Inode(5), Ref(5, 1, "e"), Inode(6), Ref(6, 4, "g")>>)>>
Small(name) == Leaf(Top \o <<Inode(2), Ref(2, 1, name)>>)

\* Two or three leaves under one node; the items of inode 2 are split.
Split1 == Leaf(Top \o <<Inode(2)>>)
Split2 == Leaf(<<Ref(2, 1, "d"), Dir(2, 3), Inode(3)>>)
Split3 == Leaf(<<Ref(3, 2, "a"), Extent(3), It("other", 3, 0, "")>>)

DriveVolumes(drive) ==
  { \* one tree
    Volume(<<Root(5, 101)>>, <<Inner(<<102, 103, 104>>), Split1, Split2, Split3>>, drive),
    \* two trees, each over a node
    Volume(<<Root(5, 101), Root(256, 104)>>,
           <<Inner(<<102, 103>>), Split1, Split2, Inner(<<105>>), Small("z")>>, drive) }

Volumes ==
  { Volume(<<Root(5, 101)>>, Linked("a"), FALSE),
    Volume(<<Root(5, 101)>>, Linked("b"), FALSE),
    \* an inner node without children among leaves, a bad leaf
    Volume(<<Root(5, 101)>>, <<Inner(<<102, 103, 104, 105>>), Split1, [kind |-> "internal", kids |-> <<>>],
                               Leaf(<<>>), Split3>>, FALSE),
    Volume(<<Root(5, 101)>>, <<Inner(<<102, 104, 103>>), Split1, Split2, [kind |-> "bad"]>>, FALSE),
    Volume(<<Root(5, 101), Root(256, 102)>>, <<[kind |-> "bad"], Small("x")>>, FALSE),
    \* three levels
    Volume(<<Root(5, 101)>>, <<Inner(<<102, 103, 104>>), Inner(<<105, 106>>), Leaf(<<Dir(1, 8)>>), Inner(<<107>>),
                               Split1, Split2, Split3>>, FALSE),
    Volume(<<Root(5, 101), Root(256, 108)>>,
           <<Inner(<<102, 103>>), Inner(<<104>>), Inner(<<105, 106>>),
             Split1, Split2, Split3, Leaf(<<>>), Small("y")>>, FALSE),
    \* three trees, a tree without a root item, a pointer to nowhere, past the end
    Volume(<<Root(5, 101), Root(256, 102), Root(257, 103)>>, <<Small("x"), Small("y"), Small("z")>>, FALSE),
    Volume(<<Root(5, 101), It("rootref", 5, 256, "s")>>, <<Small("x")>>, FALSE),
    Volume(<<Root(5, 101), It("rootref", 5, 256, "s"), Root(256, 102)>>, <<Small("x"), Small("y")>>, FALSE),
    Volume(<<Root(5, 101)>>, <<Inner(<<102, 200>>), Split1>>, FALSE),
    Volume(<<Root(5, 101)>>, <<Inner(<<102, 119>>), Split1>>, FALSE) }

\* The chunk tree or the root tree is damaged, or the root tree has two levels.
Damaged ==
  LET v == Volume(<<Root(5, 101)>>, <<Small("x")>>, FALSE)
  IN { [v EXCEPT !.nodes = [o \in DOMAIN v.nodes \ {0} |-> v.nodes[o]]],
       [v EXCEPT !.nodes = [o \in DOMAIN v.nodes \ {2} |-> v.nodes[o]]],
       [v EXCEPT !.nodes = (0 :> Leaf(<<>>)) @@ v.nodes],
       [v EXCEPT !.nodes = (0 :> Leaf(<<Data, It("unknown", 0, 0, "")>>)) @@ v.nodes],
       Volume(<<>>, <<Small("x")>>, FALSE),
       [Volume(<<>>, <<Small("x"), Leaf(<<Root(5, 101)>>), Small("y"), Leaf(<<Root(256, 103)>>)>>, FALSE)
          EXCEPT !.nodes = (2 :> Inner(<<102, 108, 104>>)) @@ @, !.size = 20] }

MCDisks == Volumes \cup Damaged \cup DriveVolumes(TRUE) \cup DriveVolumes(FALSE)
DriveDisks == DriveVolumes(TRUE)
===============================================================================
