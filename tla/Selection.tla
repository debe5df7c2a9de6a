----------------------------- MODULE Selection -----------------------------
(***************************************************************************)
(* The loop of main over the partitions: the filters, one of them by the   *)
(* signatures of signatures.csv, and the tree of what is left (main.go,    *)
(* filters, filtermanager, signatures, tree).  The export of it is Export. *)
(***************************************************************************)
EXTENDS Evidence

CONSTANTS Lower, Upper  \* of an extension

\* Extensions in lower case are not what an unknown signature is told by.
ASSUME SelectionAssumption ==
  /\ \A e \in DOMAIN Lower : Lower[e] # "Unknown Extension"
  /\ \A j \in Jobs :
       /\ j.rows \in Seq(ToSet(j.rows))
       /\ \A n \in DOMAIN j.rows : j.rows[n].sig \in Seq(Nat) /\ j.rows[n].ext # "Unknown Extension"
       /\ \A p, q \in DOMAIN j.parts : \A n \in DOMAIN j.parts[p].records :
            /\ j.parts[p].records[n].ext \in DOMAIN Lower
            /\ j.parts[p].records[n].header[q] \in Seq(Nat)

VARIABLES
  sgm,   \* the signature tree: by the bytes that lead to a node, [ext, terminal]
  todo,  \* partitions left
  flm,   \* the filters
  seen,  \* the partitions so far, with the records each selected
  tree   \* recordsTree, and what Show printed of it

selectionVars == <<sgm, todo, flm, seen, tree>>

Rec(p, n) == job.parts[p].records[n]

-----------------------------------------------------------------------------
(* Signatures *)

\* The rows that count, by their extension the last of them.
ReadSignatures ==
  LET rows == {n \in DOMAIN job.rows :
                 Len(args.exts) > 1 => Lower[job.rows[n].ext] \in ToSet(args.exts)}
  IN [e \in {job.rows[n].ext : n \in rows} |->
        job.rows[Max({n \in rows : job.rows[n].ext = e})].sig]

Root == [s \in {<<>>} |-> [ext |-> "", terminal |-> FALSE]]

\* Mutation: the end of a signature is terminal even if it is on the way to another one.
MutInsert(trie, e, sig) ==
  [s \in DOMAIN trie \cup Prefixes(sig) |->
     [ext      |-> IF s \in DOMAIN trie /\ s # sig THEN trie[s].ext ELSE e,
      terminal |-> s = sig \/ (s \in DOMAIN trie /\ trie[s].terminal)]]

\* A node that is passed is not terminal any more; one that is there keeps its extension.
Insert(trie, e, sig) ==
  [s \in DOMAIN trie \cup Prefixes(sig) |->
     [ext      |-> IF s \in DOMAIN trie THEN trie[s].ext ELSE e,
      terminal |-> (s \in DOMAIN trie => trie[s].terminal) /\ s \notin Prefixes(sig) \ {sig}]]

TrieOf(sigs, order) ==
  LET trie[k \in 0 .. Len(order)] ==
        IF k = 0 THEN Root ELSE Insert(trie[k - 1], order[k], sigs[order[k]])
  IN trie[Len(order)]

\* ReadSignatures returns a map, that is walked in any order.
Tries == {TrieOf(ReadSignatures, order) : order \in SetToSeqs(DOMAIN ReadSignatures)}

FindSignature(header) ==
  LET ends == {s \in Prefixes(header) \cap DOMAIN sgm : sgm[s].terminal}
  IN IF ends = {} THEN "Unknown Extension"
     ELSE sgm[CHOOSE s \in ends : \A t \in ends : Len(s) <= Len(t)].ext

\* The first bytes are looked for from the offset of the filter's partition.
HasSignatures(r, p) ==
  /\ ~r.folder /\ r.lsize # 0
  /\ \/ args.level = "permissive" /\ FindSignature(r.header[p]) # "Unknown Extension"
     \/ args.level = "strict" /\ FindSignature(r.header[p]) = Lower[r.ext]

-----------------------------------------------------------------------------
(* Filters *)

Tops(p) == {0} \cup {n \in DOMAIN job.parts[p].records : Rec(p, n).id = 5}

\* From the parent of a record on upwards, to entry 5 or to a record without a parent.
Ups(p, n) ==
  LET up[k \in 1 .. Len(job.parts[p].records) + 1] ==
        IF k = 1 THEN Rec(p, n).up
        ELSE IF up[k - 1] \in Tops(p) THEN up[k - 1] ELSE Rec(p, up[k - 1]).up
  IN up

GetFullPath(p, n) ==
  LET above == Keep(Ups(p, n), DOMAIN job.parts[p].records \ Tops(p))
  IN [known |-> Last(Ups(p, n)) # 0, names |-> Reverse([k \in DOMAIN above |-> Rec(p, above[k]).name])]

\* On a cycle it does not return.
Endless(p, n) == Last(Ups(p, n)) \notin Tops(p)

\* A filter is [kind, keys]; the selections by each of its keys follow one another.
Keeps(kind, key, p, n) ==
  LET r == Rec(p, n)
  IN CASE kind = "name"      -> r.name \in key
       [] kind = "extension" -> r.ext \in {Upper[key], Lower[key]}
       [] kind = "path"      -> GetFullPath(p, n) = key
       [] kind = "entry"     -> r.id = key
       [] kind = "orphans"   -> r.deleted /\ r.up # 0
       [] kind = "deleted"   -> r.deleted
       [] kind = "signature" -> HasSignatures(r, key)

Execute(filter, p, sel) ==
  FlattenSeq([k \in DOMAIN filter.keys |->
                Keep(sel, {n \in ToSet(sel) : Keeps(filter.kind, filter.keys[k], p, n)})])

\* What the first k filters leave.
Stages(p, filters) ==
  LET left[k \in 0 .. Len(filters)] ==
        IF k = 0 THEN [n \in DOMAIN job.parts[p].records |-> n] ELSE Execute(filters[k], p, left[k - 1])
  IN left

ApplyFilters(p, filters) == Stages(p, filters)[Len(filters)]

Hangs(p, filters) ==
  \E i \in DOMAIN filters : /\ filters[i].kind = "path"
                            /\ \E n \in ToSet(Stages(p, filters)[i - 1]) : Endless(p, n)

\* The filters of a partition stay for those after it.
Register(p) ==
  IF args.level = "" THEN flm ELSE Append(flm, [kind |-> "signature", keys |-> <<p>>])

\* GetClustersStatus takes the first partition that is wanted, whose bits are those of
\* its seventh record.
StatusFails ==
  LET wanted == {q \in Loaded \cap DOMAIN Partitions : Wanted(q, args.partition)}
  IN wanted # {} /\ Min(wanted) \in Ntfs /\ Partitions[Min(wanted)].table < 7

SelectionInit ==
  /\ sgm \in IF args.level = "" THEN {<<>>} ELSE Tries
  /\ todo = Loaded
  /\ flm = args.filters
  /\ seen = <<>>
  /\ tree = [root |-> 0, orphans |-> {}, printed |-> {}]

\* recordsPerPartition is a map, that is walked in any order.
Select(p) ==
  /\ p \in todo
  /\ todo' = todo \ {p}
  /\ flm' = Register(p)
  /\ \/ /\ args.level # "" /\ args.search
        /\ phase' = "panic" /\ UNCHANGED seen
     \/ /\ args.level = "" \/ ~args.search
        /\ Hangs(p, flm')
        /\ phase' = "hang" /\ UNCHANGED seen
     \/ /\ args.level = "" \/ ~args.search
        /\ ~Hangs(p, flm')
        /\ seen' = Append(seen, [part |-> p, sel |-> ApplyFilters(p, flm')])
        /\ phase' = IF StatusFails THEN "panic" ELSE "selected"
  /\ UNCHANGED <<job, sgm, tree>>

-----------------------------------------------------------------------------
(* The tree *)

\* The nodes of a partition: by an entry from 5 on the last record that has it.
Nodes(s) ==
  LET is(n) == Rec(s.part, n).id >= 5 /\ Rec(s.part, n).base /\ Rec(s.part, n).parref # -1
      at    == {k \in DOMAIN s.sel : is(s.sel[k])}
  IN [e \in {Rec(s.part, s.sel[k]).id : k \in at} |->
        Rec(s.part, s.sel[Max({k \in at : Rec(s.part, s.sel[k]).id = e})])]

Children(nodes, e) == {c \in DOMAIN nodes \ {5} : nodes[c].parref = e}

\* Mutation: a tree of its own for each partition.
MutBuild(s) ==
  LET nodes == Nodes(s)
  IN [tree EXCEPT !.root = IF 5 \in DOMAIN nodes THEN s.part ELSE 0,
                  !.orphans = {<<s.part, e>> : e \in
                     {c \in DOMAIN nodes \ {5} : nodes[c].parref \notin DOMAIN nodes}}]

\* The root is replaced, the orphans of the partitions before stay.
Build(s) ==
  LET nodes == Nodes(s)
  IN [tree EXCEPT !.root = IF 5 \in DOMAIN nodes THEN s.part ELSE @,
                  !.orphans = @ \cup {<<s.part, e>> : e \in
                     {c \in DOMAIN nodes \ {5} : nodes[c].parref \notin DOMAIN nodes}}]

NodesOf(p) == Nodes(seen[CHOOSE k \in DOMAIN seen : seen[k].part = p])

\* A folder prints itself and its children.
ShowChildren(p, e) ==
  LET nodes == NodesOf(p)
  IN IF nodes[e].folder THEN {<<p, c>> : c \in {e} \cup Children(nodes, e)} ELSE {}

\* What descend reaches: the nodes below the root.
Descend(p) ==
  LET nodes == NodesOf(p)
      level[k \in 0 .. Cardinality(DOMAIN nodes)] ==
        IF k = 0 THEN {5} ELSE UNION {Children(nodes, e) : e \in level[k - 1]}
  IN UNION {level[k] : k \in DOMAIN level}

\* From the root down, and an orphan only with its children.
Show(t) ==
  UNION ({ShowChildren(t.root, e) : e \in {d \in Descend(t.root) : Children(NodesOf(t.root), d) # {}}}
         \cup {ShowChildren(o[1], o[2]) : o \in t.orphans})

\* A tree without a root cannot be shown.
BuildAndShow ==
  LET t == IF args.tree THEN Build(Last(seen)) ELSE tree
  IN /\ IF args.showtree /\ t.root = 0
        THEN phase' = "panic" /\ tree' = t
        ELSE phase' = "loop" /\ tree' = [t EXCEPT !.printed = IF args.showtree THEN Show(t) ELSE {}]
     /\ UNCHANGED <<job, sgm, todo, flm, seen>>

-----------------------------------------------------------------------------
(* Correctness *)

SelectionTypeOK ==
  /\ todo \subseteq Loaded
  /\ {s.part : s \in ToSet(seen)} \subseteq Loaded \ todo
  /\ \A s \in ToSet(seen) : ToSet(s.sel) \subseteq DOMAIN job.parts[s.part].records
  /\ tree.root \in {0} \cup {s.part : s \in ToSet(seen)}

\* The extensions whose signature a header begins with, of those that are no
\* beginning of another one, and not empty.
Owners(header) ==
  LET sigs == ReadSignatures
  IN {e \in DOMAIN sigs : /\ sigs[e] \in Prefixes(header) \ {<<>>}
                          /\ \A d \in DOMAIN sigs : sigs[e] \in Prefixes(sigs[d]) => sigs[d] = sigs[e]}

\* Whether the signature of a record, at its own partition, lets it pass: for certain,
\* or, if extensions share it, for some order of the signatures.
Must(r, p) ==
  \/ args.level = ""
  \/ /\ ~r.folder /\ r.lsize # 0
     /\ \/ args.level = "permissive" /\ Owners(r.header[p]) # {}
        \/ args.level = "strict" /\ Owners(r.header[p]) = {Lower[r.ext]}

May(r, p) == Must(r, p) \/ (args.level = "strict" /\ Lower[r.ext] \in Owners(r.header[p]))

\* How often a filter selects a record, and those of the command line do together.
Passing(f, p, n) == Cardinality({k \in DOMAIN f.keys : Keeps(f.kind, f.keys[k], p, n)})
ProductOf(s) ==
  LET upto[k \in 0 .. Len(s)] == IF k = 0 THEN 1 ELSE upto[k - 1] * s[k]
  IN upto[Len(s)]
Times(p, n) == ProductOf([k \in DOMAIN args.filters |-> Passing(args.filters[k], p, n)])

\* The first partition shows exactly the records that its filters and its own
\* signatures select; with signatures one after it no more than that.
Exact(k) ==
  LET s == seen[k]
  IN \A n \in DOMAIN job.parts[s.part].records :
       LET count == Cardinality({i \in DOMAIN s.sel : s.sel[i] = n})
       IN /\ count \in {0, Times(s.part, n)}
          /\ ~May(Rec(s.part, n), s.part) => count = 0
          /\ (k = 1 \/ args.level = "") /\ Must(Rec(s.part, n), s.part) => count = Times(s.part, n)

\* Whether one comes to entry 5 from a node upwards through the nodes.
Below(nodes, e) ==
  LET up[k \in 0 .. Cardinality(DOMAIN nodes)] ==
        IF k = 0 THEN e
        ELSE IF up[k - 1] \in DOMAIN nodes \ {5} THEN nodes[up[k - 1]].parref ELSE up[k - 1]
  IN 5 \in DOMAIN nodes /\ up[Cardinality(DOMAIN nodes)] = 5
===============================================================================
