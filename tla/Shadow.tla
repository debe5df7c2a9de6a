------------------------------ MODULE Shadow ------------------------------
(***************************************************************************)
(* Volume shadow copies: the catalog of a partition, the stores it lists,  *)
(* and the clusters that are looked for in them (disk/disk.go,             *)
(* FS/NTFS/VSS).  Offsets in a volume count sectors.                       *)
(***************************************************************************)
EXTENDS Evidence

CONSTANT RangeUnit  \* the 4096 bytes of HasClusters

ASSUME ShadowAssumption ==
  /\ RangeUnit \in Nat \ {0}
  /\ \A j \in Jobs :
       /\ j.args.clusters \in Seq(Int)
       /\ \A p \in DOMAIN j.parts : j.parts[p].volume = "ntfs" =>
            LET vss == j.parts[p].vss
            IN /\ IsFiniteSet(DOMAIN vss.blocks)
               /\ \A b \in DOMAIN vss.blocks :
                    /\ vss.blocks[b].entries \in Seq(ToSet(vss.blocks[b].entries))
                    /\ \A e \in ToSet(vss.blocks[b].entries) : e.type = 3 => e.store \in DOMAIN vss.stores
               /\ \A s \in DOMAIN vss.stores :
                    /\ vss.stores[s].ranges \in Seq([start : Nat, shadow : Nat, size : Nat])
                    /\ vss.stores[s].list \in Seq([original : Nat, shadow : Nat])

VARIABLES
  shadow,  \* the catalog block to read, those read, the stores so far, Catalogs, Stores
  clOffsets    \* what ShowClustersInfo prints of each cluster, -1 for not found

shadowVars == <<shadow, clOffsets>>

ShadowInit ==
  /\ shadow = [pc |-> "idle", at |-> 0, read |-> {}, listed |-> <<>>, catalogs |-> <<>>, stores |-> <<>>]
  /\ clOffsets = <<>>

Vss == job.parts[args.partition].vss

\* A volume without shadow copies has no offset of a catalog, so that its boot sector
\* is taken for one, and its number of sectors for the offset of the next.
BlockAt(vss, b) == IF b \in DOMAIN vss.blocks THEN vss.blocks[b] ELSE [entries |-> <<>>, next |-> 0]

\* The stores of a block, up to what is no entry.
ListedIn(vss, b) ==
  LET entries == BlockAt(vss, b).entries
      ends    == {n \in DOMAIN entries : entries[n].type \notin {1, 2, 3}}
      part    == IF ends = {} THEN entries ELSE SubSeq(entries, 1, Min(ends) - 1)
      stores  == Keep(part, {e \in ToSet(part) : e.type = 3})
  IN [n \in DOMAIN stores |-> stores[n].store]

-----------------------------------------------------------------------------
(* Reading *)

\* Without a number of a partition there is none at that index; BTRFS is no NTFS.
ProcessVSS ==
  /\ shadow.pc = "idle"
  /\ IF args.partition \notin DOMAIN Partitions \/ job.parts[args.partition].volume = "btrfs"
     THEN phase' = "panic" /\ UNCHANGED shadow
     ELSE /\ shadow' = IF job.parts[args.partition].volume = "none" THEN [shadow EXCEPT !.pc = "done"]
                       ELSE [shadow EXCEPT !.pc = "catalog", !.at = Vss.catalog]
          /\ UNCHANGED phase
  /\ UNCHANGED <<job, clOffsets>>

\* Mutation: a block becomes a Catalog before it is asked whether it is the last.
MutCatalogsAfter(listed, next) == Append(shadow.catalogs, listed)

\* The last block becomes no Catalog.
CatalogsAfter(listed, next) == IF next = 0 THEN shadow.catalogs ELSE Append(shadow.catalogs, listed)

\* Entries are never dropped from block to block.  A block that leads back to one that
\* was read is never left.
ReadCatalog ==
  /\ shadow.pc = "catalog"
  /\ LET next   == BlockAt(Vss, shadow.at).next
         listed == shadow.listed \o ListedIn(Vss, shadow.at)
     IN IF shadow.at > Vss.size THEN phase' = "panic" /\ UNCHANGED shadow
        ELSE IF next # 0 /\ next \in shadow.read \cup {shadow.at} THEN phase' = "hang" /\ UNCHANGED shadow
        ELSE /\ shadow' = [shadow EXCEPT !.pc = IF next = 0 THEN "stores" ELSE "catalog",
                                         !.at = next, !.read = @ \cup {shadow.at},
                                         !.listed = listed, !.catalogs = CatalogsAfter(listed, next)]
             /\ UNCHANGED phase
  /\ UNCHANGED <<job, clOffsets>>

\* A store without its header or bitmaps, or with a name that is longer than the
\* 16 KiB of the header it is looked for in, is sliced out of range.
StorePanics(s) == ~Vss.stores[s].whole \/ Vss.stores[s].name >= 64

ProcessStores ==
  /\ shadow.pc = "stores"
  /\ LET stores == FlattenSeq(shadow.catalogs)
     IN IF \E s \in ToSet(stores) : StorePanics(s) THEN phase' = "panic" /\ UNCHANGED shadow
        ELSE shadow' = [shadow EXCEPT !.pc = "done", !.stores = stores] /\ UNCHANGED phase
  /\ UNCHANGED <<job, clOffsets>>

ReadShadow == ProcessVSS \/ ReadCatalog \/ ProcessStores

-----------------------------------------------------------------------------
(* Looking up *)

\* The ranges of a list, up to one that starts at 0.
RangesOf(store) ==
  LET ranges == store.ranges
      zeros  == {n \in DOMAIN ranges : ranges[n].start = 0}
  IN IF zeros = {} THEN ranges ELSE SubSeq(ranges, 1, Min(zeros) - 1)

\* Clusters are of 4096 bytes here, and the first of a range is not in it.
HasClusters(r, c) == r.start < c * RangeUnit /\ c * RangeUnit < r.start + r.size

\* What a store answers: a cluster by a range, an offset by a block descriptor.
Answers(store, c, spc) ==
  LET ranges == Keep(RangesOf(store), {r \in ToSet(RangesOf(store)) : HasClusters(r, c)})
      blocks == Keep(store.list, {d \in ToSet(store.list) : d.original = c * spc})
  IN [n \in DOMAIN ranges |-> (ranges[n].shadow \div spc) + c - (ranges[n].start \div spc)]
       \o [n \in DOMAIN blocks |-> blocks[n].shadow]

\* The first store that answers does.
GetShadowClusterOffset(c, spc) ==
  LET all == FlattenSeq([n \in DOMAIN shadow.stores |-> Answers(Vss.stores[shadow.stores[n]], c, spc)])
  IN IF all = <<>> THEN -1 ELSE all[1]

\* Partitions that are not there are passed over, those without a volume an error.
ShowClusters ==
  LET here == args.partition \in DOMAIN Partitions
  IN /\ phase' = IF here /\ job.parts[args.partition].volume = "btrfs" THEN "panic" ELSE "loop"
     /\ clOffsets' = IF ~here \/ job.parts[args.partition].volume # "ntfs" THEN <<>>
                 ELSE [n \in DOMAIN args.clusters |->
                         GetShadowClusterOffset(args.clusters[n], job.parts[args.partition].spc)]
     /\ UNCHANGED <<job, shadow>>

-----------------------------------------------------------------------------
(* Correctness *)

ShadowTypeOK ==
  /\ shadow.pc \in {"idle", "catalog", "stores", "done"}
  /\ shadow.pc = "catalog" => shadow.read \subseteq DOMAIN Vss.blocks /\ shadow.at \notin shadow.read

\* The blocks of the catalog, the first being where the header of the volume says, and
\* the stores that the first of them list.
Chain(vss) ==
  LET chain[k \in 0 .. Cardinality(DOMAIN vss.blocks)] ==
        IF k = 0 THEN <<vss.catalog>>
        ELSE LET next == BlockAt(vss, Last(chain[k - 1])).next
             IN IF next = 0 THEN chain[k - 1] ELSE Append(chain[k - 1], next)
  IN chain[Cardinality(DOMAIN vss.blocks)]
Upto(vss, chain, m) == FlattenSeq([n \in 1 .. m |-> ListedIn(vss, chain[n])])

\* For every block but the last, the stores that it and those before it list: a store of
\* the n-th of m blocks is read m - n times, one of the last block never.
StoresExact ==
  shadow.stores = FlattenSeq([m \in 1 .. Len(Chain(Vss)) - 1 |-> Upto(Vss, Chain(Vss), m)])

\* Where a store has a cluster: a cluster of it by a range, of which the first is not
\* looked at, an offset by a descriptor; those not in use stand for cluster 0.
Copies(store, c, spc) ==
  LET at == c * spc
  IN {(r.shadow + at - r.start) \div spc : r \in {q \in ToSet(RangesOf(store)) : at \in q.start + 1 .. q.start + q.size - 1}}
       \cup {d.shadow : d \in {e \in ToSet(store.list) : e.original = at}}

\* With clusters of 4096 bytes, and ranges that begin where a cluster does, an answer is
\* that of the first store with a copy.
ClustersExact(spc) ==
  LET stores == [k \in DOMAIN shadow.stores |-> Vss.stores[shadow.stores[k]]]
  IN (\A k \in DOMAIN stores : \A r \in ToSet(RangesOf(stores[k])) : r.start % spc = 0) =>
       \A n \in DOMAIN clOffsets :
         LET c    == args.clusters[n]
             with == {k \in DOMAIN stores : Copies(stores[k], c, spc) # {}}
         IN IF with = {} THEN clOffsets[n] = -1 ELSE clOffsets[n] \in Copies(stores[Min(with)], c, spc)
===============================================================================
