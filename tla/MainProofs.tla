----------------------------- MODULE MainProofs ------------------------------
(***************************************************************************)
(* What TLAPS proves of main.  The change journal is read exactly, in      *)
(* every order of its goroutines (JournalExact): what a call has still to  *)
(* find is kept as a sequence, what is left of the fragment that is        *)
(* scanned, then the fragments in the channel, those that AsyncWorker has  *)
(* not sent, and the journals it has not begun.  The tree of what the      *)
(* filters leave is built and shown exactly, in every order of the         *)
(* partitions (TreeExact): it grows by the nodes of one partition at a     *)
(* time, and what descend reaches are the nodes the root is above.         *)
(* What is read of shadow copies is what the chain of the blocks of their  *)
(* catalog lists, and clusters are looked up in that (ShadowExact).        *)
(* Each record is selected as often as the filters ask for, for the        *)
(* signatures by the tree of them (SelectionExact).                        *)
(***************************************************************************)
EXTENDS Main, SequenceProofs

Frag  == Seq(Cell)

\* The journals of a partition, as a set.
Held(p) == IF p \in Loaded THEN ToSet(Journals(p)) ELSE {}

\* What is found in a fragment, in a journal of a partition, and in a partition.
ScanAll      == [x \in Frag |-> RecordsFrom(x, 1)]
InJournal(p) == [r \in Held(p) |-> RecordsIn(p, r)]
OfPart       == [p \in Loaded |-> RecordsOf(p)]

-----------------------------------------------------------------------------
(* Types of what is read *)

(* The cells of a cluster are a positive number.                           *)
LEMMA ClusterType ==
  ASSUME job \in Jobs, NEW p \in Loaded
  PROVE  ClusterCells(p) \in Nat \ {0}
PROOF
<1>1. job.parts[p].spc \in Nat \ {0} /\ SectorCells \in Nat \ {0}
  BY EvidenceAssumption, JournalAssumption DEF Loaded
<1>2. \A a, b \in Nat \ {0} : a * b \in Nat \ {0}
  OBVIOUS
<1> QED BY <1>1, <1>2 DEF ClusterCells

(* The records of a partition are a sequence, with its extents in each.    *)
LEMMA RecordTypes ==
  ASSUME job \in Jobs, NEW p \in Loaded
  PROVE  /\ job.parts[p].records \in Seq(ToSet(job.parts[p].records))
         /\ \A r \in ToSet(job.parts[p].records) : r.lsize \in Nat /\ r.extents \in Seq(Seq(Run))
PROOF
<1>1. p \in DOMAIN job.parts
  BY DEF Loaded
<1>2. /\ job.parts[p].records \in Seq(ToSet(job.parts[p].records))
      /\ \A n \in DOMAIN job.parts[p].records :
           job.parts[p].records[n].lsize \in Nat /\ job.parts[p].records[n].extents \in Seq(Seq(Run))
  BY <1>1, EvidenceAssumption
<1> QED BY <1>2 DEF ToSet

(* So are the journals among them.                                         *)
LEMMA JournalsType ==
  ASSUME job \in Jobs, NEW p \in Loaded
  PROVE  /\ Journals(p) \in Seq(Held(p))
         /\ \A r \in Held(p) : r.lsize \in Nat /\ r.extents \in Seq(Seq(Run))
PROOF
<1> DEFINE R == ToSet(job.parts[p].records)
           s == job.parts[p].records
           T == {r \in R : r.name = "$UsnJrnl"}
<1>1. s \in Seq(R) /\ \A r \in R : r.lsize \in Nat /\ r.extents \in Seq(Seq(Run))
  BY RecordTypes
<1> HIDE DEF R, s
<1>2. Keep(s, T) \in Seq(R)
  BY <1>1, KeepSeq
<1>3. Journals(p) = Keep(s, T)
  BY DEF Journals, s, R
<1>4. Held(p) = ToSet(Keep(s, T))
  BY <1>3 DEF Held
<1> DEFINE k == Keep(s, T)
<1> HIDE DEF k
<1>5. k \in Seq(R) => k \in Seq(ToSet(k)) /\ ToSet(k) \subseteq R
  BY DEF ToSet
<1>6. k \in Seq(ToSet(k)) /\ ToSet(k) \subseteq R
  BY <1>2, <1>5 DEF k
<1> QED BY <1>1, <1>3, <1>4, <1>6 DEF k

(* The fragments of an extent.                                             *)
LEMMA FragmentsOfType ==
  ASSUME NEW runs \in Seq(Run), NEW offset, NEW spc
  PROVE  FragmentsOf(runs, offset, spc) \in Seq(Frag)
PROOF
<1> DEFINE at == CHOOSE at : at = [n \in 0 .. Len(runs) |-> IF n = 0 THEN offset ELSE at[n - 1] + runs[n].rel * spc]
           past == {n \in DOMAIN runs : at[n] > job.size}
           read == IF past = {} THEN runs ELSE SubSeq(runs, 1, Min(past) - 1)
           T    == {r \in Run : r.rel # 0}
           real == Keep(read, T)
<1>1. FragmentsOf(runs, offset, spc) = [n \in DOMAIN real |-> real[n].frag]
  BY DEF FragmentsOf
<1>2. past \subseteq 1 .. Len(runs)
  OBVIOUS
<1> HIDE DEF at, past
<1>3. read \in Seq(Run)
  <2>1. CASE past = {}
    BY <2>1
  <2>2. CASE past # {}
    <3>1. past \subseteq Nat /\ Len(runs) \in Nat
      BY <1>2
    <3>2. Min(past) \in 1 .. Len(runs)
      BY <1>2, <2>2, <3>1, MinOf
    <3> DEFINE m == Min(past)
    <3> HIDE DEF m
    <3>3. m \in 1 .. Len(runs)
      BY <3>2 DEF m
    <3>4. SubSeq(runs, 1, m - 1) \in Seq(Run)
      BY <3>1, <3>3
    <3> QED BY <2>2, <3>4 DEF m
  <2> QED BY <2>1, <2>2
<1> HIDE DEF read, T
<1>4. real \in Seq(Run)
  BY <1>3, KeepSeq
<1> HIDE DEF real
<1>5. \A r \in Run : r.frag \in Frag
  BY DEF Run, Frag
<1>6. \A n \in DOMAIN real : real[n].frag \in Frag
  BY <1>4, <1>5
<1> QED BY <1>1, <1>4, <1>6

(* Everything AsyncWorker sends of a journal.                              *)
LEMMA FragmentsType ==
  ASSUME job \in Jobs, NEW p \in Loaded, NEW r \in Held(p)
  PROVE  Fragments(p, r) \in Seq(Frag)
PROOF
<1> DEFINE f == [e \in Seq(Run) |-> FragmentsOf(e, job.parts[p].offset, job.parts[p].spc)]
           E == Seq(Run)
           x == r.extents
<1>1. x \in Seq(E)
  BY JournalsType
<1>2. f \in Maps(E, Seq(Frag))
  BY FragmentsOfType DEF Maps
<1>3. FlattenSeq([n \in DOMAIN x |-> FragmentsOf(x[n], job.parts[p].offset, job.parts[p].spc)]) = FlatMap(f, x)
  <2>1. \A n \in DOMAIN x : f[x[n]] = FragmentsOf(x[n], job.parts[p].offset, job.parts[p].spc)
    <3>1. \A n \in DOMAIN x : x[n] \in E
      <4> HIDE DEF E, x
      <4> QED BY <1>1
    <3> QED BY <3>1
  <2>2. [n \in DOMAIN x |-> FragmentsOf(x[n], job.parts[p].offset, job.parts[p].spc)] = Along(f, x)
    <3> HIDE DEF f, x
    <3> QED BY <2>1 DEF Along
  <2> QED BY <2>2, Zenon DEF FlatMap
<1> HIDE DEF f, E
<1>4. FlatMap(f, x) \in Seq(Frag)
  BY <1>1, <1>2, FlatMapType
<1>5. CASE r.folder
  <2>1. Fragments(p, r) = <<>>
    BY <1>5 DEF Fragments
  <2> QED BY <2>1
<1>6. CASE ~r.folder
  BY <1>3, <1>4, <1>6 DEF Fragments
<1> QED BY <1>5, <1>6
-----------------------------------------------------------------------------
(* Scanning a fragment *)

\* No record that begins before a cell reaches it.
Boundary(frag, at) == \A r \in DOMAIN frag : frag[r].usn # 0 /\ r < at => r + frag[r].len <= at

Usns(frag) == [q \in DOMAIN frag |-> frag[q].usn]

(* What is found from a cell on, as the identifiers of the cells kept.     *)
LEMMA RecordsFromAlong ==
  ASSUME NEW frag \in Frag, NEW from
  PROVE  /\ Len(frag) \in Nat /\ DOMAIN frag = 1 .. Len(frag)
         /\ Numbers(Len(frag)) \in Seq(DOMAIN frag)
         /\ Usns(frag) \in Maps(DOMAIN frag, Nat)
         /\ FoundFrom(frag, from) \subseteq DOMAIN frag
         /\ Keep(Numbers(Len(frag)), FoundFrom(frag, from)) \in Seq(DOMAIN frag)
         /\ RecordsFrom(frag, from) = Along(Usns(frag), Keep(Numbers(Len(frag)), FoundFrom(frag, from)))
         /\ RecordsFrom(frag, from) \in Seq(Nat)
PROOF
<1> DEFINE D == DOMAIN frag
           N == Len(frag)
           order == Keep(Numbers(N), FoundFrom(frag, from))
<1>1. N \in Nat /\ D = 1 .. N /\ \A q \in D : frag[q].usn \in Nat
  <2>1. \A c \in Cell : c.usn \in Nat
    BY DEF Cell
  <2>2. N \in Nat /\ D = 1 .. N /\ \A q \in D : frag[q] \in Cell
    BY DEF Frag
  <2> QED BY <2>1, <2>2
<1>2. Numbers(N) = [q \in D |-> q] /\ Numbers(N) \in Seq(D)
  BY <1>1 DEF Numbers
<1>3. Usns(frag) \in Maps(D, Nat)
  BY <1>1 DEF Usns, Maps
<1>4. FoundFrom(frag, from) \subseteq D
  BY DEF FoundFrom, Tried
<1>5. order \in Seq(D)
  <2> HIDE DEF D, N
  <2> QED BY <1>2, KeepSeq
<1>6. RecordsFrom(frag, from) = Along(Usns(frag), order)
  <2>1. RecordsFrom(frag, from) = [n \in DOMAIN order |-> frag[order[n]].usn]
    BY <1>2 DEF RecordsFrom
  <2> HIDE DEF order
  <2>2. \A n \in DOMAIN order : order[n] \in D
    BY <1>5
  <2>3. \A n \in DOMAIN order : Usns(frag)[order[n]] = frag[order[n]].usn
    BY <2>2 DEF Usns
  <2> QED BY <2>1, <2>3 DEF Along
<1>7. Along(Usns(frag), order) \in Seq(Nat)
  <2> HIDE DEF order, D
  <2> QED BY <1>3, <1>5, Mapped
<1> QED BY <1>1, <1>2, <1>3, <1>4, <1>5, <1>6, <1>7

(* Where nothing is left to be found.                                      *)
LEMMA NothingFound ==
  ASSUME NEW frag \in Frag, NEW from, FoundFrom(frag, from) = {}
  PROVE  RecordsFrom(frag, from) = <<>>
PROOF
<1> DEFINE s == Numbers(Len(frag))
           k == Keep(s, FoundFrom(frag, from))
<1>1. s \in Seq(DOMAIN frag) /\ RecordsFrom(frag, from) = Along(Usns(frag), k)
  BY RecordsFromAlong
<1> HIDE DEF s
<1>2. k = <<>>
  BY <1>1, KeepNone
<1>3. Along(Usns(frag), <<>>) = <<>>
  BY DEF Along
<1> QED BY <1>1, <1>2, <1>3

(* The values along a sequence begin with that of its first element.       *)
LEMMA AlongInFront ==
  ASSUME NEW S, NEW V, NEW f \in Maps(S, V), NEW x \in S, NEW s \in Seq(S)
  PROVE  Along(f, InFront(x, s)) = InFront(f[x], Along(f, s))
PROOF
<1>1. Along(f, s) \in Seq(V) /\ Len(Along(f, s)) = Len(s) /\ f[x] \in V /\ Len(s) \in Nat
  <2>1. Along(f, s) \in Seq(V) /\ Len(Along(f, s)) = Len(s)
    BY Mapped
  <2>2. f[x] \in V /\ Len(s) \in Nat
    BY DEF Maps
  <2> QED BY <2>1, <2>2
<1>2. /\ InFront(x, s) \in Seq(S) /\ Len(InFront(x, s)) = Len(s) + 1 /\ InFront(x, s)[1] = x
      /\ \A n \in 1 .. Len(s) : InFront(x, s)[n + 1] = s[n]
  BY DEF InFront
<1>3. Along(f, InFront(x, s)) \in Seq(V) /\ Len(Along(f, InFront(x, s))) = Len(s) + 1
  BY <1>2, Mapped
<1> DEFINE a == Along(f, s)
<1> HIDE DEF a
<1>4. a \in Seq(V) /\ Len(a) = Len(s)
  BY <1>1 DEF a
<1>5. /\ InFront(f[x], a) \in Seq(V) /\ Len(InFront(f[x], a)) = Len(s) + 1 /\ InFront(f[x], a)[1] = f[x]
      /\ \A n \in 1 .. Len(s) : InFront(f[x], a)[n + 1] = a[n]
  BY <1>1, <1>4 DEF InFront
<1>6. /\ \A n \in 1 .. Len(s) + 1 : Along(f, InFront(x, s))[n] = f[InFront(x, s)[n]]
      /\ \A n \in 1 .. Len(s) : a[n] = f[s[n]]
  <2>1. DOMAIN s = 1 .. Len(s) /\ DOMAIN InFront(x, s) = 1 .. Len(s) + 1
    BY <1>2
  <2> QED BY <2>1 DEF Along, a
<1>7. \A n \in 1 .. Len(s) + 1 : n = 1 \/ (n - 1 \in 1 .. Len(s) /\ (n - 1) + 1 = n)
  BY <1>1
<1>8. \A n \in 1 .. Len(s) + 1 : Along(f, InFront(x, s))[n] = InFront(f[x], a)[n]
  <2> SUFFICES ASSUME NEW n \in 1 .. Len(s) + 1 PROVE Along(f, InFront(x, s))[n] = InFront(f[x], a)[n]
    OBVIOUS
  <2>1. CASE n = 1
    BY <1>2, <1>5, <1>6, <2>1
  <2>2. CASE n # 1
    <3> DEFINE m == n - 1
    <3>1. m \in 1 .. Len(s) /\ m + 1 = n
      BY <1>7, <2>2
    <3> HIDE DEF m
    <3>2. InFront(x, s)[n] = s[m] /\ InFront(f[x], a)[n] = a[m] /\ a[m] = f[s[m]]
      BY <1>2, <1>5, <1>6, <3>1
    <3> QED BY <1>6, <3>2
  <2> QED BY <2>1, <2>2
<1>9. ASSUME NEW u \in Seq(V), NEW w \in Seq(V), NEW k \in Nat, Len(u) = k, Len(w) = k,
             \A n \in 1 .. k : u[n] = w[n]
      PROVE  u = w
  BY <1>9
<1> DEFINE u == Along(f, InFront(x, s))
           w == InFront(f[x], a)
<1> HIDE DEF u, w
<1>10. u \in Seq(V) /\ w \in Seq(V) /\ Len(u) = Len(s) + 1 /\ Len(w) = Len(s) + 1 /\ Len(s) + 1 \in Nat
       /\ \A n \in 1 .. Len(s) + 1 : u[n] = w[n]
  BY <1>1, <1>3, <1>5, <1>8 DEF u, w
<1>11. u = w
  BY <1>9, <1>10
<1> QED BY <1>11 DEF u, w, a
(* A step of the scan: when NextRecord finds none, no record is left that  *)
(* counts; when it finds one, that is the next that counts, and those left *)
(* are the records from behind it on.                                      *)
LEMMA ScanStep ==
  ASSUME NEW frag \in Frag, NEW c, NEW at \in Nat \ {0}, WellFormed(frag, c), Boundary(frag, at),
         NEW q, q = NextRecord(frag, at, c)
  PROVE  /\ q = 0 => RecordsFrom(frag, at) = <<>>
         /\ q # 0 => /\ q \in DOMAIN frag /\ frag[q].usn \in Nat
                     /\ q + frag[q].len \in Nat \ {0}
                     /\ Boundary(frag, q + frag[q].len)
                     /\ RecordsFrom(frag, at) = <<frag[q].usn>> \o RecordsFrom(frag, q + frag[q].len)
PROOF
<1> DEFINE N == Len(frag)
           stops == {k \in at .. N : Fails(frag, k) \/ Fits(frag, k, c)}
           m == Min(stops)
<1>1. /\ N \in Nat /\ DOMAIN frag = 1 .. N
      /\ \A k \in 1 .. N : frag[k].len \in Nat /\ frag[k].usn \in Nat
  <2>1. \A x \in Cell : x.usn \in Nat /\ x.len \in Nat
    BY DEF Cell
  <2>2. N \in Nat /\ DOMAIN frag = 1 .. N /\ \A k \in 1 .. N : frag[k] \in Cell
    BY DEF Frag
  <2> QED BY <2>1, <2>2
<1>2. \A k \in 1 .. N : Fits(frag, k, c) => frag[k].len >= 1
  BY <1>1 DEF Fits
<1>3. \A k \in 1 .. N : frag[k].usn # 0 =>
        /\ Fits(frag, k, c) /\ k + frag[k].len - 1 \in 1 .. N
        /\ \A j \in k + 1 .. k + frag[k].len - 1 : frag[j].usn = 0
  BY <1>1 DEF WellFormed
<1>4. \A k \in 1 .. N : k \notin Inside(frag) => ~Fits(frag, k, c)
  BY <1>1 DEF WellFormed
<1>5. \A k : k \in Inside(frag) <=> \E r \in 1 .. N : frag[r].usn # 0 /\ k \in r .. r + frag[r].len - 1
  BY <1>1 DEF Inside
<1>6. \A r \in 1 .. N : frag[r].usn # 0 /\ r < at => r + frag[r].len <= at
  BY <1>1 DEF Boundary
<1>7. \A from, k : k \in Tried(frag, from) <=> k \in 1 .. N /\ k >= from /\ (frag[k].usn # 0 \/ k \notin Inside(frag))
  BY <1>1 DEF Tried
<1>8. \A from, k : k \in FoundFrom(frag, from) <=>
        /\ k \in Tried(frag, from) /\ frag[k].usn # 0
        /\ \A j \in Tried(frag, from) : j <= k => ~Fails(frag, j)
  BY DEF FoundFrom
<1>9. q = IF stops = {} \/ Fails(frag, m) THEN 0 ELSE m
  BY DEF NextRecord
<1>10. stops \subseteq Nat /\ \A k : k \in stops <=> k \in at .. N /\ (Fails(frag, k) \/ Fits(frag, k, c))
  OBVIOUS
<1>11. stops # {} => m \in stops /\ \A k \in stops : m <= k
  <2> HIDE DEF stops
  <2> QED BY <1>10, MinOf
<1> HIDE DEF stops, m, N
<1>12. \A k \in 1 .. N : frag[k].usn # 0 /\ k >= at => k \in stops
  BY <1>3, <1>10
<1>13. CASE stops = {}
  <2>1. FoundFrom(frag, at) = {}
    BY <1>7, <1>8, <1>12, <1>13
  <2>2. q = 0
    BY <1>9, <1>13
  <2> QED BY <2>1, <2>2, NothingFound
<1>14. CASE stops # {}
  <2>1. m \in 1 .. N /\ m >= at /\ m \in stops /\ \A k \in stops : m <= k
    BY <1>1, <1>10, <1>11, <1>14
  <2>2. m \in Inside(frag) => frag[m].usn # 0
    <3> SUFFICES ASSUME m \in Inside(frag), frag[m].usn = 0 PROVE FALSE
      OBVIOUS
    <3>1. PICK r \in 1 .. N : frag[r].usn # 0 /\ m \in r .. r + frag[r].len - 1
      BY <1>5
    <3>2. r # m /\ r <= m /\ r \in Nat /\ m < r + frag[r].len
      BY <1>1, <2>1, <3>1
    <3>3. r >= at
      <4>1. r + frag[r].len \in Nat /\ m \in Nat
        BY <1>1, <2>1, <3>1
      <4>2. r < at => r + frag[r].len <= at
        BY <1>6, <3>1
      <4> QED BY <2>1, <3>2, <4>1, <4>2
    <3>4. m <= r
      BY <1>12, <2>1, <3>1, <3>3
    <3> QED BY <2>1, <3>2, <3>4
  <2>3. m \in Tried(frag, at)
    BY <1>7, <2>1, <2>2
  <2>4. CASE Fails(frag, m)
    <3>1. FoundFrom(frag, at) = {}
      <4> SUFFICES ASSUME NEW k \in FoundFrom(frag, at) PROVE FALSE
        OBVIOUS
      <4>1. k \in 1 .. N /\ k >= at /\ frag[k].usn # 0
        BY <1>7, <1>8
      <4>2. m <= k
        BY <1>12, <2>1, <4>1
      <4> QED BY <1>8, <2>3, <2>4, <4>2
    <3>2. q = 0
      BY <1>9, <2>4
    <3> QED BY <3>1, <3>2, NothingFound
  <2>5. CASE ~Fails(frag, m)
    <3>1. q = m /\ Fits(frag, m, c)
      BY <1>9, <1>10, <1>14, <2>1, <2>5
    <3>2. frag[m].usn # 0
      BY <1>4, <2>1, <2>2, <3>1
    <3> DEFINE to == m + frag[m].len
    <3>3. /\ frag[m].len \in Nat /\ frag[m].len >= 1 /\ m \in Nat \ {0} /\ to \in Nat \ {0} /\ m < to
          /\ \A j \in m + 1 .. to - 1 : frag[j].usn = 0
      <4>1. frag[m].len \in Nat /\ frag[m].len >= 1 /\ m \in Nat \ {0}
        BY <1>1, <1>2, <2>1, <3>1
      <4>2. \A j \in m + 1 .. m + frag[m].len - 1 : frag[j].usn = 0
        BY <1>3, <2>1, <3>2
      <4> QED BY <4>1, <4>2
    <3>4. \A k \in 1 .. N : k > m /\ k < to => frag[k].usn = 0 /\ k \in Inside(frag)
      <4> SUFFICES ASSUME NEW k \in 1 .. N, k > m, k < to PROVE frag[k].usn = 0 /\ k \in Inside(frag)
        OBVIOUS
      <4>1. k \in m + 1 .. to - 1 /\ k \in m .. m + frag[m].len - 1
        BY <2>1, <3>3
      <4> HIDE DEF to
      <4> QED BY <1>5, <2>1, <3>2, <3>3, <4>1
    <3>5. Boundary(frag, to)
      <4> SUFFICES ASSUME NEW r \in 1 .. N, frag[r].usn # 0, r < to PROVE r + frag[r].len <= to
        BY <1>1 DEF Boundary
      <4>1. CASE r < at
        BY <1>1, <1>6, <2>1, <3>3, <4>1
      <4>2. CASE r >= at
        <5>1. m <= r
          BY <1>12, <2>1, <4>2
        <5>2. ~(r > m)
          BY <3>4
        <5>3. r = m
          BY <2>1, <5>1, <5>2
        <5> QED BY <3>3, <5>3
      <4> QED BY <2>1, <4>1, <4>2
    <3> HIDE DEF to
    <3> DEFINE T == FoundFrom(frag, to)
    <3>6. FoundFrom(frag, at) = T \cup {m}
      <4>1. m \in FoundFrom(frag, at)
        <5>1. ASSUME NEW j \in Tried(frag, at), j <= m PROVE ~Fails(frag, j)
          <6>1. j \in at .. N
            BY <1>1, <1>7
          <6>2. CASE j = m
            BY <2>5, <6>2
          <6>3. CASE j # m
            <7>1. j < m /\ j \notin stops
              BY <2>1, <5>1, <6>1, <6>3
            <7> QED BY <1>10, <6>1, <7>1
          <6> QED BY <6>2, <6>3
        <5> QED BY <1>8, <2>3, <3>2, <5>1
      <4>2. ASSUME NEW x \in FoundFrom(frag, at), x # m PROVE x \in T
        <5>1. x \in 1 .. N /\ x >= at /\ frag[x].usn # 0 /\ \A j \in Tried(frag, at) : j <= x => ~Fails(frag, j)
          BY <1>7, <1>8
        <5>2. m <= x
          BY <1>12, <2>1, <5>1
        <5>3. x >= to
          BY <2>1, <3>3, <3>4, <4>2, <5>1, <5>2
        <5>4. x \in Tried(frag, to)
          BY <1>7, <5>1, <5>3
        <5>5. \A j \in Tried(frag, to) : j \in Tried(frag, at)
          BY <1>7, <2>1, <3>3
        <5> QED BY <1>8, <5>1, <5>4, <5>5
      <4>3. ASSUME NEW x \in T PROVE x \in FoundFrom(frag, at)
        <5>1. x \in 1 .. N /\ x >= to /\ frag[x].usn # 0 /\ \A j \in Tried(frag, to) : j <= x => ~Fails(frag, j)
          BY <1>7, <1>8
        <5>2. x \in Tried(frag, at)
          BY <1>7, <2>1, <3>3, <5>1
        <5>3. ASSUME NEW j \in Tried(frag, at), j <= x PROVE ~Fails(frag, j)
          <6>1. j \in 1 .. N /\ j >= at /\ (frag[j].usn # 0 \/ j \notin Inside(frag))
            BY <1>7
          <6>2. CASE j >= to
            BY <1>7, <5>1, <5>3, <6>1, <6>2
          <6>3. CASE j < to
            <7>1. ~(j > m)
              BY <3>4, <6>1, <6>3
            <7>2. j <= m
              BY <2>1, <6>1, <7>1
            <7> QED BY <1>8, <4>1, <7>2
          <6> QED BY <3>3, <6>1, <6>2, <6>3
        <5> QED BY <1>8, <5>1, <5>2, <5>3
      <4> QED BY <4>1, <4>2, <4>3
    <3>7. \A k \in 1 .. N : k \in T => m < k
      BY <1>7, <1>8, <2>1, <3>3
    <3> HIDE DEF T
    <3>8. Keep(Numbers(N), T \cup {m}) = <<m>> \o Keep(Numbers(N), T)
      BY <1>1, <2>1, <3>7, KeepFirst
    <3>9. /\ Usns(frag) \in Maps(1 .. N, Nat) /\ Keep(Numbers(N), T) \in Seq(1 .. N)
          /\ RecordsFrom(frag, to) = Along(Usns(frag), Keep(Numbers(N), T))
          /\ RecordsFrom(frag, at) = Along(Usns(frag), Keep(Numbers(N), FoundFrom(frag, at)))
      BY <1>1, RecordsFromAlong, Zenon DEF N, T
    <3>10. RecordsFrom(frag, at) = Along(Usns(frag), InFront(m, Keep(Numbers(N), T)))
      BY <3>6, <3>8, <3>9, Zenon DEF InFront
    <3>11. RecordsFrom(frag, at) = InFront(Usns(frag)[m], RecordsFrom(frag, to))
      <4> DEFINE k == Keep(Numbers(N), T)
                 M == 1 .. N
      <4>1. k \in Seq(M) /\ Usns(frag) \in Maps(M, Nat) /\ m \in M
        BY <2>1, <3>9
      <4> HIDE DEF k, M
      <4>2. Along(Usns(frag), InFront(m, k)) = InFront(Usns(frag)[m], Along(Usns(frag), k))
        BY <4>1, AlongInFront
      <4> QED BY <3>9, <3>10, <4>2 DEF k
    <3>12. Usns(frag)[m] = frag[m].usn
      BY <1>1, <2>1 DEF Usns
    <3>13. RecordsFrom(frag, at) = <<frag[m].usn>> \o RecordsFrom(frag, to)
      BY <3>11, <3>12, Zenon DEF InFront
    <3>14. q # 0 /\ q \in DOMAIN frag /\ frag[q].usn \in Nat /\ q + frag[q].len = to
      BY <1>1, <2>1, <3>1 DEF to
    <3> QED BY <3>1, <3>3, <3>5, <3>13, <3>14, Zenon
  <2> QED BY <2>4, <2>5
<1> QED BY <1>13, <1>14
-----------------------------------------------------------------------------
(* What a call must find *)

(* The records of fragments, of journals and of partitions follow one      *)
(* another.                                                                *)
LEMMA ScanAllType == ScanAll \in Maps(Frag, Seq(Nat))
PROOF
<1>1. \A x \in Frag : RecordsFrom(x, 1) \in Seq(Nat)
  BY RecordsFromAlong
<1> QED BY <1>1 DEF ScanAll, Maps

(* What is in a journal is what is in its fragments.                       *)
LEMMA RecordsInFlat ==
  ASSUME job \in Jobs, NEW p \in Loaded, NEW r \in Held(p)
  PROVE  RecordsIn(p, r) = FlatMap(ScanAll, Fragments(p, r)) /\ RecordsIn(p, r) \in Seq(Nat)
PROOF
<1> DEFINE s == Fragments(p, r)
<1>1. s \in Seq(Frag)
  BY FragmentsType
<1>2. RecordsIn(p, r) = FlattenSeq([k \in DOMAIN s |-> RecordsFrom(s[k], 1)])
  BY DEF RecordsIn
<1> HIDE DEF s
<1>3. \A k \in DOMAIN s : s[k] \in Frag
  BY <1>1
<1>4. \A k \in DOMAIN s : ScanAll[s[k]] = RecordsFrom(s[k], 1)
  BY <1>3 DEF ScanAll
<1>5. [k \in DOMAIN s |-> RecordsFrom(s[k], 1)] = Along(ScanAll, s)
  BY <1>4 DEF Along
<1>6. FlatMap(ScanAll, s) \in Seq(Nat)
  BY <1>1, ScanAllType, FlatMapType
<1>7. RecordsIn(p, r) = FlatMap(ScanAll, s)
  BY <1>2, <1>5, Zenon DEF FlatMap
<1> QED BY <1>6, <1>7 DEF s

(* What is in a partition is what is in its journals.                      *)
LEMMA RecordsOfFlat ==
  ASSUME job \in Jobs, NEW p \in Loaded
  PROVE  /\ InJournal(p) \in Maps(Held(p), Seq(Nat))
         /\ RecordsOf(p) = FlatMap(InJournal(p), Journals(p)) /\ RecordsOf(p) \in Seq(Nat)
PROOF
<1> DEFINE s == Journals(p)
           f == InJournal(p)
<1>1. s \in Seq(Held(p))
  BY JournalsType
<1>2. RecordsOf(p) = FlattenSeq([n \in DOMAIN s |-> RecordsIn(p, s[n])])
  BY DEF RecordsOf
<1> HIDE DEF s
<1>3. \A k \in DOMAIN s : s[k] \in Held(p)
  BY <1>1
<1>4. \A k \in DOMAIN s : f[s[k]] = RecordsIn(p, s[k])
  BY <1>3 DEF InJournal
<1>5. f \in Maps(Held(p), Seq(Nat))
  <2>1. \A r \in Held(p) : RecordsIn(p, r) \in Seq(Nat)
    BY RecordsInFlat
  <2> QED BY <2>1 DEF InJournal, Maps
<1> HIDE DEF f
<1>6. [n \in DOMAIN s |-> RecordsIn(p, s[n])] = Along(f, s)
  BY <1>4 DEF Along
<1>7. FlatMap(f, s) \in Seq(Nat)
  BY <1>1, <1>5, FlatMapType
<1>8. RecordsOf(p) = FlatMap(f, s)
  BY <1>2, <1>6, Zenon DEF FlatMap
<1> QED BY <1>5, <1>7, <1>8 DEF s, f

(* For every partition that was loaded.                                    *)
LEMMA OfPartType ==
  ASSUME job \in Jobs
  PROVE  OfPart \in Maps(Loaded, Seq(Nat))
PROOF
<1>1. \A p \in Loaded : RecordsOf(p) \in Seq(Nat)
  BY RecordsOfFlat
<1> QED BY <1>1 DEF OfPart, Maps

(* The partitions are finitely many.                                       *)
LEMMA LoadedFinite ==
  ASSUME job \in Jobs
  PROVE  IsFiniteSet(Loaded) /\ Loaded \subseteq Nat \ {0}
PROOF
<1>1. job.parts \in Seq(ToSet(job.parts))
  BY EvidenceAssumption
<1>2. Len(job.parts) \in Nat /\ DOMAIN job.parts = 1 .. Len(job.parts)
  BY <1>1
<1>3. IsFiniteSet(1 .. Len(job.parts))
  BY <1>2, FS_Interval
<1>4. Loaded \subseteq 1 .. Len(job.parts)
  BY <1>2 DEF Loaded
<1>5. IsFiniteSet(Loaded)
  BY <1>3, <1>4, FS_Subset
<1>6. Loaded \subseteq Nat \ {0}
  BY <1>2, <1>4
<1> QED BY <1>5, <1>6

(* One more element is the last of an order of the set.                    *)
LEMMA OrderAppend ==
  ASSUME NEW S, IsFiniteSet(S), NEW p, p \notin S, NEW order \in SetToSeqs(S)
  PROVE  /\ order \in Seq(S)
         /\ Append(order, p) \in SetToSeqs(S \cup {p})
PROOF
<1> DEFINE n == Cardinality(S)
           T == S \cup {p}
<1>1. n \in Nat /\ Cardinality(T) = n + 1
  BY FS_CardinalityType, FS_AddElement
<1>2. order \in [1 .. n -> S] /\ \A i, j \in 1 .. n : i # j => order[i] # order[j]
  BY DEF SetToSeqs
<1> HIDE DEF n
<1>3. order \in Seq(S) /\ Len(order) = n /\ order \in Seq(T)
  BY <1>1, <1>2
<1> DEFINE a == Append(order, p)
<1>4. /\ a \in [1 .. n + 1 -> T] /\ a[n + 1] = p /\ \A i \in 1 .. n : a[i] = order[i]
  <2>1. order \in Seq(T) /\ Len(order) = n /\ p \in T
    BY <1>3
  <2> HIDE DEF T
  <2>2. /\ a \in Seq(T) /\ Len(a) = n + 1 /\ DOMAIN a = 1 .. n + 1
        /\ a[n + 1] = p /\ \A i \in 1 .. n : a[i] = order[i]
    BY <1>1, <2>1
  <2> HIDE DEF a
  <2> QED BY <2>2
<1> HIDE DEF a, T
<1>5. \A i \in 1 .. n + 1 : i = n + 1 \/ i \in 1 .. n
  BY <1>1
<1>6. \A i \in 1 .. n : a[i] \in S
  BY <1>2, <1>4
<1>7. \A i, j \in 1 .. n + 1 : i # j => a[i] # a[j]
  BY <1>2, <1>4, <1>5, <1>6
<1>8. a \in SetToSeqs(T)
  BY <1>1, <1>4, <1>7 DEF SetToSeqs
<1> QED BY <1>3, <1>8 DEF a, T

(* Nothing has one order.                                                  *)
LEMMA OrderEmpty == <<>> \in SetToSeqs({})
PROOF
<1>1. Cardinality({}) = 0
  BY FS_EmptySet
<1>2. 1 .. 0 = {}
  OBVIOUS
<1>3. <<>> \in [1 .. 0 -> {}]
  BY <1>2
<1> QED BY <1>1, <1>2, <1>3 DEF SetToSeqs

(* Found, as what OfPart gives along an order.                             *)
LEMMA FoundFlat ==
  ASSUME job \in Jobs, NEW num, NEW records,
         NEW order \in SetToSeqs({p \in Loaded : Wanted(p, num)}), records = FlatMap(OfPart, order)
  PROVE  Found(records, num)
PROOF
<1> DEFINE S == {p \in Loaded : Wanted(p, num)}
<1>1. \A k \in DOMAIN order : order[k] \in Loaded
  <2>1. order \in [1 .. Cardinality(S) -> S]
    BY DEF SetToSeqs
  <2> QED BY <2>1
<1>2. \A k \in DOMAIN order : OfPart[order[k]] = RecordsOf(order[k])
  BY <1>1 DEF OfPart
<1>3. [n \in DOMAIN order |-> RecordsOf(order[n])] = Along(OfPart, order)
  BY <1>2 DEF Along
<1>4. records = FlattenSeq([n \in DOMAIN order |-> RecordsOf(order[n])])
  BY <1>3, Zenon DEF FlatMap
<1> QED BY <1>4, Zenon DEF Found
-----------------------------------------------------------------------------
(* What does not change *)

(* A step does not change the evidence, nor what is to be found in it.     *)
LEMMA SameExtent ==
  ASSUME job' = job, NEW runs, NEW offset, NEW spc
  PROVE  FragmentsOf(runs, offset, spc)' = FragmentsOf(runs, offset, spc)
PROOF BY DEF FragmentsOf

(* Nor the fragments of a journal.                                         *)
LEMMA SameFragments ==
  ASSUME job' = job, NEW p, NEW r
  PROVE  Fragments(p, r)' = Fragments(p, r)
PROOF
<1>1. \A e : FragmentsOf(e, job.parts[p].offset, job.parts[p].spc)' = FragmentsOf(e, job.parts[p].offset, job.parts[p].spc)
  BY SameExtent
<1> QED BY <1>1 DEF Fragments

(* Nor the journals of a partition.                                        *)
LEMMA SameJournals ==
  ASSUME job' = job
  PROVE  /\ Loaded' = Loaded /\ args' = args
         /\ \A p : Journals(p)' = Journals(p) /\ Held(p)' = Held(p) /\ ClusterCells(p)' = ClusterCells(p)
PROOF
<1>1. Loaded' = Loaded
  BY DEF Loaded
<1>2. args' = args
  BY DEF args
<1>3. \A p : Journals(p)' = Journals(p)
  BY DEF Journals
<1>4. \A p : Held(p)' = Held(p)
  BY <1>1, <1>3 DEF Held
<1>5. \A p : ClusterCells(p)' = ClusterCells(p)
  BY DEF ClusterCells
<1> QED BY <1>1, <1>2, <1>3, <1>4, <1>5

(* Nor the records of a partition.                                         *)
LEMMA SameRecords ==
  ASSUME job' = job
  PROVE  /\ OfPart' = OfPart /\ \A p : InJournal(p)' = InJournal(p)
         /\ Formed' <=> Formed
PROOF
<1>1. \A p, r : Fragments(p, r)' = Fragments(p, r)
  BY SameFragments
<1>2. \A p, r : RecordsIn(p, r)' = RecordsIn(p, r)
  BY <1>1 DEF RecordsIn
<1>3. Loaded' = Loaded /\ \A p : Journals(p)' = Journals(p) /\ Held(p)' = Held(p) /\ ClusterCells(p)' = ClusterCells(p)
  BY SameJournals
<1>4. \A p : RecordsOf(p)' = RecordsOf(p)
  BY <1>2, <1>3 DEF RecordsOf
<1>5. OfPart' = OfPart
  BY <1>3, <1>4 DEF OfPart
<1>6. \A p : InJournal(p)' = InJournal(p)
  BY <1>2, <1>3 DEF InJournal
<1>7. Formed' <=> Formed
  BY <1>1, <1>3 DEF Formed
<1> QED BY <1>5, <1>6, <1>7

-----------------------------------------------------------------------------
(* How the goroutines pass records on *)

\* What fragments hold.
In(frags) == FlatMap(ScanAll, frags)

(* It is a sequence of records.                                            *)
LEMMA InType == \A d \in Seq(Frag) : In(d) \in Seq(Nat)
PROOF BY ScanAllType, FlatMapType DEF In

(* Without a fragment there are none.                                      *)
LEMMA InEmpty == In(<<>>) = <<>>
PROOF BY FlatMapEmpty DEF In

(* Sequences of numbers that follow one another are one.                   *)
LEMMA Joined ==
  ASSUME NEW a \in Seq(Nat), NEW b \in Seq(Nat)
  PROVE  a \o b \in Seq(Nat)
PROOF BY ConcatProperties

(* The empty sequence adds nothing.                                        *)
LEMMA Nothing ==
  ASSUME NEW a \in Seq(Nat)
  PROVE  <<>> \o a = a /\ a \o <<>> = a
PROOF BY ConcatEmptySeq

(* What is left of sequences that follow one another, when one of them     *)
(* moves into the one before it.                                           *)
(* Send.                                                                   *)
LEMMA SendFlow ==
  ASSUME NEW d \in Seq(Frag), NEW w \in Seq(Frag), w # <<>>, NEW r \in Seq(Nat)
  PROVE  In(Append(d, Head(w))) \o (In(Tail(w)) \o r) = In(d) \o (In(w) \o r)
PROOF
<1>1. Head(w) \in Frag /\ Tail(w) \in Seq(Frag)
  OBVIOUS
<1> DEFINE h == ScanAll[Head(w)]
           a == In(d)
           t == In(Tail(w))
<1>2. h \in Seq(Nat) /\ a \in Seq(Nat) /\ t \in Seq(Nat)
  <2>1. h \in Seq(Nat)
    BY <1>1, ScanAllType DEF Maps
  <2>2. a \in Seq(Nat) /\ t \in Seq(Nat)
    BY <1>1, InType
  <2> QED BY <2>1, <2>2
<1>3. In(Append(d, Head(w))) = a \o h
  BY <1>1, ScanAllType, FlatMapAppend DEF In
<1>4. In(w) = h \o t
  BY ScanAllType, FlatMapHead DEF In
<1> HIDE DEF h, a, t
<1>5. (a \o h) \o (t \o r) = a \o ((h \o t) \o r)
  <2>1. t \o r \in Seq(Nat)
    BY <1>2, Joined
  <2> DEFINE tr == t \o r
  <2> HIDE DEF tr
  <2>2. (a \o h) \o tr = a \o (h \o tr)
    <3>1. tr \in Seq(Nat)
      BY <2>1 DEF tr
    <3>2. Associates(a, h, tr)
      BY <1>2, <3>1, Associative
    <3> QED BY <3>2, Zenon DEF Associates
  <2>3. (h \o t) \o r = h \o tr
    <3>1. Associates(h, t, r)
      BY <1>2, Associative
    <3> QED BY <3>1, Zenon DEF Associates, tr
  <2> QED BY <2>2, <2>3, Zenon DEF tr
<1> QED BY <1>3, <1>4, <1>5, Zenon DEF a, t

(* Take.                                                                   *)
LEMMA TakeFlow ==
  ASSUME NEW d \in Seq(Frag), d # <<>>, NEW r \in Seq(Nat)
  PROVE  RecordsFrom(Head(d), 1) \o (In(Tail(d)) \o r) = <<>> \o (In(d) \o r)
PROOF
<1>1. Head(d) \in Frag /\ Tail(d) \in Seq(Frag)
  OBVIOUS
<1> DEFINE h == ScanAll[Head(d)]
           t == In(Tail(d))
<1>2. h \in Seq(Nat) /\ t \in Seq(Nat)
  <2>1. h \in Seq(Nat)
    BY <1>1, ScanAllType DEF Maps
  <2>2. t \in Seq(Nat)
    BY <1>1, InType
  <2> QED BY <2>1, <2>2
<1>3. RecordsFrom(Head(d), 1) = h
  BY <1>1 DEF ScanAll
<1>4. In(d) = h \o t
  BY ScanAllType, FlatMapHead DEF In
<1> HIDE DEF h, t
<1>5. h \o (t \o r) = (h \o t) \o r
  <2>1. Associates(h, t, r)
    BY <1>2, Associative
  <2> QED BY <2>1, Zenon DEF Associates
<1>6. (h \o t) \o r \in Seq(Nat)
  <2> DEFINE a == h \o t
  <2>1. a \in Seq(Nat)
    BY <1>2, Joined
  <2> HIDE DEF a
  <2>2. a \o r \in Seq(Nat)
    BY <2>1, Joined
  <2> QED BY <2>2 DEF a
<1> DEFINE x == (h \o t) \o r
<1> HIDE DEF x
<1>7. <<>> \o x = x
  BY <1>6, Nothing DEF x
<1> QED BY <1>3, <1>4, <1>5, <1>7, Zenon DEF x, t

(* Scan.                                                                   *)
Delivers(g, u, s, r) == Append(g, u) \o (s \o r) = g \o ((<<u>> \o s) \o r)

(* It moves the record it finds.                                           *)
LEMMA ScanFlow ==
  ASSUME NEW g \in Seq(Nat), NEW u \in Nat, NEW s \in Seq(Nat), NEW r \in Seq(Nat)
  PROVE  Delivers(g, u, s, r)
PROOF
<1> DEFINE a == <<u>>
           b == s \o r
<1>1. a \in Seq(Nat) /\ Append(g, u) = g \o a
  BY AppendIsConcat
<1>2. b \in Seq(Nat)
  BY Joined
<1> HIDE DEF a, b
<1>3. (a \o s) \o r = a \o b
  <2>1. Associates(a, s, r)
    BY <1>1, Associative
  <2> QED BY <2>1, Zenon DEF Associates, b
<1>4. (g \o a) \o b = g \o (a \o b)
  <2>1. Associates(g, a, b)
    BY <1>1, <1>2, Associative
  <2> QED BY <2>1, Zenon DEF Associates
<1> QED BY <1>1, <1>3, <1>4, Zenon DEF Delivers, a, b

(* StartJournal.                                                           *)
LEMMA StartFlow ==
  ASSUME job \in Jobs, NEW p \in Loaded, NEW q \in Seq(Held(p)), q # <<>>
  PROVE  /\ In(Fragments(p, Head(q))) \o FlatMap(InJournal(p), Tail(q)) = FlatMap(InJournal(p), q)
         /\ FlatMap(InJournal(p), q) \in Seq(Nat)
PROOF
<1>1. Head(q) \in Held(p)
  OBVIOUS
<1>2. InJournal(p) \in Maps(Held(p), Seq(Nat))
  BY RecordsOfFlat
<1>3. InJournal(p)[Head(q)] = In(Fragments(p, Head(q)))
  BY <1>1, RecordsInFlat DEF InJournal, In
<1>4. FlatMap(InJournal(p), q) = InJournal(p)[Head(q)] \o FlatMap(InJournal(p), Tail(q))
  BY <1>2, FlatMapHead
<1>5. FlatMap(InJournal(p), q) \in Seq(Nat)
  BY <1>2, FlatMapType
<1> QED BY <1>3, <1>4, <1>5, Zenon

(* NextPartition.                                                          *)
LEMMA PartitionFlow ==
  ASSUME job \in Jobs, NEW p \in Loaded, NEW order \in Seq(Loaded)
  PROVE  /\ FlatMap(OfPart, Append(order, p)) = FlatMap(OfPart, order) \o FlatMap(InJournal(p), Journals(p))
         /\ FlatMap(OfPart, order) \in Seq(Nat)
PROOF
<1>1. OfPart \in Maps(Loaded, Seq(Nat))
  BY OfPartType
<1>2. FlatMap(OfPart, Append(order, p)) = FlatMap(OfPart, order) \o OfPart[p]
  BY <1>1, FlatMapAppend
<1>3. OfPart[p] = FlatMap(InJournal(p), Journals(p))
  BY RecordsOfFlat DEF OfPart
<1>4. FlatMap(OfPart, order) \in Seq(Nat)
  BY <1>1, FlatMapType
<1> QED BY <1>2, <1>3, <1>4, Zenon
-----------------------------------------------------------------------------
(* The inductive invariant *)

After  == {"logfile", "vss", "unallocated", "clusters", "loop", "selected", "again", "done"}
Phases == {"start", "journal", "panic", "hang"} \cup After

CallOf(p) == call \in [todo : SUBSET Loaded, num : {call.num}, part : {p}, queue : Seq(Held(p))]

Kinds ==
  /\ job \in Jobs /\ phase \in Phases
  /\ worker \in [pc : {"idle", "send", "closed"}, frags : Seq(Frag)]
  /\ data \in Seq(Frag)
  /\ parser \in [pc : {"idle", "range", "scan"}, frag : Frag, at : Nat]
  /\ got \in Seq(Nat)
  /\ \E p \in {0} \cup Loaded : CallOf(p)

\* The goroutines run together, and only for a journal that is left.
Shape ==
  /\ worker.pc # "send" => worker.frags = <<>>
  /\ parser.pc # "scan" => parser.frag = <<>> /\ parser.at = 0
  /\ parser.pc = "scan" => parser.at # 0
  /\ worker.pc = "idle" <=> parser.pc = "idle"
  /\ parser.pc = "idle" => data = <<>>
  /\ call.queue = <<>> => parser.pc = "idle"
  /\ phase \notin {"journal", "again", "panic", "hang"} => call.queue = <<>>

\* The channel never holds more than its capacity, or the one fragment that is handed over.
Bounded == call.queue # <<>> => Len(data) <= Max({1, Head(call.queue).lsize})

\* What is under way is of a journal, and the scan stands between its records.
WellAt(c) ==
  /\ \A n \in DOMAIN data : WellFormed(data[n], c)
  /\ \A n \in DOMAIN worker.frags : WellFormed(worker.frags[n], c)
  /\ parser.pc = "scan" => WellFormed(parser.frag, c) /\ Boundary(parser.frag, parser.at)

Well == Formed => \A p \in Loaded : call.part = p => WellAt(ClusterCells(p))

\* What is left to be found of the partition that is taken: in the fragment of the
\* parser s, in the channel d, with the worker w and in the journals of q it has not begun.
Scanning(s)    == IF s.pc = "scan" THEN RecordsFrom(s.frag, s.at) ELSE <<>>
NotBegun(w, q) == IF w.pc = "idle" THEN q ELSE Tail(q)
LeftOf(w, d, s, q, f) == Scanning(s) \o (In(d) \o (In(w.frags) \o FlatMap(f, NotBegun(w, q))))

\* What is found and what is left are together the records of the partitions taken.
ExactNow ==
  phase = "journal" /\ args.usnjrnl /\ Formed =>
    /\ call.num = args.partition
    /\ \E p \in {0} \cup Loaded :
         /\ call.part = p
         /\ \E order \in SetToSeqs({x \in Loaded \ call.todo : Wanted(x, args.partition)}) :
              got \o LeftOf(worker, data, parser, call.queue, InJournal(p)) = FlatMap(OfPart, order)

ExactThen ==
  phase \in After /\ args.usnjrnl /\ Formed =>
    \E order \in SetToSeqs({x \in Loaded : Wanted(x, args.partition)}) : usnrecords = FlatMap(OfPart, order)

JournalInv == Kinds /\ Shape /\ Bounded /\ Well /\ ExactNow /\ ExactThen

-----------------------------------------------------------------------------
(* It holds at the start *)

(* At the start no journal has been begun.                                 *)
LEMMA InitJournalInv == Init => JournalInv
PROOF
<1> SUFFICES ASSUME Init PROVE JournalInv
  OBVIOUS
<1>1. /\ job \in Jobs /\ phase = "start" /\ call = NoCall /\ worker = Idle /\ data = <<>>
      /\ parser = NoParse /\ got = <<>>
  BY DEF Init, JournalInit
<1>2. Kinds
  <2>1. <<>> \in Frag /\ <<>> \in Seq(Frag) /\ <<>> \in Seq(Nat) /\ <<>> \in Seq(Held(0))
    BY DEF Frag
  <2>2. CallOf(0)
    BY <1>1, <2>1 DEF CallOf, NoCall
  <2>3. worker \in [pc : {"idle", "send", "closed"}, frags : Seq(Frag)]
    BY <1>1, <2>1 DEF Idle
  <2>4. parser \in [pc : {"idle", "range", "scan"}, frag : Frag, at : Nat]
    BY <1>1, <2>1 DEF NoParse
  <2> QED BY <1>1, <2>1, <2>2, <2>3, <2>4 DEF Kinds, Phases
<1>3. Shape
  BY <1>1 DEF Shape, NoCall, Idle, NoParse
<1>4. Bounded
  BY <1>1 DEF Bounded, NoCall
<1>5. Well
  BY <1>1 DEF Well, WellAt, NoCall, Idle, NoParse
<1>6. ExactNow /\ ExactThen
  BY <1>1 DEF ExactNow, ExactThen, After
<1> QED BY <1>2, <1>3, <1>4, <1>5, <1>6 DEF JournalInv

-----------------------------------------------------------------------------
(* The steps that are not of the journal *)

(* What main does next is one of the phases behind the journal.            *)
LEMMA FromType ==
  ASSUME NEW n \in 1 .. 4
  PROVE  From(n) \in {"logfile", "vss", "unallocated", "clusters", "loop"}
PROOF
<1> DEFINE S == {m \in n .. Len(Order) : Asked(Order[m])}
<1>1. Len(Order) = 5 /\ \A m \in 1 .. 5 : Order[m] \in {"logfile", "vss", "unallocated", "clusters", "loop"}
  BY DEF Order
<1>2. Asked(Order[5])
  BY DEF Asked, Order
<1>3. S \subseteq 1 .. 5 /\ 5 \in S
  BY <1>1, <1>2
<1>4. Min(S) \in 1 .. 5
  <2> HIDE DEF S
  <2>1. S \subseteq Nat /\ S # {}
    BY <1>3
  <2>2. Min(S) \in S
    BY <2>1, MinOf
  <2> QED BY <1>3, <2>2
<1> QED BY <1>1, <1>4 DEF From
(* Beside the steps that begin, make or end a call, the journal stays.     *)
LEMMA QuietStep ==
  ASSUME JournalInv, job' = job, UNCHANGED journalVars, usnrecords' = usnrecords,
         phase \in After, phase' \in (After \ {"again"}) \cup {"panic", "hang"}, call.queue = <<>>
  PROVE  JournalInv'
PROOF
<1>1. call' = call /\ worker' = worker /\ data' = data /\ parser' = parser /\ got' = got
  BY DEF journalVars
<1>2. Loaded' = Loaded /\ args' = args /\ \A p : Held(p)' = Held(p) /\ ClusterCells(p)' = ClusterCells(p)
  BY SameJournals
<1>3. OfPart' = OfPart /\ (Formed' <=> Formed)
  BY SameRecords
<1>4. Kinds'
  <2>1. /\ job' \in Jobs /\ phase' \in Phases
        /\ worker' \in [pc : {"idle", "send", "closed"}, frags : Seq(Frag)]
        /\ data' \in Seq(Frag)
        /\ parser' \in [pc : {"idle", "range", "scan"}, frag : Frag, at : Nat]
        /\ got' \in Seq(Nat)
    BY <1>1 DEF JournalInv, Kinds, Phases, After
  <2>2. PICK p \in {0} \cup Loaded : CallOf(p)
    BY DEF JournalInv, Kinds
  <2>3. CallOf(p)'
    BY <1>1, <1>2, <2>2 DEF CallOf
  <2> QED BY <1>2, <2>1, <2>3 DEF Kinds
<1>5. Shape' /\ Bounded'
  BY <1>1 DEF JournalInv, Shape, Bounded
<1>6. Well'
  BY <1>1, <1>2, <1>3 DEF JournalInv, Well, WellAt
<1>7. ExactNow'
  BY DEF ExactNow, After
<1>8. ExactThen'
  BY <1>2, <1>3 DEF JournalInv, ExactThen, After
<1> QED BY <1>4, <1>5, <1>6, <1>7, <1>8 DEF JournalInv

(* These are the steps of the log, the shadow copies, the unallocated      *)
(* space and the loop, and those between them.                             *)
LEMMA LogFileQuiet ==
  ASSUME phase = "logfile", ReadLogFile
  PROVE  job' = job /\ phase' \in {"logfile", "panic", "hang"}
PROOF BY DEF ReadLogFile, ProcessLogFile, ReadLog, ParseRestart, ParsePage, Crash

(* Those of the shadow copies,                                             *)
LEMMA ShadowQuiet ==
  ASSUME phase = "vss", ReadShadow
  PROVE  job' = job /\ phase' \in {"vss", "panic", "hang"}
PROOF BY DEF ReadShadow, ProcessVSS, ReadCatalog, ProcessStores

(* of the unallocated space,                                               *)
LEMMA UnallocatedQuiet ==
  ASSUME phase = "unallocated", CollectUnallocated
  PROVE  job' = job /\ phase' \in {"unallocated", "panic", "hang"}
PROOF BY DEF CollectUnallocated, CollectNext, SendBlock, WriteBlock

(* of the selection                                                        *)
LEMMA LoopQuiet ==
  ASSUME NEW p \in todo, Select(p)
  PROVE  job' = job /\ phase' \in {"selected", "panic", "hang"}
PROOF BY DEF Select

(* and of what is shown.                                                   *)
LEMMA ShowQuiet ==
  /\ ShowClusters => job' = job /\ phase' \in {"loop", "panic"}
  /\ BuildAndShow => job' = job /\ phase' \in {"loop", "panic"}
PROOF BY DEF ShowClusters, BuildAndShow

Quiet ==
  /\ job' = job /\ UNCHANGED journalVars /\ usnrecords' = usnrecords
  /\ phase \in After /\ phase' \in (After \ {"again"}) \cup {"panic", "hang"} /\ call.queue = <<>>

(* A step is of the journal, of a call of main, or leaves the journal alone.*)
LEMMA NextQuiet ==
  ASSUME JournalInv, Next
  PROVE  \/ Quiet \/ UNCHANGED vars
         \/ Start \/ First \/ Again
         \/ /\ phase \in {"journal", "again"} /\ ProcessJrnl
            /\ UNCHANGED <<logfile, shadowVars, unallocatedVars, selectionVars, usnrecords>>
PROOF
<1>1. phase \in After \ {"again"} => call.queue = <<>>
  BY DEF JournalInv, Shape, After
<1>2. CASE Logs
  BY <1>1, <1>2, FromType DEF Logs, Quiet, After
<1>3. CASE Shadows
  BY <1>1, <1>3, FromType DEF Shadows, Quiet, After
<1>4. CASE Unallocate
  BY <1>1, <1>4, FromType DEF Unallocate, Quiet, After
<1>5. CASE Report
  BY <1>5, ShowQuiet DEF Report, Returned, Quiet, After
<1>6. CASE Finish
  BY <1>1, <1>6 DEF Finish, Quiet, After
<1>7. CASE phase = "logfile" /\ ReadLogFile /\ UNCHANGED <<journalVars, shadowVars, unallocatedVars, selectionVars, usnrecords>>
  BY <1>1, <1>7, LogFileQuiet DEF Quiet, After
<1>8. CASE phase = "vss" /\ ReadShadow /\ UNCHANGED <<journalVars, logfile, unallocatedVars, selectionVars, usnrecords>>
  BY <1>1, <1>8, ShadowQuiet DEF Quiet, After
<1>9. CASE phase = "clusters" /\ ShowClusters /\ UNCHANGED <<journalVars, logfile, unallocatedVars, selectionVars, usnrecords>>
  BY <1>1, <1>9, ShowQuiet DEF Quiet, After
<1>10. CASE phase = "unallocated" /\ CollectUnallocated /\ UNCHANGED <<journalVars, logfile, shadowVars, selectionVars, usnrecords>>
  BY <1>1, <1>10, UnallocatedQuiet DEF Quiet, After
<1>11. CASE /\ phase = "loop" /\ \E p \in todo : Select(p)
            /\ UNCHANGED <<journalVars, logfile, shadowVars, unallocatedVars, usnrecords>>
  BY <1>1, <1>11, LoopQuiet DEF Quiet, After
<1>12. CASE Ended
  BY <1>12 DEF Ended
<1> QED BY <1>2, <1>3, <1>4, <1>5, <1>6, <1>7, <1>8, <1>9, <1>10, <1>11, <1>12 DEF Next
-----------------------------------------------------------------------------
(* The steps that begin and end a call *)

(* Without a journal there is nothing left.                                *)
LEMMA NothingLeft == \A f : LeftOf(Idle, <<>>, NoParse, <<>>, f) = <<>>
PROOF
<1> SUFFICES ASSUME NEW f PROVE LeftOf(Idle, <<>>, NoParse, <<>>, f) = <<>>
  OBVIOUS
<1>1. Scanning(NoParse) = <<>> /\ Idle.frags = <<>> /\ NotBegun(Idle, <<>>) = <<>>
  BY DEF Scanning, NoParse, Idle, NotBegun
<1>2. In(<<>>) = <<>> /\ FlatMap(f, <<>>) = <<>>
  BY InEmpty, FlatMapEmpty
<1>3. <<>> \o <<>> = <<>>
  OBVIOUS
<1> QED BY <1>1, <1>2, <1>3, Zenon DEF LeftOf

(* Without a goroutine nothing is under way.                               *)
LEMMA AtRest ==
  ASSUME JournalInv, parser.pc = "idle"
  PROVE  worker = Idle /\ data = <<>> /\ parser = NoParse
PROOF
<1>1. /\ worker \in [pc : {"idle", "send", "closed"}, frags : Seq(Frag)]
      /\ parser \in [pc : {"idle", "range", "scan"}, frag : Frag, at : Nat]
  BY DEF JournalInv, Kinds
<1>2. worker.pc = "idle" /\ worker.frags = <<>> /\ data = <<>> /\ parser.frag = <<>> /\ parser.at = 0
  BY DEF JournalInv, Shape
<1>3. worker = Idle
  BY <1>1, <1>2 DEF Idle
<1>4. parser = NoParse
  BY <1>1, <1>2 DEF NoParse
<1> QED BY <1>2, <1>3, <1>4

(* A call begins with all partitions left, in the state the last one left. *)
LEMMA CallStep ==
  ASSUME JournalInv, job' = job, phase' \in {"journal", "again"}, phase' = "again" => phase \in After,
         call.queue = <<>>, usnrecords' = usnrecords,
         \/ /\ args.usnjrnl
            /\ \E num : Call(num) /\ (phase' = "journal" => num = args.partition)
         \/ ~args.usnjrnl /\ UNCHANGED journalVars
  PROVE  JournalInv'
PROOF
<1>1. worker = Idle /\ data = <<>> /\ parser = NoParse /\ worker' = Idle /\ data' = <<>> /\ parser' = NoParse
  <2>1. parser.pc = "idle"
    BY DEF JournalInv, Shape
  <2> QED BY <2>1, AtRest DEF Call, journalVars
<1>2. Loaded' = Loaded /\ args' = args /\ \A p : Held(p)' = Held(p) /\ ClusterCells(p)' = ClusterCells(p)
  BY SameJournals
<1>3. OfPart' = OfPart /\ (Formed' <=> Formed) /\ \A p : InJournal(p)' = InJournal(p)
  BY SameRecords
<1>4. call'.queue = <<>> /\ got' \in Seq(Nat) /\ \E p \in {0} \cup Loaded : CallOf(p)'
  <2>1. PICK p \in {0} \cup Loaded : CallOf(p)
    BY DEF JournalInv, Kinds
  <2>2. <<>> \in Seq(Held(0)) /\ <<>> \in Seq(Nat)
    OBVIOUS
  <2>3. CASE UNCHANGED journalVars
    BY <1>2, <2>1, <2>3 DEF CallOf, journalVars, JournalInv, Kinds
  <2>4. CASE \E num : Call(num)
    <3>1. PICK num : Call(num)
      BY <2>4
    <3>2. call' = [todo |-> Loaded, num |-> num, part |-> 0, queue |-> <<>>] /\ got' = <<>>
      BY <3>1 DEF Call, NoCall
    <3>3. CallOf(0)'
      BY <1>2, <2>2, <3>2 DEF CallOf
    <3> QED BY <2>2, <3>2, <3>3
  <2> QED BY <2>3, <2>4
<1>5. Kinds'
  <2>1. <<>> \in Frag /\ <<>> \in Seq(Frag)
    BY DEF Frag
  <2>2. /\ worker' \in [pc : {"idle", "send", "closed"}, frags : Seq(Frag)]
        /\ parser' \in [pc : {"idle", "range", "scan"}, frag : Frag, at : Nat]
    BY <1>1, <2>1 DEF Idle, NoParse
  <2> QED BY <1>1, <1>2, <1>4, <2>1, <2>2 DEF JournalInv, Kinds, Phases, After
<1>6. Shape' /\ Bounded' /\ Well'
  <2>1. Shape'
    BY <1>1, <1>4 DEF Shape, Idle, NoParse
  <2>2. Bounded'
    BY <1>4 DEF Bounded
  <2>3. Well'
    BY <1>1 DEF Well, WellAt, Idle, NoParse
  <2> QED BY <2>1, <2>2, <2>3
<1>7. ExactNow'
  <2> SUFFICES ASSUME phase' = "journal", args.usnjrnl
               PROVE  /\ call'.num = args.partition
                      /\ \E p \in {0} \cup Loaded :
                           /\ call'.part = p
                           /\ \E order \in SetToSeqs({x \in Loaded \ call'.todo : Wanted(x, args.partition)}) :
                                got' \o LeftOf(worker', data', parser', call'.queue, InJournal(p)) = FlatMap(OfPart, order)
    BY <1>2, <1>3 DEF ExactNow
  <2>1. call' = [todo |-> Loaded, num |-> args.partition, part |-> 0, queue |-> <<>>] /\ got' = <<>>
    BY DEF Call, NoCall
  <2>2. {x \in Loaded \ call'.todo : Wanted(x, args.partition)} = {}
    BY <2>1
  <2>3. LeftOf(worker', data', parser', call'.queue, InJournal(0)) = <<>>
    BY <1>1, <1>4, NothingLeft
  <2>4. FlatMap(OfPart, <<>>) = <<>> /\ <<>> \o <<>> = <<>>
    BY FlatMapEmpty
  <2>5. got' \o LeftOf(worker', data', parser', call'.queue, InJournal(0)) = FlatMap(OfPart, <<>>)
    BY <2>1, <2>3, <2>4, Zenon
  <2>6. call'.part = 0 /\ call'.num = args.partition
    BY <2>1
  <2> QED BY <2>2, <2>5, <2>6, OrderEmpty
<1>8. ExactThen'
  BY <1>2, <1>3 DEF JournalInv, ExactThen, After
<1> QED BY <1>5, <1>6, <1>7, <1>8 DEF JournalInv

(* When the first call returns, all that is found is what must be found.   *)
LEMMA FirstStep ==
  ASSUME JournalInv, First
  PROVE  JournalInv'
PROOF
<1>1. /\ phase = "journal" /\ Returned /\ job' = job /\ UNCHANGED journalVars /\ usnrecords' = got
      /\ phase' \in {"logfile", "vss", "unallocated", "clusters", "loop"}
  BY FromType DEF First
<1>2. call' = call /\ worker' = worker /\ data' = data /\ parser' = parser /\ got' = got
  BY <1>1 DEF journalVars
<1>3. Loaded' = Loaded /\ args' = args /\ \A p : Held(p)' = Held(p) /\ ClusterCells(p)' = ClusterCells(p)
  BY <1>1, SameJournals
<1>4. OfPart' = OfPart /\ (Formed' <=> Formed)
  BY <1>1, SameRecords
<1>5. Kinds'
  <2>1. /\ job' \in Jobs /\ phase' \in Phases
        /\ worker' \in [pc : {"idle", "send", "closed"}, frags : Seq(Frag)]
        /\ data' \in Seq(Frag)
        /\ parser' \in [pc : {"idle", "range", "scan"}, frag : Frag, at : Nat]
        /\ got' \in Seq(Nat)
    BY <1>1, <1>2 DEF JournalInv, Kinds, Phases, After
  <2>2. PICK p \in {0} \cup Loaded : CallOf(p)
    BY DEF JournalInv, Kinds
  <2>3. CallOf(p)'
    BY <1>2, <1>3, <2>2 DEF CallOf
  <2> QED BY <1>3, <2>1, <2>2, <2>3 DEF Kinds
<1>6. Shape' /\ Bounded' /\ Well'
  <2>1. Shape'
    BY <1>1, <1>2 DEF JournalInv, Shape, Returned
  <2>2. Bounded'
    BY <1>2 DEF JournalInv, Bounded
  <2>3. Well'
    BY <1>2, <1>3, <1>4 DEF JournalInv, Well, WellAt
  <2> QED BY <2>1, <2>2, <2>3
<1>7. ExactNow'
  BY <1>1 DEF ExactNow
<1>8. ExactThen'
  <2> SUFFICES ASSUME args.usnjrnl, Formed
               PROVE  \E order \in SetToSeqs({x \in Loaded : Wanted(x, args.partition)}) : got = FlatMap(OfPart, order)
    BY <1>1, <1>3, <1>4 DEF ExactThen
  <2>1. PICK p \in {0} \cup Loaded : \E order \in SetToSeqs({x \in Loaded \ call.todo : Wanted(x, args.partition)}) :
                              got \o LeftOf(worker, data, parser, call.queue, InJournal(p)) = FlatMap(OfPart, order)
    BY <1>1 DEF JournalInv, ExactNow
  <2>2. PICK order \in SetToSeqs({x \in Loaded \ call.todo : Wanted(x, args.partition)}) :
               got \o LeftOf(worker, data, parser, call.queue, InJournal(p)) = FlatMap(OfPart, order)
    BY <2>1
  <2>3. call.todo = {} /\ call.queue = <<>> /\ worker = Idle /\ parser = NoParse /\ data = <<>>
    BY <1>1, AtRest DEF Returned, NoParse
  <2>4. {x \in Loaded \ call.todo : Wanted(x, args.partition)} = {x \in Loaded : Wanted(x, args.partition)}
    BY <2>3
  <2>5. LeftOf(worker, data, parser, call.queue, InJournal(p)) = <<>>
    BY <2>3, NothingLeft
  <2>6. got \o <<>> = got
    BY Nothing DEF JournalInv, Kinds
  <2>7. got = FlatMap(OfPart, order)
    BY <2>2, <2>5, <2>6, Zenon
  <2> QED BY <2>2, <2>4, <2>7
<1> QED BY <1>5, <1>6, <1>7, <1>8 DEF JournalInv
-----------------------------------------------------------------------------
(* The steps of the goroutines *)

(* What does not touch the results of the first call keeps them.           *)
LEMMA ThenStays ==
  ASSUME JournalInv, job' = job, usnrecords' = usnrecords, phase' \in {phase, "panic"}
  PROVE  ExactThen'
PROOF
<1>1. Loaded' = Loaded /\ args' = args /\ OfPart' = OfPart /\ (Formed' <=> Formed)
  BY SameJournals, SameRecords
<1> QED BY <1>1 DEF JournalInv, ExactThen, After

(* A journal that is left is one of a partition.                           *)
LEMMA AtWork ==
  ASSUME JournalInv, call.queue # <<>>
  PROVE  \E p \in Loaded :
           /\ call.part = p /\ call.todo \subseteq Loaded /\ call.queue \in Seq(Held(p))
           /\ call = [todo |-> call.todo, num |-> call.num, part |-> p, queue |-> call.queue]
           /\ Head(call.queue) \in Held(p) /\ Tail(call.queue) \in Seq(Held(p))
           /\ Head(call.queue).lsize \in Nat
PROOF
<1>1. PICK p \in {0} \cup Loaded : CallOf(p)
  BY DEF JournalInv, Kinds
<1>2. /\ call.part = p /\ call.todo \subseteq Loaded /\ call.queue \in Seq(Held(p))
      /\ call = [todo |-> call.todo, num |-> call.num, part |-> p, queue |-> call.queue]
  BY <1>1 DEF CallOf
<1>3. Head(call.queue) \in Held(p) /\ Tail(call.queue) \in Seq(Held(p))
  BY <1>2
<1>4. p \in Loaded
  BY <1>3 DEF Held
<1>5. Head(call.queue).lsize \in Nat
  BY <1>3, <1>4, JournalsType DEF JournalInv, Kinds
<1> QED BY <1>2, <1>3, <1>4, <1>5

(* While a partition is read, the types follow from those of the parts.    *)
LEMMA KindsStay ==
  ASSUME JournalInv, job' = job, phase' = phase, call.queue # <<>>,
         worker' \in [pc : {"idle", "send", "closed"}, frags : Seq(Frag)], data' \in Seq(Frag),
         parser' \in [pc : {"idle", "range", "scan"}, frag : Frag, at : Nat], got' \in Seq(Nat),
         call' \in {call, [call EXCEPT !.queue = Tail(@)]}
  PROVE  Kinds'
PROOF
<1>1. Loaded' = Loaded /\ \A p : Held(p)' = Held(p)
  BY SameJournals
<1>2. PICK p \in Loaded :
        /\ call.todo \subseteq Loaded /\ call.queue \in Seq(Held(p)) /\ Tail(call.queue) \in Seq(Held(p))
        /\ call = [todo |-> call.todo, num |-> call.num, part |-> p, queue |-> call.queue]
  BY AtWork
<1>3. CallOf(p)'
  <2>1. \/ call' = call
        \/ call' = [todo |-> call.todo, num |-> call.num, part |-> p, queue |-> Tail(call.queue)]
    BY <1>2
  <2>2. CASE call' = call
    BY <1>1, <1>2, <2>2 DEF CallOf
  <2>3. CASE call' = [todo |-> call.todo, num |-> call.num, part |-> p, queue |-> Tail(call.queue)]
    BY <1>1, <1>2, <2>3 DEF CallOf
  <2> QED BY <2>1, <2>2, <2>3
<1> QED BY <1>1, <1>2, <1>3 DEF JournalInv, Kinds

(* And what is found with what is left stays the same.                     *)
LEMMA ExactStays ==
  ASSUME JournalInv, job' = job, phase' = phase, NEW p \in Loaded, call.part = p,
         call'.todo = call.todo, call'.num = call.num, call'.part = call.part,
         Formed => got' \o LeftOf(worker', data', parser', call'.queue, InJournal(p))
                     = got \o LeftOf(worker, data, parser, call.queue, InJournal(p))
  PROVE  ExactNow'
PROOF
<1>1. Loaded' = Loaded /\ args' = args /\ OfPart' = OfPart /\ (Formed' <=> Formed)
      /\ \A q : InJournal(q)' = InJournal(q)
  BY SameJournals, SameRecords
<1> SUFFICES ASSUME phase = "journal", args.usnjrnl, Formed
             PROVE  /\ call.num = args.partition
                    /\ \E order \in SetToSeqs({x \in Loaded \ call.todo : Wanted(x, args.partition)}) :
                         got' \o LeftOf(worker', data', parser', call'.queue, InJournal(p)) = FlatMap(OfPart, order)
  BY <1>1 DEF ExactNow
<1>2. /\ call.num = args.partition
      /\ \E order \in SetToSeqs({x \in Loaded \ call.todo : Wanted(x, args.partition)}) :
           got \o LeftOf(worker, data, parser, call.queue, InJournal(p)) = FlatMap(OfPart, order)
  BY DEF JournalInv, ExactNow
<1> QED BY <1>2, Zenon

(* The goroutines start with everything of a journal.                      *)
LEMMA StartJournalStep ==
  ASSUME JournalInv, phase \in {"journal", "again"}, StartJournal, usnrecords' = usnrecords
  PROVE  JournalInv'
PROOF
<1>1. /\ call.queue # <<>> /\ worker = Idle /\ parser = NoParse
      /\ worker' = [pc |-> "send", frags |-> Fragments(call.part, Head(call.queue))]
      /\ parser' = [NoParse EXCEPT !.pc = "range"]
      /\ job' = job /\ phase' = phase /\ call' = call /\ data' = data /\ got' = got
  BY DEF StartJournal
<1>2. PICK p \in Loaded :
        /\ call.part = p /\ call.queue \in Seq(Held(p)) /\ Head(call.queue) \in Held(p)
  BY <1>1, AtWork
<1> DEFINE r == Head(call.queue)
           s == Fragments(p, r)
<1>3. s \in Seq(Frag)
  BY <1>2, FragmentsType DEF JournalInv, Kinds
<1>4. data = <<>>
  BY <1>1, AtRest DEF NoParse
<1>5. worker' = [pc |-> "send", frags |-> s] /\ parser' = [pc |-> "range", frag |-> <<>>, at |-> 0]
  BY <1>1, <1>2 DEF NoParse
<1>6. Kinds'
  <2> HIDE DEF s
  <2>1. <<>> \in Frag
    BY DEF Frag
  <2>2. worker' \in [pc : {"idle", "send", "closed"}, frags : Seq(Frag)]
    BY <1>3, <1>5
  <2>3. parser' \in [pc : {"idle", "range", "scan"}, frag : Frag, at : Nat]
    BY <1>5, <2>1
  <2>4. data' \in Seq(Frag) /\ got' \in Seq(Nat)
    BY <1>1 DEF JournalInv, Kinds
  <2> QED BY <1>1, <2>2, <2>3, <2>4, KindsStay
<1>7. Shape' /\ Bounded'
  <2>1. Shape'
    BY <1>1, <1>5 DEF JournalInv, Shape
  <2>2. Bounded'
    BY <1>1 DEF JournalInv, Bounded
  <2> QED BY <2>1, <2>2
<1>8. Well'
  <2>1. Loaded' = Loaded /\ (Formed' <=> Formed) /\ \A q : ClusterCells(q)' = ClusterCells(q)
    BY <1>1, SameJournals, SameRecords
  <2>2. ASSUME Formed PROVE \A n \in DOMAIN s : WellFormed(s[n], ClusterCells(p))
    <3>1. \E n \in DOMAIN Journals(p) : r = Journals(p)[n]
      BY <1>2 DEF Held, ToSet
    <3>2. \A f \in ToSet(s) : WellFormed(f, ClusterCells(p))
      BY <2>2, <3>1 DEF Formed
    <3> QED BY <3>2 DEF ToSet
  <2> SUFFICES ASSUME Formed, NEW q \in Loaded, call'.part = q
               PROVE  /\ \A n \in DOMAIN data' : WellFormed(data'[n], ClusterCells(q))
                      /\ \A n \in DOMAIN worker'.frags : WellFormed(worker'.frags[n], ClusterCells(q))
                      /\ parser'.pc # "scan"
    BY <2>1 DEF Well, WellAt
  <2>3. q = p
    BY <1>1, <1>2
  <2> HIDE DEF s
  <2> QED BY <1>1, <1>4, <1>5, <2>2, <2>3
<1>9. ExactNow'
  <2> DEFINE f == InJournal(p)
             t == FlatMap(f, call.queue)
  <2>1. In(s) \o FlatMap(f, Tail(call.queue)) = t /\ t \in Seq(Nat)
    BY <1>1, <1>2, StartFlow DEF In, JournalInv, Kinds
  <2>2. LeftOf(worker', data', parser', call'.queue, f) = <<>> \o (In(<<>>) \o (In(s) \o FlatMap(f, Tail(call.queue))))
    <3>1. Scanning(parser') = <<>> /\ NotBegun(worker', call'.queue) = Tail(call.queue) /\ worker'.frags = s /\ data' = <<>>
      BY <1>1, <1>4, <1>5 DEF Scanning, NotBegun
    <3> QED BY <3>1, Zenon DEF LeftOf
  <2>3. LeftOf(worker, data, parser, call.queue, f) = <<>> \o (In(<<>>) \o (In(<<>>) \o t))
    <3>1. Scanning(parser) = <<>> /\ NotBegun(worker, call.queue) = call.queue /\ worker.frags = <<>>
      BY <1>1 DEF Scanning, NotBegun, Idle, NoParse
    <3> QED BY <1>4, <3>1, Zenon DEF LeftOf
  <2> HIDE DEF t, f, s
  <2>4. In(<<>>) \o t = t
    BY <2>1, InEmpty, Nothing
  <2>5. LeftOf(worker', data', parser', call'.queue, f) = LeftOf(worker, data, parser, call.queue, f)
    BY <2>1, <2>2, <2>3, <2>4, Zenon
  <2>6. call'.todo = call.todo /\ call'.num = call.num /\ call'.part = call.part
    BY <1>1
  <2>7. got' \o LeftOf(worker', data', parser', call'.queue, f) = got \o LeftOf(worker, data, parser, call.queue, f)
    BY <1>1, <2>5, Zenon
  <2> QED BY <1>1, <1>2, <2>6, <2>7, ExactStays DEF f
<1>10. ExactThen'
  BY <1>1, ThenStays
<1> QED BY <1>6, <1>7, <1>8, <1>9, <1>10 DEF JournalInv
(* The capacity of the channel.                                            *)
LEMMA Capacity ==
  ASSUME NEW n \in Nat
  PROVE  Max({1, n}) \in Nat /\ 1 <= Max({1, n}) /\ n <= Max({1, n})
PROOF
<1>1. \E x \in {1, n} : \A y \in {1, n} : x >= y
  <2>1. CASE n >= 1
    BY <2>1
  <2>2. CASE ~(n >= 1)
    BY <2>2
  <2> QED BY <2>1, <2>2
<1>2. Max({1, n}) \in {1, n} /\ \A y \in {1, n} : Max({1, n}) >= y
  BY <1>1 DEF Max
<1>3. Max({1, n}) >= 1 /\ Max({1, n}) >= n /\ Max({1, n}) \in Nat
  BY <1>2
<1> QED BY <1>3

(* A fragment goes into the channel.                                       *)
LEMMA SendStep ==
  ASSUME JournalInv, phase \in {"journal", "again"}, Send, usnrecords' = usnrecords
  PROVE  JournalInv'
PROOF
<1>1. /\ worker.pc = "send" /\ worker.frags # <<>>
      /\ Len(data) < Head(call.queue).lsize \/ (parser.pc = "range" /\ data = <<>>)
      /\ data' = Append(data, Head(worker.frags)) /\ worker' = [worker EXCEPT !.frags = Tail(@)]
      /\ job' = job /\ phase' = phase /\ call' = call /\ parser' = parser /\ got' = got
  BY DEF Send
<1>2. /\ worker \in [pc : {"idle", "send", "closed"}, frags : Seq(Frag)] /\ data \in Seq(Frag)
      /\ parser \in [pc : {"idle", "range", "scan"}, frag : Frag, at : Nat] /\ got \in Seq(Nat)
  BY DEF JournalInv, Kinds
<1>3. call.queue # <<>> /\ parser.pc # "idle"
  BY <1>1 DEF JournalInv, Shape
<1>4. PICK p \in Loaded : call.part = p /\ call.queue \in Seq(Held(p)) /\ Tail(call.queue) \in Seq(Held(p))
                          /\ Head(call.queue).lsize \in Nat
  BY <1>3, AtWork
<1> DEFINE w == worker.frags
           d == data
<1>5. w \in Seq(Frag) /\ Head(w) \in Frag /\ Tail(w) \in Seq(Frag)
  BY <1>1, <1>2
<1>6. worker' = [pc |-> "send", frags |-> Tail(w)]
  BY <1>1, <1>2
<1>7. Kinds'
  <2>1. worker' \in [pc : {"idle", "send", "closed"}, frags : Seq(Frag)]
    BY <1>5, <1>6
  <2>2. data' \in Seq(Frag)
    BY <1>1, <1>2, <1>5
  <2> QED BY <1>1, <1>2, <1>3, <2>1, <2>2, KindsStay
<1>8. Shape'
  BY <1>1, <1>3, <1>6 DEF JournalInv, Shape
<1>9. Bounded'
  <2> DEFINE n == Head(call.queue).lsize
  <2>1. Len(data') = Len(data) + 1 /\ Len(data) \in Nat
    BY <1>1, <1>2, <1>5
  <2> HIDE DEF n
  <2>2. n \in Nat /\ (Len(data) < n \/ Len(data) = 0)
    BY <1>1, <1>2, <1>4 DEF n
  <2>3. Max({1, n}) \in Nat /\ 1 <= Max({1, n}) /\ n <= Max({1, n})
    BY <2>2, Capacity
  <2>4. Len(data') <= Max({1, n})
    BY <2>1, <2>2, <2>3
  <2> QED BY <1>1, <2>4 DEF Bounded, n
<1>10. Well'
  <2>1. Loaded' = Loaded /\ (Formed' <=> Formed) /\ \A q : ClusterCells(q)' = ClusterCells(q)
    BY <1>1, SameJournals, SameRecords
  <2> SUFFICES ASSUME Formed, NEW q \in Loaded, call.part = q
               PROVE  WellAt(ClusterCells(q))'
    BY <1>1, <2>1 DEF Well
  <2> DEFINE c == ClusterCells(q)
  <2>2. c' = c
    BY <2>1
  <2>3. /\ \A n \in DOMAIN d : WellFormed(d[n], c)
        /\ \A n \in DOMAIN w : WellFormed(w[n], c)
        /\ parser.pc = "scan" => WellFormed(parser.frag, c) /\ Boundary(parser.frag, parser.at)
    BY DEF JournalInv, Well, WellAt
  <2> HIDE DEF c, d, w
  <2>4. \A n \in DOMAIN Tail(w) : WellFormed(Tail(w)[n], c)
    <3>1. \A n \in DOMAIN Tail(w) : n + 1 \in DOMAIN w /\ Tail(w)[n] = w[n + 1]
      BY <1>1, <1>5 DEF w
    <3> QED BY <2>3, <3>1
  <2>5. WellFormed(Head(w), c)
    <3>1. Head(w) = w[1] /\ 1 \in DOMAIN w
      BY <1>1, <1>5 DEF w
    <3> QED BY <2>3, <3>1
  <2>6. \A n \in DOMAIN Append(d, Head(w)) : WellFormed(Append(d, Head(w))[n], c)
    <3> DEFINE h == Head(w)
    <3>1. d \in Seq(Frag) /\ h \in Frag
      BY <1>2, <1>5 DEF d
    <3> HIDE DEF h
    <3>2. \A n \in DOMAIN Append(d, h) : (n \in DOMAIN d /\ Append(d, h)[n] = d[n]) \/ Append(d, h)[n] = h
      BY <3>1
    <3> QED BY <2>3, <2>5, <3>2 DEF h
  <2> QED BY <1>1, <1>6, <2>2, <2>3, <2>4, <2>6 DEF WellAt, c, d, w
<1>11. ExactNow'
  <2> DEFINE f == InJournal(p)
             t == FlatMap(f, Tail(call.queue))
  <2>1. t \in Seq(Nat)
    <3>1. f \in Maps(Held(p), Seq(Nat))
      BY RecordsOfFlat DEF JournalInv, Kinds
    <3> HIDE DEF f
    <3> QED BY <1>4, <3>1, FlatMapType
  <2>2. LeftOf(worker', data', parser', call'.queue, f) = Scanning(parser) \o (In(Append(d, Head(w))) \o (In(Tail(w)) \o t))
    <3>1. NotBegun(worker', call'.queue) = Tail(call.queue) /\ worker'.frags = Tail(w)
      BY <1>1, <1>6 DEF NotBegun
    <3> QED BY <1>1, <3>1, Zenon DEF LeftOf
  <2>3. LeftOf(worker, data, parser, call.queue, f) = Scanning(parser) \o (In(d) \o (In(w) \o t))
    <3>1. NotBegun(worker, call.queue) = Tail(call.queue)
      BY <1>1 DEF NotBegun
    <3> QED BY <3>1, Zenon DEF LeftOf
  <2> HIDE DEF t, f
  <2>4. In(Append(d, Head(w))) \o (In(Tail(w)) \o t) = In(d) \o (In(w) \o t)
    <3>1. d \in Seq(Frag) /\ w \in Seq(Frag) /\ w # <<>>
      BY <1>1, <1>2, <1>5
    <3> HIDE DEF d, w
    <3> QED BY <2>1, <3>1, SendFlow
  <2>5. got' \o LeftOf(worker', data', parser', call'.queue, f) = got \o LeftOf(worker, data, parser, call.queue, f)
    BY <1>1, <2>2, <2>3, <2>4, Zenon
  <2>6. call'.todo = call.todo /\ call'.num = call.num /\ call'.part = call.part
    BY <1>1
  <2> QED BY <1>1, <1>4, <2>5, <2>6, ExactStays DEF f
<1>12. ExactThen'
  BY <1>1, ThenStays
<1> QED BY <1>7, <1>8, <1>9, <1>10, <1>11, <1>12 DEF JournalInv

(* The channel is closed when all is sent.                                 *)
LEMMA CloseDataStep ==
  ASSUME JournalInv, phase \in {"journal", "again"}, CloseData, usnrecords' = usnrecords
  PROVE  JournalInv'
PROOF
<1>1. /\ worker.pc = "send" /\ worker.frags = <<>> /\ worker' = [worker EXCEPT !.pc = "closed"]
      /\ job' = job /\ phase' = phase /\ call' = call /\ data' = data /\ parser' = parser /\ got' = got
  BY DEF CloseData
<1>2. /\ worker \in [pc : {"idle", "send", "closed"}, frags : Seq(Frag)] /\ data \in Seq(Frag)
      /\ parser \in [pc : {"idle", "range", "scan"}, frag : Frag, at : Nat] /\ got \in Seq(Nat)
  BY DEF JournalInv, Kinds
<1>3. call.queue # <<>> /\ parser.pc # "idle"
  BY <1>1 DEF JournalInv, Shape
<1>4. PICK p \in Loaded : call.part = p
  BY <1>3, AtWork
<1>5. worker' = [pc |-> "closed", frags |-> <<>>]
  BY <1>1, <1>2
<1>6. Kinds'
  <2>1. worker' \in [pc : {"idle", "send", "closed"}, frags : Seq(Frag)]
    BY <1>5
  <2> QED BY <1>1, <1>2, <1>3, <2>1, KindsStay
<1>7. Shape' /\ Bounded'
  BY <1>1, <1>3, <1>5 DEF JournalInv, Shape, Bounded
<1>8. Well'
  <2>1. Loaded' = Loaded /\ (Formed' <=> Formed) /\ \A q : ClusterCells(q)' = ClusterCells(q)
    BY <1>1, SameJournals, SameRecords
  <2> QED BY <1>1, <1>5, <2>1 DEF JournalInv, Well, WellAt
<1>9. ExactNow'
  <2>1. NotBegun(worker', call'.queue) = NotBegun(worker, call.queue) /\ worker'.frags = worker.frags
    BY <1>1, <1>5 DEF NotBegun
  <2>2. got' \o LeftOf(worker', data', parser', call'.queue, InJournal(p))
          = got \o LeftOf(worker, data, parser, call.queue, InJournal(p))
    BY <1>1, <2>1, Zenon DEF LeftOf
  <2>3. call'.todo = call.todo /\ call'.num = call.num /\ call'.part = call.part
    BY <1>1
  <2> QED BY <1>1, <1>4, <2>2, <2>3, ExactStays
<1>10. ExactThen'
  BY <1>1, ThenStays
<1> QED BY <1>6, <1>7, <1>8, <1>9, <1>10 DEF JournalInv
(* A fragment is taken from the channel.                                   *)
LEMMA TakeStep ==
  ASSUME JournalInv, phase \in {"journal", "again"}, Take, usnrecords' = usnrecords
  PROVE  JournalInv'
PROOF
<1>1. /\ parser.pc = "range" /\ data # <<>>
      /\ parser' = [pc |-> "scan", frag |-> Head(data), at |-> 1] /\ data' = Tail(data)
      /\ job' = job /\ phase' = phase /\ call' = call /\ worker' = worker /\ got' = got
  BY DEF Take
<1>2. /\ worker \in [pc : {"idle", "send", "closed"}, frags : Seq(Frag)] /\ data \in Seq(Frag) /\ got \in Seq(Nat)
  BY DEF JournalInv, Kinds
<1>3. call.queue # <<>>
  BY <1>1 DEF JournalInv, Shape
<1>4. PICK p \in Loaded : call.part = p /\ Tail(call.queue) \in Seq(Held(p)) /\ Head(call.queue).lsize \in Nat
  BY <1>3, AtWork
<1> DEFINE d == data
<1>5. d \in Seq(Frag) /\ Head(d) \in Frag /\ Tail(d) \in Seq(Frag) /\ Len(d) \in Nat /\ Len(Tail(d)) = Len(d) - 1
  BY <1>1, <1>2
<1>6. Kinds'
  <2>1. parser' \in [pc : {"idle", "range", "scan"}, frag : Frag, at : Nat]
    BY <1>1, <1>5
  <2>2. data' \in Seq(Frag)
    BY <1>1, <1>5
  <2> QED BY <1>1, <1>2, <1>3, <2>1, <2>2, KindsStay
<1>7. Shape'
  BY <1>1, <1>3 DEF JournalInv, Shape
<1>8. Bounded'
  <2> DEFINE n == Head(call.queue).lsize
             m == Max({1, n})
  <2>1. n \in Nat
    BY <1>4
  <2> HIDE DEF n
  <2>2. m \in Nat
    BY <2>1, Capacity
  <2>3. Len(d) <= m
    BY <1>3 DEF JournalInv, Bounded, n
  <2> HIDE DEF m
  <2>4. Len(Tail(d)) <= m
    BY <1>5, <2>2, <2>3
  <2> QED BY <1>1, <2>4 DEF Bounded, m, n
<1>9. Well'
  <2>1. Loaded' = Loaded /\ (Formed' <=> Formed) /\ \A q : ClusterCells(q)' = ClusterCells(q)
    BY <1>1, SameJournals, SameRecords
  <2> SUFFICES ASSUME Formed, NEW q \in Loaded, call.part = q
               PROVE  WellAt(ClusterCells(q))'
    BY <1>1, <2>1 DEF Well
  <2> DEFINE c == ClusterCells(q)
  <2>2. c' = c
    BY <2>1
  <2>3. /\ \A n \in DOMAIN d : WellFormed(d[n], c)
        /\ \A n \in DOMAIN worker.frags : WellFormed(worker.frags[n], c)
    BY DEF JournalInv, Well, WellAt
  <2> HIDE DEF c, d
  <2>4. \A n \in DOMAIN Tail(d) : WellFormed(Tail(d)[n], c)
    <3>1. \A n \in DOMAIN Tail(d) : n + 1 \in DOMAIN d /\ Tail(d)[n] = d[n + 1]
      BY <1>1, <1>5 DEF d
    <3> QED BY <2>3, <3>1
  <2>5. WellFormed(Head(d), c)
    <3>1. Head(d) = d[1] /\ 1 \in DOMAIN d
      BY <1>1, <1>5 DEF d
    <3> QED BY <2>3, <3>1
  <2>6. Boundary(Head(d), 1)
    <3>1. \A r \in DOMAIN Head(d) : r \in Nat /\ ~(r < 1)
      BY <1>5 DEF Frag
    <3> QED BY <3>1 DEF Boundary
  <2>7. parser'.frag = Head(d) /\ parser'.at = 1
    BY <1>1 DEF d
  <2> QED BY <1>1, <2>2, <2>3, <2>4, <2>5, <2>6, <2>7 DEF WellAt, c, d
<1>10. ExactNow'
  <2> DEFINE f == InJournal(p)
             t == FlatMap(f, Tail(call.queue))
             r == In(worker.frags) \o t
  <2>1. r \in Seq(Nat)
    <3>1. f \in Maps(Held(p), Seq(Nat))
      BY RecordsOfFlat DEF JournalInv, Kinds
    <3> HIDE DEF f
    <3>2. t \in Seq(Nat)
      BY <1>4, <3>1, FlatMapType
    <3> HIDE DEF t
    <3>3. In(worker.frags) \in Seq(Nat)
      BY <1>2, InType
    <3> QED BY <3>2, <3>3, Joined
  <2>2. NotBegun(worker, call.queue) = Tail(call.queue)
    BY <1>1 DEF NotBegun, JournalInv, Shape
  <2>3. LeftOf(worker', data', parser', call'.queue, f) = RecordsFrom(Head(d), 1) \o (In(Tail(d)) \o r)
    <3>1. Scanning(parser') = RecordsFrom(Head(d), 1)
      BY <1>1 DEF Scanning
    <3> QED BY <1>1, <2>2, <3>1, Zenon DEF LeftOf
  <2>4. LeftOf(worker, data, parser, call.queue, f) = <<>> \o (In(d) \o r)
    <3>1. Scanning(parser) = <<>>
      BY <1>1 DEF Scanning
    <3> QED BY <2>2, <3>1, Zenon DEF LeftOf
  <2> HIDE DEF r, f
  <2>5. RecordsFrom(Head(d), 1) \o (In(Tail(d)) \o r) = <<>> \o (In(d) \o r)
    <3>1. d \in Seq(Frag) /\ d # <<>>
      BY <1>1, <1>5
    <3> HIDE DEF d
    <3> QED BY <2>1, <3>1, TakeFlow
  <2>6. got' \o LeftOf(worker', data', parser', call'.queue, f) = got \o LeftOf(worker, data, parser, call.queue, f)
    BY <1>1, <2>3, <2>4, <2>5, Zenon
  <2>7. call'.todo = call.todo /\ call'.num = call.num /\ call'.part = call.part
    BY <1>1
  <2> QED BY <1>1, <1>4, <2>6, <2>7, ExactStays DEF f
<1>11. ExactThen'
  BY <1>1, ThenStays
<1> QED BY <1>6, <1>7, <1>8, <1>9, <1>10, <1>11 DEF JournalInv

(* The record at a position that NextRecord gives, for any fragment: it is *)
(* in the fragment, and fits into its cluster.                             *)
LEMMA NextRecordType ==
  ASSUME NEW frag \in Frag, NEW c, NEW at \in Nat \ {0}, NEW q, q = NextRecord(frag, at, c), q # 0
  PROVE  q \in DOMAIN frag /\ frag[q].usn \in Nat /\ q + frag[q].len \in Nat \ {0}
PROOF
<1> DEFINE stops == {k \in at .. Len(frag) : Fails(frag, k) \/ Fits(frag, k, c)}
<1>1. q = IF stops = {} \/ Fails(frag, Min(stops)) THEN 0 ELSE Min(stops)
  BY DEF NextRecord
<1>2. stops \subseteq 1 .. Len(frag) /\ stops \subseteq Nat
  BY DEF Frag
<1>3. stops # {} /\ q = Min(stops)
  BY <1>1
<1> HIDE DEF stops
<1>4. q \in 1 .. Len(frag)
  BY <1>2, <1>3, MinOf
<1>5. \A x \in Cell : x.usn \in Nat /\ x.len \in Nat
  BY DEF Cell
<1>6. q \in DOMAIN frag /\ frag[q] \in Cell /\ q \in Nat \ {0}
  BY <1>4 DEF Frag
<1>7. frag[q].usn \in Nat /\ frag[q].len \in Nat
  BY <1>5, <1>6
<1> QED BY <1>6, <1>7

(* A record is found, or none any more.                                    *)
LEMMA ScanStepInv ==
  ASSUME JournalInv, phase \in {"journal", "again"}, Scan, usnrecords' = usnrecords
  PROVE  JournalInv'
PROOF
<1> DEFINE q == NextRecord(parser.frag, parser.at, ClusterCells(call.part))
           frag == parser.frag
<1>1. /\ parser.pc = "scan"
      /\ job' = job /\ phase' = phase /\ call' = call /\ worker' = worker /\ data' = data
      /\ \/ q = 0 /\ parser' = [NoParse EXCEPT !.pc = "range"] /\ got' = got
         \/ q # 0 /\ parser' = [parser EXCEPT !.at = q + parser.frag[q].len] /\ got' = Append(got, parser.frag[q].usn)
  BY DEF Scan
<1>2. /\ worker \in [pc : {"idle", "send", "closed"}, frags : Seq(Frag)] /\ data \in Seq(Frag)
      /\ parser \in [pc : {"idle", "range", "scan"}, frag : Frag, at : Nat] /\ got \in Seq(Nat)
  BY DEF JournalInv, Kinds
<1>3. call.queue # <<>> /\ parser.at # 0
  BY <1>1 DEF JournalInv, Shape
<1>4. PICK p \in Loaded : call.part = p /\ Tail(call.queue) \in Seq(Held(p))
  BY <1>3, AtWork
<1>5. frag \in Frag /\ parser.at \in Nat \ {0}
  BY <1>2, <1>3
<1>6. q # 0 => q \in DOMAIN frag /\ frag[q].usn \in Nat /\ q + frag[q].len \in Nat \ {0}
  BY <1>5, NextRecordType
<1>7. Formed => WellAt(ClusterCells(p))
  BY <1>4 DEF JournalInv, Well
<1>8. Formed =>
        /\ q = 0 => RecordsFrom(frag, parser.at) = <<>>
        /\ q # 0 => /\ Boundary(frag, q + frag[q].len)
                    /\ RecordsFrom(frag, parser.at) = <<frag[q].usn>> \o RecordsFrom(frag, q + frag[q].len)
  <2> SUFFICES ASSUME Formed
               PROVE  /\ q = 0 => RecordsFrom(frag, parser.at) = <<>>
                      /\ q # 0 => /\ Boundary(frag, q + frag[q].len)
                                  /\ RecordsFrom(frag, parser.at) = <<frag[q].usn>> \o RecordsFrom(frag, q + frag[q].len)
    OBVIOUS
  <2>1. WellFormed(frag, ClusterCells(p)) /\ Boundary(frag, parser.at)
    BY <1>1, <1>7 DEF WellAt
  <2>2. q = NextRecord(frag, parser.at, ClusterCells(p))
    BY <1>4
  <2> DEFINE at == parser.at
             c  == ClusterCells(p)
  <2> HIDE DEF q, frag, at, c
  <2> QED BY <1>5, <2>1, <2>2, ScanStep DEF at, c
<1> DEFINE to == q + frag[q].len
           u  == frag[q].usn
<1>9. \/ q = 0 /\ parser' = [pc |-> "range", frag |-> <<>>, at |-> 0] /\ got' = got
      \/ q # 0 /\ parser' = [pc |-> "scan", frag |-> frag, at |-> to] /\ got' = Append(got, u)
           /\ to \in Nat \ {0} /\ u \in Nat
  <2>1. CASE q = 0
    BY <1>1, <2>1 DEF NoParse
  <2>2. CASE q # 0
    BY <1>1, <1>2, <1>6, <2>2
  <2> QED BY <2>1, <2>2
<1> HIDE DEF q, frag, to, u
<1>10. Kinds'
  <2>1. <<>> \in Frag
    BY DEF Frag
  <2>2. parser' \in [pc : {"idle", "range", "scan"}, frag : Frag, at : Nat]
    BY <1>5, <1>9, <2>1
  <2>3. got' \in Seq(Nat)
    <3>1. CASE got' = got
      BY <1>2, <3>1
    <3>2. CASE got' = Append(got, u) /\ u \in Nat
      BY <1>2, <3>2
    <3> QED BY <1>9, <3>1, <3>2
  <2> QED BY <1>1, <1>2, <1>3, <2>2, <2>3, KindsStay
<1>11. Shape' /\ Bounded'
  <2>1. parser'.pc \in {"range", "scan"} /\ (parser'.pc = "range" => parser'.frag = <<>> /\ parser'.at = 0)
        /\ (parser'.pc = "scan" => parser'.at # 0)
    BY <1>9
  <2> QED BY <1>1, <1>3, <2>1 DEF JournalInv, Shape, Bounded
<1>12. Well'
  <2>1. Loaded' = Loaded /\ (Formed' <=> Formed) /\ \A x : ClusterCells(x)' = ClusterCells(x)
    BY <1>1, SameJournals, SameRecords
  <2> SUFFICES ASSUME Formed
               PROVE  WellAt(ClusterCells(p))'
    BY <1>1, <1>4, <2>1 DEF Well
  <2>2. \/ parser'.pc # "scan"
        \/ WellFormed(parser'.frag, ClusterCells(p)) /\ Boundary(parser'.frag, parser'.at)
    <3>1. CASE q = 0
      BY <1>9, <3>1
    <3>2. CASE q # 0
      <4>1. parser'.frag = frag /\ parser'.at = to
        BY <1>9, <3>2
      <4>2. WellFormed(frag, ClusterCells(p))
        BY <1>1, <1>7 DEF WellAt, frag
      <4>3. Boundary(frag, to)
        BY <1>8, <3>2 DEF to
      <4> QED BY <4>1, <4>2, <4>3
    <3> QED BY <3>1, <3>2
  <2> QED BY <1>1, <1>7, <2>1, <2>2 DEF WellAt
<1>13. ExactNow'
  <2> DEFINE f == InJournal(p)
             r == In(data) \o (In(worker.frags) \o FlatMap(f, NotBegun(worker, call.queue)))
  <2>1. LeftOf(worker, data, parser, call.queue, f) = RecordsFrom(frag, parser.at) \o r
    <3>1. Scanning(parser) = RecordsFrom(frag, parser.at)
      BY <1>1 DEF Scanning, frag
    <3> QED BY <3>1, Zenon DEF LeftOf
  <2>2. LeftOf(worker', data', parser', call'.queue, f) = Scanning(parser') \o r
    BY <1>1, Zenon DEF LeftOf
  <2>3. r \in Seq(Nat)
    <3>1. NotBegun(worker, call.queue) = Tail(call.queue)
      BY <1>1 DEF NotBegun, JournalInv, Shape
    <3> DEFINE t == FlatMap(f, Tail(call.queue))
               w == worker.frags
    <3>2. f \in Maps(Held(p), Seq(Nat))
      BY RecordsOfFlat DEF JournalInv, Kinds
    <3> HIDE DEF f
    <3>3. t \in Seq(Nat)
      BY <1>4, <3>2, FlatMapType
    <3>4. w \in Seq(Frag)
      BY <1>2
    <3> HIDE DEF t, w
    <3>5. In(w) \in Seq(Nat) /\ In(data) \in Seq(Nat)
      BY <1>2, <3>4, InType
    <3> DEFINE wt == In(w) \o t
    <3>6. wt \in Seq(Nat)
      BY <3>3, <3>5, Joined
    <3> HIDE DEF wt
    <3>7. In(data) \o wt \in Seq(Nat)
      BY <3>5, <3>6, Joined
    <3> QED BY <3>1, <3>7, Zenon DEF wt, w, t
  <2> HIDE DEF r, f
  <2>4. ASSUME Formed
        PROVE  got' \o LeftOf(worker', data', parser', call'.queue, f) = got \o LeftOf(worker, data, parser, call.queue, f)
    <3>1. CASE q = 0
      <4>1. Scanning(parser') = <<>> /\ got' = got
        BY <1>9, <3>1 DEF Scanning
      <4>2. RecordsFrom(frag, parser.at) = <<>>
        BY <1>8, <2>4, <3>1
      <4> QED BY <2>1, <2>2, <4>1, <4>2, Zenon
    <3>2. CASE q # 0
      <4> DEFINE s == RecordsFrom(frag, to)
      <4>1. Scanning(parser') = s /\ got' = Append(got, u) /\ u \in Nat
        BY <1>9, <3>2 DEF Scanning
      <4>2. RecordsFrom(frag, parser.at) = <<u>> \o s
        BY <1>8, <2>4, <3>2 DEF u, to
      <4>3. s \in Seq(Nat)
        BY <1>5, RecordsFromAlong
      <4> HIDE DEF s
      <4>4. Append(got, u) \o (s \o r) = got \o ((<<u>> \o s) \o r)
        <5>1. Delivers(got, u, s, r)
          BY <1>2, <2>3, <4>1, <4>3, ScanFlow
        <5> QED BY <5>1, Zenon DEF Delivers
      <4> QED BY <2>1, <2>2, <4>1, <4>2, <4>4, Zenon
    <3> QED BY <3>1, <3>2
  <2>5. call'.todo = call.todo /\ call'.num = call.num /\ call'.part = call.part
    BY <1>1
  <2> QED BY <1>1, <1>4, <2>4, <2>5, ExactStays DEF f
<1>14. ExactThen'
  BY <1>1, ThenStays
<1> QED BY <1>10, <1>11, <1>12, <1>13, <1>14 DEF JournalInv
(* A journal is done: nothing is left of it.                               *)
LEMMA JournalDoneStep ==
  ASSUME JournalInv, phase \in {"journal", "again"}, JournalDone, usnrecords' = usnrecords
  PROVE  JournalInv'
PROOF
<1>1. /\ parser.pc = "range" /\ data = <<>> /\ worker.pc = "closed"
      /\ call' = [call EXCEPT !.queue = Tail(@)] /\ worker' = Idle /\ parser' = NoParse
      /\ job' = job /\ phase' = phase /\ data' = data /\ got' = got
  BY DEF JournalDone
<1>2. worker.frags = <<>> /\ call.queue # <<>> /\ got \in Seq(Nat)
  BY <1>1 DEF JournalInv, Shape, Kinds
<1>3. PICK p \in Loaded :
        /\ call.part = p /\ call.todo \subseteq Loaded /\ call.queue \in Seq(Held(p))
        /\ call = [todo |-> call.todo, num |-> call.num, part |-> p, queue |-> call.queue]
        /\ Tail(call.queue) \in Seq(Held(p))
  BY <1>2, AtWork
<1>4. call' = [todo |-> call.todo, num |-> call.num, part |-> p, queue |-> Tail(call.queue)]
  BY <1>1, <1>3
<1>5. Kinds'
  <2>1. <<>> \in Frag /\ <<>> \in Seq(Frag)
    BY DEF Frag
  <2>2. worker' \in [pc : {"idle", "send", "closed"}, frags : Seq(Frag)]
    BY <1>1, <2>1 DEF Idle
  <2>3. parser' \in [pc : {"idle", "range", "scan"}, frag : Frag, at : Nat]
    BY <1>1, <2>1 DEF NoParse
  <2> QED BY <1>1, <1>2, <2>1, <2>2, <2>3, KindsStay
<1>6. Shape'
  <2>1. phase \notin {"journal", "again", "panic", "hang"} => call.queue = <<>>
    BY DEF JournalInv, Shape
  <2> QED BY <1>1 DEF Shape, Idle, NoParse
<1>7. Bounded'
  <2> SUFFICES ASSUME call'.queue # <<>> PROVE Len(data') <= Max({1, Head(call'.queue).lsize})
    BY DEF Bounded
  <2> DEFINE t == Tail(call.queue)
             n == Head(t).lsize
  <2>1. t # <<>> /\ t \in Seq(Held(p)) /\ call'.queue = t
    BY <1>3, <1>4
  <2> HIDE DEF t
  <2>2. Head(t) \in Held(p)
    BY <2>1
  <2>3. n \in Nat
    BY <2>2, JournalsType DEF JournalInv, Kinds
  <2> HIDE DEF n
  <2>4. Max({1, n}) \in Nat
    BY <2>3, Capacity
  <2>5. Len(data') = 0
    BY <1>1
  <2> QED BY <2>1, <2>4, <2>5 DEF n
<1>8. Well'
  BY <1>1 DEF Well, WellAt, Idle, NoParse
<1>9. ExactNow'
  <2>1. /\ NotBegun(worker', call'.queue) = NotBegun(worker, call.queue) /\ worker'.frags = worker.frags
        /\ Scanning(parser') = Scanning(parser)
    BY <1>1, <1>2, <1>4 DEF NotBegun, Scanning, Idle, NoParse
  <2>2. got' \o LeftOf(worker', data', parser', call'.queue, InJournal(p))
          = got \o LeftOf(worker, data, parser, call.queue, InJournal(p))
    BY <1>1, <2>1, Zenon DEF LeftOf
  <2>3. call'.todo = call.todo /\ call'.num = call.num /\ call'.part = call.part
    BY <1>3, <1>4
  <2> QED BY <1>1, <1>3, <2>2, <2>3, ExactStays
<1>10. ExactThen'
  BY <1>1, ThenStays
<1> QED BY <1>5, <1>6, <1>7, <1>8, <1>9, <1>10 DEF JournalInv

(* The next partition is taken, with what its journals hold, if it is      *)
(* wanted.                                                                 *)
LEMMA NextPartitionStep ==
  ASSUME JournalInv, phase \in {"journal", "again"}, NEW p \in call.todo, NextPartition(p), usnrecords' = usnrecords
  PROVE  JournalInv'
PROOF
<1>1. /\ call.queue = <<>> /\ job' = job /\ worker' = worker /\ data' = data /\ parser' = parser /\ got' = got
      /\ \/ phase' = "panic" /\ call' = call
         \/ /\ call' = [call EXCEPT !.todo = @ \ {p}, !.part = p,
                                    !.queue = IF Wanted(p, call.num) THEN Journals(p) ELSE <<>>]
            /\ phase' = phase
  BY DEF NextPartition
<1>2. worker = Idle /\ data = <<>> /\ parser = NoParse
  <2>1. parser.pc = "idle"
    BY <1>1 DEF JournalInv, Shape
  <2> QED BY <2>1, AtRest
<1>3. PICK old \in {0} \cup Loaded : CallOf(old)
  BY DEF JournalInv, Kinds
<1>4. /\ call.todo \subseteq Loaded /\ call.part = old /\ p \in Loaded
      /\ call = [todo |-> call.todo, num |-> call.num, part |-> call.part, queue |-> call.queue]
  BY <1>3 DEF CallOf
<1>5. Loaded' = Loaded /\ args' = args /\ \A x : Held(x)' = Held(x) /\ ClusterCells(x)' = ClusterCells(x)
  BY <1>1, SameJournals
<1>6. OfPart' = OfPart /\ (Formed' <=> Formed) /\ \A x : InJournal(x)' = InJournal(x)
  BY <1>1, SameRecords
<1>7. Journals(p) \in Seq(Held(p)) /\ job \in Jobs /\ phase \in Phases
  BY <1>4, JournalsType DEF JournalInv, Kinds
<1> DEFINE q == IF Wanted(p, call.num) THEN Journals(p) ELSE <<>>
<1>8. q \in Seq(Held(p))
  BY <1>7
<1>9. CASE phase' = "panic" /\ call' = call
  <2>1. CallOf(old)'
    BY <1>3, <1>5, <1>9 DEF CallOf
  <2>2. Kinds'
    BY <1>1, <1>3, <1>5, <1>9, <2>1 DEF JournalInv, Kinds, Phases, After
  <2>3. Shape' /\ Bounded'
    BY <1>1, <1>9 DEF JournalInv, Shape, Bounded
  <2>4. Well'
    BY <1>1, <1>2 DEF Well, WellAt, Idle, NoParse
  <2>5. ExactNow' /\ ExactThen'
    BY <1>9 DEF ExactNow, ExactThen, After
  <2> QED BY <2>2, <2>3, <2>4, <2>5 DEF JournalInv
<1>10. CASE phase' = phase /\ call' = [call EXCEPT !.todo = @ \ {p}, !.part = p, !.queue = q]
  <2>1. call' = [todo |-> call.todo \ {p}, num |-> call.num, part |-> p, queue |-> q]
    BY <1>4, <1>10
  <2> HIDE DEF q
  <2>2. CallOf(p)'
    BY <1>4, <1>5, <1>8, <2>1 DEF CallOf
  <2>3. Kinds'
    BY <1>1, <1>4, <1>5, <1>10, <2>2 DEF JournalInv, Kinds
  <2>4. Shape'
    BY <1>1, <1>2, <1>10 DEF Shape, Idle, NoParse
  <2>5. Bounded'
    <3> SUFFICES ASSUME q # <<>> PROVE Len(data') <= Max({1, Head(q).lsize})
      BY <2>1 DEF Bounded
    <3> DEFINE n == Head(q).lsize
    <3>1. Head(q) \in Held(p)
      BY <1>8
    <3>2. n \in Nat
      BY <1>4, <1>7, <3>1, JournalsType
    <3> HIDE DEF n
    <3>3. Max({1, n}) \in Nat
      BY <3>2, Capacity
    <3>4. Len(data') = 0
      BY <1>1, <1>2
    <3>5. Len(data') <= Max({1, n})
      BY <3>3, <3>4
    <3> QED BY <3>5 DEF n
  <2>6. Well'
    BY <1>1, <1>2 DEF Well, WellAt, Idle, NoParse
  <2>7. ExactNow'
    <3> SUFFICES ASSUME phase = "journal", args.usnjrnl, Formed
                 PROVE  /\ call.num = args.partition
                        /\ \E order \in SetToSeqs({x \in Loaded \ (call.todo \ {p}) : Wanted(x, args.partition)}) :
                             got \o LeftOf(worker, data, parser, q, InJournal(p)) = FlatMap(OfPart, order)
      BY <1>1, <1>4, <1>5, <1>6, <1>10, <2>1 DEF ExactNow
    <3>1. /\ call.num = args.partition
          /\ \E order \in SetToSeqs({x \in Loaded \ call.todo : Wanted(x, args.partition)}) :
               got \o LeftOf(worker, data, parser, call.queue, InJournal(old)) = FlatMap(OfPart, order)
      BY <1>4 DEF JournalInv, ExactNow
    <3> DEFINE S == {x \in Loaded \ call.todo : Wanted(x, args.partition)}
    <3>2. PICK order \in SetToSeqs(S) :
                 got \o LeftOf(worker, data, parser, call.queue, InJournal(old)) = FlatMap(OfPart, order)
      BY <3>1
    <3>3. LeftOf(worker, data, parser, call.queue, InJournal(old)) = <<>>
      BY <1>1, <1>2, NothingLeft
    <3>4. got = FlatMap(OfPart, order)
      <4>1. got \o <<>> = got
        BY Nothing DEF JournalInv, Kinds
      <4> QED BY <3>2, <3>3, <4>1, Zenon
    <3>5. CASE ~Wanted(p, call.num)
      <4>1. {x \in Loaded \ (call.todo \ {p}) : Wanted(x, args.partition)} = S
        BY <1>4, <3>1, <3>5
      <4>2. q = <<>>
        BY <3>5 DEF q
      <4>3. LeftOf(worker, data, parser, q, InJournal(p)) = <<>>
        BY <1>2, <4>2, NothingLeft
      <4>4. got \o LeftOf(worker, data, parser, q, InJournal(p)) = FlatMap(OfPart, order)
        <5>1. got \o <<>> = got
          BY Nothing DEF JournalInv, Kinds
        <5> QED BY <3>4, <4>3, <5>1, Zenon
      <4> QED BY <3>1, <4>1, <4>4
    <3>6. CASE Wanted(p, call.num)
      <4> DEFINE a == Append(order, p)
      <4>1. {x \in Loaded \ (call.todo \ {p}) : Wanted(x, args.partition)} = S \cup {p} /\ p \notin S
        BY <1>4, <3>1, <3>6
      <4>2. IsFiniteSet(S)
        BY <1>7, LoadedFinite, FS_Subset
      <4>3. order \in Seq(S) /\ a \in SetToSeqs(S \cup {p})
        BY <3>2, <4>1, <4>2, OrderAppend
      <4>4. order \in Seq(Loaded)
        <5>1. S \subseteq Loaded
          OBVIOUS
        <5> HIDE DEF S
        <5> QED BY <4>3, <5>1
      <4>5. FlatMap(OfPart, a) = FlatMap(OfPart, order) \o FlatMap(InJournal(p), Journals(p))
        BY <1>4, <1>7, <4>4, PartitionFlow
      <4>6. LeftOf(worker, data, parser, q, InJournal(p)) = FlatMap(InJournal(p), Journals(p))
        <5> DEFINE f == InJournal(p)
                   t == FlatMap(f, Journals(p))
        <5>1. Scanning(parser) = <<>> /\ NotBegun(worker, q) = Journals(p) /\ worker.frags = <<>>
          BY <1>2, <3>6 DEF Scanning, NotBegun, Idle, NoParse, q
        <5>2. LeftOf(worker, data, parser, q, f) = <<>> \o (In(<<>>) \o (In(<<>>) \o t))
          BY <1>2, <5>1, Zenon DEF LeftOf
        <5>3. t \in Seq(Nat)
          <6>1. f \in Maps(Held(p), Seq(Nat))
            BY <1>4, <1>7, RecordsOfFlat
          <6> HIDE DEF f
          <6> QED BY <1>7, <6>1, FlatMapType
        <5> HIDE DEF t, f
        <5>4. In(<<>>) = <<>> /\ <<>> \o t = t
          BY <5>3, InEmpty, Nothing
        <5>5. LeftOf(worker, data, parser, q, f) = t
          BY <5>2, <5>4, Zenon
        <5> QED BY <5>5 DEF t, f
      <4>7. got \o LeftOf(worker, data, parser, q, InJournal(p)) = FlatMap(OfPart, a)
        BY <3>4, <4>5, <4>6, Zenon
      <4> HIDE DEF S, a
      <4> QED BY <3>1, <4>1, <4>3, <4>7
    <3> QED BY <3>5, <3>6
  <2>8. ExactThen'
    BY <1>1, <1>10, ThenStays
  <2> QED BY <2>3, <2>4, <2>5, <2>6, <2>7, <2>8 DEF JournalInv
<1> QED BY <1>1, <1>9, <1>10

-----------------------------------------------------------------------------
(* The theorems *)

(* Every step of a call keeps the invariant,                               *)
LEMMA ProcessJrnlStep ==
  ASSUME JournalInv, phase \in {"journal", "again"}, ProcessJrnl, usnrecords' = usnrecords
  PROVE  JournalInv'
PROOF
BY NextPartitionStep, StartJournalStep, SendStep, CloseDataStep, TakeStep, ScanStepInv, JournalDoneStep DEF ProcessJrnl

(* and so does every step of main.                                         *)
LEMMA NextJournalInv == JournalInv /\ [Next]_vars => JournalInv'
PROOF
<1> SUFFICES ASSUME JournalInv, [Next]_vars PROVE JournalInv'
  OBVIOUS
<1>1. CASE UNCHANGED vars
  <2>1. job' = job /\ phase' = phase /\ UNCHANGED journalVars /\ usnrecords' = usnrecords
    BY <1>1 DEF vars
  <2>2. call' = call /\ worker' = worker /\ data' = data /\ parser' = parser /\ got' = got
    BY <2>1 DEF journalVars
  <2>3. Loaded' = Loaded /\ args' = args /\ \A p : Held(p)' = Held(p) /\ ClusterCells(p)' = ClusterCells(p)
    BY <2>1, SameJournals
  <2>4. OfPart' = OfPart /\ (Formed' <=> Formed) /\ \A p : InJournal(p)' = InJournal(p)
    BY <2>1, SameRecords
  <2>5. Kinds'
    <3>1. PICK p \in {0} \cup Loaded : CallOf(p)
      BY DEF JournalInv, Kinds
    <3>2. CallOf(p)'
      BY <2>2, <2>3, <3>1 DEF CallOf
    <3> QED BY <2>1, <2>2, <2>3, <3>1, <3>2 DEF JournalInv, Kinds
  <2>6. Shape' /\ Bounded'
    BY <2>1, <2>2 DEF JournalInv, Shape, Bounded
  <2>7. Well'
    BY <2>2, <2>3, <2>4 DEF JournalInv, Well, WellAt
  <2>8. ExactNow'
    BY <2>1, <2>2, <2>3, <2>4 DEF JournalInv, ExactNow
  <2>9. ExactThen'
    BY <2>1, <2>3, <2>4 DEF JournalInv, ExactThen
  <2> QED BY <2>5, <2>6, <2>7, <2>8, <2>9 DEF JournalInv
<1>2. CASE Start
  <2>1. call.queue = <<>>
    BY <1>2 DEF Start, JournalInv, Shape
  <2> QED BY <1>2, <2>1, CallStep DEF Start
<1>3. CASE Again
  <2>1. call.queue = <<>>
    BY <1>3 DEF Again, JournalInv, Shape
  <2> QED BY <1>3, <2>1, CallStep DEF Again, After
<1>4. CASE First
  BY <1>4, FirstStep
<1>5. CASE Quiet
  BY <1>5, QuietStep DEF Quiet
<1>6. CASE /\ phase \in {"journal", "again"} /\ ProcessJrnl
           /\ UNCHANGED <<logfile, shadowVars, unallocatedVars, selectionVars, usnrecords>>
  BY <1>6, ProcessJrnlStep
<1> QED BY <1>1, <1>2, <1>3, <1>4, <1>5, <1>6, NextQuiet

(* In every reachable state what the call has found and what is left of    *)
(* its goroutines and its partitions are together the records it must find *)
(* (ProcessJrnl, AsyncWorker, AsyncProcess).                               *)
THEOREM JournalInvHolds == Spec => []JournalInv
PROOF
<1>1. Init => JournalInv
  BY InitJournalInv
<1>2. JournalInv /\ [Next]_vars => JournalInv'
  BY NextJournalInv
<1> QED BY <1>1, <1>2, PTL DEF Spec

(* Main has every record of the journals once and in order, whatever the   *)
(* order of the goroutines, the capacity of the channel and the cutting    *)
(* into fragments: for every evidence of which the fragments are those of  *)
(* a journal (ProcessJrnl).                                                *)
THEOREM JournalExactHolds == Spec => []JournalExact
PROOF
<1>1. JournalInv => JournalExact
  <2> SUFFICES ASSUME JournalInv, args.usnjrnl, phase \in {"logfile", "vss", "unallocated", "clusters", "loop", "done"}, Formed
               PROVE  Found(usnrecords, args.partition)
    BY DEF JournalExact
  <2>1. PICK order \in SetToSeqs({x \in Loaded : Wanted(x, args.partition)}) : usnrecords = FlatMap(OfPart, order)
    BY DEF JournalInv, ExactThen, After
  <2>2. job \in Jobs
    BY DEF JournalInv, Kinds
  <2> DEFINE num == args.partition
             records == usnrecords
  <2> HIDE DEF num, records
  <2>3. Found(records, num)
    BY <2>1, <2>2, FoundFlat DEF num, records
  <2> QED BY <2>3 DEF num, records
<1> QED BY <1>1, JournalInvHolds, PTL

(* The goroutines run together or not at all, and the channel never holds  *)
(* more than its capacity, or the one fragment that is handed over         *)
(* (AsyncWorker, AsyncProcess).                                            *)
THEOREM JournalTypeHolds == Spec => []JournalTypeOK
PROOF
<1>1. JournalInv => JournalTypeOK
  <2> SUFFICES ASSUME JournalInv PROVE JournalTypeOK
    OBVIOUS
  <2>1. PICK p \in {0} \cup Loaded : CallOf(p)
    BY DEF JournalInv, Kinds
  <2>2. call.todo \subseteq Loaded /\ call.part \in {0} \cup Loaded
    BY <2>1 DEF CallOf
  <2>3. worker.pc \in {"idle", "send", "closed"} /\ parser.pc \in {"idle", "range", "scan"}
    BY DEF JournalInv, Kinds
  <2>4. parser.pc = "idle" => worker = Idle /\ data = <<>>
    BY AtRest
  <2> QED BY <2>2, <2>3, <2>4 DEF JournalTypeOK, JournalInv, Bounded
<1> QED BY <1>1, JournalInvHolds, PTL
-----------------------------------------------------------------------------
(* What the filters leave *)

RecordsAt(p) == DOMAIN job.parts[p].records

\* Filters, each with its keys, are lists.
Lists(filters) ==
  /\ filters \in Seq(ToSet(filters))
  /\ \A n \in DOMAIN filters : filters[n].keys \in Seq(ToSet(filters[n].keys))

(* A sequence is one of its own elements.                                  *)
LEMMA OwnElements ==
  ASSUME NEW S, NEW s \in Seq(S)
  PROVE  s \in Seq(ToSet(s)) /\ ToSet(s) \subseteq S /\ ToSet(s) = Range(s)
PROOF
<1>1. DOMAIN s = 1 .. Len(s) /\ Len(s) \in Nat /\ s = [i \in 1 .. Len(s) |-> s[i]] /\ \A i \in 1 .. Len(s) : s[i] \in S
  OBVIOUS
<1>2. \A i \in 1 .. Len(s) : s[i] \in ToSet(s)
  BY <1>1 DEF ToSet
<1>3. s \in Seq(ToSet(s))
  BY <1>1, <1>2
<1> QED BY <1>1, <1>3 DEF ToSet, Range

(* What a filter leaves are records it was given.                          *)
LEMMA ExecuteType ==
  ASSUME NEW D, NEW sel \in Seq(D), NEW p, NEW f, f.keys \in Seq(ToSet(f.keys))
  PROVE  Execute(f, p, sel) \in Seq(D)
PROOF
<1> DEFINE kept(k) == Keep(sel, {n \in ToSet(sel) : Keeps(f.kind, f.keys[k], p, n)})
           ss == [k \in DOMAIN f.keys |-> kept(k)]
           V == Seq(D)
<1>1. \A k : kept(k) \in V
  <2> SUFFICES ASSUME NEW k PROVE kept(k) \in V
    OBVIOUS
  <2> DEFINE T == {n \in ToSet(sel) : Keeps(f.kind, f.keys[k], p, n)}
  <2> HIDE DEF T
  <2>1. Keep(sel, T) \in Seq(D \cap T)
    BY KeepType
  <2>2. Keep(sel, T) \in Seq(D)
    BY <2>1
  <2> QED BY <2>2 DEF T
<1> HIDE DEF kept, V
<1>2. DOMAIN f.keys = 1 .. Len(f.keys) /\ Len(f.keys) \in Nat
  OBVIOUS
<1>3. ss \in Seq(V)
  BY <1>1, <1>2
<1>4. FlattenSeq(ss) \in Seq(D)
  <2> HIDE DEF ss
  <2> QED BY <1>3, FlattenType DEF V
<1> QED BY <1>4 DEF Execute, kept

\* left is what each of the filters leaves.
Leaves(left, p, filters) ==
  /\ left \in [0 .. Len(filters) -> Seq(RecordsAt(p))]
  /\ left[0] = [n \in RecordsAt(p) |-> n]
  /\ \A k \in 1 .. Len(filters) : left[k] = Execute(filters[k], p, left[k - 1])

(* The recursive function of Stages is that.                               *)
LEMMA StagesAre ==
  ASSUME job \in Jobs, NEW p \in Loaded, NEW filters, Lists(filters)
  PROVE  Leaves(Stages(p, filters), p, filters)
PROOF
<1> DEFINE D == RecordsAt(p)
           N == Len(filters)
           T == Seq(D)
           base == [n \in D |-> n]
           step == [k \in 1 .. N |-> [sel \in T |-> Execute(filters[k], p, sel)]]
<1>1. N \in Nat /\ DOMAIN filters = 1 .. N /\ \A n \in 1 .. N : filters[n].keys \in Seq(ToSet(filters[n].keys))
  BY DEF Lists
<1>2. base \in T
  <2>1. job.parts[p].records \in Seq(ToSet(job.parts[p].records))
    BY RecordTypes
  <2>2. D = 1 .. Len(job.parts[p].records) /\ Len(job.parts[p].records) \in Nat
    BY <2>1 DEF RecordsAt
  <2> HIDE DEF D
  <2> QED BY <2>2
<1>3. \A k \in 1 .. N : \A sel \in T : Execute(filters[k], p, sel) \in T
  <2> SUFFICES ASSUME NEW k \in 1 .. N, NEW sel \in T PROVE Execute(filters[k], p, sel) \in T
    OBVIOUS
  <2> DEFINE f == filters[k]
  <2>1. f.keys \in Seq(ToSet(f.keys))
    BY <1>1
  <2> HIDE DEF f, D
  <2>2. Execute(f, p, sel) \in Seq(D)
    BY <2>1, ExecuteType
  <2> QED BY <2>2 DEF f
<1> HIDE DEF T
<1>4. step \in StepFunctions(N, T)
  BY <1>3 DEF StepFunctions
<1>5. PICK g : Solution(N, T, base, step, g)
  <2> HIDE DEF N, base, step
  <2> QED BY <1>1, <1>2, <1>4, Recursion
<1> DEFINE Is(h) == h = [k \in 0 .. N |-> IF k = 0 THEN base ELSE Execute(filters[k], p, h[k - 1])]
<1>6. Is(g)
  <2>1. g \in [0 .. N -> T] /\ g[0] = base /\ \A k \in 1 .. N : g[k] = step[k][g[k - 1]]
    BY <1>5 DEF Solution
  <2>2. \A k \in 1 .. N : k - 1 \in 0 .. N /\ g[k - 1] \in T
    <3>1. \A k \in 1 .. N : k - 1 \in 0 .. N
      BY <1>1
    <3> HIDE DEF N, base, step
    <3> QED BY <2>1, <3>1
  <2>3. \A k \in 1 .. N : g[k] = Execute(filters[k], p, g[k - 1])
    BY <2>1, <2>2
  <2>4. \A k \in 0 .. N : g[k] = IF k = 0 THEN base ELSE Execute(filters[k], p, g[k - 1])
    <3>1. \A k \in 0 .. N : k # 0 => k \in 1 .. N
      BY <1>1
    <3> QED BY <2>1, <2>3, <3>1
  <2> HIDE DEF N, base, step
  <2> QED BY <2>1, <2>4
<1> DEFINE h == CHOOSE x : Is(x)
<1>7. Is(h)
  <2> HIDE DEF Is
  <2> QED BY <1>6
<1>8. h = Stages(p, filters)
  BY DEF Stages, RecordsAt
<1>9. /\ h[0] = base
      /\ \A k \in 1 .. N : h[k] = Execute(filters[k], p, h[k - 1])
      /\ DOMAIN h = 0 .. N
  <2> HIDE DEF h, base
  <2>1. h = [k \in 0 .. N |-> IF k = 0 THEN base ELSE Execute(filters[k], p, h[k - 1])]
    BY <1>7
  <2> HIDE DEF Is
  <2>2. 0 \in 0 .. N /\ \A k \in 1 .. N : k \in 0 .. N /\ k # 0
    BY <1>1
  <2> HIDE DEF N
  <2>3. h[0] = base
    BY <2>1, <2>2
  <2>4. \A k \in 1 .. N : h[k] = Execute(filters[k], p, h[k - 1])
    BY <2>1, <2>2
  <2>5. DOMAIN h = 0 .. N
    BY <2>1
  <2> QED BY <2>3, <2>4, <2>5
<1>10. \A k \in 0 .. N : h[k] \in T
  <2> DEFINE I == {k \in 0 .. N : h[k] \in T}
  <2> HIDE DEF h, Is, N, base, step
  <2>1. 0 \in I
    BY <1>1, <1>2, <1>9
  <2>2. ASSUME NEW k \in 0 .. N - 1, k \in I PROVE k + 1 \in I
    <3>1. k + 1 \in 1 .. N /\ k + 1 \in 0 .. N /\ (k + 1) - 1 = k
      BY <1>1
    <3>2. h[k] \in T
      BY <2>2
    <3>3. Execute(filters[k + 1], p, h[k]) \in T
      BY <1>3, <3>1, <3>2
    <3>4. h[k + 1] = Execute(filters[k + 1], p, h[k])
      BY <1>9, <3>1
    <3> QED BY <3>1, <3>3, <3>4
  <2>3. 0 .. N \subseteq I
    <3> HIDE DEF I
    <3> QED BY <1>1, <2>1, <2>2, BoundedInduction
  <2> QED BY <2>3
<1> DEFINE H == Stages(p, filters)
<1>11. H[0] = base /\ (\A k \in 1 .. N : H[k] = Execute(filters[k], p, H[k - 1])) /\ DOMAIN H = 0 .. N /\ \A k \in 0 .. N : H[k] \in T
  <2> HIDE DEF h, base, Is, N, T
  <2> QED BY <1>8, <1>9, <1>10
<1>12. H \in [0 .. N -> T]
  <2>1. H = [k \in 0 .. N |-> H[k]]
    <3>1. h = [k \in 0 .. N |-> IF k = 0 THEN base ELSE Execute(filters[k], p, h[k - 1])]
      BY <1>7
    <3> DEFINE e(k) == IF k = 0 THEN base ELSE Execute(filters[k], p, h[k - 1])
    <3>2. h = [k \in 0 .. N |-> e(k)]
      BY <3>1
    <3> HIDE DEF h, e, N
    <3>3. h = [k \in 0 .. N |-> h[k]]
      BY <3>2
    <3> QED BY <3>3, <1>8
  <2> HIDE DEF H, N, T
  <2> QED BY <1>11, <2>1
<1> HIDE DEF H
<1> QED BY <1>11, <1>12 DEF Leaves, H, T

(* What all of them leave.                                                 *)
LEMMA ApplyFiltersType ==
  ASSUME job \in Jobs, NEW p \in Loaded, NEW filters, Lists(filters)
  PROVE  ApplyFilters(p, filters) \in Seq(RecordsAt(p))
PROOF
<1>1. Leaves(Stages(p, filters), p, filters)
  BY StagesAre
<1>2. Len(filters) \in 0 .. Len(filters)
  BY DEF Lists
<1> QED BY <1>1, <1>2 DEF Leaves, ApplyFilters
-----------------------------------------------------------------------------
(* The partitions that were selected and the tree of them *)

SelectedType ==
  /\ job \in Jobs /\ todo \subseteq Loaded /\ Lists(flm)
  /\ seen \in Seq([part : Loaded, sel : Seq(Nat)])
  /\ \A k \in DOMAIN seen : seen[k].sel \in Seq(RecordsAt(seen[k].part)) /\ seen[k].part \notin todo
  /\ \A i, k \in DOMAIN seen : i # k => seen[i].part # seen[k].part

\* Of the first n partitions: those with a root, the one the tree has, and the orphans.
Lone(s)   == {<<s.part, e>> : e \in {c \in DOMAIN Nodes(s) \ {5} : Nodes(s)[c].parref \notin DOMAIN Nodes(s)}}
Rooted(n) == {k \in 1 .. n : 5 \in DOMAIN Nodes(seen[k])}
RootOf(n) == IF Rooted(n) = {} THEN 0 ELSE seen[Max(Rooted(n))].part
LoneOf(n) == UNION {Lone(seen[k]) : k \in 1 .. n}

\* A partition is in the tree when it is reported.
Added == IF phase \in {"selected", "again"} THEN Len(seen) - 1 ELSE Len(seen)

Grown ==
  /\ tree = [root |-> tree.root, orphans |-> tree.orphans, printed |-> tree.printed]
  /\ tree.root \in {0} \cup {seen[k].part : k \in DOMAIN seen}
  /\ args.tree /\ phase \notin {"panic", "hang"} => tree.root = RootOf(Added) /\ tree.orphans = LoneOf(Added)

\* The loop begins with no partition, and what is printed is the tree there is.
Begun ==
  /\ phase \in {"start", "journal", "logfile", "vss", "unallocated", "clusters"} => seen = <<>>
  /\ phase \in {"selected", "again"} => seen # <<>>

Printed == phase \in {"loop", "done"} /\ args.showtree /\ seen # <<>> => tree.root # 0 /\ tree.printed = Show(tree)

SelectionInv == SelectedType /\ Grown /\ Begun /\ Printed

(* It holds at the start.                                                  *)
LEMMA InitSelectionInv == Init => SelectionInv
PROOF
<1> SUFFICES ASSUME Init PROVE SelectionInv
  OBVIOUS
<1>1. /\ job \in Jobs /\ phase = "start" /\ todo = Loaded /\ flm = args.filters /\ seen = <<>>
      /\ tree = [root |-> 0, orphans |-> {}, printed |-> {}]
  BY DEF Init, SelectionInit
<1>2. Lists(flm)
  BY <1>1, EvidenceAssumption DEF Lists, args
<1>3. SelectedType
  BY <1>1, <1>2 DEF SelectedType
<1>4. Len(seen) = 0 /\ Added = 0 /\ 1 .. 0 = {} /\ DOMAIN seen = {}
  BY <1>1 DEF Added
<1>5. RootOf(0) = 0 /\ LoneOf(0) = {}
  <2>1. Rooted(0) = {}
    BY <1>4 DEF Rooted
  <2> QED BY <1>4, <2>1 DEF RootOf, LoneOf
<1>6. Grown
  BY <1>1, <1>4, <1>5 DEF Grown
<1>7. Begun /\ Printed
  BY <1>1 DEF Begun, Printed
<1> QED BY <1>3, <1>6, <1>7 DEF SelectionInv

(* Nodes, orphans and what would be shown are of the evidence and of what  *)
(* was selected.                                                           *)
LEMMA SameNodes ==
  ASSUME job' = job, NEW s
  PROVE  Nodes(s)' = Nodes(s) /\ Lone(s)' = Lone(s) /\ RecordsAt(s)' = RecordsAt(s)
PROOF
<1>1. Nodes(s)' = Nodes(s)
  BY DEF Nodes, Rec
<1>2. Lone(s)' = Lone(s)
  BY <1>1 DEF Lone
<1> QED BY <1>1, <1>2 DEF RecordsAt

\* The nodes below the root, level by level, and what descend reaches of them.
Levels(nodes) ==
  LET level[k \in 0 .. Cardinality(DOMAIN nodes)] ==
        IF k = 0 THEN {5} ELSE UNION {Children(nodes, e) : e \in level[k - 1]}
  IN level
Reached(nodes) == UNION {Levels(nodes)[k] : k \in DOMAIN Levels(nodes)}

LEMMA DescendIs == \A p : Descend(p) = Reached(NodesOf(p))
PROOF BY DEF Descend, Reached, Levels

LEMMA SameShow ==
  ASSUME job' = job, seen' = seen, NEW t
  PROVE  Show(t)' = Show(t)
PROOF
<1>1. \A p : NodesOf(p)' = NodesOf(p)
  <2> SUFFICES ASSUME NEW p PROVE NodesOf(p)' = NodesOf(p)
    OBVIOUS
  <2>1. \A s : Nodes(s)' = Nodes(s)
    BY SameNodes
  <2> QED BY <2>1 DEF NodesOf
<1>2. \A p, e : ShowChildren(p, e)' = ShowChildren(p, e)
  BY <1>1 DEF ShowChildren
<1>3. Descend(t.root)' = Descend(t.root)
  <2>1. Descend(t.root) = Reached(NodesOf(t.root))
    BY DescendIs
  <2>2. Descend(t.root)' = Reached(NodesOf(t.root)')
    BY DEF Descend, Reached, Levels
  <2> QED BY <1>1, <2>1, <2>2
<1> QED BY <1>1, <1>2, <1>3 DEF Show

LEMMA SameTree ==
  ASSUME job' = job, seen' = seen, NEW n
  PROVE  RootOf(n)' = RootOf(n) /\ LoneOf(n)' = LoneOf(n)
PROOF
<1>1. \A s : Nodes(s)' = Nodes(s) /\ Lone(s)' = Lone(s)
  BY SameNodes
<1>2. Rooted(n)' = Rooted(n)
  BY <1>1 DEF Rooted
<1>3. LoneOf(n)' = LoneOf(n)
  BY <1>1 DEF LoneOf
<1> QED BY <1>2, <1>3 DEF RootOf

(* Steps before the loop, between its parts and behind it.                 *)
LEMMA AsideSelection ==
  ASSUME SelectionInv, job' = job, UNCHANGED <<todo, flm, seen, tree>>,
         \/ phase' = phase
         \/ phase' \in {"panic", "hang"}
         \/ phase = "selected" /\ phase' = "again"
         \/ phase = "loop" /\ phase' = "done"
         \/ seen = <<>> /\ phase \notin {"panic", "hang"} /\ phase' \notin {"selected", "again"}
  PROVE  SelectionInv'
PROOF
<1>1. todo' = todo /\ flm' = flm /\ seen' = seen /\ tree' = tree
  OBVIOUS
<1>2. Loaded' = Loaded /\ args' = args /\ \A p : RecordsAt(p)' = RecordsAt(p)
  BY SameNodes DEF Loaded, args
<1>3. SelectedType'
  BY <1>1, <1>2 DEF SelectionInv, SelectedType, Lists
<1>4. seen = <<>> => phase \notin {"selected", "again"}
  BY DEF SelectionInv, Begun
<1>5. phase' \notin {"panic", "hang"} => Added' = Added /\ phase \notin {"panic", "hang"}
  <2>1. CASE phase' = phase
    BY <1>1, <2>1 DEF Added
  <2>2. CASE phase' \in {"panic", "hang"}
    BY <2>2
  <2>3. CASE (phase = "selected" /\ phase' = "again") \/ (phase = "loop" /\ phase' = "done")
    BY <1>1, <2>3 DEF Added
  <2>4. CASE seen = <<>> /\ phase \notin {"panic", "hang"} /\ phase' \notin {"selected", "again"}
    BY <1>1, <1>4, <2>4 DEF Added
  <2> QED BY <2>1, <2>2, <2>3, <2>4
<1>6. Grown'
  <2>1. \A n : RootOf(n)' = RootOf(n) /\ LoneOf(n)' = LoneOf(n)
    BY SameTree
  <2>2. PICK n : n = Added
    OBVIOUS
  <2>3. args.tree /\ phase \notin {"panic", "hang"} => tree.root = RootOf(n) /\ tree.orphans = LoneOf(n)
    BY <2>2 DEF SelectionInv, Grown
  <2>4. args'.tree /\ phase' \notin {"panic", "hang"} =>
          Added' = n /\ tree'.root = RootOf(n)' /\ tree'.orphans = LoneOf(n)'
    BY <1>1, <1>2, <1>5, <2>1, <2>2, <2>3
  <2>5. args'.tree /\ phase' \notin {"panic", "hang"} => tree'.root = RootOf(Added)' /\ tree'.orphans = LoneOf(Added)'
    BY <2>4
  <2> QED BY <1>1, <2>5 DEF SelectionInv, Grown
<1>7. Begun'
  BY <1>1 DEF SelectionInv, Begun
<1>8. Printed'
  <2>1. Show(tree)' = Show(tree)
    BY <1>1, SameShow
  <2> QED BY <1>1, <1>2, <1>4, <2>1 DEF SelectionInv, Printed
<1> QED BY <1>3, <1>6, <1>7, <1>8 DEF SelectionInv

(* The filters stay a list when one is registered.                         *)
LEMMA RegisterLists ==
  ASSUME Lists(flm), NEW p
  PROVE  Lists(Register(p))
PROOF
<1> DEFINE f == [kind |-> "signature", keys |-> <<p>>]
           S == ToSet(flm) \cup {f}
           r == Append(flm, f)
<1>1. flm \in Seq(ToSet(flm)) /\ flm \in Seq(S) /\ f \in S
  BY DEF Lists
<1>2. /\ r \in Seq(S) /\ Len(r) = Len(flm) + 1 /\ Len(flm) \in Nat /\ r[Len(flm) + 1] = f
      /\ \A n \in 1 .. Len(flm) : r[n] = flm[n]
  <2> HIDE DEF f, S
  <2> QED BY <1>1
<1>3. f.keys \in Seq(ToSet(f.keys))
  <2>1. f.keys = <<p>> /\ <<p>> \in Seq({p})
    OBVIOUS
  <2> QED BY <2>1, OwnElements
<1> HIDE DEF f, r, S
<1>4. r \in Seq(ToSet(r))
  BY <1>2, OwnElements
<1>5. \A n \in DOMAIN r : r[n].keys \in Seq(ToSet(r[n].keys))
  <2> SUFFICES ASSUME NEW n \in DOMAIN r PROVE r[n].keys \in Seq(ToSet(r[n].keys))
    OBVIOUS
  <2>1. DOMAIN r = 1 .. Len(flm) + 1 /\ DOMAIN flm = 1 .. Len(flm)
    BY <1>1, <1>2
  <2>2. n = Len(flm) + 1 \/ n \in 1 .. Len(flm)
    BY <1>2, <2>1
  <2>3. \A k \in DOMAIN flm : flm[k].keys \in Seq(ToSet(flm[k].keys))
    BY DEF Lists
  <2> QED BY <1>2, <1>3, <2>1, <2>2, <2>3
<1>6. Lists(r)
  BY <1>4, <1>5 DEF Lists
<1> QED BY <1>6 DEF Register, f, r

(* A partition that is selected comes last.                                *)
LEMMA SelectStep ==
  ASSUME SelectionInv, phase = "loop", NEW p \in todo, Select(p)
  PROVE  SelectionInv'
PROOF
<1>1. job' = job /\ todo' = todo \ {p} /\ flm' = Register(p) /\ tree' = tree /\ p \in Loaded /\ todo \subseteq Loaded
  BY DEF Select, SelectionInv, SelectedType
<1>2. Loaded' = Loaded /\ args' = args /\ \A q : RecordsAt(q)' = RecordsAt(q)
  BY <1>1, SameNodes DEF Loaded, args
<1>3. Lists(flm')
  <2>1. Lists(Register(p))
    BY RegisterLists DEF SelectionInv, SelectedType
  <2> QED BY <1>1, <2>1
<1>4. CASE seen' = seen /\ phase' \in {"panic", "hang"}
  <2>1. SelectedType'
    BY <1>1, <1>2, <1>3, <1>4 DEF SelectionInv, SelectedType, Lists
  <2>2. Grown' /\ Begun' /\ Printed'
    BY <1>1, <1>2, <1>4 DEF SelectionInv, Grown, Begun, Printed
  <2> QED BY <2>1, <2>2 DEF SelectionInv
<1>5. CASE seen' = Append(seen, [part |-> p, sel |-> ApplyFilters(p, flm')]) /\ phase' \in {"panic", "selected"}
  <2> DEFINE E == [part : Loaded, sel : Seq(Nat)]
             sel == ApplyFilters(p, flm')
             e == [part |-> p, sel |-> sel]
  <2>0. PICK n : n = Len(seen)
    OBVIOUS
  <2>1. sel \in Seq(RecordsAt(p))
    BY <1>1, <1>3, ApplyFiltersType DEF SelectionInv, SelectedType
  <2>2. RecordsAt(p) \subseteq Nat
    <3>1. job.parts[p].records \in Seq(ToSet(job.parts[p].records))
      BY <1>1, RecordTypes DEF SelectionInv, SelectedType
    <3> QED BY <3>1 DEF RecordsAt
  <2>3. sel \in Seq(Nat)
    <3> HIDE DEF sel
    <3> QED BY <2>1, <2>2
  <2> HIDE DEF sel
  <2>4. e \in E /\ e.part = p /\ e.sel = sel
    BY <1>1, <2>3
  <2> HIDE DEF e
  <2>5. seen' = Append(seen, e)
    BY <1>5 DEF e, sel
  <2>6. seen \in Seq(E)
    BY DEF SelectionInv, SelectedType
  <2> HIDE DEF E
  <2>7. /\ seen' \in Seq(E) /\ Len(seen') = n + 1 /\ n \in Nat /\ seen'[n + 1] = e /\ \A k \in 1 .. n : seen'[k] = seen[k]
        /\ DOMAIN seen' = 1 .. n + 1 /\ DOMAIN seen = 1 .. n
    BY <2>0, <2>4, <2>5, <2>6
  <2>8. \A k \in 1 .. n + 1 : k = n + 1 \/ k \in 1 .. n
    BY <2>7
  <2>9. /\ \A k \in 1 .. n : seen[k].sel \in Seq(RecordsAt(seen[k].part)) /\ seen[k].part \notin todo
        /\ \A i, k \in 1 .. n : i # k => seen[i].part # seen[k].part
    BY <2>7 DEF SelectionInv, SelectedType
  <2>10. SelectedType'
    <3>1. seen' \in Seq([part : Loaded', sel : Seq(Nat)])
      BY <1>2, <2>7 DEF E
    <3>2. \A k \in 1 .. n + 1 : seen'[k].sel \in Seq(RecordsAt(seen'[k].part)) /\ seen'[k].part \notin todo'
      BY <1>1, <2>1, <2>4, <2>7, <2>8, <2>9
    <3>3. \A k \in 1 .. n : seen[k].part # p
      BY <2>9
    <3>4. \A i, k \in 1 .. n + 1 : i # k => seen'[i].part # seen'[k].part
      BY <2>4, <2>7, <2>8, <2>9, <3>3
    <3>6. \A k \in DOMAIN seen' : seen'[k].sel \in Seq(RecordsAt(seen[k].part)') /\ seen'[k].part \notin todo'
      <4>1. \A k : RecordsAt(seen[k].part)' = RecordsAt(seen'[k].part)
        BY <1>1 DEF RecordsAt
      <4> QED BY <2>7, <3>2, <4>1
    <3>7. job' \in Jobs /\ todo' \subseteq Loaded'
      BY <1>1, <1>2 DEF SelectionInv, SelectedType
    <3>8. Lists(flm)'
      BY <1>3 DEF Lists
    <3> QED BY <2>7, <3>1, <3>4, <3>6, <3>7, <3>8 DEF SelectedType
  <2>11. phase' # "panic" => Added' = n
    <3>1. phase' # "panic" => phase' = "selected"
      BY <1>5
    <3> QED BY <2>7, <3>1 DEF Added
  <2>12. Added = n
    BY <2>0 DEF Added
  <2>13. \A s : Nodes(s)' = Nodes(s) /\ Lone(s)' = Lone(s)
    BY <1>1, SameNodes
  <2>14. ASSUME NEW k \in 1 .. n PROVE Nodes(seen[k])' = Nodes(seen[k]) /\ Lone(seen[k])' = Lone(seen[k])
    <3>1. PICK s : s = seen[k]
      OBVIOUS
    <3>2. s = seen'[k]
      BY <2>7, <3>1
    <3>3. Nodes(s)' = Nodes(s) /\ Lone(s)' = Lone(s)
      BY <2>13
    <3>4. Nodes(seen[k])' = Nodes(s)'
      BY <3>2 DEF Nodes, Rec
    <3>5. Lone(seen[k])' = Lone(s)'
      BY <3>2, <3>4 DEF Lone
    <3> QED BY <3>1, <3>3, <3>4, <3>5
  <2>15. Rooted(n)' = Rooted(n)
    <3>1. \A k \in 1 .. n : Nodes(seen[k])' = Nodes(seen[k])
      BY <2>14
    <3> QED BY <3>1 DEF Rooted
  <2>16. LoneOf(n)' = LoneOf(n)
    <3>1. \A k \in 1 .. n : Lone(seen[k])' = Lone(seen[k])
      BY <2>14
    <3> QED BY <3>1 DEF LoneOf
  <2>17. RootOf(n)' = RootOf(n)
    <3>1. CASE Rooted(n) = {}
      BY <2>15, <3>1 DEF RootOf
    <3>2. CASE Rooted(n) # {}
      <4>1. Rooted(n) \subseteq 1 .. n /\ Rooted(n) \subseteq 0 .. n
        BY <2>7 DEF Rooted
      <4>2. Max(Rooted(n)) \in 1 .. n
        BY <2>7, <3>2, <4>1, MaxOf
      <4> QED BY <2>7, <2>15, <3>2, <4>2 DEF RootOf
    <3> QED BY <3>1, <3>2
  <2>18. Grown'
    <3>1. tree.root \in {0} \cup {seen[k].part : k \in DOMAIN seen}
      BY DEF SelectionInv, Grown
    <3>2. tree'.root \in {0} \cup {seen'[k].part : k \in DOMAIN seen'}
      <4>1. \A k \in 1 .. n : k \in DOMAIN seen' /\ seen'[k].part = seen[k].part
        BY <2>7
      <4> QED BY <1>1, <2>7, <3>1, <4>1
    <3>3. args.tree => tree.root = RootOf(n) /\ tree.orphans = LoneOf(n)
      BY <2>12 DEF SelectionInv, Grown
    <3>4. args'.tree /\ phase' # "panic" => tree'.root = RootOf(n)' /\ tree'.orphans = LoneOf(n)' /\ Added' = n
      BY <1>1, <1>2, <2>11, <2>16, <2>17, <3>3
    <3>5. args'.tree /\ phase' # "panic" => tree'.root = RootOf(Added)' /\ tree'.orphans = LoneOf(Added)'
      BY <3>4
    <3> QED BY <1>1, <3>2, <3>5 DEF SelectionInv, Grown
  <2>19. Begun' /\ Printed'
    <3>1. seen' # <<>>
      BY <2>7
    <3> QED BY <1>5, <3>1 DEF Begun, Printed
  <2> QED BY <2>10, <2>18, <2>19 DEF SelectionInv
<1> QED BY <1>1, <1>4, <1>5 DEF Select

(* Lone and rooted partitions, when one is added.                          *)
LEMMA AddOne ==
  ASSUME SelectedType, seen # <<>>, Grown, tree.root = RootOf(Len(seen) - 1), tree.orphans = LoneOf(Len(seen) - 1),
         NEW t, t = Build(Last(seen))
  PROVE  /\ t.root = RootOf(Len(seen)) /\ t.orphans = LoneOf(Len(seen))
         /\ t = [root |-> t.root, orphans |-> t.orphans, printed |-> t.printed]
PROOF
<1> DEFINE E == [part : Loaded, sel : Seq(Nat)]
<1>1. PICK n : n = Len(seen)
  OBVIOUS
<1>2. seen \in Seq(E) /\ Last(seen) = seen[n]
  BY <1>1 DEF SelectedType, Last
<1>3. n \in Nat /\ n >= 1 /\ DOMAIN seen = 1 .. n
  <2> HIDE DEF E
  <2> QED BY <1>1, <1>2
<1> DEFINE s == seen[n]
           m == n - 1
<1>4. m \in Nat /\ n = m + 1 /\ \A k : (k \in 1 .. n) <=> (k \in 1 .. m \/ k = n)
  BY <1>3
<1>5. LoneOf(n) = LoneOf(m) \cup Lone(s)
  <2>1. \A x : (x \in LoneOf(n)) <=> (\E k \in 1 .. n : x \in Lone(seen[k]))
    BY DEF LoneOf
  <2>2. \A x : (x \in LoneOf(m)) <=> (\E k \in 1 .. m : x \in Lone(seen[k]))
    BY DEF LoneOf
  <2> QED BY <1>4, <2>1, <2>2
<1>6. Rooted(n) = Rooted(m) \cup (IF 5 \in DOMAIN Nodes(s) THEN {n} ELSE {})
  BY <1>4 DEF Rooted
<1>7. RootOf(n) = IF 5 \in DOMAIN Nodes(s) THEN s.part ELSE RootOf(m)
  <2>1. CASE 5 \in DOMAIN Nodes(s)
    <3>1. n \in Rooted(n) /\ Rooted(n) \subseteq 0 .. n
      BY <1>3, <1>6, <2>1 DEF Rooted
    <3>2. Max(Rooted(n)) \in Rooted(n) /\ n <= Max(Rooted(n))
      BY <1>3, <3>1, MaxOf
    <3>3. Max(Rooted(n)) = n
      BY <1>3, <3>1, <3>2
    <3> QED BY <2>1, <3>1, <3>3 DEF RootOf
  <2>2. CASE 5 \notin DOMAIN Nodes(s)
    BY <1>6, <2>2 DEF RootOf
  <2> QED BY <2>1, <2>2
<1>8. tree.root = RootOf(m) /\ tree.orphans = LoneOf(m)
  BY <1>1
<1>9. tree = [root |-> tree.root, orphans |-> tree.orphans, printed |-> tree.printed]
  BY DEF Grown
<1>10. /\ Build(s).root = IF 5 \in DOMAIN Nodes(s) THEN s.part ELSE tree.root
       /\ Build(s).orphans = tree.orphans \cup Lone(s)
       /\ Build(s) = [root |-> Build(s).root, orphans |-> Build(s).orphans, printed |-> Build(s).printed]
  <2> HIDE DEF s
  <2> DEFINE r == IF 5 \in DOMAIN Nodes(s) THEN s.part ELSE tree.root
             o == tree.orphans \cup Lone(s)
             b == [tree EXCEPT !.root = r, !.orphans = o]
  <2>1. Build(s) = b
    BY DEF Build, Lone
  <2>2. PICK x, y, z : tree = [root |-> x, orphans |-> y, printed |-> z]
    BY <1>9
  <2> HIDE DEF r, o
  <2>3. b = [root |-> r, orphans |-> o, printed |-> z]
    <3>1. b \in [root : {r}, orphans : {o}, printed : {z}]
      BY <2>2
    <3> HIDE DEF b
    <3> QED BY <3>1
  <2> HIDE DEF b
  <2>4. Build(s).root = r /\ Build(s).orphans = o
    BY <2>1, <2>3
  <2> QED BY <2>1, <2>3, <2>4 DEF r, o
<1> QED BY <1>1, <1>2, <1>5, <1>7, <1>8, <1>10
(* The tree grows by the partition that is reported, and is printed whole. *)
LEMMA ReportStep ==
  ASSUME SelectionInv, phase = "again", BuildAndShow
  PROVE  SelectionInv'
PROOF
<1>1. job' = job /\ todo' = todo /\ flm' = flm /\ seen' = seen
  BY DEF BuildAndShow
<1>2. Loaded' = Loaded /\ args' = args /\ \A p : RecordsAt(p)' = RecordsAt(p)
  BY <1>1, SameNodes DEF Loaded, args
<1>3. SelectedType'
  BY <1>1, <1>2 DEF SelectionInv, SelectedType, Lists
<1>4. PICK n : n = Len(seen)
  OBVIOUS
<1>5. seen # <<>> /\ Added = n - 1 /\ n \in Nat /\ n >= 1 /\ DOMAIN seen = 1 .. n
  <2>1. seen # <<>> /\ seen \in Seq([part : Loaded, sel : Seq(Nat)])
    BY DEF SelectionInv, Begun, SelectedType
  <2> QED BY <1>4, <2>1 DEF Added
<1>6. PICK t : t = IF args.tree THEN Build(Last(seen)) ELSE tree
  OBVIOUS
<1>7. /\ args.tree => t.root = RootOf(n) /\ t.orphans = LoneOf(n)
      /\ t = [root |-> t.root, orphans |-> t.orphans, printed |-> t.printed]
      /\ t.root \in {0} \cup {seen[k].part : k \in DOMAIN seen}
  <2>1. CASE args.tree
    <3>1. tree.root = RootOf(n - 1) /\ tree.orphans = LoneOf(n - 1)
      BY <1>5, <2>1 DEF SelectionInv, Grown
    <3>2. /\ t.root = RootOf(n) /\ t.orphans = LoneOf(n)
          /\ t = [root |-> t.root, orphans |-> t.orphans, printed |-> t.printed]
      BY <1>4, <1>5, <1>6, <2>1, <3>1, AddOne DEF SelectionInv
    <3>3. RootOf(n) \in {0} \cup {seen[k].part : k \in DOMAIN seen}
      <4>1. CASE Rooted(n) = {}
        BY <4>1 DEF RootOf
      <4>2. CASE Rooted(n) # {}
        <5>1. Rooted(n) \subseteq 0 .. n /\ Rooted(n) \subseteq 1 .. n
          BY DEF Rooted
        <5>2. Max(Rooted(n)) \in 1 .. n
          BY <1>5, <4>2, <5>1, MaxOf
        <5> QED BY <1>5, <4>2, <5>2 DEF RootOf
      <4> QED BY <4>1, <4>2
    <3> QED BY <3>2, <3>3
  <2>2. CASE ~args.tree
    BY <1>6, <2>2 DEF SelectionInv, Grown
  <2> QED BY <2>1, <2>2
<1>8. \/ args.showtree /\ t.root = 0 /\ phase' = "panic" /\ tree' = t
      \/ /\ ~(args.showtree /\ t.root = 0) /\ phase' = "loop"
         /\ tree' = [t EXCEPT !.printed = IF args.showtree THEN Show(t) ELSE {}]
  BY <1>6 DEF BuildAndShow
<1>9. CASE args.showtree /\ t.root = 0 /\ phase' = "panic" /\ tree' = t
  <2>1. Grown'
    BY <1>1, <1>7, <1>9 DEF Grown
  <2>2. Begun' /\ Printed'
    BY <1>9 DEF Begun, Printed
  <2> QED BY <1>3, <2>1, <2>2 DEF SelectionInv
<1>10. CASE /\ ~(args.showtree /\ t.root = 0) /\ phase' = "loop"
            /\ tree' = [t EXCEPT !.printed = IF args.showtree THEN Show(t) ELSE {}]
  <2>1. PICK x : x = tree'
    OBVIOUS
  <2>2. /\ x = [root |-> x.root, orphans |-> x.orphans, printed |-> x.printed]
        /\ x.root = t.root /\ x.orphans = t.orphans
        /\ x.printed = IF args.showtree THEN Show(t) ELSE {}
    BY <1>7, <1>10, <2>1
  <2>3. RootOf(n)' = RootOf(n) /\ LoneOf(n)' = LoneOf(n)
    BY <1>1, SameTree
  <2>4. args'.tree => tree'.root = RootOf(n)' /\ tree'.orphans = LoneOf(n)'
    BY <1>2, <1>7, <2>1, <2>2, <2>3
  <2>5. Added' = n
    BY <1>1, <1>4, <1>10 DEF Added
  <2>6. Grown'
    <3>1. args'.tree => tree'.root = RootOf(Added)' /\ tree'.orphans = LoneOf(Added)'
      BY <2>4, <2>5
    <3> QED BY <1>1, <1>7, <2>1, <2>2, <3>1 DEF Grown
  <2>7. Begun'
    BY <1>10 DEF Begun
  <2>8. Printed'
    <3>1. Show(x) = Show(t)
      BY <2>2 DEF Show
    <3>2. Show(x)' = Show(x)
      BY <1>1, SameShow
    <3>3. Show(tree)' = Show(x)'
      BY <2>1 DEF Show
    <3> QED BY <1>2, <1>10, <2>1, <2>2, <3>1, <3>2, <3>3 DEF Printed
  <2> QED BY <1>3, <2>6, <2>7, <2>8 DEF SelectionInv
<1> QED BY <1>8, <1>9, <1>10

(* The steps of the journal stay within a phase, or end the program.       *)
LEMMA JournalStays ==
  ASSUME ProcessJrnl
  PROVE  job' = job /\ (phase' = phase \/ phase' \in {"panic", "hang"})
PROOF
BY DEF ProcessJrnl, NextPartition, StartJournal, Send, CloseData, Take, Scan, JournalDone

(* Every step of main keeps the invariant.                                 *)
LEMMA NextSelectionInv == SelectionInv /\ [Next]_vars => SelectionInv'
PROOF
<1> SUFFICES ASSUME SelectionInv, [Next]_vars PROVE SelectionInv'
  OBVIOUS
<1>1. phase \in {"start", "journal", "logfile", "vss", "unallocated", "clusters"} => seen = <<>>
  BY DEF SelectionInv, Begun
<1> DEFINE Aside == /\ job' = job /\ UNCHANGED <<todo, flm, seen, tree>>
                    /\ \/ phase' = phase
                       \/ phase' \in {"panic", "hang"}
                       \/ phase = "selected" /\ phase' = "again"
                       \/ phase = "loop" /\ phase' = "done"
                       \/ seen = <<>> /\ phase \notin {"panic", "hang"} /\ phase' \notin {"selected", "again"}
<1>2. CASE UNCHANGED vars
  BY <1>2, AsideSelection DEF vars, selectionVars
<1>3. Start \/ First \/ Logs \/ Shadows \/ Unallocate \/ Again \/ Finish => Aside
  <2>1. Start => Aside
    BY <1>1 DEF Start, selectionVars
  <2>2. First => Aside
    BY <1>1, FromType DEF First, selectionVars
  <2>3. Logs => Aside
    BY <1>1, FromType DEF Logs, selectionVars
  <2>4. Shadows => Aside
    BY <1>1, FromType DEF Shadows, selectionVars
  <2>5. Unallocate => Aside
    BY <1>1, FromType DEF Unallocate, selectionVars
  <2>6. Again => Aside
    BY DEF Again, selectionVars
  <2>7. Finish => Aside
    BY DEF Finish, selectionVars
  <2> QED BY <2>1, <2>2, <2>3, <2>4, <2>5, <2>6, <2>7
<1>4. CASE Report
  <2>1. phase = "again" /\ BuildAndShow
    BY <1>4 DEF Report
  <2> QED BY <2>1, ReportStep
<1>5. CASE /\ phase \in {"journal", "again"} /\ ProcessJrnl
           /\ UNCHANGED <<logfile, shadowVars, unallocatedVars, selectionVars, usnrecords>>
  BY <1>5, JournalStays, AsideSelection DEF selectionVars
<1>6. CASE phase = "logfile" /\ ReadLogFile /\ UNCHANGED <<journalVars, shadowVars, unallocatedVars, selectionVars, usnrecords>>
  BY <1>6, LogFileQuiet, AsideSelection DEF selectionVars
<1>7. CASE phase = "vss" /\ ReadShadow /\ UNCHANGED <<journalVars, logfile, unallocatedVars, selectionVars, usnrecords>>
  BY <1>7, ShadowQuiet, AsideSelection DEF selectionVars
<1>8. CASE phase = "clusters" /\ ShowClusters /\ UNCHANGED <<journalVars, logfile, unallocatedVars, selectionVars, usnrecords>>
  <2>1. job' = job /\ phase' \in {"loop", "panic"}
    BY <1>8, ShowQuiet
  <2> QED BY <1>1, <1>8, <2>1, AsideSelection DEF selectionVars
<1>9. CASE phase = "unallocated" /\ CollectUnallocated /\ UNCHANGED <<journalVars, logfile, shadowVars, selectionVars, usnrecords>>
  BY <1>9, UnallocatedQuiet, AsideSelection DEF selectionVars
<1>10. CASE /\ phase = "loop" /\ \E p \in todo : Select(p)
            /\ UNCHANGED <<journalVars, logfile, shadowVars, unallocatedVars, usnrecords>>
  BY <1>10, SelectStep
<1>11. CASE Ended
  BY <1>2, <1>11 DEF Ended
<1>12. Aside => SelectionInv'
  BY AsideSelection
<1> HIDE DEF Aside
<1> QED BY <1>2, <1>3, <1>4, <1>5, <1>6, <1>7, <1>8, <1>9, <1>10, <1>11, <1>12 DEF Next

LEMMA SelectionInvHolds == Spec => []SelectionInv
PROOF
<1>1. Init => SelectionInv
  BY InitSelectionInv
<1>2. SelectionInv /\ [Next]_vars => SelectionInv'
  BY NextSelectionInv
<1> QED BY <1>1, <1>2, PTL DEF Spec
-----------------------------------------------------------------------------
(* What is below the root *)

\* The way up from a node, and how far it can come.
Climb(nodes, e) ==
  LET up[k \in 0 .. Cardinality(DOMAIN nodes)] ==
        IF k = 0 THEN e
        ELSE IF up[k - 1] \in DOMAIN nodes \ {5} THEN nodes[up[k - 1]].parref ELSE up[k - 1]
  IN up

Above(nodes, x) == IF x \in DOMAIN nodes \ {5} THEN nodes[x].parref ELSE x
Ends(nodes) == DOMAIN nodes \cup {nodes[c].parref : c \in DOMAIN nodes}

(* The way up is one step after the other.                                 *)
LEMMA ClimbIs ==
  ASSUME NEW nodes, NEW N \in Nat, N = Cardinality(DOMAIN nodes), NEW e \in Ends(nodes)
  PROVE  /\ Climb(nodes, e) \in [0 .. N -> Ends(nodes)]
         /\ Climb(nodes, e)[0] = e
         /\ \A k \in 1 .. N : Climb(nodes, e)[k] = Above(nodes, Climb(nodes, e)[k - 1])
PROOF
<1> DEFINE T == Ends(nodes)
           step == [k \in 1 .. N |-> [x \in T |-> Above(nodes, x)]]
           Is(f) == f = [k \in 0 .. N |->
                           IF k = 0 THEN e
                           ELSE IF f[k - 1] \in DOMAIN nodes \ {5} THEN nodes[f[k - 1]].parref ELSE f[k - 1]]
           h == CHOOSE f : Is(f)
<1>1. \A x \in T : Above(nodes, x) \in T
  BY DEF Ends, Above
<1> HIDE DEF T
<1>2. step \in StepFunctions(N, T)
  BY <1>1 DEF StepFunctions
<1>3. e \in T
  BY DEF T
<1>4. PICK g : Solution(N, T, e, step, g)
  <2> HIDE DEF step
  <2> QED BY <1>2, <1>3, Recursion
<1>5. g \in [0 .. N -> T] /\ g[0] = e /\ \A k \in 1 .. N : g[k] = step[k][g[k - 1]]
  BY <1>4 DEF Solution
<1>6. Is(g)
  <2>1. \A k \in 0 .. N : k # 0 => k \in 1 .. N /\ k - 1 \in 0 .. N
    OBVIOUS
  <2>2. \A k \in 1 .. N : g[k] = Above(nodes, g[k - 1])
    <3>1. \A k \in 1 .. N : k - 1 \in 0 .. N
      OBVIOUS
    <3>2. \A k \in 1 .. N : g[k - 1] \in T
      BY <1>5, <3>1
    <3>3. \A k \in 1 .. N : \A x \in T : step[k][x] = Above(nodes, x)
      OBVIOUS
    <3> HIDE DEF step
    <3> QED BY <1>5, <3>2, <3>3
  <2> HIDE DEF step
  <2> QED BY <1>5, <2>1, <2>2 DEF Above
<1>7. Is(h)
  <2> HIDE DEF Is
  <2> QED BY <1>6
<1>8. h = Climb(nodes, e)
  BY DEF Climb
<1>9. DOMAIN h = 0 .. N /\ h[0] = e /\ \A k \in 1 .. N : h[k] = Above(nodes, h[k - 1])
  <2> HIDE DEF h
  <2>1. 0 \in 0 .. N /\ \A k \in 1 .. N : k \in 0 .. N /\ k # 0
    OBVIOUS
  <2> QED BY <1>7, <2>1 DEF Above
<1>10. 0 .. N \subseteq {k \in 0 .. N : h[k] \in T}
  <2> DEFINE I == {k \in 0 .. N : h[k] \in T}
  <2> HIDE DEF h
  <2>1. 0 \in I
    BY <1>3, <1>9
  <2>2. ASSUME NEW k \in 0 .. N - 1, k \in I PROVE k + 1 \in I
    <3>1. k + 1 \in 1 .. N /\ k + 1 \in 0 .. N /\ (k + 1) - 1 = k
      OBVIOUS
    <3>2. h[k + 1] = Above(nodes, h[k])
      BY <1>9, <3>1
    <3> QED BY <1>1, <2>2, <3>1, <3>2
  <2> HIDE DEF I
  <2>3. 0 .. N \subseteq I
    BY <2>1, <2>2, BoundedInduction
  <2> QED BY <2>3 DEF I
<1>11. h \in [0 .. N -> T]
  <2> DEFINE v(k) == IF k = 0 THEN e
                     ELSE IF h[k - 1] \in DOMAIN nodes \ {5} THEN nodes[h[k - 1]].parref ELSE h[k - 1]
  <2>1. h = [k \in 0 .. N |-> v(k)]
    BY <1>7
  <2> HIDE DEF h, Is, v
  <2>2. h = [k \in 0 .. N |-> h[k]]
    BY <2>1
  <2> QED BY <1>10, <2>2
<1> HIDE DEF h
<1> QED BY <1>8, <1>9, <1>11 DEF T
\* The nodes whose parent is in a set of nodes.
Under(nodes, S) == UNION {Children(nodes, e) : e \in S}

(* The levels follow one another.                                          *)
LEMMA LevelsAre ==
  ASSUME NEW nodes, NEW N \in Nat, N = Cardinality(DOMAIN nodes), 5 \in DOMAIN nodes
  PROVE  /\ Levels(nodes) \in [0 .. N -> SUBSET DOMAIN nodes]
         /\ Levels(nodes)[0] = {5}
         /\ \A k \in 1 .. N : Levels(nodes)[k] = Under(nodes, Levels(nodes)[k - 1])
PROOF
<1> DEFINE T == SUBSET DOMAIN nodes
           step == [k \in 1 .. N |-> [S \in T |-> Under(nodes, S)]]
           Is(f) == f = [k \in 0 .. N |->
                           IF k = 0 THEN {5} ELSE UNION {Children(nodes, e) : e \in f[k - 1]}]
           h == CHOOSE f : Is(f)
<1>1. \A S \in T : Under(nodes, S) \in T
  BY DEF Under, Children
<1>2. {5} \in T
  OBVIOUS
<1> HIDE DEF T
<1>3. step \in StepFunctions(N, T)
  BY <1>1 DEF StepFunctions
<1>4. PICK g : Solution(N, T, {5}, step, g)
  <2> HIDE DEF step
  <2> QED BY <1>2, <1>3, Recursion
<1>5. g \in [0 .. N -> T] /\ g[0] = {5} /\ \A k \in 1 .. N : g[k] = step[k][g[k - 1]]
  BY <1>4 DEF Solution
<1>6. Is(g)
  <2>1. \A k \in 0 .. N : k # 0 => k \in 1 .. N /\ k - 1 \in 0 .. N
    OBVIOUS
  <2>2. \A k \in 1 .. N : g[k] = Under(nodes, g[k - 1])
    <3>1. \A k \in 1 .. N : k - 1 \in 0 .. N
      OBVIOUS
    <3>2. \A k \in 1 .. N : g[k - 1] \in T
      BY <1>5, <3>1
    <3>3. \A k \in 1 .. N : \A S \in T : step[k][S] = Under(nodes, S)
      OBVIOUS
    <3> HIDE DEF step
    <3> QED BY <1>5, <3>2, <3>3
  <2> HIDE DEF step
  <2> QED BY <1>5, <2>1, <2>2 DEF Under
<1>7. Is(h)
  <2> HIDE DEF Is
  <2> QED BY <1>6
<1>8. h = Levels(nodes)
  BY DEF Levels
<1>9. DOMAIN h = 0 .. N /\ h[0] = {5} /\ \A k \in 1 .. N : h[k] = Under(nodes, h[k - 1])
  <2> HIDE DEF h
  <2>1. 0 \in 0 .. N /\ \A k \in 1 .. N : k \in 0 .. N /\ k # 0
    OBVIOUS
  <2> QED BY <1>7, <2>1 DEF Under
<1>10. 0 .. N \subseteq {k \in 0 .. N : h[k] \in T}
  <2> DEFINE I == {k \in 0 .. N : h[k] \in T}
  <2> HIDE DEF h
  <2>1. 0 \in I
    <3>1. h[0] = {5} /\ 0 \in 0 .. N
      BY <1>9
    <3>2. h[0] \in T
      BY <1>2, <3>1
    <3> QED BY <3>1, <3>2
  <2>2. ASSUME NEW k \in 0 .. N - 1, k \in I PROVE k + 1 \in I
    <3>1. k + 1 \in 1 .. N /\ k + 1 \in 0 .. N /\ (k + 1) - 1 = k
      OBVIOUS
    <3>2. h[k + 1] = Under(nodes, h[k])
      BY <1>9, <3>1
    <3> QED BY <1>1, <2>2, <3>1, <3>2
  <2> HIDE DEF I
  <2>3. 0 .. N \subseteq I
    BY <2>1, <2>2, BoundedInduction
  <2> QED BY <2>3 DEF I
<1>11. h \in [0 .. N -> T]
  <2> DEFINE v(k) == IF k = 0 THEN {5} ELSE UNION {Children(nodes, e) : e \in h[k - 1]}
  <2>1. h = [k \in 0 .. N |-> v(k)]
    BY <1>7
  <2> HIDE DEF h, Is, v
  <2>2. h = [k \in 0 .. N |-> h[k]]
    BY <2>1
  <2> QED BY <1>10, <2>2
<1> HIDE DEF h
<1> QED BY <1>8, <1>9, <1>11 DEF T

(* One step up first, and then the rest of the way.                        *)
LEMMA ClimbShift ==
  ASSUME NEW nodes, NEW N \in Nat, N = Cardinality(DOMAIN nodes), NEW e \in Ends(nodes)
  PROVE  \A k \in 0 .. N - 1 : Climb(nodes, e)[k + 1] = Climb(nodes, Above(nodes, e))[k]
PROOF
<1> DEFINE a == Above(nodes, e)
           F == Climb(nodes, e)
           G == Climb(nodes, a)
           I == {k \in 0 .. N : k < N => F[k + 1] = G[k]}
<1>1. a \in Ends(nodes)
  BY DEF Above, Ends
<1>2. F[0] = e /\ \A k \in 1 .. N : F[k] = Above(nodes, F[k - 1])
  BY ClimbIs
<1>3. G[0] = a /\ \A k \in 1 .. N : G[k] = Above(nodes, G[k - 1])
  <2> HIDE DEF a
  <2> QED BY <1>1, ClimbIs
<1>4. a = Above(nodes, e)
  OBVIOUS
<1> HIDE DEF a, F, G
<1>5. 0 \in I
  <2>1. 0 < N => 1 \in 1 .. N
    OBVIOUS
  <2>2. 0 < N => F[1] = Above(nodes, F[1 - 1])
    BY <1>2, <2>1
  <2> QED BY <1>2, <1>3, <1>4, <2>2
<1>6. ASSUME NEW k \in 0 .. N - 1, k \in I PROVE k + 1 \in I
  <2>1. SUFFICES ASSUME k + 1 < N PROVE F[(k + 1) + 1] = G[k + 1]
    OBVIOUS
  <2>2. /\ (k + 1) + 1 \in 1 .. N /\ k + 1 \in 1 .. N /\ k < N
        /\ ((k + 1) + 1) - 1 = k + 1 /\ (k + 1) - 1 = k
    BY <2>1
  <2>3. F[(k + 1) + 1] = Above(nodes, F[k + 1])
    BY <1>2, <2>2
  <2>4. G[k + 1] = Above(nodes, G[k])
    BY <1>3, <2>2
  <2>5. F[k + 1] = G[k]
    BY <1>6, <2>2
  <2> QED BY <2>3, <2>4, <2>5
<1> HIDE DEF I
<1>7. 0 .. N \subseteq I
  BY <1>5, <1>6, BoundedInduction
<1> QED BY <1>7 DEF I, F, G, a

(* What descend reaches are the nodes the root is above.                   *)
LEMMA ReachedIsBelow ==
  ASSUME NEW nodes, IsFiniteSet(DOMAIN nodes), 5 \in DOMAIN nodes
  PROVE  /\ Reached(nodes) \subseteq DOMAIN nodes
         /\ \A e \in DOMAIN nodes : e \in Reached(nodes) <=> Below(nodes, e)
PROOF
<1>1. PICK N \in Nat : N = Cardinality(DOMAIN nodes)
  BY FS_CardinalityType
<1> DEFINE L == Levels(nodes)
           U(e) == Climb(nodes, e)
           Up(e, k) == U(e)[k]
           V == Ends(nodes)
<1>2. L \in [0 .. N -> SUBSET DOMAIN nodes] /\ L[0] = {5} /\ \A k \in 1 .. N : L[k] = Under(nodes, L[k - 1])
  BY <1>1, LevelsAre
<1>3. \A e \in V : /\ Up(e, 0) = e
                   /\ \A k \in 1 .. N : Up(e, k) = Above(nodes, Up(e, k - 1))
                   /\ \A k \in 0 .. N - 1 : Up(e, k + 1) = Up(Above(nodes, e), k)
  BY <1>1, ClimbIs, ClimbShift
<1>4. DOMAIN nodes \subseteq V /\ \A c \in DOMAIN nodes : nodes[c].parref \in V
  BY DEF Ends
<1> DEFINE I == {k \in 0 .. N : \A e \in V : Up(e, k) = 5 <=> \E j \in 0 .. k : e \in L[j]}
<1> HIDE DEF L, Up, V
<1>5. 0 \in I
  BY <1>2, <1>3
<1>6. ASSUME NEW k \in 0 .. N - 1, k \in I PROVE k + 1 \in I
  <2>1. SUFFICES ASSUME NEW e \in V
                 PROVE  Up(e, k + 1) = 5 <=> \E j \in 0 .. k + 1 : e \in L[j]
    OBVIOUS
  <2>2. \A x \in V : Up(x, k) = 5 <=> \E j \in 0 .. k : x \in L[j]
    BY <1>6
  <2>3. Up(e, k + 1) = Up(Above(nodes, e), k)
    BY <1>3
  <2>4. CASE e \in DOMAIN nodes \ {5}
    <3>1. Above(nodes, e) = nodes[e].parref /\ nodes[e].parref \in V
      BY <1>4, <2>4 DEF Above
    <3>2. Up(e, k + 1) = 5 <=> \E j \in 0 .. k : nodes[e].parref \in L[j]
      BY <2>2, <2>3, <3>1
    <3>3. \A j \in 0 .. k : j + 1 \in 1 .. N /\ (j + 1) - 1 = j
      OBVIOUS
    <3>4. \A j \in 0 .. k : e \in L[j + 1] <=> nodes[e].parref \in L[j]
      <4>1. \A j \in 0 .. k : L[j + 1] = Under(nodes, L[j])
        BY <1>2, <3>3
      <4>2. \A S : e \in Under(nodes, S) <=> nodes[e].parref \in S
        BY <2>4 DEF Under, Children
      <4> QED BY <4>1, <4>2
    <3>5. e \notin L[0]
      BY <1>2, <2>4
    <3>6. \A j \in 0 .. k + 1 : j # 0 => j - 1 \in 0 .. k /\ (j - 1) + 1 = j
      OBVIOUS
    <3>7. \A j \in 0 .. k : j + 1 \in 0 .. k + 1
      OBVIOUS
    <3>8. (\E j \in 0 .. k + 1 : e \in L[j]) <=> \E j \in 0 .. k : e \in L[j + 1]
      BY <3>5, <3>6, <3>7
    <3> QED BY <3>2, <3>4, <3>8
  <2>5. CASE e = 5
    <3>1. Above(nodes, e) = e
      BY <2>5 DEF Above
    <3>2. 0 \in 0 .. k /\ 0 \in 0 .. k + 1 /\ e \in L[0]
      BY <1>2, <2>5
    <3> QED BY <2>2, <2>3, <3>1, <3>2
  <2>6. CASE e \notin DOMAIN nodes
    <3>1. Above(nodes, e) = e
      BY <2>6 DEF Above
    <3>2. \A j \in 0 .. k + 1 : e \notin L[j]
      <4>1. \A j \in 0 .. k + 1 : j \in 0 .. N
        OBVIOUS
      <4> QED BY <1>2, <2>6, <4>1
    <3>3. \A j \in 0 .. k : j \in 0 .. k + 1
      OBVIOUS
    <3> QED BY <2>2, <2>3, <3>1, <3>2, <3>3
  <2> QED BY <2>4, <2>5, <2>6
<1> HIDE DEF I
<1>7. 0 .. N \subseteq I
  BY <1>5, <1>6, BoundedInduction
<1>8. \A e \in V : Up(e, N) = 5 <=> \E j \in 0 .. N : e \in L[j]
  BY <1>7 DEF I
<1>9. \A e : Below(nodes, e) <=> Up(e, N) = 5
  BY <1>1 DEF Below, Climb, Up
<1>10. \A e : e \in Reached(nodes) <=> \E j \in 0 .. N : e \in L[j]
  <2>1. Reached(nodes) = UNION {L[j] : j \in DOMAIN L}
    BY DEF Reached, Levels, L
  <2> QED BY <1>2, <2>1
<1> QED BY <1>2, <1>4, <1>8, <1>9, <1>10
-----------------------------------------------------------------------------
(* The tree that is built and shown *)

(* The nodes of a partition are those of what it selected, and few.        *)
LEMMA NodesOfPart ==
  ASSUME SelectedType, NEW k \in DOMAIN seen
  PROVE  NodesOf(seen[k].part) = Nodes(seen[k]) /\ IsFiniteSet(DOMAIN Nodes(seen[k]))
PROOF
<1>1. \A i \in DOMAIN seen : seen[i].part = seen[k].part => i = k
  BY DEF SelectedType
<1>2. (CHOOSE i \in DOMAIN seen : seen[i].part = seen[k].part) = k
  BY <1>1
<1>3. NodesOf(seen[k].part) = Nodes(seen[k])
  BY <1>2 DEF NodesOf
<1>4. PICK s : s = seen[k]
  OBVIOUS
<1> DEFINE is(n) == Rec(s.part, n).id >= 5 /\ Rec(s.part, n).base /\ Rec(s.part, n).parref # -1
           at == {i \in DOMAIN s.sel : is(s.sel[i])}
           id(i) == Rec(s.part, s.sel[i]).id
<1>5. DOMAIN Nodes(s) = {id(i) : i \in at}
  BY DEF Nodes
<1>6. s.sel \in Seq(RecordsAt(s.part))
  BY <1>4 DEF SelectedType
<1>7. IsFiniteSet(DOMAIN s.sel)
  <2>1. DOMAIN s.sel = 1 .. Len(s.sel) /\ Len(s.sel) \in Nat
    BY <1>6
  <2> QED BY <2>1, FS_Interval
<1> HIDE DEF is
<1>8. IsFiniteSet(at)
  BY <1>7, FS_Subset
<1> HIDE DEF at, id
<1>9. IsFiniteSet({id(i) : i \in at})
  <2> DEFINE T == {id(i) : i \in at}
             f == [i \in at |-> id(i)]
  <2>1. f \in Surjection(at, T)
    BY DEF Surjection
  <2> HIDE DEF f, T
  <2>2. IsFiniteSet(T)
    BY <1>8, <2>1, FS_Surjection
  <2> QED BY <2>2 DEF T
<1> QED BY <1>3, <1>4, <1>5, <1>9

\* The orphans, the nodes and what is shown of them, as TreeExact says.
Orphans ==
  {o \in UNION {{<<s.part, e>> : e \in DOMAIN Nodes(s) \ {5}} : s \in ToSet(seen)} :
     NodesOf(o[1])[o[2]].parref \notin DOMAIN NodesOf(o[1])}
AllNodes == UNION {{<<s.part, e>> : e \in DOMAIN Nodes(s)} : s \in ToSet(seen)}
HasChild(p, e, c) == c # 5 /\ NodesOf(p)[c].parref = e /\ NodesOf(p)[e].folder
ShownAt(root, lone, p, e) ==
  \E d \in DOMAIN NodesOf(p) :
    \/ p = root /\ Below(NodesOf(p), d) /\ \E c \in DOMAIN NodesOf(p) : HasChild(p, d, c) /\ e \in {c, d}
    \/ <<p, d>> \in lone /\ NodesOf(p)[d].folder /\ (e = d \/ HasChild(p, d, e))

(* The orphans of the partitions are the nodes without a parent.           *)
LEMMA OrphansAre ==
  ASSUME SelectedType
  PROVE  /\ \A o : o \in AllNodes <=> \E k \in DOMAIN seen : \E e \in DOMAIN Nodes(seen[k]) : o = <<seen[k].part, e>>
         /\ Orphans = LoneOf(Len(seen))
PROOF
<1>1. DOMAIN seen = 1 .. Len(seen)
  BY DEF SelectedType
<1>2. \A x : x \in ToSet(seen) <=> \E k \in DOMAIN seen : x = seen[k]
  BY DEF ToSet
<1>3. \A o : o \in AllNodes <=> \E k \in DOMAIN seen : \E e \in DOMAIN Nodes(seen[k]) : o = <<seen[k].part, e>>
  BY <1>2 DEF AllNodes
<1>4. \A o : o \in Orphans <=>
         \E k \in DOMAIN seen : \E e \in DOMAIN Nodes(seen[k]) \ {5} :
            o = <<seen[k].part, e>> /\ Nodes(seen[k])[e].parref \notin DOMAIN Nodes(seen[k])
  <2> DEFINE Q == UNION {{<<s.part, e>> : e \in DOMAIN Nodes(s) \ {5}} : s \in ToSet(seen)}
  <2>1. \A o : o \in Q <=> \E k \in DOMAIN seen : \E e \in DOMAIN Nodes(seen[k]) \ {5} : o = <<seen[k].part, e>>
    BY <1>2
  <2> HIDE DEF Q
  <2>2. \A o : o \in Orphans <=> o \in Q /\ NodesOf(o[1])[o[2]].parref \notin DOMAIN NodesOf(o[1])
    BY DEF Orphans, Q
  <2>3. \A k \in DOMAIN seen : \A e :
          LET o == <<seen[k].part, e>> IN NodesOf(o[1]) = Nodes(seen[k]) /\ o[2] = e
    BY NodesOfPart
  <2> QED BY <2>1, <2>2, <2>3
<1>5. \A o : o \in LoneOf(Len(seen)) <=>
         \E k \in DOMAIN seen : \E e \in DOMAIN Nodes(seen[k]) \ {5} :
            o = <<seen[k].part, e>> /\ Nodes(seen[k])[e].parref \notin DOMAIN Nodes(seen[k])
  <2>1. \A o : o \in LoneOf(Len(seen)) <=> \E k \in DOMAIN seen : o \in Lone(seen[k])
    BY <1>1 DEF LoneOf
  <2> QED BY <2>1 DEF Lone
<1>6. Orphans = LoneOf(Len(seen))
  BY <1>4, <1>5
<1> QED BY <1>3, <1>6

(* Show prints that, if the root is that of a partition.                   *)
LEMMA ShowIs ==
  ASSUME SelectedType, NEW t, NEW r \in DOMAIN seen, t.root = seen[r].part, 5 \in DOMAIN Nodes(seen[r]),
         t.orphans = Orphans
  PROVE  Show(t) = {o \in AllNodes : ShownAt(t.root, t.orphans, o[1], o[2])}
PROOF
<1> DEFINE p == t.root
           nodes == NodesOf(p)
<1>1. nodes = Nodes(seen[r]) /\ IsFiniteSet(DOMAIN nodes) /\ 5 \in DOMAIN nodes
  BY NodesOfPart
<1>2. Descend(p) \subseteq DOMAIN nodes /\ \A e \in DOMAIN nodes : e \in Descend(p) <=> Below(nodes, e)
  <2>1. Descend(p) = Reached(nodes)
    BY DescendIs
  <2> HIDE DEF nodes
  <2> QED BY <1>1, <2>1, ReachedIsBelow
<1>3. \A q, e, x : x \in ShowChildren(q, e) <=>
         NodesOf(q)[e].folder /\ \E c \in {e} \cup Children(NodesOf(q), e) : x = <<q, c>>
  BY DEF ShowChildren
<1>4. \A x : x \in Show(t) <=>
         \/ \E d \in Descend(p) : Children(nodes, d) # {} /\ x \in ShowChildren(p, d)
         \/ \E o \in Orphans : x \in ShowChildren(o[1], o[2])
  BY DEF Show
<1>5. \A q, e, c : (c \in DOMAIN NodesOf(q) /\ HasChild(q, e, c)) <=> (c \in Children(NodesOf(q), e) /\ NodesOf(q)[e].folder)
  BY DEF HasChild, Children
<1>6. \A o \in Orphans : \E k \in DOMAIN seen : \E e \in DOMAIN NodesOf(seen[k].part) : o = <<seen[k].part, e>>
  <2>1. Orphans \subseteq AllNodes
    BY DEF Orphans, AllNodes
  <2> QED BY <2>1, OrphansAre, NodesOfPart
<1>7. \A o : o \in AllNodes <=> \E k \in DOMAIN seen : \E e \in DOMAIN NodesOf(seen[k].part) : o = <<seen[k].part, e>>
  BY OrphansAre, NodesOfPart
<1>8. \A q, e : Children(NodesOf(q), e) \subseteq DOMAIN NodesOf(q)
  BY DEF Children
<1> HIDE DEF p, nodes
<1>9. ASSUME NEW x \in Show(t) PROVE x \in AllNodes /\ ShownAt(p, Orphans, x[1], x[2])
  <2>1. CASE \E d \in Descend(p) : Children(nodes, d) # {} /\ x \in ShowChildren(p, d)
    <3>1. PICK d \in Descend(p) : Children(nodes, d) # {} /\ x \in ShowChildren(p, d)
      BY <2>1
    <3>2. PICK c \in {d} \cup Children(nodes, d) : x = <<p, c>> /\ nodes[d].folder
      BY <1>3, <3>1 DEF nodes
    <3>3. d \in DOMAIN nodes /\ c \in DOMAIN nodes /\ Below(nodes, d)
      BY <1>2, <1>8, <3>2 DEF nodes
    <3>4. x \in AllNodes
      BY <1>7, <3>2, <3>3 DEF p, nodes
    <3>5. \E b \in DOMAIN nodes : HasChild(p, d, b) /\ c \in {b, d}
      BY <1>5, <3>1, <3>2 DEF nodes
    <3>6. ShownAt(p, Orphans, p, c)
      BY <3>3, <3>5 DEF ShownAt, nodes
    <3> QED BY <3>2, <3>4, <3>6
  <2>2. CASE \E o \in Orphans : x \in ShowChildren(o[1], o[2])
    <3>1. PICK o \in Orphans : x \in ShowChildren(o[1], o[2])
      BY <2>2
    <3>2. PICK k \in DOMAIN seen : \E d \in DOMAIN NodesOf(seen[k].part) : o = <<seen[k].part, d>>
      BY <1>6
    <3>3. PICK q : q = seen[k].part
      OBVIOUS
    <3> PICK d \in DOMAIN NodesOf(q) : o = <<q, d>>
      BY <3>2, <3>3
    <3>4. x \in ShowChildren(q, d) /\ <<q, d>> \in Orphans /\ d \in DOMAIN NodesOf(q)
      BY <3>1, <3>2, <3>3
    <3>5. PICK c \in {d} \cup Children(NodesOf(q), d) : x = <<q, c>> /\ NodesOf(q)[d].folder
      BY <1>3, <3>4
    <3>6. c \in DOMAIN NodesOf(q)
      BY <1>8, <3>4
    <3>7. x \in AllNodes
      BY <1>7, <3>3, <3>5, <3>6
    <3>8. c = d \/ HasChild(q, d, c)
      BY <1>5, <3>5
    <3>9. ShownAt(p, Orphans, q, c)
      BY <3>4, <3>5, <3>8 DEF ShownAt
    <3> QED BY <3>5, <3>7, <3>9
  <2> QED BY <1>4, <2>1, <2>2
<1>10. ASSUME NEW x \in AllNodes, ShownAt(p, Orphans, x[1], x[2]) PROVE x \in Show(t)
  <2>1. PICK k \in DOMAIN seen : \E e \in DOMAIN NodesOf(seen[k].part) : x = <<seen[k].part, e>>
    BY <1>7
  <2>2. PICK q : q = seen[k].part
    OBVIOUS
  <2> PICK e \in DOMAIN NodesOf(q) : x = <<q, e>>
    BY <2>1, <2>2
  <2>3. x = <<q, e>> /\ ShownAt(p, Orphans, q, e) /\ e \in DOMAIN NodesOf(q)
    <3>1. x = <<q, e>>
      BY <2>1, <2>2
    <3>2. x[1] = q /\ x[2] = e
      BY <3>1
    <3> QED BY <1>10, <2>2, <3>1, <3>2
  <2>4. PICK d \in DOMAIN NodesOf(q) :
          \/ q = p /\ Below(NodesOf(q), d) /\ \E c \in DOMAIN NodesOf(q) : HasChild(q, d, c) /\ e \in {c, d}
          \/ <<q, d>> \in Orphans /\ NodesOf(q)[d].folder /\ (e = d \/ HasChild(q, d, e))
    BY <2>3 DEF ShownAt
  <2>5. CASE q = p /\ Below(NodesOf(q), d) /\ \E c \in DOMAIN NodesOf(q) : HasChild(q, d, c) /\ e \in {c, d}
    <3>1. PICK c \in DOMAIN NodesOf(q) : HasChild(q, d, c) /\ e \in {c, d}
      BY <2>5
    <3>2. c \in Children(nodes, d) /\ nodes[d].folder /\ d \in Descend(p)
      BY <1>2, <1>5, <2>5, <3>1 DEF nodes
    <3>3. x \in ShowChildren(p, d)
      BY <1>3, <2>3, <2>5, <3>1, <3>2 DEF nodes
    <3> QED BY <1>4, <3>2, <3>3
  <2>6. CASE <<q, d>> \in Orphans /\ NodesOf(q)[d].folder /\ (e = d \/ HasChild(q, d, e))
    <3>1. e \in {d} \cup Children(NodesOf(q), d)
      BY <1>5, <2>3, <2>6
    <3>2. x \in ShowChildren(q, d)
      BY <1>3, <2>3, <2>6, <3>1
    <3>3. PICK o \in Orphans : o = <<q, d>>
      BY <2>6
    <3>4. o[1] = q /\ o[2] = d
      BY <3>3
    <3> QED BY <1>4, <3>2, <3>4
  <2> QED BY <2>4, <2>5, <2>6
<1>11. Show(t) = {o \in AllNodes : ShownAt(p, Orphans, o[1], o[2])}
  BY <1>9, <1>10
<1> QED BY <1>11 DEF p
(* The partitions come one by one, each with the records that its filters  *)
(* select of its own, and the tree's root is one of them (main, Build).    *)
LEMMA SelectionTyped == Spec => []SelectionTypeOK
PROOF
<1>1. SelectionInv => SelectionTypeOK
  <2> SUFFICES ASSUME SelectionInv PROVE SelectionTypeOK
    OBVIOUS
  <2>1. SelectedType /\ Grown
    BY DEF SelectionInv
  <2>2. \A x : x \in ToSet(seen) <=> \E k \in DOMAIN seen : x = seen[k]
    BY DEF ToSet
  <2>3. todo \subseteq Loaded
    BY <2>1 DEF SelectedType
  <2>4. \A k \in DOMAIN seen : seen[k].part \in Loaded \ todo
    <3> DEFINE E == [part : Loaded, sel : Seq(Nat)]
    <3>1. seen \in Seq(E) /\ \A k \in DOMAIN seen : seen[k].part \notin todo
      BY <2>1 DEF SelectedType
    <3>2. \A e \in E : e.part \in Loaded
      OBVIOUS
    <3> HIDE DEF E
    <3> QED BY <3>1, <3>2
  <2>5. \A k \in DOMAIN seen : ToSet(seen[k].sel) \subseteq DOMAIN job.parts[seen[k].part].records
    <3> SUFFICES ASSUME NEW k \in DOMAIN seen PROVE ToSet(seen[k].sel) \subseteq RecordsAt(seen[k].part)
      BY DEF RecordsAt
    <3>1. seen[k].sel \in Seq(RecordsAt(seen[k].part))
      BY <2>1 DEF SelectedType
    <3> QED BY <3>1, OwnElements
  <2>6. tree.root \in {0} \cup {seen[k].part : k \in DOMAIN seen}
    BY <2>1 DEF Grown
  <2> QED BY <2>2, <2>3, <2>4, <2>5, <2>6 DEF SelectionTypeOK
<1> QED BY <1>1, SelectionInvHolds, PTL

(* The tree has the root of the last partition that has one and every      *)
(* orphan node of the partitions, and shows the folders below that root    *)
(* with what is in them and the orphan folders: for every evidence,        *)
(* whatever the order of the partitions (Build, Show).                     *)
THEOREM TreeExactHolds == Spec => []TreeExact
PROOF
<1>1. SelectionInv => TreeExact
  <2> SUFFICES ASSUME SelectionInv, args.tree, phase \in {"loop", "done"}
               PROVE  /\ tree.root = RootOf(Len(seen))
                      /\ tree.orphans = Orphans
                      /\ args.showtree /\ seen # <<>> =>
                           tree.printed = {o \in AllNodes : ShownAt(tree.root, Orphans, o[1], o[2])}
    <3> DEFINE Same == /\ tree.root = RootOf(Len(seen))
                       /\ tree.orphans = Orphans
                       /\ args.showtree /\ seen # <<>> =>
                            tree.printed = {o \in AllNodes : ShownAt(tree.root, Orphans, o[1], o[2])}
               with == {k \in DOMAIN seen : 5 \in DOMAIN Nodes(seen[k])}
               root == IF with = {} THEN 0 ELSE seen[Max(with)].part
               has(p, e, c) == c # 5 /\ NodesOf(p)[c].parref = e /\ NodesOf(p)[e].folder
               shown(p, e) ==
                 \E d \in DOMAIN NodesOf(p) :
                   \/ p = root /\ Below(NodesOf(p), d) /\ \E c \in DOMAIN NodesOf(p) :
                        has(p, d, c) /\ e \in {c, d}
                   \/ <<p, d>> \in Orphans /\ NodesOf(p)[d].folder /\ (e = d \/ has(p, d, e))
    <3>1. SelectionInv => root = RootOf(Len(seen))
      <4>1. SelectionInv => with = Rooted(Len(seen))
        BY DEF SelectionInv, SelectedType, Rooted
      <4> QED BY <4>1 DEF RootOf
    <3>2. \A p, e : shown(p, e) <=> ShownAt(root, Orphans, p, e)
      BY DEF ShownAt, HasChild
    <3>3. TreeExact <=>
            (args.tree /\ phase \in {"loop", "done"} =>
               /\ tree.root = root
               /\ tree.orphans = Orphans
               /\ args.showtree /\ seen # <<>> => tree.printed = {o \in AllNodes : shown(o[1], o[2])})
      BY DEF TreeExact, Orphans, AllNodes
    <3> HIDE DEF root, shown
    <3> QED BY <3>1, <3>2, <3>3
  <2>1. SelectedType /\ Grown /\ Printed /\ Added = Len(seen)
    BY DEF SelectionInv, Added
  <2>2. tree.root = RootOf(Len(seen)) /\ tree.orphans = LoneOf(Len(seen))
    BY <2>1 DEF Grown
  <2>3. tree.orphans = Orphans
    BY <2>1, <2>2, OrphansAre
  <2>4. ASSUME args.showtree, seen # <<>>
        PROVE  tree.printed = {o \in AllNodes : ShownAt(tree.root, Orphans, o[1], o[2])}
    <3>1. tree.root # 0 /\ tree.printed = Show(tree)
      BY <2>1, <2>4 DEF Printed
    <3>2. PICK n : n = Len(seen)
      OBVIOUS
    <3>3. n \in Nat /\ DOMAIN seen = 1 .. n
      BY <2>1, <3>2 DEF SelectedType
    <3>4. Rooted(n) # {} /\ tree.root = seen[Max(Rooted(n))].part
      BY <2>2, <3>1, <3>2 DEF RootOf
    <3>5. Rooted(n) \subseteq 0 .. n
      BY <3>3 DEF Rooted
    <3>6. PICK r : r = Max(Rooted(n)) /\ r \in Rooted(n)
      BY <3>3, <3>4, <3>5, MaxOf
    <3>7. r \in DOMAIN seen /\ 5 \in DOMAIN Nodes(seen[r]) /\ tree.root = seen[r].part
      BY <3>3, <3>4, <3>6 DEF Rooted
    <3>8. Show(tree) = {o \in AllNodes : ShownAt(tree.root, tree.orphans, o[1], o[2])}
      BY <2>1, <2>3, <3>7, ShowIs
    <3> QED BY <2>3, <3>1, <3>8
  <2> QED BY <2>2, <2>3, <2>4
<1> QED BY <1>1, SelectionInvHolds, PTL
-----------------------------------------------------------------------------
(* What the catalog of shadow copies lists *)

\* What is assumed of the shadow copies of a volume.
Readable(vss) ==
  /\ IsFiniteSet(DOMAIN vss.blocks)
  /\ \A b \in DOMAIN vss.blocks :
       /\ vss.blocks[b].entries \in Seq(ToSet(vss.blocks[b].entries))
       /\ \A e \in ToSet(vss.blocks[b].entries) : e.type = 3 => e.store \in DOMAIN vss.stores
  /\ \A s \in DOMAIN vss.stores :
       /\ vss.stores[s].ranges \in Seq([start : Nat, shadow : Nat, size : Nat])
       /\ vss.stores[s].list \in Seq([original : Nat, shadow : Nat])

(* What comes before the first of some positions is a sequence.            *)
LEMMA BeforeType ==
  ASSUME NEW S, NEW s \in Seq(S), NEW T, T \subseteq DOMAIN s
  PROVE  (IF T = {} THEN s ELSE SubSeq(s, 1, Min(T) - 1)) \in Seq(S)
PROOF
<1>1. DOMAIN s = 1 .. Len(s) /\ Len(s) \in Nat
  OBVIOUS
<1>2. T # {} => Min(T) \in 1 .. Len(s)
  <2> SUFFICES ASSUME T # {} PROVE Min(T) \in 1 .. Len(s)
    OBVIOUS
  <2>1. T \subseteq Nat
    BY <1>1
  <2>2. Min(T) \in T
    BY <2>1, MinOf
  <2> QED BY <1>1, <2>2
<1>3. ASSUME NEW m \in 1 .. Len(s) PROVE SubSeq(s, 1, m - 1) \in Seq(S)
  <2>1. m - 1 \in 0 .. Len(s) /\ \A i \in 1 .. m - 1 : s[i] \in S
    BY <1>1
  <2> QED BY <2>1
<1> QED BY <1>2, <1>3

(* The stores that a block lists are of the volume.                        *)
LEMMA ListedType ==
  ASSUME NEW vss, Readable(vss), NEW b
  PROVE  ListedIn(vss, b) \in Seq(DOMAIN vss.stores)
PROOF
<1> DEFINE entries == BlockAt(vss, b).entries
           S       == ToSet(entries)
           ends    == {n \in DOMAIN entries : entries[n].type \notin {1, 2, 3}}
           part    == IF ends = {} THEN entries ELSE SubSeq(entries, 1, Min(ends) - 1)
           T       == {e \in ToSet(part) : e.type = 3}
           stores  == Keep(part, T)
<1>1. entries \in Seq(S) /\ \A e \in S : e.type = 3 => e.store \in DOMAIN vss.stores
  <2>1. CASE b \in DOMAIN vss.blocks
    BY <2>1 DEF BlockAt, Readable
  <2>2. CASE b \notin DOMAIN vss.blocks
    <3>1. entries = <<>>
      BY <2>2 DEF BlockAt
    <3>2. S = {}
      BY <3>1 DEF ToSet
    <3> QED BY <3>1, <3>2
  <2> QED BY <2>1, <2>2
<1>2. part \in Seq(S)
  <2>1. ends \subseteq DOMAIN entries
    OBVIOUS
  <2> HIDE DEF entries, ends, S
  <2> QED BY <1>1, <2>1, BeforeType
<1>3. stores \in Seq(S \cap T)
  <2> HIDE DEF part, S, T
  <2> QED BY <1>2, KeepType
<1>4. \A e \in S \cap T : e.store \in DOMAIN vss.stores
  BY <1>1
<1> DEFINE D == DOMAIN vss.stores
           E == S \cap T
<1>5. [n \in DOMAIN stores |-> stores[n].store] \in Seq(D)
  <2>1. stores \in Seq(E) /\ \A e \in E : e.store \in D
    BY <1>3, <1>4
  <2> HIDE DEF stores, E, D
  <2>2. DOMAIN stores = 1 .. Len(stores) /\ Len(stores) \in Nat /\ \A n \in 1 .. Len(stores) : stores[n] \in E
    BY <2>1
  <2>3. \A n \in DOMAIN stores : stores[n].store \in D
    BY <2>1, <2>2
  <2> QED BY <2>2, <2>3
<1> QED BY <1>5 DEF ListedIn

(* What the first blocks list, one block after the other.                  *)
LEMMA UptoType ==
  ASSUME NEW vss, Readable(vss), NEW chain, NEW m \in Nat
  PROVE  Upto(vss, chain, m) \in Seq(DOMAIN vss.stores)
PROOF
<1> DEFINE D == DOMAIN vss.stores
           V == Seq(D)
           l(n) == ListedIn(vss, chain[n])
<1>1. \A n \in 1 .. m : l(n) \in V
  BY ListedType
<1> HIDE DEF V, l
<1>2. [n \in 1 .. m |-> l(n)] \in Seq(V)
  BY <1>1
<1>3. FlattenSeq([n \in 1 .. m |-> l(n)]) \in Seq(D)
  <2> HIDE DEF D
  <2> QED BY <1>2, FlattenType DEF V
<1> QED BY <1>3 DEF Upto, l

LEMMA UptoNext ==
  ASSUME NEW vss, Readable(vss), NEW chain, NEW m \in Nat
  PROVE  Upto(vss, chain, m + 1) = Upto(vss, chain, m) \o ListedIn(vss, chain[m + 1])
PROOF
<1> DEFINE D == DOMAIN vss.stores
           V == Seq(D)
           l(n) == ListedIn(vss, chain[n])
           s == [n \in 1 .. m |-> l(n)]
           t == [n \in 1 .. m + 1 |-> l(n)]
<1>1. \A n \in 1 .. m + 1 : l(n) \in V
  BY ListedType
<1>2. s \in Seq(V) /\ l(m + 1) \in V /\ t = Append(s, l(m + 1))
  <2> HIDE DEF V, l
  <2>1. s \in Seq(V) /\ Len(s) = m /\ l(m + 1) \in V /\ t \in Seq(V) /\ Len(t) = m + 1
    BY <1>1
  <2> QED BY <2>1
<1>3. FlattenSeq(t) = FlattenSeq(s) \o l(m + 1)
  <2> HIDE DEF D, l, s, t
  <2> QED BY <1>2, FlattenAppend DEF V
<1> QED BY <1>3 DEF Upto

(* They say nothing of the blocks behind them.                             *)
LEMMA UptoSame ==
  ASSUME NEW vss, NEW c, NEW d, NEW m, \A n \in 1 .. m : c[n] = d[n]
  PROVE  Upto(vss, c, m) = Upto(vss, d, m)
PROOF
<1>1. [n \in 1 .. m |-> ListedIn(vss, c[n])] = [n \in 1 .. m |-> ListedIn(vss, d[n])]
  OBVIOUS
<1> QED BY <1>1 DEF Upto
-----------------------------------------------------------------------------
(* The chain of the blocks *)

\* What follows a block, and the blocks there can be.
Follows(vss, b) == BlockAt(vss, b).next
Reachable(vss)  == {vss.catalog} \cup {Follows(vss, b) : b \in DOMAIN vss.blocks} \cup {0}

\* c leads from the first block of the catalog from one to the next.
Way(vss, c) ==
  /\ c \in Seq(Reachable(vss)) /\ Len(c) > 0 /\ c[1] = vss.catalog
  /\ \A k \in 1 .. Len(c) - 1 : Follows(vss, c[k]) = c[k + 1] /\ c[k + 1] # 0

(* The way to the last block is the chain, if it is not longer than it can *)
(* be without coming back.                                                 *)
LEMMA ChainIs ==
  ASSUME NEW vss, NEW c, Way(vss, c), NEW N \in Nat, N = Cardinality(DOMAIN vss.blocks),
         Len(c) <= N + 1, Follows(vss, c[Len(c)]) = 0
  PROVE  Chain(vss) = c
PROOF
<1> DEFINE next(s) == IF Follows(vss, Last(s)) = 0 THEN s ELSE Append(s, Follows(vss, Last(s)))
           Is(h) == h = [k \in 0 .. N |-> IF k = 0 THEN <<vss.catalog>> ELSE next(h[k - 1])]
           cut(k) == IF k < Len(c) THEN SubSeq(c, 1, k + 1) ELSE c
           g == [k \in 0 .. N |-> cut(k)]
           h == CHOOSE x : Is(x)
           L == Len(c)
           S == Reachable(vss)
<1>1. c \in Seq(S) /\ L \in Nat /\ L > 0 /\ L <= N + 1 /\ DOMAIN c = 1 .. L /\ \A k \in 1 .. L : c[k] \in S
  <2> HIDE DEF S
  <2> QED BY DEF Way, S
<1>2. cut(0) = <<vss.catalog>>
  <2>1. c[1] = vss.catalog
    BY DEF Way
  <2>2. SubSeq(c, 1, 1) = <<c[1]>>
    <3> HIDE DEF S
    <3>1. 1 \in 1 .. L /\ c[1] \in S
      BY <1>1
    <3>2. PICK s : s = SubSeq(c, 1, 1)
      OBVIOUS
    <3>3. s \in Seq(S) /\ Len(s) = 1 /\ s[1] = c[1]
      BY <1>1, <3>1, <3>2
    <3>4. PICK t : t = <<c[1]>>
      OBVIOUS
    <3>5. t \in Seq(S) /\ Len(t) = 1 /\ t[1] = c[1]
      BY <3>1, <3>4
    <3>6. s = t
      BY <3>3, <3>5
    <3> QED BY <3>2, <3>4, <3>6
  <2>3. 0 < L /\ 0 + 1 = 1
    BY <1>1
  <2> QED BY <2>1, <2>2, <2>3
<1>3. ASSUME NEW k \in 1 .. N PROVE cut(k) = next(cut(k - 1))
  <2>1. CASE k < L
    <3>1. cut(k - 1) = SubSeq(c, 1, k) /\ Last(cut(k - 1)) = c[k]
      <4> HIDE DEF S
      <4> QED BY <1>1, <2>1 DEF Last
    <3>2. Follows(vss, c[k]) = c[k + 1] /\ c[k + 1] # 0
      BY <1>1, <2>1 DEF Way
    <3>3. SubSeq(c, 1, k + 1) = Append(SubSeq(c, 1, k), c[k + 1])
      <4> HIDE DEF S
      <4>1. c[k + 1] \in S /\ \A i \in 1 .. k + 1 : c[i] \in S
        BY <1>1, <2>1
      <4> QED BY <1>1, <2>1, <4>1
    <3> QED BY <2>1, <3>1, <3>2, <3>3
  <2>2. CASE ~(k < L)
    <3>1. cut(k - 1) = c
      <4>1. ~(k - 1 < L) \/ (k - 1) + 1 = L
        <5> HIDE DEF S, L, cut, next, h, g, Is
        <5> QED BY <1>1, <2>2
      <4>2. SubSeq(c, 1, L) = c
        <5> HIDE DEF S
        <5> QED BY <1>1
      <4> QED BY <4>1, <4>2
    <3>2. Last(c) = c[L]
      BY DEF Last
    <3> QED BY <2>2, <3>1, <3>2
  <2> QED BY <2>1, <2>2
<1> HIDE DEF next, cut, S
<1>4. Is(g)
  <2>1. \A k \in 1 .. N : k - 1 \in 0 .. N
    OBVIOUS
  <2>2. \A k \in 0 .. N : g[k] = IF k = 0 THEN <<vss.catalog>> ELSE next(g[k - 1])
    <3> SUFFICES ASSUME NEW k \in 0 .. N PROVE cut(k) = IF k = 0 THEN <<vss.catalog>> ELSE next(g[k - 1])
      OBVIOUS
    <3>1. k # 0 => k \in 1 .. N
      OBVIOUS
    <3> QED BY <1>2, <1>3, <2>1, <3>1
  <2> QED BY <2>2
<1>5. Is(h)
  <2> HIDE DEF Is
  <2> QED BY <1>4
<1>6. h[0] = cut(0) /\ \A k \in 1 .. N : h[k] = next(h[k - 1])
  <2> HIDE DEF h
  <2>1. 0 \in 0 .. N /\ \A k \in 1 .. N : k \in 0 .. N /\ k # 0
    OBVIOUS
  <2> QED BY <1>2, <1>5, <2>1
<1>7. Chain(vss) = h[N]
  <2>1. h = CHOOSE x : x = [k \in 0 .. N |-> IF k = 0 THEN <<vss.catalog>>
                                             ELSE LET n == BlockAt(vss, Last(x[k - 1])).next
                                                  IN IF n = 0 THEN x[k - 1] ELSE Append(x[k - 1], n)]
    BY DEF next, Follows
  <2> HIDE DEF h
  <2> QED BY <2>1 DEF Chain
<1> HIDE DEF h, Is
<1> DEFINE I == {k \in 0 .. N : h[k] = cut(k)}
<1>8. 0 .. N \subseteq I
  <2>1. 0 \in I
    BY <1>6
  <2>2. ASSUME NEW k \in 0 .. N - 1, k \in I PROVE k + 1 \in I
    <3>1. k + 1 \in 1 .. N /\ (k + 1) - 1 = k /\ k + 1 \in 0 .. N
      OBVIOUS
    <3> QED BY <1>3, <1>6, <2>2, <3>1
  <2> HIDE DEF I
  <2> QED BY <2>1, <2>2, BoundedInduction
<1>9. cut(N) = c
  <2>1. N < L => N + 1 = L
    BY <1>1
  <2>2. SubSeq(c, 1, L) = c
    <3> HIDE DEF S
    <3> QED BY <1>1
  <2> QED BY <2>1, <2>2 DEF cut
<1> QED BY <1>7, <1>8, <1>9

(* One block more.                                                         *)
LEMMA WayOn ==
  ASSUME NEW vss, NEW c, Way(vss, c), NEW b, b = Follows(vss, c[Len(c)]), b # 0
  PROVE  /\ Way(vss, Append(c, b)) /\ Len(Append(c, b)) = Len(c) + 1
         /\ \A k \in 1 .. Len(c) : Append(c, b)[k] = c[k]
         /\ Append(c, b)[Len(c) + 1] = b
         /\ c[Len(c)] \in DOMAIN vss.blocks
PROOF
<1> DEFINE S == Reachable(vss)
           d == Append(c, b)
<1>1. c \in Seq(S) /\ Len(c) \in Nat /\ Len(c) > 0 /\ c[1] = vss.catalog
  <2> HIDE DEF S
  <2> QED BY DEF Way, S
<1>2. c[Len(c)] \in DOMAIN vss.blocks
  BY DEF Follows, BlockAt
<1>3. b \in S
  BY <1>2 DEF Reachable
<1>4. d \in Seq(S) /\ Len(d) = Len(c) + 1 /\ d[Len(c) + 1] = b /\ \A k \in 1 .. Len(c) : d[k] = c[k]
  <2> HIDE DEF S
  <2> QED BY <1>1, <1>3
<1>5. ASSUME NEW k \in 1 .. Len(d) - 1 PROVE Follows(vss, d[k]) = d[k + 1] /\ d[k + 1] # 0
  <2> HIDE DEF d
  <2>1. CASE k = Len(c)
    BY <1>1, <1>4, <2>1
  <2>2. CASE k # Len(c)
    <3>1. k \in 1 .. Len(c) - 1 /\ k \in 1 .. Len(c) /\ k + 1 \in 1 .. Len(c)
      BY <1>1, <1>4, <2>2
    <3>2. Follows(vss, c[k]) = c[k + 1] /\ c[k + 1] # 0
      BY <3>1 DEF Way
    <3> QED BY <1>4, <3>1, <3>2
  <2> QED BY <2>1, <2>2
<1>6. 1 \in 1 .. Len(c)
  BY <1>1
<1>7. Way(vss, d)
  <2> HIDE DEF d, S
  <2>1. Len(d) > 0 /\ d[1] = vss.catalog
    BY <1>1, <1>4, <1>6
  <2> QED BY <1>4, <1>5, <2>1 DEF Way, S
<1> QED BY <1>2, <1>4, <1>7
-----------------------------------------------------------------------------
(* Reading the catalog *)

CatalogsOf(vss, c, m) == [k \in 1 .. m |-> Upto(vss, c, k)]
StoresOf(vss)         == FlattenSeq(CatalogsOf(vss, Chain(vss), Len(Chain(vss)) - 1))

\* How far a catalog is read: a way through blocks that were read once each, to the one
\* that comes next, or to the last.
Walked(vss, s) ==
  \E c : /\ Way(vss, c)
         /\ s.catalogs = CatalogsOf(vss, c, Len(c) - 1)
         /\ s.pc = "catalog" =>
              /\ s.at = c[Len(c)] /\ s.at \notin s.read
              /\ s.read \subseteq DOMAIN vss.blocks /\ Cardinality(s.read) = Len(c) - 1
              /\ s.listed = Upto(vss, c, Len(c) - 1)
         /\ s.pc = "stores" =>
              Follows(vss, c[Len(c)]) = 0 /\ Len(c) - 1 <= Cardinality(DOMAIN vss.blocks)

(* At the first block, nothing is read.                                    *)
LEMMA WalkBegins ==
  ASSUME NEW vss, NEW s, s.pc = "catalog", s.at = vss.catalog, s.read = {}, s.listed = <<>>, s.catalogs = <<>>
  PROVE  Walked(vss, s)
PROOF
<1> DEFINE c == <<vss.catalog>>
           S == Reachable(vss)
<1>1. vss.catalog \in S
  BY DEF Reachable
<1>2. c \in Seq(S) /\ Len(c) = 1 /\ c[1] = vss.catalog
  <2> HIDE DEF S
  <2> QED BY <1>1
<1>3. Way(vss, c)
  <2> HIDE DEF c, S
  <2> QED BY <1>2 DEF Way, S
<1>4. Upto(vss, c, 0) = <<>> /\ CatalogsOf(vss, c, 0) = <<>>
  <2>1. 1 .. 0 = {} /\ \A f : [n \in {} |-> f[n]] = <<>>
    OBVIOUS
  <2>2. [n \in 1 .. 0 |-> ListedIn(vss, c[n])] = <<>> /\ [n \in 1 .. 0 |-> Upto(vss, c, n)] = <<>>
    OBVIOUS
  <2> QED BY <2>2, FlattenEmpty DEF Upto, CatalogsOf
<1>5. Cardinality({}) = 0 /\ Len(c) - 1 = 0
  BY <1>2, FS_EmptySet
<1> HIDE DEF c
<1> QED BY <1>2, <1>3, <1>4, <1>5 DEF Walked

\* What reading a block makes of s, when the next is b.
ReadOn(s, t, b, listed) ==
  /\ t.read = s.read \cup {s.at}
  /\ \/ b = 0 /\ t.pc = "stores" /\ t.catalogs = s.catalogs
     \/ /\ b # 0 /\ b \notin s.read \cup {s.at}
        /\ t.pc = "catalog" /\ t.at = b /\ t.listed = listed /\ t.catalogs = Append(s.catalogs, listed)

(* A block is read and leads to one that was not, or is the last.          *)
LEMMA WalkOn ==
  ASSUME NEW vss, Readable(vss), NEW s, s.pc = "catalog", Walked(vss, s), NEW t,
         ReadOn(s, t, Follows(vss, s.at), s.listed \o ListedIn(vss, s.at))
  PROVE  Walked(vss, t)
PROOF
<1>0. PICK b, listed : /\ b = Follows(vss, s.at) /\ listed = s.listed \o ListedIn(vss, s.at)
                       /\ t.read = s.read \cup {s.at}
                       /\ \/ b = 0 /\ t.pc = "stores" /\ t.catalogs = s.catalogs
                          \/ /\ b # 0 /\ b \notin s.read \cup {s.at}
                             /\ t.pc = "catalog" /\ t.at = b /\ t.listed = listed
                             /\ t.catalogs = Append(s.catalogs, listed)
  BY DEF ReadOn
<1>1. PICK c : /\ Way(vss, c)
               /\ s.catalogs = CatalogsOf(vss, c, Len(c) - 1)
               /\ s.at = c[Len(c)] /\ s.at \notin s.read
               /\ s.read \subseteq DOMAIN vss.blocks /\ Cardinality(s.read) = Len(c) - 1
               /\ s.listed = Upto(vss, c, Len(c) - 1)
  BY DEF Walked
<1> DEFINE N == Cardinality(DOMAIN vss.blocks)
           L == Len(c)
<1>2. L \in Nat /\ L > 0
  <2> DEFINE S == Reachable(vss)
  <2>1. c \in Seq(S) /\ L > 0
    BY <1>1 DEF Way
  <2> HIDE DEF S
  <2> QED BY <2>1
<1>3. IsFiniteSet(DOMAIN vss.blocks) /\ IsFiniteSet(s.read) /\ N \in Nat /\ L - 1 <= N
  BY <1>1, FS_Subset, FS_CardinalityType DEF Readable
<1>4. CASE b = 0
  BY <1>0, <1>1, <1>3, <1>4 DEF Walked
<1>5. CASE b # 0
  <2> DEFINE d == Append(c, b)
  <2>1. /\ Way(vss, d) /\ Len(d) = L + 1 /\ (\A k \in 1 .. L : d[k] = c[k]) /\ d[L + 1] = b
        /\ c[L] \in DOMAIN vss.blocks
    BY <1>0, <1>1, <1>5, WayOn
  <2> HIDE DEF d
  <2>2. t.at = d[Len(d)] /\ t.at \notin t.read /\ t.read \subseteq DOMAIN vss.blocks
    BY <1>0, <1>1, <1>5, <2>1
  <2>3. Cardinality(t.read) = L
    <3>1. Cardinality(s.read \cup {s.at}) = Cardinality(s.read) + 1
      BY <1>1, <1>3, FS_AddElement
    <3> QED BY <1>0, <1>1, <1>2, <1>5, <3>1
  <2>4. \A k \in 1 .. L : Upto(vss, d, k) = Upto(vss, c, k)
    <3> SUFFICES ASSUME NEW k \in 1 .. L PROVE Upto(vss, d, k) = Upto(vss, c, k)
      OBVIOUS
    <3>1. \A n \in 1 .. k : d[n] = c[n]
      BY <1>2, <2>1
    <3> QED BY <3>1, UptoSame
  <2>5. listed = Upto(vss, c, L)
    <3>1. L - 1 \in Nat /\ (L - 1) + 1 = L
      BY <1>2
    <3>2. Upto(vss, c, L) = Upto(vss, c, L - 1) \o ListedIn(vss, c[L])
      BY <3>1, UptoNext
    <3> QED BY <1>0, <1>1, <3>2
  <2>6. L \in 1 .. L /\ t.listed = Upto(vss, d, L)
    BY <1>0, <1>2, <1>5, <2>4, <2>5
  <2>7. CatalogsOf(vss, d, L) = Append(s.catalogs, listed)
    <3> DEFINE V == Seq(DOMAIN vss.stores)
               u(k) == Upto(vss, c, k)
    <3>1. \A k \in 1 .. L : u(k) \in V
      BY UptoType
    <3>2. CatalogsOf(vss, d, L) = [k \in 1 .. L |-> u(k)]
      BY <2>4 DEF CatalogsOf
    <3>3. s.catalogs = [k \in 1 .. L - 1 |-> u(k)]
      BY <1>1 DEF CatalogsOf
    <3>4. listed = u(L)
      BY <2>5
    <3> HIDE DEF V, u, L
    <3>5. [k \in 1 .. L |-> u(k)] = Append([k \in 1 .. L - 1 |-> u(k)], u(L))
      <4>1. /\ [k \in 1 .. L - 1 |-> u(k)] \in Seq(V) /\ Len([k \in 1 .. L - 1 |-> u(k)]) = L - 1
            /\ [k \in 1 .. L |-> u(k)] \in Seq(V) /\ Len([k \in 1 .. L |-> u(k)]) = L /\ u(L) \in V
        BY <1>2, <3>1
      <4> QED BY <1>2, <4>1
    <3> QED BY <3>2, <3>3, <3>4, <3>5
  <2>8. Len(d) - 1 = L
    BY <1>2, <2>1
  <2> QED BY <1>0, <1>5, <2>1, <2>2, <2>3, <2>6, <2>7, <2>8 DEF Walked
<1> QED BY <1>4, <1>5

(* Behind the last block, what is read is what the whole chain lists, all  *)
(* of it stores of the volume.                                             *)
LEMMA WalkEnds ==
  ASSUME NEW vss, Readable(vss), NEW s, s.pc = "stores", Walked(vss, s)
  PROVE  FlattenSeq(s.catalogs) = StoresOf(vss) /\ FlattenSeq(s.catalogs) \in Seq(DOMAIN vss.stores)
PROOF
<1>1. PICK c : /\ Way(vss, c)
               /\ s.catalogs = CatalogsOf(vss, c, Len(c) - 1)
               /\ Follows(vss, c[Len(c)]) = 0 /\ Len(c) - 1 <= Cardinality(DOMAIN vss.blocks)
  BY DEF Walked
<1>2. Len(c) \in Nat
  <2> DEFINE S == Reachable(vss)
  <2>1. c \in Seq(S)
    BY <1>1 DEF Way
  <2> HIDE DEF S
  <2> QED BY <2>1
<1>3. PICK N \in Nat : N = Cardinality(DOMAIN vss.blocks)
  BY FS_CardinalityType DEF Readable
<1>4. Len(c) <= N + 1
  BY <1>1, <1>2, <1>3
<1>5. Chain(vss) = c
  BY <1>1, <1>3, <1>4, ChainIs
<1>6. FlattenSeq(s.catalogs) \in Seq(DOMAIN vss.stores)
  <2> DEFINE D == DOMAIN vss.stores
             V == Seq(D)
             u(k) == Upto(vss, c, k)
             M == Len(c) - 1
  <2>1. M \in Nat
    <3> DEFINE S == Reachable(vss)
    <3>1. c \in Seq(S) /\ Len(c) > 0
      BY <1>1 DEF Way
    <3> HIDE DEF S
    <3> QED BY <3>1
  <2>2. \A k \in 1 .. M : u(k) \in V
    BY UptoType
  <2>3. s.catalogs = [k \in 1 .. M |-> u(k)]
    BY <1>1 DEF CatalogsOf
  <2> HIDE DEF V, u, M
  <2>4. s.catalogs \in Seq(V)
    BY <2>1, <2>2, <2>3
  <2> HIDE DEF D
  <2>5. FlattenSeq(s.catalogs) \in Seq(D)
    BY <2>4, FlattenType DEF V
  <2> QED BY <2>5 DEF D
<1> QED BY <1>1, <1>5, <1>6 DEF StoresOf

-----------------------------------------------------------------------------
(* Looking a cluster up *)

(* Of the sequences that are flattened, the first that is not empty comes  *)
(* first.                                                                  *)
LEMMA FlattenFirst ==
  ASSUME NEW S
  PROVE  \A ss \in Seq(Seq(S)) : \A k \in DOMAIN ss :
           ss[k] # <<>> /\ (\A j \in 1 .. k - 1 : ss[j] = <<>>) =>
             FlattenSeq(ss) # <<>> /\ FlattenSeq(ss)[1] = ss[k][1]
PROOF
<1> DEFINE V == Seq(S)
           First_(ss) == \A k \in DOMAIN ss :
                           ss[k] # <<>> /\ (\A j \in 1 .. k - 1 : ss[j] = <<>>) =>
                             FlattenSeq(ss) # <<>> /\ FlattenSeq(ss)[1] = ss[k][1]
           P == {ss \in Seq(V) : First_(ss)}
<1>1. <<>> \in P
  <2>1. <<>> \in Seq(V) /\ DOMAIN <<>> = {}
    OBVIOUS
  <2> QED BY <2>1
<1>2. ASSUME NEW ss \in Seq(V), NEW e \in V, ss \in P PROVE Append(ss, e) \in P
  <2> DEFINE tt == Append(ss, e)
             n == Len(ss)
  <2>1. /\ tt \in Seq(V) /\ n \in Nat /\ DOMAIN ss = 1 .. n /\ DOMAIN tt = 1 .. n + 1
        /\ tt[n + 1] = e /\ \A j \in 1 .. n : tt[j] = ss[j]
    <3> HIDE DEF V
    <3> QED OBVIOUS
  <2>2. FlattenSeq(tt) = FlattenSeq(ss) \o e /\ FlattenSeq(ss) \in Seq(S)
    BY FlattenAppend, FlattenType
  <2> HIDE DEF tt, n
  <2> SUFFICES ASSUME NEW k \in 1 .. n + 1, tt[k] # <<>>, \A j \in 1 .. k - 1 : tt[j] = <<>>
               PROVE  FlattenSeq(tt) # <<>> /\ FlattenSeq(tt)[1] = tt[k][1]
    BY <2>1 DEF tt
  <2>3. CASE k \in 1 .. n
    <3>1. ss[k] # <<>> /\ \A j \in 1 .. k - 1 : ss[j] = <<>>
      <4>1. \A j \in 1 .. k - 1 : j \in 1 .. n
        BY <2>1, <2>3
      <4> QED BY <2>1, <2>3, <4>1
    <3>2. FlattenSeq(ss) # <<>> /\ FlattenSeq(ss)[1] = ss[k][1]
      BY <1>2, <2>1, <2>3, <3>1
    <3> DEFINE f == FlattenSeq(ss)
    <3> HIDE DEF f
    <3>3. f \in Seq(S) /\ f # <<>> => f \o e # <<>> /\ (f \o e)[1] = f[1]
      <4> SUFFICES ASSUME f \in Seq(S), f # <<>> PROVE f \o e # <<>> /\ (f \o e)[1] = f[1]
        OBVIOUS
      <4>1. Len(f) > 0 /\ Len(f) \in Nat /\ Len(e) \in Nat
        OBVIOUS
      <4> QED BY <4>1
    <3> QED BY <2>1, <2>2, <2>3, <3>2, <3>3 DEF f
  <2>4. CASE k = n + 1
    <3>1. \A j \in 1 .. n : ss[j] = <<>>
      BY <2>1, <2>4
    <3>2. FlattenSeq(ss) = <<>>
      <4>1. \A j \in 1 .. Len(ss) : j # 0 => ss[j] = <<>>
        BY <3>1 DEF n
      <4>2. 0 \notin 1 .. Len(ss)
        BY <2>1
      <4> QED BY <4>1, <4>2, FlattenOne
    <3>3. <<>> \o e = e
      OBVIOUS
    <3> QED BY <2>1, <2>2, <2>4, <3>2, <3>3
  <2>5. k \in 1 .. n \/ k = n + 1
    BY <2>1
  <2> QED BY <2>3, <2>4, <2>5
<1>3. Seq(V) \subseteq P
  <2> HIDE DEF P, V
  <2> QED BY <1>1, <1>2, SeqInduction
<1> QED BY <1>3

(* What is asked of a sector that begins a cluster may be counted in       *)
(* clusters.                                                               *)
LEMMA InClusters ==
  ASSUME NEW n \in Nat \ {0}, NEW r, r.shadow \in Int, NEW c \in Int, r.start \in Int, r.start % n = 0
  PROVE  (r.shadow + c * n - r.start) \div n = (r.shadow \div n) + c - (r.start \div n)
PROOF
<1>0. PICK moved, start, at : moved = r.shadow /\ start = r.start /\ at = moved + c * n - start
  OBVIOUS
<1> DEFINE q == start \div n
           h == moved \div n
           m == moved % n
<1>1. q \in Int /\ start = n * q
  <2>1. start \in Int /\ start % n = 0
    BY <1>0
  <2> QED BY <2>1
<1>2. h \in Int /\ m \in 0 .. n - 1 /\ moved = n * h + m
  <2>1. moved \in Int
    BY <1>0
  <2> HIDE DEF q
  <2> QED BY <2>1
<1> HIDE DEF q, h, m
<1>3. moved + c * n - start = n * (h + c - q) + m
  BY <1>1, <1>2
<1>4. ASSUME NEW x \in Int PROVE (n * x + m) \div n = x
  <2> DEFINE z == n * x + m
             y == z \div n
             rest == z % n
  <2>1. z \in Int
    BY <1>2
  <2>2. y \in Int /\ rest \in 0 .. n - 1 /\ z = n * y + rest
    <3> HIDE DEF z
    <3> QED BY <2>1
  <2> HIDE DEF y, rest
  <2>3. n * x + m = n * y + rest
    BY <2>2
  <2>4. ~(y >= x + 1)
    <3> SUFFICES ASSUME y >= x + 1 PROVE FALSE
      OBVIOUS
    <3>1. n * y >= n * (x + 1)
      BY <2>2
    <3>2. n * (x + 1) = n * x + n
      OBVIOUS
    <3> QED BY <1>2, <2>2, <2>3, <3>1, <3>2
  <2>5. ~(x >= y + 1)
    <3> SUFFICES ASSUME x >= y + 1 PROVE FALSE
      OBVIOUS
    <3>1. n * x >= n * (y + 1)
      BY <2>2
    <3>2. n * (y + 1) = n * y + n
      BY <2>2
    <3> QED BY <1>2, <2>2, <2>3, <3>1, <3>2
  <2>6. y = x
    BY <2>2, <2>4, <2>5
  <2> QED BY <2>6 DEF y
<1>5. h + c - q \in Int
  BY <1>1, <1>2
<1>6. at \div n = h + c - q
  BY <1>3, <1>4, <1>5, <1>0
<1> QED BY <1>6, <1>0 DEF q, h
(* A store answers with the copies it has, counted in clusters.            *)
LEMMA AnswersAre ==
  ASSUME NEW store, store.ranges \in Seq([start : Nat, shadow : Nat, size : Nat]),
         store.list \in Seq([original : Nat, shadow : Nat]),
         NEW c \in Int, NEW spc \in Nat \ {0}, spc = RangeUnit,
         \A r \in ToSet(RangesOf(store)) : r.start % spc = 0
  PROVE  Answers(store, c, spc) \in Seq(Int) /\ Range(Answers(store, c, spc)) = Copies(store, c, spc)
PROOF
<1> DEFINE E == [start : Nat, shadow : Nat, size : Nat]
           F == [original : Nat, shadow : Nat]
           T == {r \in ToSet(RangesOf(store)) : HasClusters(r, c)}
           U == {d \in ToSet(store.list) : d.original = c * spc}
           ranges == Keep(RangesOf(store), T)
           own == Keep(store.list, U)
           value(r) == (r.shadow \div spc) + c - (r.start \div spc)
           first  == [n \in DOMAIN ranges |-> value(ranges[n])]
           second == [n \in DOMAIN own |-> own[n].shadow]
<1>1. RangesOf(store) \in Seq(E)
  <2> DEFINE zeros == {n \in DOMAIN store.ranges : store.ranges[n].start = 0}
             e == store.ranges
  <2>1. zeros \subseteq DOMAIN e /\ e \in Seq(E)
    OBVIOUS
  <2>2. (IF zeros = {} THEN e ELSE SubSeq(e, 1, Min(zeros) - 1)) \in Seq(E)
    <3> HIDE DEF zeros, e, E
    <3> QED BY <2>1, BeforeType
  <2> QED BY <2>2 DEF RangesOf
<1>2. ToSet(RangesOf(store)) \subseteq E /\ ToSet(RangesOf(store)) = Range(RangesOf(store))
  <2> HIDE DEF E
  <2> QED BY <1>1, OwnElements
<1>3. ranges \in Seq(E) /\ Range(ranges) = T
  <2>1. T \subseteq Range(RangesOf(store))
    BY <1>2
  <2> HIDE DEF E, T
  <2>2. Range(ranges) = Range(RangesOf(store)) \cap T
    BY <1>1, KeepRange
  <2> QED BY <1>1, <2>1, <2>2, KeepSeq
<1>4. store.list \in Seq(F) /\ ToSet(store.list) = Range(store.list) /\ ToSet(store.list) \subseteq F
  <2>1. store.list \in Seq(F)
    OBVIOUS
  <2> HIDE DEF F
  <2> QED BY <2>1, OwnElements
<1>5. own \in Seq(F) /\ Range(own) = U
  <2>1. U \subseteq Range(store.list)
    BY <1>4
  <2> HIDE DEF F, U
  <2>2. Range(own) = Range(store.list) \cap U
    BY <1>4, KeepRange
  <2> QED BY <1>4, <2>1, <2>2, KeepSeq
<1>6. \A r \in E : value(r) \in Int
  OBVIOUS
<1>7. first \in Seq(Int) /\ Range(first) = {value(r) : r \in T}
  <2> HIDE DEF E, T, value, ranges
  <2>1. DOMAIN ranges = 1 .. Len(ranges) /\ Len(ranges) \in Nat /\ \A n \in 1 .. Len(ranges) : ranges[n] \in E
    BY <1>3
  <2>2. first \in Seq(Int)
    BY <1>6, <2>1
  <2>3. \A x : x \in Range(first) <=> \E n \in DOMAIN ranges : x = value(ranges[n])
    BY DEF Range
  <2>4. \A r : r \in T <=> \E n \in DOMAIN ranges : r = ranges[n]
    BY <1>3 DEF Range
  <2> HIDE DEF first
  <2>5. \A x : x \in Range(first) <=> x \in {value(r) : r \in T}
    BY <2>3, <2>4
  <2> QED BY <2>2, <2>5
<1>8. second \in Seq(Int) /\ Range(second) = {d.shadow : d \in U}
  <2>1. \A d \in F : d.shadow \in Int
    OBVIOUS
  <2> HIDE DEF F, U, own
  <2>2. DOMAIN own = 1 .. Len(own) /\ Len(own) \in Nat /\ \A n \in 1 .. Len(own) : own[n] \in F
    BY <1>5
  <2>3. second \in Seq(Int)
    BY <2>1, <2>2
  <2>4. \A x : x \in Range(second) <=> \E n \in DOMAIN own : x = own[n].shadow
    BY DEF Range
  <2>5. \A r : r \in U <=> \E n \in DOMAIN own : r = own[n]
    BY <1>5 DEF Range
  <2> HIDE DEF second
  <2>6. \A x : x \in Range(second) <=> x \in {d.shadow : d \in U}
    BY <2>4, <2>5
  <2> QED BY <2>3, <2>6
<1>9. first \o second \in Seq(Int) /\ Range(first \o second) = Range(first) \cup Range(second)
  <2> HIDE DEF first, second
  <2>1. first \in Seq(Int) /\ second \in Seq(Int)
    BY <1>7, <1>8
  <2>2. Range(first \o second) = Range(first) \cup Range(second)
    BY <2>1, RangeConcatenation
  <2>3. first \o second \in Seq(Int)
    BY <2>1
  <2> QED BY <2>2, <2>3
<1>10. {value(r) : r \in T} =
         {(r.shadow + c * spc - r.start) \div spc : r \in {q \in ToSet(RangesOf(store)) : c * spc \in q.start + 1 .. q.start + q.size - 1}}
  <2>1. ASSUME NEW r \in ToSet(RangesOf(store))
        PROVE  /\ HasClusters(r, c) <=> c * spc \in r.start + 1 .. r.start + r.size - 1
               /\ value(r) = (r.shadow + c * spc - r.start) \div spc
    <3>1. r.start \in Nat /\ r.shadow \in Nat /\ r.size \in Nat /\ r.start % spc = 0
      BY <1>2
    <3>2. PICK at \in Int : at = c * spc
      OBVIOUS
    <3>3. HasClusters(r, c) <=> at \in r.start + 1 .. r.start + r.size - 1
      BY <3>1, <3>2 DEF HasClusters
    <3>4. value(r) = (r.shadow + c * spc - r.start) \div spc
      <4>1. r.start \in Int /\ r.shadow \in Int
        BY <3>1
      <4>2. (r.shadow + c * spc - r.start) \div spc = (r.shadow \div spc) + c - (r.start \div spc)
        BY <3>1, <4>1, InClusters, Zenon
      <4> QED BY <4>2
    <3> QED BY <3>2, <3>3, <3>4
  <2> HIDE DEF value
  <2> QED BY <2>1
<1>11. Answers(store, c, spc) = first \o second
  BY DEF Answers
<1>12. Copies(store, c, spc) = {value(r) : r \in T} \cup {d.shadow : d \in U}
  BY <1>10 DEF Copies
<1> HIDE DEF first, second, value, T, U
<1> QED BY <1>7, <1>8, <1>9, <1>11, <1>12
\* What the stores answer, one after the other.
AllAnswers(vss, stores, c, spc)  == [n \in DOMAIN stores |-> Answers(vss.stores[stores[n]], c, spc)]
FirstAnswer(vss, stores, c, spc) ==
  LET all == FlattenSeq(AllAnswers(vss, stores, c, spc)) IN IF all = <<>> THEN -1 ELSE all[1]

\* Ranges begin where clusters do; the stores with a copy, and what is to be answered.
Aligned(vss, stores, spc) ==
  \A k \in DOMAIN stores : \A r \in ToSet(RangesOf(vss.stores[stores[k]])) : r.start % spc = 0
With(vss, stores, c, spc) == {k \in DOMAIN stores : Copies(vss.stores[stores[k]], c, spc) # {}}
Answered(vss, stores, c, spc, answer) ==
  IF With(vss, stores, c, spc) = {} THEN answer = -1
  ELSE answer \in Copies(vss.stores[stores[Min(With(vss, stores, c, spc))]], c, spc)

(* The first answer is a copy of the first store that has one.             *)
LEMMA FirstAnswerIs ==
  ASSUME NEW vss, Readable(vss), NEW stores \in Seq(DOMAIN vss.stores),
         NEW c \in Int, NEW spc \in Nat \ {0}, spc = RangeUnit,
         Aligned(vss, stores, spc)
  PROVE  Answered(vss, stores, c, spc, FirstAnswer(vss, stores, c, spc))
PROOF
<1>0. PICK with : with = With(vss, stores, c, spc)
  OBVIOUS
<1> SUFFICES IF with = {} THEN FirstAnswer(vss, stores, c, spc) = -1
             ELSE FirstAnswer(vss, stores, c, spc) \in Copies(vss.stores[stores[Min(with)]], c, spc)
  BY <1>0 DEF Answered
<1> DEFINE V == Seq(Int)
           D == DOMAIN vss.stores
           a(k) == Answers(vss.stores[stores[k]], c, spc)
           copies(k) == Copies(vss.stores[stores[k]], c, spc)
           ss == [n \in DOMAIN stores |-> a(n)]
           N == Len(stores)
<1>1. N \in Nat /\ DOMAIN stores = 1 .. N /\ \A k \in 1 .. N : stores[k] \in D
  <2>1. stores \in Seq(D)
    OBVIOUS
  <2> HIDE DEF D
  <2> QED BY <2>1
<1>2. \A k \in 1 .. N : a(k) \in V /\ Range(a(k)) = copies(k)
  <2> SUFFICES ASSUME NEW k \in 1 .. N PROVE a(k) \in V /\ Range(a(k)) = copies(k)
    OBVIOUS
  <2> DEFINE s == vss.stores[stores[k]]
  <2>1. /\ s.ranges \in Seq([start : Nat, shadow : Nat, size : Nat])
        /\ s.list \in Seq([original : Nat, shadow : Nat])
    BY <1>1 DEF Readable
  <2>2. \A r \in ToSet(RangesOf(s)) : r.start % spc = 0
    BY <1>1 DEF Aligned
  <2> HIDE DEF s
  <2>3. Answers(s, c, spc) \in Seq(Int) /\ Range(Answers(s, c, spc)) = Copies(s, c, spc)
    BY <2>1, <2>2, AnswersAre
  <2> QED BY <2>3 DEF s
<1>3. with = {k \in 1 .. N : copies(k) # {}}
  BY <1>0, <1>1 DEF With
<1>4. FirstAnswer(vss, stores, c, spc) = IF FlattenSeq(ss) = <<>> THEN -1 ELSE FlattenSeq(ss)[1]
  BY DEF FirstAnswer, AllAnswers
<1> HIDE DEF a, copies, D
<1>5. ss \in Seq(V) /\ DOMAIN ss = 1 .. N /\ Len(ss) = N /\ \A k \in 1 .. N : ss[k] = a(k)
  <2> HIDE DEF V
  <2> QED BY <1>1, <1>2
<1>6. \A s \in V : s = <<>> <=> Range(s) = {}
  <2> SUFFICES ASSUME NEW s \in V PROVE s = <<>> <=> Range(s) = {}
    OBVIOUS
  <2>1. DOMAIN s = 1 .. Len(s) /\ Len(s) \in Nat
    OBVIOUS
  <2>2. s = <<>> => DOMAIN s = {}
    OBVIOUS
  <2>3. s # <<>> => 1 \in DOMAIN s
    BY <2>1
  <2> QED BY <2>2, <2>3 DEF Range
<1>7. \A k \in 1 .. N : k \in with <=> ss[k] # <<>>
  BY <1>2, <1>3, <1>5, <1>6
<1> HIDE DEF ss, V, N
<1>8. CASE with = {}
  <2>1. \A j \in 1 .. Len(ss) : j # 0 => ss[j] = <<>>
    BY <1>5, <1>7, <1>8
  <2>2. 0 \notin 1 .. Len(ss)
    BY <1>1, <1>5
  <2>3. FlattenSeq(ss) = <<>>
    BY <1>5, <2>1, <2>2, FlattenOne DEF V
  <2> QED BY <1>4, <1>8, <2>3
<1>9. CASE with # {}
  <2>1. with \subseteq Nat /\ with \subseteq 1 .. N
    BY <1>1, <1>3
  <2>2. PICK m : m = Min(with)
    OBVIOUS
  <2>3. m \in with /\ \A y \in with : m <= y
    BY <1>9, <2>1, <2>2, MinOf
  <2>4. m \in 1 .. N /\ ss[m] # <<>> /\ \A j \in 1 .. m - 1 : ss[j] = <<>>
    <3>1. m \in 1 .. N
      BY <2>1, <2>3
    <3>2. ASSUME NEW j \in 1 .. m - 1 PROVE ss[j] = <<>>
      <4>1. j \in 1 .. N /\ ~(m <= j)
        BY <1>1, <3>1
      <4> QED BY <1>7, <2>3, <4>1
    <3> QED BY <1>7, <2>3, <3>1, <3>2
  <2>5. FlattenSeq(ss) # <<>> /\ FlattenSeq(ss)[1] = ss[m][1]
    BY <1>5, <2>4, FlattenFirst DEF V
  <2>6. ss[m][1] \in Range(ss[m])
    <3>1. ss[m] \in V
      BY <1>2, <1>5, <2>4
    <3>2. 1 \in DOMAIN ss[m]
      <4> PICK s \in V : s = ss[m]
        BY <3>1
      <4>1. s \in Seq(Int) /\ s # <<>>
        BY <2>4 DEF V
      <4>2. 1 \in DOMAIN s
        BY <4>1
      <4> QED BY <4>2
    <3> QED BY <3>2 DEF Range
  <2>7. ss[m][1] \in copies(m)
    BY <1>2, <1>5, <2>4, <2>6
  <2> QED BY <1>4, <1>9, <2>2, <2>5, <2>7 DEF copies
<1> QED BY <1>8, <1>9
-----------------------------------------------------------------------------
(* The invariant of the shadow copies *)

Before  == {"start", "journal", "logfile", "vss", "unallocated", "clusters"}
Looping == {"loop", "selected", "again", "done"}

\* The partition that is asked for is there, and is NTFS.
Here  == args.partition \in DOMAIN Partitions
Shown == Here /\ job.parts[args.partition].volume = "ntfs"

Shadow(s) == s = [pc |-> s.pc, at |-> s.at, read |-> s.read, listed |-> s.listed, catalogs |-> s.catalogs, stores |-> s.stores]

\* What is printed of the clusters.
Printing(v, stores, spc) == [n \in DOMAIN args.clusters |-> FirstAnswer(v, stores, args.clusters[n], spc)]

ReadShape ==
  /\ Shadow(shadow) /\ shadow.pc \in {"idle", "catalog", "stores", "done"}
  /\ shadow.pc = "idle" => shadow.read = {} /\ shadow.listed = <<>> /\ shadow.catalogs = <<>>
  /\ shadow.pc # "done" => shadow.stores = <<>>

\* A catalog that is read is followed, and one that was gives the stores.
ReadExact ==
  /\ shadow.pc \in {"catalog", "stores"} => Shown /\ Walked(Vss, shadow)
  /\ shadow.pc = "done" /\ Shown => shadow.stores = StoresOf(Vss) /\ shadow.stores \in Seq(DOMAIN Vss.stores)

\* Main waits for the stores, and looks the clusters up in them.
InOrder ==
  /\ phase \in {"unallocated", "clusters"} \cup Looping /\ args.vss => shadow.pc = "done"
  /\ phase \in Before => clOffsets = <<>>
  /\ phase \in Looping /\ Shown => clOffsets = Printing(Vss, shadow.stores, job.parts[args.partition].spc)

ShadowInv == job \in Jobs /\ ReadShape /\ ReadExact /\ InOrder

(* It holds at the start.                                                  *)
LEMMA InitShadowInv == Init => ShadowInv
PROOF BY DEF Init, ShadowInit, ShadowInv, ReadShape, Shadow, ReadExact, InOrder, Before, Looping

(* What is read of the evidence stays.                                     *)
LEMMA SameShadow ==
  ASSUME job' = job
  PROVE  Vss' = Vss /\ (Shown' <=> Shown) /\ (Here' <=> Here) /\ args' = args
PROOF BY DEF Vss, Shown, Here, args, Partitions

(* The shadow copies of a partition are as they were assumed.              *)
LEMMA VssReadable ==
  ASSUME job \in Jobs, Shown
  PROVE  /\ Readable(Vss) /\ args.clusters \in Seq(Int)
         /\ job.parts[args.partition].spc \in Nat \ {0}
         /\ args.partition \in Ntfs
PROOF
<1>1. args.partition \in DOMAIN job.parts /\ job.parts[args.partition].volume = "ntfs"
  BY DEF Shown, Here, Partitions
<1>2. Readable(Vss) /\ args.clusters \in Seq(Int)
  BY <1>1, ShadowAssumption DEF Readable, Vss, args
<1>3. job.parts[args.partition].spc \in Nat \ {0}
  BY <1>1, EvidenceAssumption
<1> QED BY <1>1, <1>2, <1>3 DEF Ntfs

(* What main does next is the first of what is asked for.                  *)
LEMMA FromAsked ==
  ASSUME NEW n \in 1 .. 4
  PROVE  /\ n <= 2 /\ From(n) \in {"unallocated", "clusters", "loop"} => ~args.vss
         /\ n <= 3 /\ From(n) \in {"clusters", "loop"} => ~args.unallocated
         /\ From(n) = "loop" => args.clusters = <<>>
PROOF
<1> DEFINE S == {m \in n .. Len(Order) : Asked(Order[m])}
<1>1. /\ Len(Order) = 5 /\ Order[1] = "logfile" /\ Order[2] = "vss" /\ Order[3] = "unallocated"
      /\ Order[4] = "clusters" /\ Order[5] = "loop"
  BY DEF Order
<1>2. /\ Asked("vss") <=> args.vss
      /\ Asked("unallocated") <=> args.unallocated
      /\ Asked("clusters") <=> args.clusters # <<>>
      /\ Asked("loop")
  BY DEF Asked
<1>3. S \subseteq Nat /\ 5 \in S /\ S \subseteq 1 .. 5
  BY <1>1, <1>2
<1>4. PICK m : m = Min(S) /\ m \in S /\ \A y \in S : m <= y
  <2> HIDE DEF S
  <2> QED BY <1>3, MinOf
<1>5. From(n) = Order[m] /\ m \in 1 .. 5
  BY <1>3, <1>4 DEF From
<1>6. n <= 2 /\ From(n) \in {"unallocated", "clusters", "loop"} => ~args.vss
  <2> SUFFICES ASSUME n <= 2, From(n) \in {"unallocated", "clusters", "loop"}, args.vss PROVE FALSE
    OBVIOUS
  <2>1. 2 \in S
    BY <1>1, <1>2
  <2>2. m \in 1 .. 2
    BY <1>4, <1>5, <2>1
  <2> QED BY <1>1, <1>5, <2>2
<1>7. From(n) = "loop" => args.clusters = <<>>
  <2> SUFFICES ASSUME From(n) = "loop", args.clusters # <<>> PROVE FALSE
    OBVIOUS
  <2>1. 4 \in S
    BY <1>1, <1>2
  <2>2. m \in 1 .. 4
    BY <1>4, <1>5, <2>1
  <2> QED BY <1>1, <1>5, <2>2
<1>8. n <= 3 /\ From(n) \in {"clusters", "loop"} => ~args.unallocated
  <2> SUFFICES ASSUME n <= 3, From(n) \in {"clusters", "loop"}, args.unallocated PROVE FALSE
    OBVIOUS
  <2>1. 3 \in S
    BY <1>1, <1>2
  <2>2. m \in 1 .. 3
    BY <1>4, <1>5, <2>1
  <2> QED BY <1>1, <1>5, <2>2
<1> QED BY <1>6, <1>7, <1>8

(* Of no cluster, nothing is printed.                                      *)
LEMMA PrintingNone ==
  ASSUME args.clusters = <<>>, NEW v, NEW stores, NEW spc
  PROVE  Printing(v, stores, spc) = <<>>
PROOF
<1>1. DOMAIN args.clusters = {}
  OBVIOUS
<1>2. \A f : DOMAIN [n \in {} |-> f[n]] = {}
  OBVIOUS
<1> QED BY <1>1 DEF Printing

(* Steps that leave the shadow copies alone.                               *)
LEMMA AsideShadow ==
  ASSUME ShadowInv, job' = job, shadow' = shadow, clOffsets' = clOffsets,
         phase' \in {"unallocated", "clusters"} \cup Looping /\ args.vss => shadow.pc = "done",
         phase' \in Before => phase \in Before,
         phase' \in Looping => phase \in Looping \/ (phase \in Before /\ args.clusters = <<>>)
  PROVE  ShadowInv'
PROOF
<1>1. Vss' = Vss /\ (Shown' <=> Shown) /\ args' = args
  BY SameShadow
<1>2. PICK v, s, spc : v = Vss /\ s = shadow /\ spc = job.parts[args.partition].spc
  OBVIOUS
<1>3. Vss' = v /\ shadow' = s /\ job.parts'[args.partition'].spc = spc
  BY <1>1, <1>2
<1>4. ReadShape'
  BY <1>2, <1>3 DEF ShadowInv, ReadShape, Shadow
<1>5. ReadExact'
  BY <1>1, <1>2, <1>3 DEF ShadowInv, ReadExact
<1>6. InOrder'
  <2>1. Printing(v, s.stores, spc)' = Printing(v, s.stores, spc)
    BY <1>1 DEF Printing
  <2>2. phase' \in Looping /\ Shown' => clOffsets' = Printing(v, s.stores, spc)'
    <3>1. CASE phase \in Looping
      BY <1>1, <1>2, <2>1, <3>1 DEF ShadowInv, InOrder
    <3>2. CASE phase \in Before /\ args.clusters = <<>>
      BY <2>1, <3>2, PrintingNone DEF ShadowInv, InOrder
    <3> QED BY <3>1, <3>2
  <2>3. PICK w : w = Printing(v, s.stores, spc)'
    OBVIOUS
  <2>4. w = Printing(Vss, shadow.stores, job.parts[args.partition].spc)'
    BY <1>3, <2>3
  <2>5. phase' \in Looping /\ Shown' => clOffsets' = Printing(Vss, shadow.stores, job.parts[args.partition].spc)'
    BY <2>2, <2>3, <2>4
  <2> QED BY <1>1, <2>5 DEF ShadowInv, InOrder
<1> QED BY <1>4, <1>5, <1>6 DEF ShadowInv
(* Reading a catalog and its stores keeps the invariant.                   *)
LEMMA ReadShadowStep ==
  ASSUME ShadowInv, phase = "vss", ReadShadow
  PROVE  ShadowInv'
PROOF
<1>1. job' = job /\ clOffsets' = clOffsets /\ phase' \in {"vss", "panic", "hang"}
  BY ShadowQuiet DEF ReadShadow, ProcessVSS, ReadCatalog, ProcessStores
<1>2. Vss' = Vss /\ (Shown' <=> Shown) /\ args' = args
  BY <1>1, SameShadow
<1>3. PICK v : v = Vss
  OBVIOUS
<1>4. PICK s, t : s = shadow /\ t = shadow'
  OBVIOUS
<1>5. InOrder'
  BY <1>1, <1>2 DEF ShadowInv, InOrder, Before, Looping
<1>6. Shadow(s) /\ (t.stores = s.stores \/ t.pc = "done") => TRUE
  OBVIOUS
<1>7. CASE shadow' = shadow
  BY <1>1, <1>5, <1>7, AsideShadow DEF Before, Looping
<1>8. Shown => Readable(v)
  BY <1>3, VssReadable DEF ShadowInv
<1>9. CASE ProcessVSS /\ shadow' # shadow
  <2>1. /\ shadow.pc = "idle" /\ args.partition \in DOMAIN Partitions /\ job.parts[args.partition].volume # "btrfs"
        /\ shadow' = IF job.parts[args.partition].volume = "none" THEN [shadow EXCEPT !.pc = "done"]
                     ELSE [shadow EXCEPT !.pc = "catalog", !.at = Vss.catalog]
    BY <1>9 DEF ProcessVSS
  <2>2. /\ Shadow(s) /\ s.read = {} /\ s.listed = <<>> /\ s.catalogs = <<>> /\ s.stores = <<>>
    BY <1>4, <2>1 DEF ShadowInv, ReadShape
  <2>3. Partitions = job.parts /\ args.partition \in DOMAIN job.parts
    BY <2>1 DEF Partitions
  <2>4. job.parts[args.partition].volume \in {"ntfs", "btrfs", "none"}
    BY <2>3, EvidenceAssumption DEF ShadowInv
  <2>5. CASE job.parts[args.partition].volume = "none"
    <3>1. t = [s EXCEPT !.pc = "done"]
      BY <1>4, <2>1, <2>5
    <3>2. Shadow(t) /\ t.pc = "done"
      BY <2>2, <3>1 DEF Shadow
    <3>3. ~Shown
      BY <2>5 DEF Shown
    <3>4. ReadShape'
      BY <1>4, <3>2 DEF ReadShape, Shadow
    <3>5. ReadExact'
      BY <1>2, <1>4, <3>2, <3>3 DEF ReadExact
    <3> QED BY <1>1, <1>5, <3>4, <3>5 DEF ShadowInv
  <2>6. CASE job.parts[args.partition].volume = "ntfs"
    <3>1. t = [s EXCEPT !.pc = "catalog", !.at = v.catalog]
      BY <1>3, <1>4, <2>1, <2>6
    <3>2. /\ Shadow(t) /\ t.pc = "catalog" /\ t.at = v.catalog
          /\ t.read = {} /\ t.listed = <<>> /\ t.catalogs = <<>> /\ t.stores = <<>>
      <4>1. t = [pc |-> "catalog", at |-> v.catalog, read |-> s.read, listed |-> s.listed,
                 catalogs |-> s.catalogs, stores |-> s.stores]
        BY <2>2, <3>1 DEF Shadow
      <4> QED BY <2>2, <4>1 DEF Shadow
    <3>3. Walked(v, t)
      BY <3>2, WalkBegins
    <3>4. Shown
      BY <2>1, <2>6 DEF Shown, Here
    <3>5. ReadShape'
      BY <1>4, <3>2 DEF ReadShape, Shadow
    <3>6. ReadExact'
      <4>1. Vss' = v /\ shadow' = t
        BY <1>2, <1>3, <1>4
      <4> QED BY <1>2, <3>2, <3>3, <3>4, <4>1 DEF ReadExact
    <3> QED BY <1>1, <1>5, <3>5, <3>6 DEF ShadowInv
  <2> QED BY <2>1, <2>4, <2>5, <2>6
<1>10. CASE ReadCatalog /\ shadow' # shadow
  <2>1. PICK b, listed : b = Follows(v, s.at) /\ listed = s.listed \o ListedIn(v, s.at)
    OBVIOUS
  <2>2. /\ s.pc = "catalog" /\ ~(b # 0 /\ b \in s.read \cup {s.at})
        /\ t = [s EXCEPT !.pc = IF b = 0 THEN "stores" ELSE "catalog",
                         !.at = b, !.read = @ \cup {s.at},
                         !.listed = listed, !.catalogs = IF b = 0 THEN s.catalogs ELSE Append(s.catalogs, listed)]
    BY <1>3, <1>4, <1>10, <2>1 DEF ReadCatalog, CatalogsAfter, Follows
  <2>3. Shadow(s) /\ s.stores = <<>> /\ Shown /\ Walked(v, s)
    BY <1>3, <1>4, <2>2 DEF ShadowInv, ReadShape, ReadExact
  <2>4. t = [pc |-> IF b = 0 THEN "stores" ELSE "catalog", at |-> b, read |-> s.read \cup {s.at}, listed |-> listed,
             catalogs |-> IF b = 0 THEN s.catalogs ELSE Append(s.catalogs, listed), stores |-> s.stores]
    BY <2>2, <2>3 DEF Shadow
  <2>5. /\ Shadow(t) /\ t.pc \in {"stores", "catalog"} /\ t.stores = <<>>
        /\ t.read = s.read \cup {s.at}
        /\ \/ b = 0 /\ t.pc = "stores" /\ t.catalogs = s.catalogs
           \/ /\ b # 0 /\ b \notin s.read \cup {s.at}
              /\ t.pc = "catalog" /\ t.at = b /\ t.listed = listed /\ t.catalogs = Append(s.catalogs, listed)
    BY <2>2, <2>3, <2>4 DEF Shadow
  <2>6. Walked(v, t)
    <3>1. Readable(v)
      BY <1>8, <2>3
    <3>2. ReadOn(s, t, b, listed)
      BY <2>5 DEF ReadOn
    <3> QED BY <2>1, <2>2, <2>3, <3>1, <3>2, WalkOn
  <2>7. ReadShape'
    BY <1>4, <2>5 DEF ReadShape, Shadow
  <2>8. ReadExact'
    <3>1. Vss' = v /\ shadow' = t
      BY <1>2, <1>3, <1>4
    <3> QED BY <1>2, <2>3, <2>5, <2>6, <3>1 DEF ReadExact
  <2> QED BY <1>1, <1>5, <2>7, <2>8 DEF ShadowInv
<1>11. CASE ProcessStores /\ shadow' # shadow
  <2>1. s.pc = "stores" /\ t = [s EXCEPT !.pc = "done", !.stores = FlattenSeq(s.catalogs)]
    BY <1>4, <1>11 DEF ProcessStores
  <2>2. Shadow(s) /\ Shown /\ Walked(v, s)
    BY <1>3, <1>4, <2>1 DEF ShadowInv, ReadShape, ReadExact
  <2>3. FlattenSeq(s.catalogs) = StoresOf(v) /\ FlattenSeq(s.catalogs) \in Seq(DOMAIN v.stores)
    BY <1>8, <2>1, <2>2, WalkEnds
  <2>4. t = [pc |-> "done", at |-> s.at, read |-> s.read, listed |-> s.listed,
             catalogs |-> s.catalogs, stores |-> FlattenSeq(s.catalogs)]
    BY <2>1, <2>2 DEF Shadow
  <2>5. Shadow(t) /\ t.pc = "done" /\ t.stores = FlattenSeq(s.catalogs)
    BY <2>4 DEF Shadow
  <2>6. ReadShape'
    BY <1>4, <2>5 DEF ReadShape, Shadow
  <2>7. ReadExact'
    <3>1. Vss' = v /\ shadow' = t
      BY <1>2, <1>3, <1>4
    <3> QED BY <2>3, <2>5, <3>1 DEF ReadExact
  <2> QED BY <1>1, <1>5, <2>6, <2>7 DEF ShadowInv
<1> QED BY <1>7, <1>9, <1>10, <1>11 DEF ReadShadow

(* So does looking the clusters up.                                        *)
LEMMA ShowClustersStep ==
  ASSUME ShadowInv, phase = "clusters", ShowClusters
  PROVE  ShadowInv'
PROOF
<1>1. job' = job /\ shadow' = shadow /\ phase' \in {"loop", "panic"}
  BY ShowQuiet DEF ShowClusters
<1>2. Vss' = Vss /\ (Shown' <=> Shown) /\ args' = args
  BY <1>1, SameShadow
<1>3. PICK v, s, spc : v = Vss /\ s = shadow /\ spc = job.parts[args.partition].spc
  OBVIOUS
<1>4. Vss' = v /\ shadow' = s /\ job.parts'[args.partition'].spc = spc
  BY <1>1, <1>2, <1>3
<1>5. ReadShape'
  BY <1>3, <1>4 DEF ShadowInv, ReadShape, Shadow
<1>6. ReadExact'
  BY <1>2, <1>3, <1>4 DEF ShadowInv, ReadExact
<1>7. InOrder'
  <2>1. \A c : GetShadowClusterOffset(c, spc) = FirstAnswer(v, s.stores, c, spc)
    BY <1>3 DEF GetShadowClusterOffset, FirstAnswer, AllAnswers
  <2>2. Shown => clOffsets' = Printing(v, s.stores, spc)
    <3> SUFFICES ASSUME Shown PROVE clOffsets' = Printing(v, s.stores, spc)
      OBVIOUS
    <3>1. args.partition \in DOMAIN Partitions /\ job.parts[args.partition].volume = "ntfs"
      BY DEF Shown, Here
    <3>2. clOffsets' = [n \in DOMAIN args.clusters |-> GetShadowClusterOffset(args.clusters[n], spc)]
      BY <1>3, <3>1 DEF ShowClusters
    <3> QED BY <2>1, <3>2 DEF Printing
  <2>3. Printing(v, s.stores, spc)' = Printing(v, s.stores, spc)
    BY <1>2 DEF Printing
  <2>4. PICK w : w = Printing(v, s.stores, spc)'
    OBVIOUS
  <2>5. w = Printing(Vss, shadow.stores, job.parts[args.partition].spc)'
    BY <1>4, <2>4
  <2>6. Shown' => clOffsets' = Printing(Vss, shadow.stores, job.parts[args.partition].spc)'
    BY <1>2, <2>2, <2>3, <2>4, <2>5
  <2>7. phase' \notin Before /\ (args.vss => shadow.pc = "done")
    BY <1>1 DEF ShadowInv, InOrder, Before
  <2> QED BY <1>1, <1>2, <2>6, <2>7 DEF InOrder
<1> QED BY <1>1, <1>5, <1>6, <1>7 DEF ShadowInv

(* Every step of main keeps the invariant.                                 *)
LEMMA NextShadowInv == ShadowInv /\ [Next]_vars => ShadowInv'
PROOF
<1> SUFFICES ASSUME ShadowInv, [Next]_vars PROVE ShadowInv'
  OBVIOUS
<1> DEFINE Aside == /\ job' = job /\ shadow' = shadow /\ clOffsets' = clOffsets
                    /\ phase' \in {"unallocated", "clusters"} \cup Looping /\ args.vss => shadow.pc = "done"
                    /\ phase' \in Before => phase \in Before
                    /\ phase' \in Looping => phase \in Looping \/ (phase \in Before /\ args.clusters = <<>>)
<1>1. phase \in {"unallocated", "clusters"} \cup Looping /\ args.vss => shadow.pc = "done"
  BY DEF ShadowInv, InOrder
<1>2. UNCHANGED vars => Aside
  BY <1>1 DEF vars, shadowVars
<1>3. Start => Aside
  BY DEF Start, shadowVars, Before, Looping
<1>4. First => Aside
  <2> SUFFICES ASSUME First PROVE Aside
    OBVIOUS
  <2>1. From(1) \in {"logfile", "vss", "unallocated", "clusters", "loop"}
    BY FromType
  <2>2. /\ From(1) \in {"unallocated", "clusters", "loop"} => ~args.vss
        /\ From(1) = "loop" => args.clusters = <<>>
    BY FromAsked
  <2> QED BY <2>1, <2>2 DEF First, shadowVars, Before, Looping
<1>5. Logs => Aside
  <2> SUFFICES ASSUME Logs PROVE Aside
    OBVIOUS
  <2>1. From(2) \in {"logfile", "vss", "unallocated", "clusters", "loop"}
    BY FromType
  <2>2. /\ From(2) \in {"unallocated", "clusters", "loop"} => ~args.vss
        /\ From(2) = "loop" => args.clusters = <<>>
    BY FromAsked
  <2> QED BY <2>1, <2>2 DEF Logs, shadowVars, Before, Looping
<1>6. Shadows => Aside
  <2> SUFFICES ASSUME Shadows PROVE Aside
    OBVIOUS
  <2>1. From(3) \in {"logfile", "vss", "unallocated", "clusters", "loop"}
    BY FromType
  <2>2. From(3) = "loop" => args.clusters = <<>>
    BY FromAsked
  <2> QED BY <2>1, <2>2 DEF Shadows, shadowVars, Before, Looping
<1>7. Unallocate => Aside
  <2> SUFFICES ASSUME Unallocate PROVE Aside
    OBVIOUS
  <2>1. From(4) \in {"logfile", "vss", "unallocated", "clusters", "loop"}
    BY FromType
  <2>2. From(4) = "loop" => args.clusters = <<>>
    BY FromAsked
  <2> QED BY <1>1, <2>1, <2>2 DEF Unallocate, shadowVars, Before, Looping
<1>8. Again \/ Finish => Aside
  BY <1>1 DEF Again, Finish, shadowVars, Before, Looping
<1>9. Report => Aside
  BY <1>1, ShowQuiet DEF Report, shadowVars, Before, Looping
<1>10. phase \in {"journal", "again"} /\ ProcessJrnl
         /\ UNCHANGED <<logfile, shadowVars, unallocatedVars, selectionVars, usnrecords>> => Aside
  BY <1>1, JournalStays DEF shadowVars, Before, Looping
<1>11. phase = "logfile" /\ ReadLogFile /\ UNCHANGED <<journalVars, shadowVars, unallocatedVars, selectionVars, usnrecords>>
         => Aside
  BY LogFileQuiet DEF shadowVars, Before, Looping
<1>12. phase = "unallocated" /\ CollectUnallocated /\ UNCHANGED <<journalVars, logfile, shadowVars, selectionVars, usnrecords>>
         => Aside
  BY <1>1, UnallocatedQuiet DEF shadowVars, Before, Looping
<1>13. phase = "loop" /\ (\E p \in todo : Select(p))
         /\ UNCHANGED <<journalVars, logfile, shadowVars, unallocatedVars, usnrecords>> => Aside
  BY <1>1, LoopQuiet DEF shadowVars, Before, Looping
<1>14. Ended => Aside
  BY <1>2 DEF Ended
<1>15. Aside => ShadowInv'
  BY AsideShadow
<1>16. phase = "vss" /\ ReadShadow => ShadowInv'
  BY ReadShadowStep
<1>17. phase = "clusters" /\ ShowClusters => ShadowInv'
  BY ShowClustersStep
<1> HIDE DEF Aside
<1> QED BY <1>2, <1>3, <1>4, <1>5, <1>6, <1>7, <1>8, <1>9, <1>10, <1>11, <1>12, <1>13, <1>14, <1>15, <1>16, <1>17 DEF Next

LEMMA ShadowInvHolds == Spec => []ShadowInv
PROOF
<1>1. Init => ShadowInv
  BY InitShadowInv
<1>2. ShadowInv /\ [Next]_vars => ShadowInv'
  BY NextShadowInv
<1> QED BY <1>1, <1>2, PTL DEF Spec

(* What is read of a catalog are blocks of it, and never the next.         *)
LEMMA ShadowTyped == Spec => []ShadowTypeOK
PROOF
<1>1. ShadowInv => ShadowTypeOK
  BY DEF ShadowInv, ReadShape, ReadExact, Walked, ShadowTypeOK
<1> QED BY <1>1, ShadowInvHolds, PTL

(* The stores are those that the blocks of the catalog before its last     *)
(* list, those of earlier blocks again with every later one; and a cluster *)
(* is printed where the first of the stores that has a copy of it has it:  *)
(* for every catalog that ends, every list of stores and every cluster     *)
(* (ShadowVolume.Process, GetShadowClusterOffset).                         *)
THEOREM ShadowExactHolds == Spec => []ShadowExact
PROOF
<1>1. ShadowInv => ShadowExact
  <2> SUFFICES ASSUME ShadowInv, phase \in {"loop", "done"}, args.partition \in DOMAIN Partitions \cap Ntfs,
                      NEW v, v = Vss, NEW spc, spc = job.parts[args.partition].spc
               PROVE  /\ args.vss => StoresExact
                      /\ spc = RangeUnit => ClustersExact(spc) /\ Len(clOffsets) = Len(args.clusters)
    BY DEF ShadowExact
  <2>1. Shown
    BY DEF Shown, Here, Ntfs
  <2>2. Readable(v) /\ args.clusters \in Seq(Int) /\ spc \in Nat \ {0}
    BY <2>1, VssReadable DEF ShadowInv
  <2>3. shadow.stores \in Seq(DOMAIN v.stores)
    <3>1. CASE shadow.pc = "done"
      BY <2>1, <3>1 DEF ShadowInv, ReadExact
    <3>2. CASE shadow.pc # "done"
      <4>1. shadow.stores = <<>>
        BY <3>2 DEF ShadowInv, ReadShape
      <4> QED BY <4>1
    <3> QED BY <3>1, <3>2
  <2>4. args.vss => StoresExact
    <3> SUFFICES ASSUME args.vss PROVE StoresExact
      OBVIOUS
    <3>1. shadow.stores = StoresOf(Vss)
      BY <2>1 DEF ShadowInv, InOrder, Looping, ReadExact
    <3> QED BY <3>1 DEF StoresExact, StoresOf, CatalogsOf
  <2>5. clOffsets = [n \in DOMAIN args.clusters |-> FirstAnswer(v, shadow.stores, args.clusters[n], spc)]
    BY <2>1 DEF ShadowInv, InOrder, Looping, Printing
  <2>6. Len(clOffsets) = Len(args.clusters)
    <3>1. DOMAIN args.clusters = 1 .. Len(args.clusters) /\ Len(args.clusters) \in Nat
      BY <2>2
    <3> QED BY <2>5, <3>1
  <2>7. ASSUME spc = RangeUnit PROVE ClustersExact(spc)
    <3> DEFINE stores == [k \in DOMAIN shadow.stores |-> Vss.stores[shadow.stores[k]]]
               with(c) == {k \in DOMAIN stores : Copies(stores[k], c, spc) # {}}
    <3> SUFFICES ASSUME \A k \in DOMAIN stores : \A r \in ToSet(RangesOf(stores[k])) : r.start % spc = 0,
                        NEW n \in DOMAIN clOffsets, NEW c, c = args.clusters[n]
                 PROVE  IF with(c) = {} THEN clOffsets[n] = -1
                        ELSE clOffsets[n] \in Copies(stores[Min(with(c))], c, spc)
      BY DEF ClustersExact
    <3>1. n \in DOMAIN args.clusters /\ clOffsets[n] = FirstAnswer(v, shadow.stores, c, spc) /\ c \in Int
      BY <2>2, <2>5
    <3>2. PICK w : w = With(v, shadow.stores, c, spc)
      OBVIOUS
    <3>3. with(c) = w /\ w \subseteq DOMAIN shadow.stores
      BY <3>2 DEF With
    <3>4. Aligned(v, shadow.stores, spc)
      BY DEF Aligned
    <3>5. IF w = {} THEN FirstAnswer(v, shadow.stores, c, spc) = -1
          ELSE FirstAnswer(v, shadow.stores, c, spc) \in Copies(v.stores[shadow.stores[Min(w)]], c, spc)
      <4>1. PICK u : u = shadow.stores
        OBVIOUS
      <4>2. Answered(v, u, c, spc, FirstAnswer(v, u, c, spc))
        BY <2>2, <2>3, <2>7, <3>1, <3>4, <4>1, FirstAnswerIs
      <4> QED BY <3>2, <4>1, <4>2 DEF Answered
    <3>6. w # {} => Min(w) \in DOMAIN shadow.stores
      <4> SUFFICES ASSUME w # {} PROVE Min(w) \in DOMAIN shadow.stores
        OBVIOUS
      <4>1. DOMAIN shadow.stores = 1 .. Len(shadow.stores)
        BY <2>3
      <4>2. w \subseteq Nat
        BY <3>3, <4>1
      <4> QED BY <3>3, <4>2, MinOf
    <3>7. w # {} => stores[Min(w)] = v.stores[shadow.stores[Min(w)]]
      BY <3>6
    <3> HIDE DEF stores, with
    <3> QED BY <3>1, <3>3, <3>5, <3>7
  <2> QED BY <2>4, <2>6, <2>7
<1> QED BY <1>1, ShadowInvHolds, PTL
-----------------------------------------------------------------------------
(* How often a record is in a selection *)

Count(s, n) == Cardinality(Where(s, {n}))

(* There are only so many places in a sequence.                            *)
LEMMA CountType ==
  ASSUME NEW S, NEW s \in Seq(S), NEW n
  PROVE  /\ Count(s, n) \in Nat /\ IsFiniteSet(Where(s, {n}))
         /\ n \notin Range(s) => Count(s, n) = 0
PROOF
<1>1. Where(s, {n}) \in SUBSET (1 .. Len(s)) /\ IsFiniteSet(1 .. Len(s))
  BY FS_Interval DEF Where
<1>2. IsFiniteSet(Where(s, {n}))
  BY <1>1, FS_Subset
<1>3. n \notin Range(s) => Where(s, {n}) = {}
  BY DEF Where, Range
<1> QED BY <1>2, <1>3, FS_CardinalityType, FS_EmptySet DEF Count

LEMMA CountEmpty == \A n : Count(<<>>, n) = 0
PROOF
<1> TAKE n
<1>1. Where(<<>>, {n}) = {}
  BY DEF Where
<1> QED BY <1>1, FS_EmptySet DEF Count

(* One more at the end counts.                                             *)
LEMMA CountAppend ==
  ASSUME NEW S, NEW s \in Seq(S), NEW e \in S, NEW n
  PROVE  Count(Append(s, e), n) = IF e = n THEN Count(s, n) + 1 ELSE Count(s, n)
PROOF
<1> DEFINE W == Where(s, {n})
           l == Len(s) + 1
<1>1. DOMAIN Append(s, e) = DOMAIN s \cup {l} /\ l \notin DOMAIN s
      /\ Append(s, e)[l] = e /\ \A i \in DOMAIN s : Append(s, e)[i] = s[i]
  OBVIOUS
<1>2. Where(Append(s, e), {n}) = IF e = n THEN W \cup {l} ELSE W
  <2> HIDE DEF l
  <2> QED BY <1>1 DEF Where
<1>3. l \notin W
  BY <1>1 DEF Where
<1>4. IsFiniteSet(W) /\ Cardinality(W) = Count(s, n)
  BY CountType DEF Count
<1> HIDE DEF W, l
<1>5. Cardinality(W \cup {l}) = Cardinality(W) + 1
  BY <1>3, <1>4, FS_AddElement
<1> QED BY <1>2, <1>4, <1>5 DEF Count

(* Those of two sequences add up.                                          *)
LEMMA CountConcat ==
  ASSUME NEW S, NEW s \in Seq(S), NEW n
  PROVE  \A t \in Seq(S) : Count(s \o t, n) = Count(s, n) + Count(t, n)
PROOF
<1> DEFINE P == {t \in Seq(S) : Count(s \o t, n) = Count(s, n) + Count(t, n)}
<1>1. <<>> \in P
  <2>1. s \o <<>> = s /\ <<>> \in Seq(S)
    OBVIOUS
  <2>2. Count(<<>>, n) = 0 /\ Count(s, n) \in Nat
    BY CountEmpty, CountType
  <2> QED BY <2>1, <2>2
<1>2. ASSUME NEW t \in Seq(S), NEW e \in S, t \in P PROVE Append(t, e) \in P
  <2> DEFINE r == s \o t
             u == Append(t, e)
  <2>1. s \o u = Append(r, e) /\ r \in Seq(S) /\ u \in Seq(S)
    OBVIOUS
  <2>2. Count(Append(r, e), n) = IF e = n THEN Count(r, n) + 1 ELSE Count(r, n)
    <3> HIDE DEF r
    <3> QED BY <2>1, CountAppend
  <2>3. Count(u, n) = IF e = n THEN Count(t, n) + 1 ELSE Count(t, n)
    BY CountAppend
  <2>4. Count(r, n) = Count(s, n) + Count(t, n) /\ Count(t, n) \in Nat /\ Count(s, n) \in Nat
    BY <1>2, CountType
  <2>5. Count(s \o u, n) = Count(s, n) + Count(u, n)
    <3> HIDE DEF r, u
    <3> QED BY <2>1, <2>2, <2>3, <2>4
  <2> QED BY <2>1, <2>5
<1>3. Seq(S) \subseteq P
  <2> HIDE DEF P
  <2> QED BY <1>1, <1>2, SeqInduction
<1> QED BY <1>3

(* What passes a test is kept as often as it was there.                    *)
LEMMA CountKept ==
  ASSUME NEW S, NEW s \in Seq(S), NEW T, NEW n
  PROVE  Count(Keep(s, T), n) = IF n \in T THEN Count(s, n) ELSE 0
PROOF
<1>1. Count(Keep(s, T), n) = Cardinality(Where(s, T \cap {n}))
  BY KeepCount DEF Count
<1>2. Where(s, T \cap {n}) = IF n \in T THEN Where(s, {n}) ELSE {}
  BY DEF Where
<1> QED BY <1>1, <1>2, FS_EmptySet DEF Count

\* K are the sequences of ss that have n, c times each.
Owed(ss, n, c, K) ==
  K \subseteq DOMAIN ss /\ \A k \in DOMAIN ss : Count(ss[k], n) = IF k \in K THEN c ELSE 0

(* One after the other they have it c times for each of them.              *)
LEMMA CountFlatten ==
  ASSUME NEW S, NEW n, NEW c \in Nat
  PROVE  \A ss \in Seq(Seq(S)) : \A K :
           Owed(ss, n, c, K) => Count(FlattenSeq(ss), n) = c * Cardinality(K)
PROOF
<1> DEFINE V == Seq(S)
           Paid(ss) == \A K : Owed(ss, n, c, K) => Count(FlattenSeq(ss), n) = c * Cardinality(K)
           P == {ss \in Seq(V) : Paid(ss)}
<1>1. <<>> \in P
  <2> SUFFICES ASSUME NEW K, Owed(<<>>, n, c, K) PROVE Count(FlattenSeq(<<>>), n) = c * Cardinality(K)
    OBVIOUS
  <2>1. K = {}
    BY DEF Owed
  <2>2. Cardinality(K) = 0
    BY <2>1, FS_EmptySet
  <2>3. Count(FlattenSeq(<<>>), n) = 0
    BY FlattenEmpty, CountEmpty
  <2> QED BY <2>2, <2>3
<1>2. ASSUME NEW ss \in Seq(V), NEW e \in V, ss \in P PROVE Append(ss, e) \in P
  <2>1. Append(ss, e) \in Seq(V)
    OBVIOUS
  <2> SUFFICES ASSUME NEW K, Owed(Append(ss, e), n, c, K)
               PROVE  Count(FlattenSeq(Append(ss, e)), n) = c * Cardinality(K)
    BY <2>1
  <2> DEFINE l == Len(ss) + 1
             J == K \ {l}
  <2>2. DOMAIN Append(ss, e) = DOMAIN ss \cup {l} /\ l \notin DOMAIN ss
        /\ Append(ss, e)[l] = e /\ (\A i \in DOMAIN ss : Append(ss, e)[i] = ss[i])
        /\ DOMAIN ss = 1 .. Len(ss)
    OBVIOUS
  <2>3. Owed(ss, n, c, J) /\ Count(e, n) = IF l \in K THEN c ELSE 0
    <3> HIDE DEF l
    <3> QED BY <2>2 DEF Owed
  <2>4. Count(FlattenSeq(ss), n) = c * Cardinality(J)
    BY <1>2, <2>3
  <2>5. FlattenSeq(Append(ss, e)) = FlattenSeq(ss) \o e /\ FlattenSeq(ss) \in Seq(S)
    BY FlattenAppend, FlattenType
  <2>6. Count(FlattenSeq(Append(ss, e)), n) = Count(FlattenSeq(ss), n) + Count(e, n)
    BY <2>5, CountConcat
  <2>7. IsFiniteSet(J) /\ Cardinality(J) \in Nat
    <3>1. J \in SUBSET (1 .. Len(ss)) /\ IsFiniteSet(1 .. Len(ss))
      BY <2>2, <2>3, FS_Interval DEF Owed
    <3> HIDE DEF J
    <3>2. IsFiniteSet(J)
      BY <3>1, FS_Subset
    <3> QED BY <3>2, FS_CardinalityType
  <2>8. CASE l \in K
    <3>1. K = J \cup {l} /\ l \notin J
      BY <2>8
    <3>2. Cardinality(K) = Cardinality(J) + 1
      <4> HIDE DEF J
      <4> QED BY <2>7, <3>1, FS_AddElement
    <3>3. c * (Cardinality(J) + 1) = c * Cardinality(J) + c
      <4> HIDE DEF J
      <4> QED BY <2>7
    <3> QED BY <2>3, <2>4, <2>6, <2>8, <3>2, <3>3
  <2>9. CASE l \notin K
    <3>1. Cardinality(K) = Cardinality(J)
      BY <2>9
    <3>2. Count(e, n) = 0
      BY <2>3, <2>9
    <3> HIDE DEF J
    <3>3. c * Cardinality(J) \in Nat
      BY <2>7
    <3> QED BY <2>4, <2>6, <3>1, <3>2, <3>3
  <2> QED BY <2>8, <2>9
<1>3. Seq(V) \subseteq P
  <2> HIDE DEF P, V
  <2> QED BY <1>1, <1>2, SeqInduction
<1> QED BY <1>3

(* A filter has each record once for every key that selects it.            *)
LEMMA CountExecute ==
  ASSUME NEW D, NEW sel \in Seq(D), NEW p, NEW f, f.keys \in Seq(ToSet(f.keys)), NEW n
  PROVE  /\ Passing(f, p, n) \in Nat
         /\ Count(Execute(f, p, sel), n) = Count(sel, n) * Passing(f, p, n)
PROOF
<1> DEFINE T(k) == {m \in ToSet(sel) : Keeps(f.kind, f.keys[k], p, m)}
           ss == [k \in DOMAIN f.keys |-> Keep(sel, T(k))]
           V  == Seq(D)
           K  == {k \in DOMAIN f.keys : Keeps(f.kind, f.keys[k], p, n)}
           c  == Count(sel, n)
<1>1. DOMAIN f.keys = 1 .. Len(f.keys) /\ Len(f.keys) \in Nat
  OBVIOUS
<1>2. \A k : Keep(sel, T(k)) \in V
  <2> SUFFICES ASSUME NEW k PROVE Keep(sel, T(k)) \in V
    OBVIOUS
  <2> HIDE DEF T
  <2>1. \A s \in Seq(D) : Keep(s, T(k)) \in Seq(D)
    BY KeepSeq
  <2> QED BY <2>1
<1>3. ss \in Seq(V)
  <2> HIDE DEF T, V
  <2> QED BY <1>1, <1>2
<1>4. c \in Nat /\ (n \notin ToSet(sel) => c = 0)
  BY CountType, OwnElements
<1>5. \A k \in DOMAIN f.keys : Count(ss[k], n) = IF k \in K THEN c ELSE 0
  <2> SUFFICES ASSUME NEW k \in DOMAIN f.keys PROVE Count(ss[k], n) = IF k \in K THEN c ELSE 0
    OBVIOUS
  <2>1. n \in T(k) <=> n \in ToSet(sel) /\ k \in K
    OBVIOUS
  <2> HIDE DEF T, K
  <2>2. Count(Keep(sel, T(k)), n) = IF n \in T(k) THEN c ELSE 0
    BY CountKept
  <2>3. ss[k] = Keep(sel, T(k))
    OBVIOUS
  <2> HIDE DEF ss, c
  <2> QED BY <1>4, <2>1, <2>2, <2>3
<1>6. Owed(ss, n, c, K)
  <2>1. DOMAIN ss = DOMAIN f.keys /\ K \subseteq DOMAIN f.keys
    OBVIOUS
  <2> HIDE DEF ss, K, c
  <2> QED BY <1>5, <2>1 DEF Owed
<1>7. Count(FlattenSeq(ss), n) = c * Cardinality(K)
  <2> HIDE DEF ss, K, c
  <2> QED BY <1>3, <1>4, <1>6, CountFlatten DEF V
<1>8. Passing(f, p, n) = Cardinality(K)
  BY DEF Passing
<1>9. Execute(f, p, sel) = FlattenSeq(ss)
  BY DEF Execute
<1>10. Cardinality(K) \in Nat
  <2>1. K \in SUBSET (1 .. Len(f.keys)) /\ IsFiniteSet(1 .. Len(f.keys))
    BY <1>1, FS_Interval
  <2> HIDE DEF K
  <2>2. IsFiniteSet(K)
    BY <2>1, FS_Subset
  <2> QED BY <2>2, FS_CardinalityType
<1> QED
  <2> HIDE DEF ss, K
  <2> QED BY <1>7, <1>8, <1>9, <1>10
-----------------------------------------------------------------------------
(* How often the filters of the command line select a record together *)

\* u are the products of the beginnings of s.
Multiplied(u, s) ==
  u[0] = 1 /\ \A k \in 1 .. Len(s) : u[k] = u[k - 1] * s[k] /\ u[k - 1] \in Nat /\ u[k] \in Nat

(* The recursive function of ProductOf is that.                            *)
LEMMA Products ==
  ASSUME NEW s \in Seq(Nat)
  PROVE  \E u : Multiplied(u, s) /\ ProductOf(s) = u[Len(s)]
PROOF
<1> DEFINE N == Len(s)
           step == [k \in 1 .. N |-> [x \in Nat |-> x * s[k]]]
           Is(h) == h = [k \in 0 .. N |-> IF k = 0 THEN 1 ELSE h[k - 1] * s[k]]
<1>1. N \in Nat /\ \A k \in 1 .. N : s[k] \in Nat
  OBVIOUS
<1>2. step \in StepFunctions(N, Nat)
  <2>1. \A k \in 1 .. N : \A x \in Nat : x * s[k] \in Nat
    BY <1>1
  <2> HIDE DEF N
  <2> QED BY <2>1 DEF StepFunctions
<1>3. PICK g : Solution(N, Nat, 1, step, g)
  <2> HIDE DEF N, step
  <2> QED BY <1>1, <1>2, Recursion
<1>4. Is(g)
  <2>1. g \in [0 .. N -> Nat] /\ g[0] = 1 /\ \A k \in 1 .. N : g[k] = step[k][g[k - 1]]
    BY <1>3 DEF Solution
  <2>2. \A k \in 1 .. N : k - 1 \in 0 .. N /\ g[k - 1] \in Nat
    <3>1. \A k \in 1 .. N : k - 1 \in 0 .. N
      BY <1>1
    <3> HIDE DEF N, step
    <3> QED BY <2>1, <3>1
  <2>3. \A k \in 1 .. N : g[k] = g[k - 1] * s[k]
    BY <2>1, <2>2
  <2>4. \A k \in 0 .. N : k # 0 => k \in 1 .. N
    BY <1>1
  <2> HIDE DEF N, step
  <2> QED BY <2>1, <2>3, <2>4
<1> DEFINE h == CHOOSE x : Is(x)
<1>5. Is(h)
  <2> HIDE DEF Is
  <2> QED BY <1>4
<1>6. ProductOf(s) = h[N]
  BY DEF ProductOf
<1>7. h[0] = 1 /\ \A k \in 1 .. N : h[k] = h[k - 1] * s[k]
  <2>1. h = [k \in 0 .. N |-> IF k = 0 THEN 1 ELSE h[k - 1] * s[k]]
    BY <1>5
  <2>2. 0 \in 0 .. N /\ \A k \in 1 .. N : k \in 0 .. N /\ k # 0
    BY <1>1
  <2> HIDE DEF h, Is, N
  <2> QED BY <2>1, <2>2
<1>8. 0 .. N \subseteq {k \in 0 .. N : h[k] \in Nat}
  <2> DEFINE I == {k \in 0 .. N : h[k] \in Nat}
  <2> HIDE DEF h, Is, N, step
  <2>1. 0 \in I
    BY <1>1, <1>7
  <2>2. ASSUME NEW k \in 0 .. N - 1, k \in I PROVE k + 1 \in I
    <3>1. k + 1 \in 1 .. N /\ k + 1 \in 0 .. N /\ (k + 1) - 1 = k
      BY <1>1
    <3>2. h[k + 1] = h[k] * s[k + 1] /\ s[k + 1] \in Nat /\ h[k] \in Nat
      BY <1>1, <1>7, <2>2, <3>1
    <3> QED BY <3>1, <3>2
  <2> HIDE DEF I
  <2>3. 0 .. N \subseteq I
    BY <1>1, <2>1, <2>2, BoundedInduction
  <2> QED BY <2>3 DEF I
<1>9. \A k \in 1 .. N : h[k - 1] \in Nat /\ h[k] \in Nat
  <2>1. \A k \in 1 .. N : k - 1 \in 0 .. N /\ k \in 0 .. N
    BY <1>1
  <2> HIDE DEF h, Is, N
  <2> QED BY <1>8, <2>1
<1>10. Multiplied(h, s)
  <2> HIDE DEF h, Is
  <2> QED BY <1>7, <1>9 DEF Multiplied
<1> QED
  <2> HIDE DEF h, Is
  <2> QED BY <1>6, <1>10

\* r goes on after s, with factors of 0 and of 1.
GoesOn(s, r) ==
  /\ s \in Seq(Nat) /\ r \in Seq(Nat) /\ Len(s) <= Len(r)
  /\ \A k \in 1 .. Len(s) : r[k] = s[k]
  /\ \A k \in Len(s) + 1 .. Len(r) : r[k] \in {0, 1}

(* Those keep the product or bring it to 0.                                *)
LEMMA ProductGoesOn ==
  ASSUME NEW s, NEW r, GoesOn(s, r)
  PROVE  ProductOf(r) = IF \A k \in Len(s) + 1 .. Len(r) : r[k] = 1 THEN ProductOf(s) ELSE 0
PROOF
<1> DEFINE M == Len(s)
           N == Len(r)
           Ones(k) == \A j \in M + 1 .. k : r[j] = 1
<1>1. M \in Nat /\ N \in Nat /\ M <= N /\ s \in Seq(Nat) /\ r \in Seq(Nat)
  BY DEF GoesOn
<1>2. PICK v : Multiplied(v, s) /\ ProductOf(s) = v[M]
  BY <1>1, Products
<1>3. PICK u : Multiplied(u, r) /\ ProductOf(r) = u[N]
  BY <1>1, Products
<1>4. u[0] = 1 /\ v[0] = 1 /\ (\A k \in 1 .. M : v[k] = v[k - 1] * s[k]) /\ \A k \in 1 .. N : u[k] = u[k - 1] * r[k]
  BY <1>2, <1>3 DEF Multiplied
<1>5. (\A k \in 1 .. M : r[k] = s[k]) /\ \A k \in M + 1 .. N : r[k] \in {0, 1}
  BY DEF GoesOn
<1>6. v[M] \in Nat
  <2>1. M = 0 \/ M \in 1 .. M
    BY <1>1
  <2> QED BY <1>2, <1>4, <2>1 DEF Multiplied
<1> HIDE DEF M, N, Ones
<1>7. 0 .. M \subseteq {k \in 0 .. M : u[k] = v[k]}
  <2> DEFINE I == {k \in 0 .. M : u[k] = v[k]}
  <2>1. 0 \in I
    BY <1>1, <1>4
  <2>2. ASSUME NEW k \in 0 .. M - 1, k \in I PROVE k + 1 \in I
    <3>1. k + 1 \in 1 .. M /\ k + 1 \in 1 .. N /\ k + 1 \in 0 .. M /\ (k + 1) - 1 = k
      BY <1>1
    <3>2. u[k + 1] = u[k] * r[k + 1] /\ v[k + 1] = v[k] * s[k + 1]
      <4>1. \A x \in 1 .. M : v[x] = v[x - 1] * s[x]
        BY <1>4
      <4>2. \A x \in 1 .. N : u[x] = u[x - 1] * r[x]
        BY <1>4
      <4>3. v[k + 1] = v[(k + 1) - 1] * s[k + 1] /\ u[k + 1] = u[(k + 1) - 1] * r[k + 1]
        BY <3>1, <4>1, <4>2
      <4> QED BY <3>1, <4>3
    <3>3. r[k + 1] = s[k + 1] /\ u[k] = v[k]
      BY <1>5, <2>2, <3>1
    <3>4. u[k + 1] = v[k + 1]
      BY <3>2, <3>3, Zenon
    <3> QED BY <3>1, <3>4
  <2> HIDE DEF I
  <2>3. 0 .. M \subseteq I
    BY <1>1, <2>1, <2>2, BoundedInduction
  <2> QED BY <2>3 DEF I
<1>8. u[M] = v[M]
  BY <1>1, <1>7
<1> DEFINE L == N - M
           J == {k \in 0 .. L : u[M + k] = IF Ones(M + k) THEN v[M] ELSE 0}
<1>9. 0 .. L \subseteq J
  <2>1. 0 \in J
    <3>1. Ones(M)
      BY <1>1 DEF Ones
    <3>2. M + 0 = M /\ 0 \in 0 .. L
      BY <1>1
    <3> QED BY <1>8, <3>1, <3>2
  <2>2. ASSUME NEW k \in 0 .. L - 1, k \in J PROVE k + 1 \in J
    <3> DEFINE i == M + k
    <3>1. k + 1 \in 0 .. L /\ M + (k + 1) = i + 1 /\ i + 1 \in 1 .. N /\ i + 1 \in M + 1 .. N /\ (i + 1) - 1 = i
          /\ M + 1 .. i + 1 = (M + 1 .. i) \cup {i + 1}
      BY <1>1
    <3>2. u[i] = IF Ones(i) THEN v[M] ELSE 0
      BY <2>2
    <3> HIDE DEF i, J, L
    <3>3. u[i + 1] = u[i] * r[i + 1] /\ r[i + 1] \in {0, 1}
      <4>1. \A x \in 1 .. N : u[x] = u[x - 1] * r[x]
        BY <1>4
      <4>2. u[i + 1] = u[(i + 1) - 1] * r[i + 1]
        BY <3>1, <4>1
      <4>3. r[i + 1] \in {0, 1}
        BY <1>5, <3>1
      <4> QED BY <3>1, <4>2, <4>3
    <3>4. Ones(i + 1) <=> Ones(i) /\ r[i + 1] = 1
      BY <3>1 DEF Ones
    <3>5. u[i] \in Nat
      BY <1>6, <3>2
    <3>6. u[i + 1] = IF r[i + 1] = 1 THEN u[i] ELSE 0
      BY <3>3, <3>5
    <3>7. u[i + 1] = IF Ones(i + 1) THEN v[M] ELSE 0
      BY <3>2, <3>3, <3>4, <3>6
    <3> QED BY <3>1, <3>7 DEF J
  <2>3. L \in Nat
    BY <1>1
  <2> HIDE DEF J, L
  <2> QED BY <2>1, <2>2, <2>3, BoundedInduction
<1>10. u[N] = IF Ones(N) THEN v[M] ELSE 0
  <2>1. L \in 0 .. L /\ M + L = N
    BY <1>1
  <2> HIDE DEF L
  <2> QED BY <1>9, <2>1
<1> QED BY <1>2, <1>3, <1>10 DEF Ones, M, N

\* How often each of the filters selects n.
Passings(p, filters, n) == [k \in DOMAIN filters |-> Passing(filters[k], p, n)]

(* All of them have a record as often as the product of that.              *)
LEMMA CountApply ==
  ASSUME job \in Jobs, NEW p \in Loaded, NEW filters, Lists(filters), NEW n \in RecordsAt(p)
  PROVE  /\ Passings(p, filters, n) \in Seq(Nat) /\ Len(Passings(p, filters, n)) = Len(filters)
         /\ Count(ApplyFilters(p, filters), n) = ProductOf(Passings(p, filters, n))
PROOF
<1> DEFINE D == RecordsAt(p)
           left == Stages(p, filters)
           N == Len(filters)
           s == Passings(p, filters, n)
<1>1. N \in Nat /\ DOMAIN filters = 1 .. N /\ \A k \in 1 .. N : filters[k].keys \in Seq(ToSet(filters[k].keys))
  BY DEF Lists
<1>2. /\ left \in [0 .. N -> Seq(D)] /\ left[0] = [i \in D |-> i]
      /\ \A k \in 1 .. N : left[k] = Execute(filters[k], p, left[k - 1])
  <2>1. Leaves(left, p, filters)
    BY StagesAre
  <2> HIDE DEF left
  <2> QED BY <2>1 DEF Leaves
<1>3. D = 1 .. Len(job.parts[p].records) /\ Len(job.parts[p].records) \in Nat
  <2>1. job.parts[p].records \in Seq(ToSet(job.parts[p].records))
    BY RecordTypes
  <2> QED BY <2>1 DEF RecordsAt
<1>4. Count(left[0], n) = 1
  <2>1. left[0] = [i \in D |-> i] /\ n \in D
    BY <1>2
  <2> HIDE DEF left, D
  <2>2. Where(left[0], {n}) = {n}
    BY <2>1 DEF Where
  <2> QED BY <2>2, FS_Singleton DEF Count
<1> HIDE DEF D, left
<1>5. \A k \in 1 .. N : k - 1 \in 0 .. N /\ left[k - 1] \in Seq(D)
  BY <1>1, <1>2
<1>6. \A k \in 1 .. N : /\ Passing(filters[k], p, n) \in Nat
                        /\ Count(left[k], n) = Count(left[k - 1], n) * Passing(filters[k], p, n)
  <2> SUFFICES ASSUME NEW k \in 1 .. N
               PROVE  /\ Passing(filters[k], p, n) \in Nat
                      /\ Count(left[k], n) = Count(left[k - 1], n) * Passing(filters[k], p, n)
    OBVIOUS
  <2> DEFINE f == filters[k]
             sel == left[k - 1]
  <2>1. f.keys \in Seq(ToSet(f.keys)) /\ sel \in Seq(D) /\ left[k] = Execute(f, p, sel)
    BY <1>1, <1>2, <1>5
  <2> HIDE DEF f, sel
  <2>2. Passing(f, p, n) \in Nat /\ Count(Execute(f, p, sel), n) = Count(sel, n) * Passing(f, p, n)
    BY <2>1, CountExecute
  <2> QED BY <2>1, <2>2 DEF f, sel
<1>7. s \in Seq(Nat) /\ Len(s) = N /\ \A k \in 1 .. N : s[k] = Passing(filters[k], p, n)
  <2>1. s = [k \in 1 .. N |-> Passing(filters[k], p, n)]
    BY <1>1 DEF Passings
  <2> HIDE DEF s, N
  <2> QED BY <1>1, <1>6, <2>1
<1> HIDE DEF s, N
<1>8. PICK u : Multiplied(u, s) /\ ProductOf(s) = u[Len(s)]
  BY <1>7, Products
<1>9. u[0] = 1 /\ \A k \in 1 .. N : u[k] = u[k - 1] * s[k]
  BY <1>7, <1>8 DEF Multiplied
<1> DEFINE I == {k \in 0 .. N : Count(left[k], n) = u[k]}
<1>10. 0 .. N \subseteq I
  <2>1. 0 \in I
    BY <1>1, <1>4, <1>9
  <2>2. ASSUME NEW k \in 0 .. N - 1, k \in I PROVE k + 1 \in I
    <3>0. \A j \in 1 .. N : u[j] = u[j - 1] * s[j] /\ Count(left[j], n) = Count(left[j - 1], n) * s[j]
      BY <1>6, <1>7, <1>9
    <3>1. k + 1 \in 1 .. N /\ k + 1 \in 0 .. N /\ (k + 1) - 1 = k
      BY <1>1
    <3>2. u[k + 1] = u[(k + 1) - 1] * s[k + 1] /\ Count(left[k + 1], n) = Count(left[(k + 1) - 1], n) * s[k + 1]
      BY <3>0, <3>1
    <3>3. u[k + 1] = u[k] * s[k + 1] /\ Count(left[k + 1], n) = Count(left[k], n) * s[k + 1]
      BY <3>1, <3>2
    <3>4. Count(left[k], n) = u[k]
      BY <2>2
    <3>5. Count(left[k + 1], n) = u[k + 1]
      BY <3>3, <3>4, Zenon
    <3> QED BY <3>1, <3>5
  <2> HIDE DEF I
  <2> QED BY <1>1, <2>1, <2>2, BoundedInduction
<1>11. Count(left[N], n) = u[N]
  <2>1. N \in 0 .. N
    BY <1>1
  <2> QED BY <1>10, <2>1
<1> QED BY <1>7, <1>8, <1>11 DEF ApplyFilters, s, left, N
-----------------------------------------------------------------------------
(* The signature tree *)

\* Trees by the bytes that lead to a node, with extensions from E.
Nodal(E)   == [ext : E, terminal : BOOLEAN]
Forest(E)  == UNION {[D -> Nodal(E)] : D \in SUBSET Seq(Nat)}

\* The nodes of t after the first k signatures; those at the end of one that is no beginning
\* of another of them are terminal, and have an extension whose signature it is.
Planted(t, sigs, order, k) ==
  /\ DOMAIN t = {<<>>} \cup UNION {Prefixes(sigs[order[i]]) : i \in 1 .. k}
  /\ \A s \in DOMAIN t :
       /\ t[s].terminal <=> /\ s # <<>> /\ \E i \in 1 .. k : sigs[order[i]] = s
                            /\ \A i \in 1 .. k : s \in Prefixes(sigs[order[i]]) => sigs[order[i]] = s
       /\ t[s].terminal => \E i \in 1 .. k : t[s].ext = order[i] /\ sigs[order[i]] = s

(* A signature is one of its beginnings, and so is the empty one.          *)
LEMMA PrefixesOf ==
  ASSUME NEW s \in Seq(Nat)
  PROVE  /\ s \in Prefixes(s) /\ <<>> \in Prefixes(s) /\ Prefixes(s) \subseteq Seq(Nat)
         /\ \A t \in Prefixes(s) : Len(t) \in 0 .. Len(s) /\ t = SubSeq(s, 1, Len(t))
PROOF
<1>1. s = SubSeq(s, 1, Len(s)) /\ Len(s) \in 0 .. Len(s)
  OBVIOUS
<1>2. <<>> = SubSeq(s, 1, 0) /\ 0 \in 0 .. Len(s)
  OBVIOUS
<1>3. ASSUME NEW t \in Prefixes(s) PROVE t \in Seq(Nat) /\ Len(t) \in 0 .. Len(s) /\ t = SubSeq(s, 1, Len(t))
  <2>1. PICK l \in 0 .. Len(s) : t = SubSeq(s, 1, l)
    BY DEF Prefixes
  <2>2. \A i \in 1 .. l : i \in 1 .. Len(s)
    OBVIOUS
  <2>3. SubSeq(s, 1, l) \in Seq(Nat) /\ Len(SubSeq(s, 1, l)) = l
    BY <2>2
  <2> QED BY <2>1, <2>3
<1> QED BY <1>1, <1>2, <1>3 DEF Prefixes

(* A signature more.                                                       *)
LEMMA Inserted ==
  ASSUME NEW E, NEW t \in Forest(E), NEW e \in E, NEW sig \in Seq(Nat)
  PROVE  Insert(t, e, sig) \in Forest(E)
PROOF
<1>1. PICK D \in SUBSET Seq(Nat) : t \in [D -> Nodal(E)]
  BY DEF Forest
<1> DEFINE B == D \cup Prefixes(sig)
           new == Insert(t, e, sig)
<1>2. B \in SUBSET Seq(Nat)
  BY PrefixesOf
<1>3. DOMAIN t = D /\ \A s \in D : t[s].ext \in E /\ t[s].terminal \in BOOLEAN
  BY <1>1 DEF Nodal
<1> DEFINE ext(s) == IF s \in DOMAIN t THEN t[s].ext ELSE e
           end(s) == (s \in DOMAIN t => t[s].terminal) /\ s \notin Prefixes(sig) \ {sig}
<1>4. new = [s \in B |-> [ext |-> ext(s), terminal |-> end(s)]]
  BY <1>3 DEF Insert
<1>5. \A s \in B : ext(s) \in E /\ end(s) \in BOOLEAN
  BY <1>3
<1> HIDE DEF ext, end, B, new
<1>6. \A s \in B : [ext |-> ext(s), terminal |-> end(s)] \in Nodal(E)
  BY <1>5 DEF Nodal
<1>7. new \in [B -> Nodal(E)]
  BY <1>4, <1>6
<1>8. new \in Forest(E)
  BY <1>2, <1>7 DEF Forest
<1> QED BY <1>8 DEF new

(* Inserting goes on with the nodes.                                       *)
LEMMA PlantedNext ==
  ASSUME NEW E, NEW t \in Forest(E), NEW sigs, NEW order, NEW k \in Nat,
         Planted(t, sigs, order, k), sigs[order[k + 1]] \in Seq(Nat)
  PROVE  Planted(Insert(t, order[k + 1], sigs[order[k + 1]]), sigs, order, k + 1)
PROOF
<1> DEFINE e   == order[k + 1]
           sig == sigs[order[k + 1]]
           new == Insert(t, e, sig)
           sg(i) == sigs[order[i]]
           D   == DOMAIN t
<1>1. (1 .. k + 1) = (1 .. k) \cup {k + 1}
  OBVIOUS
<1>2. D = {<<>>} \cup UNION {Prefixes(sg(i)) : i \in 1 .. k}
  BY DEF Planted
<1>3. \A s \in D : /\ t[s].terminal <=> /\ s # <<>> /\ \E i \in 1 .. k : sg(i) = s
                                        /\ \A i \in 1 .. k : s \in Prefixes(sg(i)) => sg(i) = s
                   /\ t[s].terminal => \E i \in 1 .. k : t[s].ext = order[i] /\ sg(i) = s
  BY DEF Planted
<1>4. DOMAIN new = D \cup Prefixes(sig)
  BY DEF Insert
<1>5. \A s \in DOMAIN new :
        /\ new[s].terminal <=> (s \in D => t[s].terminal) /\ s \notin Prefixes(sig) \ {sig}
        /\ new[s].ext = IF s \in D THEN t[s].ext ELSE e
  BY <1>4 DEF Insert
<1>6. sig \in Prefixes(sig) /\ <<>> \in Prefixes(sig)
  BY PrefixesOf
<1>7. sg(k + 1) = sig /\ order[k + 1] = e
  OBVIOUS
<1> HIDE DEF e, sig, new, sg, D
<1>8. DOMAIN new = {<<>>} \cup UNION {Prefixes(sg(i)) : i \in 1 .. k + 1}
  BY <1>1, <1>2, <1>4, <1>7
<1>9. ASSUME NEW s \in DOMAIN new
      PROVE  /\ new[s].terminal <=> /\ s # <<>> /\ \E i \in 1 .. k + 1 : sg(i) = s
                                    /\ \A i \in 1 .. k + 1 : s \in Prefixes(sg(i)) => sg(i) = s
             /\ new[s].terminal => \E i \in 1 .. k + 1 : new[s].ext = order[i] /\ sg(i) = s
  <2>1. CASE s \in D
    <3>1. new[s].terminal <=> t[s].terminal /\ (s \in Prefixes(sig) => s = sig)
      BY <1>5, <2>1
    <3>2. new[s].ext = t[s].ext
      BY <1>5, <2>1
    <3>3. /\ t[s].terminal <=> /\ s # <<>> /\ \E i \in 1 .. k : sg(i) = s
                               /\ \A i \in 1 .. k : s \in Prefixes(sg(i)) => sg(i) = s
          /\ t[s].terminal => \E i \in 1 .. k : t[s].ext = order[i] /\ sg(i) = s
      BY <1>3, <2>1
    <3>4. s = <<>> \/ \E i \in 1 .. k : s \in Prefixes(sg(i))
      BY <1>2, <2>1
    <3>5. \A i : i \in 1 .. k + 1 <=> i \in 1 .. k \/ i = k + 1
      BY <1>1
    <3> QED BY <3>1, <3>2, <3>3, <3>4, <3>5, <1>7
  <2>2. CASE s \notin D
    <3>1. s \in Prefixes(sig) /\ s # <<>> /\ \A i \in 1 .. k : s \notin Prefixes(sg(i))
      BY <1>2, <1>4, <2>2
    <3>2. new[s].terminal <=> s = sig
      BY <1>5, <2>2, <3>1
    <3>3. new[s].ext = e
      BY <1>5, <2>2
    <3>4. \A i \in 1 .. k : sg(i) # s
      <4>1. ASSUME NEW i \in 1 .. k, sg(i) = s PROVE FALSE
        <5>1. s = sig \/ s # sig
          OBVIOUS
        <5>2. s \in Seq(Nat)
          <6>1. sig \in Seq(Nat)
            BY DEF sig
          <6> QED BY <3>1, <6>1, PrefixesOf
        <5>3. s \in Prefixes(s)
          BY <5>2, PrefixesOf
        <5> QED BY <3>1, <4>1, <5>3
      <4> QED BY <4>1
    <3>5. \A i : i \in 1 .. k + 1 <=> i \in 1 .. k \/ i = k + 1
      BY <1>1
    <3> QED BY <3>1, <3>2, <3>3, <3>4, <3>5, <1>7
  <2> QED BY <2>1, <2>2
<1>10. Planted(new, sigs, order, k + 1)
  BY <1>8, <1>9 DEF Planted, sg
<1> QED BY <1>10 DEF new, e, sig

\* What signatures.csv and an order of it can be.
Orderly(sigs, order) ==
  /\ order \in Seq(DOMAIN sigs)
  /\ \A e \in DOMAIN sigs : sigs[e] \in Seq(Nat)

(* The recursive function of TrieOf plants all of them.                    *)
LEMMA TriePlanted ==
  ASSUME NEW sigs, NEW order, Orderly(sigs, order)
  PROVE  Planted(TrieOf(sigs, order), sigs, order, Len(order))
PROOF
<1> DEFINE N == Len(order)
           E == DOMAIN sigs \cup {""}
           T == Forest(E)
           step == [k \in 1 .. N |-> [t \in T |-> Insert(t, order[k], sigs[order[k]])]]
           Is(h) == h = [k \in 0 .. N |-> IF k = 0 THEN Root ELSE Insert(h[k - 1], order[k], sigs[order[k]])]
<1>1. N \in Nat /\ \A k \in 1 .. N : order[k] \in E /\ sigs[order[k]] \in Seq(Nat)
  <2>1. N \in Nat /\ \A k \in 1 .. N : order[k] \in DOMAIN sigs
    BY DEF Orderly
  <2> HIDE DEF N
  <2> QED BY <2>1 DEF Orderly
<1>2. Root \in T
  <2>1. {<<>>} \in SUBSET Seq(Nat)
    OBVIOUS
  <2>2. Root \in [{<<>>} -> Nodal(E)]
    BY DEF Root, Nodal
  <2> QED BY <2>1, <2>2 DEF Forest
<1>3. \A k \in 1 .. N : \A t \in T : Insert(t, order[k], sigs[order[k]]) \in T
  <2> HIDE DEF N, E
  <2> QED BY <1>1, Inserted
<1> HIDE DEF T, N, E
<1>4. step \in StepFunctions(N, T)
  BY <1>3 DEF StepFunctions
<1>5. PICK g : Solution(N, T, Root, step, g)
  <2> HIDE DEF step
  <2> QED BY <1>1, <1>2, <1>4, Recursion
<1>6. Is(g)
  <2>1. g \in [0 .. N -> T] /\ g[0] = Root /\ \A k \in 1 .. N : g[k] = step[k][g[k - 1]]
    BY <1>5 DEF Solution
  <2>2. \A k \in 1 .. N : k - 1 \in 0 .. N /\ g[k - 1] \in T
    <3>1. \A k \in 1 .. N : k - 1 \in 0 .. N
      BY <1>1
    <3> HIDE DEF step
    <3> QED BY <2>1, <3>1
  <2>3. \A k \in 1 .. N : g[k] = Insert(g[k - 1], order[k], sigs[order[k]])
    BY <2>1, <2>2
  <2>4. \A k \in 0 .. N : k # 0 => k \in 1 .. N
    BY <1>1
  <2> HIDE DEF step
  <2> QED BY <2>1, <2>3, <2>4
<1> DEFINE h == CHOOSE x : Is(x)
<1>7. Is(h)
  <2> HIDE DEF Is
  <2> QED BY <1>6
<1>8. TrieOf(sigs, order) = h[N]
  BY DEF TrieOf, N
<1>9. h[0] = Root /\ \A k \in 1 .. N : h[k] = Insert(h[k - 1], order[k], sigs[order[k]])
  <2>1. h = [k \in 0 .. N |-> IF k = 0 THEN Root ELSE Insert(h[k - 1], order[k], sigs[order[k]])]
    BY <1>7
  <2>2. 0 \in 0 .. N /\ \A k \in 1 .. N : k \in 0 .. N /\ k # 0
    BY <1>1
  <2> HIDE DEF h, Is
  <2> QED BY <2>1, <2>2
<1> HIDE DEF h, Is, step
<1> DEFINE I == {k \in 0 .. N : h[k] \in T /\ Planted(h[k], sigs, order, k)}
<1>10. 0 \in I
  <2>1. Planted(Root, sigs, order, 0)
    <3>1. DOMAIN Root = {<<>>} /\ Root[<<>>].terminal = FALSE
      BY DEF Root
    <3>2. UNION {Prefixes(sigs[order[i]]) : i \in 1 .. 0} = {}
      OBVIOUS
    <3> QED BY <3>1, <3>2 DEF Planted
  <2> QED BY <1>1, <1>2, <1>9, <2>1
<1>11. ASSUME NEW k \in 0 .. N - 1, k \in I PROVE k + 1 \in I
  <2>1. k + 1 \in 1 .. N /\ k + 1 \in 0 .. N /\ (k + 1) - 1 = k /\ k \in Nat
    BY <1>1
  <2>2. h[k + 1] = Insert(h[k], order[k + 1], sigs[order[k + 1]])
    <3>1. h[k + 1] = Insert(h[(k + 1) - 1], order[k + 1], sigs[order[k + 1]])
      BY <1>9, <2>1
    <3> QED BY <2>1, <3>1
  <2>3. h[k] \in T /\ Planted(h[k], sigs, order, k)
    BY <1>11
  <2>4. h[k + 1] \in T
    BY <1>3, <2>1, <2>2, <2>3
  <2>5. Planted(h[k + 1], sigs, order, k + 1)
    BY <1>1, <2>1, <2>2, <2>3, PlantedNext DEF T
  <2> QED BY <2>1, <2>4, <2>5
<1>12. 0 .. N \subseteq I
  <2> HIDE DEF I
  <2> QED BY <1>1, <1>10, <1>11, BoundedInduction
<1>13. Planted(h[N], sigs, order, N)
  <2>1. N \in 0 .. N
    BY <1>1
  <2> QED BY <1>12, <2>1
<1> QED BY <1>8, <1>13 DEF N
(* An order of the signatures has all of them.                             *)
LEMMA OrderHasAll ==
  ASSUME NEW D, IsFiniteSet(D), NEW order \in SetToSeqs(D)
  PROVE  order \in Seq(D) /\ \A e \in D : \E i \in 1 .. Len(order) : order[i] = e
PROOF
<1> DEFINE n == Cardinality(D)
<1>1. n \in Nat
  BY FS_CardinalityType
<1>2. order \in [1 .. n -> D] /\ \A i, j \in 1 .. n : i # j => order[i] # order[j]
  BY DEF SetToSeqs
<1>3. order \in Injection(1 .. n, D)
  BY <1>2 DEF Injection, IsInjective
<1>4. Cardinality(1 .. n) = n
  <2> HIDE DEF n
  <2> QED BY <1>1, FS_Interval
<1>5. order \in Surjection(1 .. n, D)
  <2> DEFINE B == 1 .. n
  <2> HIDE DEF B
  <2>1. order \in Injection(B, D) /\ Cardinality(B) = Cardinality(D)
    BY <1>3, <1>4 DEF B
  <2> QED BY <2>1, FS_Injection DEF B
<1>6. order \in Seq(D) /\ Len(order) = n
  <2> HIDE DEF n
  <2> QED BY <1>1, <1>2
<1> QED BY <1>5, <1>6 DEF Surjection

(* The signatures that count.                                              *)
LEMMA SignatureTypes ==
  ASSUME job \in Jobs
  PROVE  /\ IsFiniteSet(DOMAIN ReadSignatures)
         /\ \A e \in DOMAIN ReadSignatures : ReadSignatures[e] \in Seq(Nat) /\ e # "Unknown Extension"
PROOF
<1> DEFINE rows == {n \in DOMAIN job.rows : Len(args.exts) > 1 => Lower[job.rows[n].ext] \in ToSet(args.exts)}
           exts == {job.rows[n].ext : n \in rows}
           of(e) == {n \in rows : job.rows[n].ext = e}
           S == ToSet(job.rows)
<1>1. /\ job.rows \in Seq(S)
      /\ \A n \in DOMAIN job.rows : job.rows[n].sig \in Seq(Nat) /\ job.rows[n].ext # "Unknown Extension"
  BY SelectionAssumption
<1>2. DOMAIN job.rows = 1 .. Len(job.rows) /\ Len(job.rows) \in Nat
  <2> HIDE DEF S
  <2>1. job.rows \in Seq(S)
    BY <1>1
  <2> QED BY <2>1
<1>3. ReadSignatures = [e \in exts |-> job.rows[Max(of(e))].sig]
  BY DEF ReadSignatures
<1>4. rows \subseteq DOMAIN job.rows
  OBVIOUS
<1>5. IsFiniteSet(rows)
  <2>1. rows \in SUBSET (1 .. Len(job.rows)) /\ IsFiniteSet(1 .. Len(job.rows))
    BY <1>2, FS_Interval
  <2> HIDE DEF rows
  <2> QED BY <2>1, FS_Subset
<1> HIDE DEF rows
<1>6. IsFiniteSet(exts)
  <2> DEFINE f == [n \in rows |-> job.rows[n].ext]
  <2>1. f \in Surjection(rows, exts)
    BY DEF Surjection
  <2> HIDE DEF f, exts
  <2> QED BY <1>5, <2>1, FS_Surjection
<1>7. ASSUME NEW e \in exts PROVE Max(of(e)) \in of(e)
  <2>1. of(e) \subseteq 0 .. Len(job.rows) /\ of(e) # {}
    BY <1>2, <1>4
  <2> HIDE DEF of
  <2> QED BY <1>2, <2>1, MaxOf
<1>8. \A e \in exts : job.rows[Max(of(e))].sig \in Seq(Nat) /\ e # "Unknown Extension"
  <2> SUFFICES ASSUME NEW e \in exts PROVE job.rows[Max(of(e))].sig \in Seq(Nat) /\ e # "Unknown Extension"
    OBVIOUS
  <2>1. PICK m : m = Max(of(e))
    OBVIOUS
  <2>2. m \in rows /\ job.rows[m].ext = e
    BY <1>7, <2>1
  <2> HIDE DEF of, exts
  <2> QED BY <1>1, <1>4, <2>1, <2>2
<1> HIDE DEF of, exts
<1> QED BY <1>3, <1>6, <1>8

(* The signature tree finds one of the extensions a header belongs to.     *)
LEMMA OwnerFound ==
  ASSUME job \in Jobs, sgm \in Tries, NEW header \in Seq(Nat)
  PROVE  \/ Owners(header) = {} /\ FindSignature(header) = "Unknown Extension"
         \/ FindSignature(header) \in Owners(header) /\ FindSignature(header) # "Unknown Extension"
PROOF
<1> DEFINE sigs == ReadSignatures
           ends == {s \in Prefixes(header) \cap DOMAIN sgm : sgm[s].terminal}
<1>1. IsFiniteSet(DOMAIN sigs) /\ \A e \in DOMAIN sigs : sigs[e] \in Seq(Nat) /\ e # "Unknown Extension"
  BY SignatureTypes
<1>2. PICK order \in SetToSeqs(DOMAIN sigs) : sgm = TrieOf(sigs, order)
  BY DEF Tries
<1> DEFINE N == Len(order)
           sg(i) == sigs[order[i]]
           owns(e) == /\ sigs[e] \in Prefixes(header) \ {<<>>}
                      /\ \A d \in DOMAIN sigs : sigs[e] \in Prefixes(sigs[d]) => sigs[d] = sigs[e]
<1>3. Owners(header) = {e \in DOMAIN sigs : owns(e)}
  BY DEF Owners
<1>4. FindSignature(header) = IF ends = {} THEN "Unknown Extension"
                              ELSE sgm[CHOOSE s \in ends : \A t \in ends : Len(s) <= Len(t)].ext
  BY DEF FindSignature
<1> HIDE DEF sigs
<1>5. order \in Seq(DOMAIN sigs) /\ \A e \in DOMAIN sigs : \E i \in 1 .. N : order[i] = e
  BY <1>1, <1>2, OrderHasAll
<1>6. N \in Nat /\ \A i \in 1 .. N : order[i] \in DOMAIN sigs
  BY <1>5
<1>7. Planted(sgm, sigs, order, N)
  <2>1. Orderly(sigs, order)
    BY <1>1, <1>5 DEF Orderly
  <2> QED BY <1>2, <2>1, TriePlanted
<1> HIDE DEF N
<1>8. /\ DOMAIN sgm = {<<>>} \cup UNION {Prefixes(sg(i)) : i \in 1 .. N}
      /\ \A s \in DOMAIN sgm :
           /\ sgm[s].terminal <=> /\ s # <<>> /\ \E i \in 1 .. N : sg(i) = s
                                  /\ \A i \in 1 .. N : s \in Prefixes(sg(i)) => sg(i) = s
           /\ sgm[s].terminal => \E i \in 1 .. N : sgm[s].ext = order[i] /\ sg(i) = s
  BY <1>7 DEF Planted
<1>9. ASSUME NEW e \in DOMAIN sigs, owns(e) PROVE sigs[e] \in ends
  <2>1. PICK i \in 1 .. N : order[i] = e
    BY <1>5
  <2>2. sg(i) = sigs[e] /\ sigs[e] \in Prefixes(sg(i))
    BY <1>1, <2>1, PrefixesOf
  <2>3. sigs[e] \in DOMAIN sgm
    <3> HIDE DEF sg
    <3> QED BY <1>8, <2>2
  <2>4. \A j \in 1 .. N : sigs[e] \in Prefixes(sg(j)) => sg(j) = sigs[e]
    BY <1>6, <1>9
  <2>5. sgm[sigs[e]].terminal
    <3> HIDE DEF sg
    <3> QED BY <1>8, <1>9, <2>2, <2>3, <2>4
  <2> QED BY <1>9, <2>3, <2>5
<1>10. ASSUME NEW s \in ends PROVE sgm[s].ext \in DOMAIN sigs /\ owns(sgm[s].ext)
  <2>1. s \in Prefixes(header) /\ s \in DOMAIN sgm /\ sgm[s].terminal
    OBVIOUS
  <2>2. PICK i \in 1 .. N : sgm[s].ext = order[i] /\ sg(i) = s
    BY <1>8, <2>1
  <2>3. s # <<>> /\ \A j \in 1 .. N : s \in Prefixes(sg(j)) => sg(j) = s
    <3> HIDE DEF sg, ends
    <3> QED BY <1>8, <2>1
  <2>4. sgm[s].ext \in DOMAIN sigs /\ sigs[sgm[s].ext] = s
    BY <1>6, <2>2
  <2>5. \A d \in DOMAIN sigs : s \in Prefixes(sigs[d]) => sigs[d] = s
    <3> SUFFICES ASSUME NEW d \in DOMAIN sigs, s \in Prefixes(sigs[d]) PROVE sigs[d] = s
      OBVIOUS
    <3>1. PICK j \in 1 .. N : order[j] = d
      BY <1>5
    <3> QED BY <2>3, <3>1
  <2> QED BY <2>1, <2>3, <2>4, <2>5
<1> HIDE DEF owns
<1>11. CASE ends = {}
  <2>1. Owners(header) = {}
    <3> HIDE DEF ends
    <3> QED BY <1>3, <1>9, <1>11
  <2> HIDE DEF ends
  <2> QED BY <1>4, <1>11, <2>1
<1>12. CASE ends # {}
  <2> DEFINE lengths == {Len(s) : s \in ends}
  <2>1. lengths \subseteq Nat /\ lengths # {}
    <3>1. \A s \in ends : Len(s) \in Nat
      <4> SUFFICES ASSUME NEW s \in Prefixes(header) PROVE Len(s) \in Nat
        OBVIOUS
      <4> QED BY PrefixesOf
    <3> HIDE DEF ends
    <3> QED BY <1>12, <3>1
  <2> HIDE DEF ends
  <2>2. \E x \in lengths : \A y \in lengths : x <= y
    <3> HIDE DEF lengths
    <3> QED BY <2>1, LeastNumber
  <2>3. \E s \in ends : \A t \in ends : Len(s) <= Len(t)
    BY <2>2
  <2>4. PICK s : s = CHOOSE x \in ends : \A t \in ends : Len(x) <= Len(t)
    OBVIOUS
  <2>5. s \in ends
    BY <2>3, <2>4
  <2>6. FindSignature(header) = sgm[s].ext
    BY <1>4, <1>12, <2>4
  <2>7. sgm[s].ext \in Owners(header)
    BY <1>3, <1>10, <2>5
  <2> QED BY <1>1, <1>3, <2>6, <2>7
<1> QED BY <1>11, <1>12

\* The signatures are read where they are asked for.
TreeRead == args.level # "" => sgm \in Tries

(* A record whose signature must pass does, and one that does may.         *)
LEMMA SignaturesPass ==
  ASSUME job \in Jobs, TreeRead, args.level # "",
         NEW p \in Loaded, NEW n \in RecordsAt(p)
  PROVE  /\ HasSignatures(Rec(p, n), p) => May(Rec(p, n), p)
         /\ Must(Rec(p, n), p) => HasSignatures(Rec(p, n), p)
PROOF
<1> DEFINE r == Rec(p, n)
           h == r.header[p]
<1>1. r.ext \in DOMAIN Lower /\ h \in Seq(Nat) /\ Lower[r.ext] # "Unknown Extension"
  <2>1. p \in DOMAIN job.parts /\ n \in DOMAIN job.parts[p].records
    BY DEF Loaded, RecordsAt
  <2>2. job.parts[p].records[n].ext \in DOMAIN Lower /\ job.parts[p].records[n].header[p] \in Seq(Nat)
    BY <2>1, SelectionAssumption
  <2> QED BY <2>2, SelectionAssumption DEF Rec
<1> HIDE DEF r, h
<1>2. \/ Owners(h) = {} /\ FindSignature(h) = "Unknown Extension"
      \/ FindSignature(h) \in Owners(h) /\ FindSignature(h) # "Unknown Extension"
  BY <1>1, OwnerFound DEF TreeRead
<1>3. HasSignatures(r, p) <=>
        /\ ~r.folder /\ r.lsize # 0
        /\ \/ args.level = "permissive" /\ FindSignature(h) # "Unknown Extension"
           \/ args.level = "strict" /\ FindSignature(h) = Lower[r.ext]
  BY DEF HasSignatures, h
<1>4. Must(r, p) <=>
        /\ ~r.folder /\ r.lsize # 0
        /\ \/ args.level = "permissive" /\ Owners(h) # {}
           \/ args.level = "strict" /\ Owners(h) = {Lower[r.ext]}
  BY DEF Must, h
<1>5. May(r, p) <=> Must(r, p) \/ (args.level = "strict" /\ Lower[r.ext] \in Owners(h))
  BY DEF May, h
<1> QED BY <1>1, <1>2, <1>3, <1>4, <1>5 DEF r
-----------------------------------------------------------------------------
(* The filters of a partition *)

\* The filters by the signatures of the partitions q, and with those of the command line.
BySignature(q) == [i \in DOMAIN q |-> [kind |-> "signature", keys |-> <<q[i]>>]]
FiltersOf(q)   == IF args.level = "" THEN args.filters ELSE args.filters \o BySignature(q)

(* The filter by the signatures of a partition selects a record once or not. *)
LEMMA SignaturePassing ==
  ASSUME NEW q, NEW p, NEW n
  PROVE  Passing([kind |-> "signature", keys |-> <<q>>], p, n) = IF HasSignatures(Rec(p, n), q) THEN 1 ELSE 0
PROOF
<1> DEFINE f == [kind |-> "signature", keys |-> <<q>>]
           K == {k \in DOMAIN f.keys : Keeps(f.kind, f.keys[k], p, n)}
<1>1. DOMAIN f.keys = {1} /\ f.keys[1] = q /\ f.kind = "signature"
  <2>1. f.keys = <<q>> /\ f.kind = "signature"
    OBVIOUS
  <2>2. DOMAIN <<q>> = 1 .. 1 /\ <<q>>[1] = q /\ 1 .. 1 = {1}
    OBVIOUS
  <2> HIDE DEF f
  <2> QED BY <2>1, <2>2
<1>2. Keeps("signature", q, p, n) <=> HasSignatures(Rec(p, n), q)
  BY DEF Keeps
<1> HIDE DEF f
<1>3. K = IF HasSignatures(Rec(p, n), q) THEN {1} ELSE {}
  BY <1>1, <1>2
<1>4. Passing(f, p, n) = Cardinality(K)
  BY DEF Passing
<1>5. Cardinality({1}) = 1 /\ Cardinality({}) = 0
  BY FS_Singleton, FS_EmptySet
<1> HIDE DEF K
<1> QED BY <1>3, <1>4, <1>5 DEF f

\* What Exact says of the records of a partition that is selected with the filters of q.
ExactlyChosen(q, p, n, count) ==
  /\ count \in {0, Times(p, n)}
  /\ ~May(Rec(p, n), p) => count = 0
  /\ (Len(q) = 1 \/ args.level = "") /\ Must(Rec(p, n), p) => count = Times(p, n)

\* The partitions q so far, of which p is the last.
UpToHere(q, p) == q \in Seq(Loaded) /\ Len(q) > 0 /\ q[Len(q)] = p /\ Lists(FiltersOf(q))

(* They let the records pass that they should, and no other.               *)
LEMMA FiltersExact ==
  ASSUME job \in Jobs, TreeRead, Lists(args.filters),
         NEW p \in Loaded, NEW n \in RecordsAt(p), NEW q, UpToHere(q, p)
  PROVE  ExactlyChosen(q, p, n, Count(ApplyFilters(p, FiltersOf(q)), n))
PROOF
<1> DEFINE own == args.filters
           F == FiltersOf(q)
           s == Passings(p, own, n)
           r == Passings(p, F, n)
           count == Count(ApplyFilters(p, F), n)
<1>1. s \in Seq(Nat) /\ Len(s) = Len(own) /\ r \in Seq(Nat) /\ Len(r) = Len(F) /\ count = ProductOf(r)
  <2>1. s \in Seq(Nat) /\ Len(s) = Len(own)
    BY CountApply
  <2> HIDE DEF F, own
  <2>2. Lists(F)
    BY DEF F, UpToHere
  <2>3. r \in Seq(Nat) /\ Len(r) = Len(F) /\ count = ProductOf(r)
    BY <2>2, CountApply
  <2> QED BY <2>1, <2>3
<1>2. Times(p, n) = ProductOf(s)
  BY DEF Times, Passings
<1>3. CASE args.level = ""
  <2>1. F = own
    BY <1>3 DEF FiltersOf
  <2>2. count = Times(p, n)
    BY <1>1, <1>2, <2>1
  <2>3. Must(Rec(p, n), p) /\ May(Rec(p, n), p)
    BY <1>3 DEF Must, May
  <2> HIDE DEF count
  <2>4. ExactlyChosen(q, p, n, count)
    BY <2>2, <2>3 DEF ExactlyChosen
  <2> QED BY <2>4 DEF count
<1>4. CASE args.level # ""
  <2> DEFINE sigs == BySignature(q)
             M == Len(own)
             L == Len(q)
  <2>1. L \in Nat /\ DOMAIN q = 1 .. L /\ L > 0 /\ q[L] = p
    BY DEF UpToHere
  <2>2. sigs \in Seq(ToSet(sigs)) /\ Len(sigs) = L /\ \A i \in 1 .. L : sigs[i] = [kind |-> "signature", keys |-> <<q[i]>>]
    <3>1. sigs = [i \in 1 .. L |-> [kind |-> "signature", keys |-> <<q[i]>>]]
      BY <2>1 DEF BySignature
    <3> HIDE DEF sigs, L
    <3>2. DOMAIN sigs = 1 .. L /\ \A i \in 1 .. L : sigs[i] = [kind |-> "signature", keys |-> <<q[i]>>]
      BY <3>1
    <3>3. sigs \in [1 .. L -> ToSet(sigs)]
      <4>1. \A i \in 1 .. L : sigs[i] \in ToSet(sigs)
        BY <3>2 DEF ToSet
      <4>2. sigs = [i \in 1 .. L |-> sigs[i]]
        BY <3>1
      <4> QED BY <4>1, <4>2
    <3> QED BY <2>1, <3>2, <3>3
  <2>3. own \in Seq(ToSet(own)) /\ M \in Nat /\ DOMAIN own = 1 .. M
    <3>1. own \in Seq(ToSet(own))
      BY DEF Lists
    <3> HIDE DEF own
    <3> QED BY <3>1
  <2>4. F = own \o sigs
    BY <1>4 DEF FiltersOf
  <2> HIDE DEF own, sigs, F, L, M
  <2>5. /\ Len(F) = M + L /\ DOMAIN F = 1 .. M + L
        /\ \A k \in 1 .. M : F[k] = own[k]
        /\ \A i \in 1 .. L : F[M + i] = sigs[i]
    <3> DEFINE U == ToSet(own) \cup ToSet(sigs)
    <3>1. own \in Seq(U) /\ sigs \in Seq(U)
      BY <2>2, <2>3
    <3> HIDE DEF U
    <3>2. Len(own) = M
      BY DEF M
    <3> QED BY <2>1, <2>2, <2>3, <2>4, <3>1, <3>2
  <2>6. \A k \in 1 .. M : r[k] = s[k]
    <3>1. s = [k \in 1 .. M |-> Passing(own[k], p, n)]
      BY <2>3 DEF Passings
    <3>2. r = [k \in 1 .. M + L |-> Passing(F[k], p, n)]
      BY <2>5 DEF Passings
    <3>3. 1 .. M \subseteq 1 .. M + L
      BY <2>1, <2>3
    <3> HIDE DEF r, s
    <3> QED BY <2>5, <3>1, <3>2, <3>3
  <2>7. \A i \in 1 .. L : r[M + i] = IF HasSignatures(Rec(p, n), q[i]) THEN 1 ELSE 0
    <3>1. r = [k \in 1 .. M + L |-> Passing(F[k], p, n)]
      BY <2>5 DEF Passings
    <3> HIDE DEF r
    <3> SUFFICES ASSUME NEW i \in 1 .. L PROVE r[M + i] = IF HasSignatures(Rec(p, n), q[i]) THEN 1 ELSE 0
      OBVIOUS
    <3>2. M + i \in 1 .. M + L
      BY <2>1, <2>3
    <3>3. r[M + i] = Passing(F[M + i], p, n)
      BY <3>1, <3>2
    <3>4. F[M + i] = [kind |-> "signature", keys |-> <<q[i]>>]
      BY <2>2, <2>5
    <3> QED BY <3>3, <3>4, SignaturePassing
  <2>8. \A k \in M + 1 .. M + L : \E i \in 1 .. L : k = M + i
    <3> SUFFICES ASSUME NEW k \in M + 1 .. M + L PROVE \E i \in 1 .. L : k = M + i
      OBVIOUS
    <3>1. k - M \in 1 .. L /\ k = M + (k - M)
      BY <2>1, <2>3
    <3> QED BY <3>1
  <2>9. Len(s) = M /\ Len(r) = M + L
    BY <1>1, <2>5 DEF M
  <2>10. GoesOn(s, r)
    <3>1. \A k \in M + 1 .. M + L : r[k] \in {0, 1}
      <4> HIDE DEF r
      <4> QED BY <2>7, <2>8
    <3>2. M <= M + L
      BY <2>1, <2>3
    <3> HIDE DEF r, s
    <3> QED BY <1>1, <2>6, <2>9, <3>1, <3>2 DEF GoesOn
  <2> HIDE DEF r, s, count
  <2>11. count = IF \A k \in M + 1 .. M + L : r[k] = 1 THEN Times(p, n) ELSE 0
    BY <1>1, <1>2, <2>9, <2>10, ProductGoesOn
  <2>12. L \in 1 .. L /\ M + L \in M + 1 .. M + L /\ q[L] = p
    BY <2>1, <2>3
  <2>13. r[M + L] = IF HasSignatures(Rec(p, n), p) THEN 1 ELSE 0
    BY <2>7, <2>12
  <2>14. /\ HasSignatures(Rec(p, n), p) => May(Rec(p, n), p)
         /\ Must(Rec(p, n), p) => HasSignatures(Rec(p, n), p)
    BY <1>4, SignaturesPass
  <2>15. ~May(Rec(p, n), p) => count = 0
    BY <2>11, <2>12, <2>13, <2>14
  <2>16. L = 1 /\ Must(Rec(p, n), p) => count = Times(p, n)
    <3> SUFFICES ASSUME L = 1, Must(Rec(p, n), p) PROVE count = Times(p, n)
      OBVIOUS
    <3>1. \A k \in M + 1 .. M + L : k = M + L
      BY <2>3
    <3> QED BY <2>11, <2>13, <2>14, <3>1
  <2>17. ExactlyChosen(q, p, n, count)
    BY <1>4, <2>11, <2>15, <2>16 DEF ExactlyChosen, L
  <2> QED BY <2>17 DEF count, F
<1> QED BY <1>3, <1>4
-----------------------------------------------------------------------------
(* Every partition that was selected *)

PartsOf(s) == [i \in DOMAIN s |-> s[i].part]

\* The filters are those of the partitions selected, and so is what was selected.
ChosenInv ==
  /\ TreeRead
  /\ phase \notin {"panic", "hang"} => flm = FiltersOf(PartsOf(seen))
  /\ \A k \in DOMAIN seen : Exact(k)

LEMMA InitChosenInv == Init => ChosenInv
PROOF
<1> SUFFICES ASSUME Init PROVE ChosenInv
  OBVIOUS
<1>1. job \in Jobs /\ flm = args.filters /\ seen = <<>>
  BY DEF Init, SelectionInit
<1>2. TreeRead
  <2> SUFFICES ASSUME args.level # "" PROVE sgm \in Tries
    BY DEF TreeRead
  <2>1. sgm \in IF args.level = "" THEN {<<>>} ELSE Tries
    BY DEF Init, SelectionInit
  <2> QED BY <2>1, Zenon
<1>3. FiltersOf(PartsOf(seen)) = args.filters
  <2>1. BySignature(PartsOf(seen)) = <<>>
    BY <1>1 DEF BySignature, PartsOf
  <2>2. args.filters \in Seq(ToSet(args.filters))
    BY <1>1, EvidenceAssumption DEF args
  <2>3. args.filters \o <<>> = args.filters
    <3> DEFINE f == args.filters
               S == ToSet(f)
    <3>1. f \in Seq(S)
      BY <2>2
    <3> HIDE DEF f, S
    <3>2. f \o <<>> = f
      BY <3>1
    <3> QED BY <3>2 DEF f
  <2>4. args.filters \o BySignature(PartsOf(seen)) = args.filters
    BY <2>1, <2>3, Zenon
  <2> QED BY <2>4, Zenon DEF FiltersOf
<1>4. DOMAIN seen = {}
  BY <1>1
<1> QED BY <1>1, <1>2, <1>3, <1>4 DEF ChosenInv

(* What is asked of a record stays as long as the signatures do.           *)
LEMMA SameChoice ==
  ASSUME job' = job, sgm' = sgm
  PROVE  \A p, n : /\ Times(p, n)' = Times(p, n)
                   /\ May(Rec(p, n), p)' = May(Rec(p, n), p)
                   /\ Must(Rec(p, n), p)' = Must(Rec(p, n), p)
PROOF
<1>1. ASSUME NEW p, NEW n PROVE GetFullPath(p, n)' = GetFullPath(p, n)
  BY DEF GetFullPath, Ups, Tops, Rec
<1>2. ASSUME NEW kind, NEW key, NEW p, NEW n PROVE Keeps(kind, key, p, n)' = Keeps(kind, key, p, n)
  BY <1>1 DEF Keeps, HasSignatures, FindSignature, args, Rec
<1>3. ASSUME NEW f, NEW p, NEW n PROVE Passing(f, p, n)' = Passing(f, p, n)
  BY <1>2 DEF Passing
<1>4. ASSUME NEW p, NEW n PROVE Times(p, n)' = Times(p, n)
  BY <1>3 DEF Times, args
<1>5. ASSUME NEW p, NEW n PROVE /\ May(Rec(p, n), p)' = May(Rec(p, n), p)
                                /\ Must(Rec(p, n), p)' = Must(Rec(p, n), p)
  BY DEF May, Must, Owners, ReadSignatures, args, Rec
<1> QED BY <1>4, <1>5

(* A partition that was selected stays as it is.                           *)
LEMMA SameExact ==
  ASSUME job' = job, sgm' = sgm, NEW k, seen'[k] = seen[k], Exact(k)
  PROVE  Exact(k)'
PROOF
<1>1. PICK s : s = seen[k]
  OBVIOUS
<1>2. s = seen'[k]
  BY <1>1
<1> DEFINE q == s.part
<1>3. \A n : /\ Times(q, n)' = Times(q, n)
             /\ May(Rec(q, n), q)' = May(Rec(q, n), q)
             /\ Must(Rec(q, n), q)' = Must(Rec(q, n), q)
  BY SameChoice
<1> DEFINE count(n) == Cardinality({i \in DOMAIN s.sel : s.sel[i] = n})
<1>4. \A n \in DOMAIN job.parts[q].records :
        /\ count(n) \in {0, Times(q, n)}
        /\ ~May(Rec(q, n), q) => count(n) = 0
        /\ (k = 1 \/ args.level = "") /\ Must(Rec(q, n), q) => count(n) = Times(q, n)
  BY <1>1 DEF Exact
<1>5. \A n \in DOMAIN job'.parts[q].records :
        /\ count(n) \in {0, Times(q, n)'}
        /\ ~May(Rec(q, n), q)' => count(n) = 0
        /\ (k = 1 \/ args'.level = "") /\ Must(Rec(q, n), q)' => count(n) = Times(q, n)'
  <2>1. args' = args
    BY DEF args
  <2> HIDE DEF count, q
  <2> QED BY <1>3, <1>4, <2>1
<1> QED BY <1>2, <1>5 DEF Exact

(* Where the signatures, the filters and the partitions selected stay.     *)
LEMMA AsideChosen ==
  ASSUME ChosenInv, job' = job, sgm' = sgm, flm' = flm, seen' = seen,
         phase \in {"panic", "hang"} => phase' \in {"panic", "hang"}
  PROVE  ChosenInv'
PROOF
<1>1. args' = args
  BY DEF args
<1>2. Tries' = Tries
  BY DEF Tries, ReadSignatures, args
<1>3. TreeRead'
  BY <1>1, <1>2 DEF TreeRead, ChosenInv
<1>4. FiltersOf(PartsOf(seen))' = FiltersOf(PartsOf(seen))
  BY <1>1 DEF FiltersOf, PartsOf
<1>5. \A k \in DOMAIN seen' : Exact(k)'
  <2>1. \A k \in DOMAIN seen : seen'[k] = seen[k] /\ Exact(k)
    BY DEF ChosenInv
  <2> QED BY <2>1, SameExact
<1>6. phase' \notin {"panic", "hang"} => flm' = FiltersOf(PartsOf(seen))'
  BY <1>4 DEF ChosenInv
<1> QED BY <1>3, <1>5, <1>6 DEF ChosenInv
(* A partition that is selected is selected by what its filters ask for.   *)
LEMMA SelectChosen ==
  ASSUME SelectionInv, ChosenInv, phase = "loop", NEW p \in todo, Select(p)
  PROVE  ChosenInv'
PROOF
<1>1. /\ job' = job /\ sgm' = sgm /\ flm' = Register(p)
      /\ p \in Loaded /\ job \in Jobs /\ Lists(flm)
      /\ seen \in Seq([part : Loaded, sel : Seq(Nat)])
  BY DEF Select, SelectionInv, SelectedType
<1>2. args' = args
  BY <1>1 DEF args
<1>3. Tries' = Tries
  BY <1>1 DEF Tries, ReadSignatures, args
<1>4. TreeRead /\ TreeRead'
  BY <1>1, <1>2, <1>3 DEF TreeRead, ChosenInv
<1>5. flm = FiltersOf(PartsOf(seen)) /\ \A k \in DOMAIN seen : Exact(k)
  BY DEF ChosenInv
<1>6. CASE seen' = seen /\ phase' \in {"panic", "hang"}
  <2>1. \A k \in DOMAIN seen' : Exact(k)'
    <3>1. \A k \in DOMAIN seen : seen'[k] = seen[k]
      BY <1>6
    <3> QED BY <1>1, <1>5, <1>6, <3>1, SameExact
  <2> QED BY <1>4, <1>6, <2>1 DEF ChosenInv
<1>7. CASE seen' = Append(seen, [part |-> p, sel |-> ApplyFilters(p, flm')])
  <2>0. PICK l : l = Len(seen) + 1
    OBVIOUS
  <2> DEFINE s == [part |-> p, sel |-> ApplyFilters(p, flm')]
             q == PartsOf(seen')
             now == PartsOf(seen)
  <2>1. /\ DOMAIN seen = 1 .. Len(seen) /\ DOMAIN seen' = 1 .. l /\ Len(seen) \in Nat
        /\ seen'[l] = s /\ \A k \in 1 .. Len(seen) : seen'[k] = seen[k]
    <3> DEFINE V == [part : Loaded, sel : Seq(Nat)]
               W == V \cup {s}
    <3>1. seen \in Seq(W) /\ s \in W
      <4>1. seen \in Seq(V)
        BY <1>1
      <4> HIDE DEF V, s
      <4> QED BY <4>1
    <3>2. seen' = Append(seen, s)
      BY <1>7
    <3> HIDE DEF s, W
    <3> QED BY <2>0, <3>1, <3>2
  <2>2. s.part = p /\ s.sel = ApplyFilters(p, flm')
    OBVIOUS
  <2> HIDE DEF s
  <2>3. q = Append(now, p) /\ now \in Seq(Loaded)
    <3>1. \A k \in 1 .. Len(seen) : seen[k].part \in Loaded
      <4> DEFINE W == [part : Loaded, sel : Seq(Nat)]
      <4>1. \A w \in W : w.part \in Loaded
        OBVIOUS
      <4>2. seen \in Seq(W)
        BY <1>1
      <4> HIDE DEF W
      <4>3. \A k \in 1 .. Len(seen) : seen[k] \in W
        BY <4>2
      <4> QED BY <4>1, <4>3
    <3>2. now = [k \in 1 .. Len(seen) |-> seen[k].part]
      BY <2>1 DEF PartsOf
    <3>3. q = [k \in 1 .. l |-> seen'[k].part]
      BY <2>1 DEF PartsOf
    <3> HIDE DEF q, now
    <3>4. now \in Seq(Loaded) /\ Len(now) = Len(seen)
      BY <2>1, <3>1, <3>2
    <3>5. q = Append(now, p)
      BY <1>1, <2>0, <2>1, <2>2, <3>2, <3>3, <3>4
    <3> QED BY <3>4, <3>5
  <2> HIDE DEF q, now
  <2>4. Lists(args.filters) /\ args.filters \in Seq(ToSet(args.filters))
    <3>1. args.filters \in Seq(ToSet(args.filters))
          /\ \A n \in DOMAIN args.filters : args.filters[n].keys \in Seq(ToSet(args.filters[n].keys))
      BY <1>1, EvidenceAssumption DEF args
    <3> QED BY <3>1 DEF Lists
  <2>5. flm' = FiltersOf(q)
    <3>1. CASE args.level = ""
      <4>1. flm' = flm /\ flm = args.filters
        BY <1>1, <1>5, <3>1 DEF Register, FiltersOf
      <4> QED BY <3>1, <4>1 DEF FiltersOf
    <3>2. CASE args.level # ""
      <4> DEFINE f == [kind |-> "signature", keys |-> <<p>>]
                 own == args.filters
      <4>1. flm' = Append(flm, f) /\ flm = own \o BySignature(now)
        BY <1>1, <1>5, <3>2 DEF Register, FiltersOf, now
      <4>2. FiltersOf(q) = own \o BySignature(q)
        BY <3>2 DEF FiltersOf
      <4>3. BySignature(q) = Append(BySignature(now), f) /\ BySignature(now) \in Seq({BySignature(now)[i] : i \in DOMAIN now} \cup {f})
        <5> DEFINE g(x) == [kind |-> "signature", keys |-> <<x>>]
        <5>1. BySignature(now) = [i \in 1 .. Len(now) |-> g(now[i])]
          BY <2>3 DEF BySignature
        <5>2. /\ Len(now) \in Nat /\ DOMAIN q = 1 .. Len(now) + 1 /\ q[Len(now) + 1] = p
              /\ (\A i \in 1 .. Len(now) : q[i] = now[i]) /\ DOMAIN now = 1 .. Len(now)
          BY <1>1, <2>3
        <5>3. BySignature(q) = [i \in 1 .. Len(now) + 1 |-> g(q[i])]
          BY <5>2 DEF BySignature
        <5>4. f = g(p)
          OBVIOUS
        <5> HIDE DEF g, f
        <5> DEFINE S == {BySignature(now)[i] : i \in DOMAIN now} \cup {f}
        <5>5. BySignature(now) \in Seq(S) /\ Len(BySignature(now)) = Len(now) /\ f \in S
          <6>1. \A i \in 1 .. Len(now) : BySignature(now)[i] \in S
            BY <5>2
          <6> HIDE DEF S
          <6>2. BySignature(now) \in [1 .. Len(now) -> S]
            BY <5>1, <6>1
          <6> QED BY <5>2, <6>2 DEF S
        <5> HIDE DEF S
        <5>6. BySignature(q) = Append(BySignature(now), f)
          BY <5>1, <5>2, <5>3, <5>4, <5>5
        <5> QED BY <5>5, <5>6 DEF S
      <4> DEFINE S == {BySignature(now)[i] : i \in DOMAIN now} \cup {f}
                 U == S \cup ToSet(own)
                 B == BySignature(now)
      <4>4. own \in Seq(U) /\ B \in Seq(U) /\ f \in U
        <5>1. own \in Seq(ToSet(own)) /\ B \in Seq(S)
          BY <2>4, <4>3
        <5> HIDE DEF own, B, S
        <5>2. own \in Seq(U) /\ B \in Seq(U)
          BY <5>1
        <5>3. f \in U
          BY DEF S
        <5> QED BY <5>2, <5>3
      <4> HIDE DEF U, S, B, f, own
      <4>5. Append(own \o B, f) = own \o Append(B, f)
        BY <4>4
      <4> QED BY <4>1, <4>2, <4>3, <4>5 DEF B
    <3> QED BY <3>1, <3>2
  <2>6. UpToHere(q, p)
    <3>1. q \in Seq(Loaded) /\ Len(q) > 0 /\ q[Len(q)] = p
      BY <1>1, <2>3
    <3>2. Lists(Register(p))
      BY <1>1, RegisterLists
    <3> QED BY <1>1, <2>5, <3>1, <3>2 DEF UpToHere
  <2>7. Len(q) = l
    BY <2>0, <2>1, <2>3 DEF now, PartsOf
  <2>8. \A n \in RecordsAt(p) : ExactlyChosen(q, p, n, Count(s.sel, n))
    <3> SUFFICES ASSUME NEW n \in RecordsAt(p) PROVE ExactlyChosen(q, p, n, Count(s.sel, n))
      OBVIOUS
    <3> QED BY <1>1, <1>4, <2>2, <2>4, <2>5, <2>6, FiltersExact
  <2>9. Exact(l)'
    <3>1. PICK x : x = s
      OBVIOUS
    <3>2. x = seen'[l] /\ x.part = p
      BY <2>1, <2>2, <3>1
    <3>3. \A n : /\ Times(p, n)' = Times(p, n)
                 /\ May(Rec(p, n), p)' = May(Rec(p, n), p)
                 /\ Must(Rec(p, n), p)' = Must(Rec(p, n), p)
      BY <1>1, SameChoice
    <3>4. \A n : Cardinality({i \in DOMAIN x.sel : x.sel[i] = n}) = Count(x.sel, n)
      <4> TAKE n
      <4>1. {i \in DOMAIN x.sel : x.sel[i] = n} = Where(x.sel, {n})
        BY DEF Where
      <4> QED BY <4>1 DEF Count
    <3>5. \A n \in DOMAIN job'.parts[p].records :
            /\ Count(x.sel, n) \in {0, Times(p, n)'}
            /\ ~May(Rec(p, n), p)' => Count(x.sel, n) = 0
            /\ (l = 1 \/ args'.level = "") /\ Must(Rec(p, n), p)' => Count(x.sel, n) = Times(p, n)'
      <4> QED BY <1>1, <1>2, <2>7, <2>8, <3>1, <3>3 DEF ExactlyChosen, RecordsAt
    <3>6. /\ x = seen'[l] /\ x.part = p
          /\ \A n \in DOMAIN job'.parts[p].records :
               LET count == Cardinality({i \in DOMAIN x.sel : x.sel[i] = n})
               IN /\ count \in {0, Times(p, n)'}
                  /\ ~May(Rec(p, n), p)' => count = 0
                  /\ (l = 1 \/ args'.level = "") /\ Must(Rec(p, n), p)' => count = Times(p, n)'
      BY <3>2, <3>4, <3>5
    <3> QED BY <3>6 DEF Exact
  <2>10. \A k \in DOMAIN seen' : Exact(k)'
    <3> SUFFICES ASSUME NEW k \in DOMAIN seen' PROVE Exact(k)'
      OBVIOUS
    <3>1. k \in 1 .. Len(seen) \/ k = l
      BY <2>0, <2>1
    <3>2. CASE k \in 1 .. Len(seen)
      <4>1. Exact(k) /\ seen'[k] = seen[k]
        BY <1>5, <2>1, <3>2
      <4> QED BY <1>1, <4>1, SameExact
    <3> QED BY <2>9, <3>1, <3>2
  <2>11. (flm = FiltersOf(PartsOf(seen)))'
    <3>1. PICK y : y = q
      OBVIOUS
    <3>2. flm' = IF args.level = "" THEN args.filters ELSE args.filters \o BySignature(q)
      BY <2>5 DEF FiltersOf
    <3> QED BY <1>2, <3>2 DEF FiltersOf, q
  <2> QED BY <1>4, <2>10, <2>11 DEF ChosenInv
<1> QED BY <1>6, <1>7 DEF Select
(* The tree is built of what was selected.                                 *)
LEMMA NextChosenInv == SelectionInv /\ ChosenInv /\ [Next]_vars => ChosenInv'
PROOF
<1> SUFFICES ASSUME SelectionInv, ChosenInv, [Next]_vars PROVE ChosenInv'
  OBVIOUS
<1> DEFINE Aside == /\ job' = job /\ sgm' = sgm /\ flm' = flm /\ seen' = seen
                    /\ phase \in {"panic", "hang"} => phase' \in {"panic", "hang"}
<1>1. Aside => ChosenInv'
  BY AsideChosen
<1>2. CASE UNCHANGED vars
  BY <1>2, <1>1 DEF vars, selectionVars
<1>3. Start \/ First \/ Logs \/ Shadows \/ Unallocate \/ Again \/ Finish \/ Report => Aside
  BY DEF Start, First, Logs, Shadows, Unallocate, Again, Finish, Report, BuildAndShow, selectionVars
<1>4. CASE /\ phase \in {"journal", "again"} /\ ProcessJrnl
           /\ UNCHANGED <<logfile, shadowVars, unallocatedVars, selectionVars, usnrecords>>
  <2>1. job' = job /\ phase \notin {"panic", "hang"}
    BY <1>4, JournalStays
  <2> QED BY <1>1, <1>4, <2>1 DEF selectionVars
<1>5. CASE phase = "logfile" /\ ReadLogFile /\ UNCHANGED <<journalVars, shadowVars, unallocatedVars, selectionVars, usnrecords>>
  BY <1>1, <1>5, LogFileQuiet DEF selectionVars
<1>6. CASE phase = "vss" /\ ReadShadow /\ UNCHANGED <<journalVars, logfile, unallocatedVars, selectionVars, usnrecords>>
  BY <1>1, <1>6, ShadowQuiet DEF selectionVars
<1>7. CASE phase = "clusters" /\ ShowClusters /\ UNCHANGED <<journalVars, logfile, unallocatedVars, selectionVars, usnrecords>>
  BY <1>1, <1>7, ShowQuiet DEF selectionVars
<1>8. CASE phase = "unallocated" /\ CollectUnallocated /\ UNCHANGED <<journalVars, logfile, shadowVars, selectionVars, usnrecords>>
  BY <1>1, <1>8, UnallocatedQuiet DEF selectionVars
<1>9. CASE /\ phase = "loop" /\ \E p \in todo : Select(p)
           /\ UNCHANGED <<journalVars, logfile, shadowVars, unallocatedVars, usnrecords>>
  BY <1>9, SelectChosen
<1>10. CASE Ended
  BY <1>2, <1>10 DEF Ended
<1> HIDE DEF Aside
<1> QED BY <1>1, <1>2, <1>3, <1>4, <1>5, <1>6, <1>7, <1>8, <1>9, <1>10 DEF Next

(* The first partition shows exactly the records that the filters of the   *)
(* command line and the signatures at its own offset select, as often as   *)
(* the filters do, and each one after it no record that they do not: the   *)
(* tree of signatures finds an owner of every header that has one, and the *)
(* filters of the partitions before only take more away.                   *)
THEOREM SelectionExactHolds == Spec => []SelectionExact
PROOF
<1>1. Init => SelectionInv /\ ChosenInv
  BY InitSelectionInv, InitChosenInv
<1>2. SelectionInv /\ ChosenInv /\ [Next]_vars => (SelectionInv /\ ChosenInv)'
  BY NextSelectionInv, NextChosenInv
<1>3. ChosenInv => SelectionExact
  BY DEF ChosenInv, SelectionExact
<1> QED BY <1>1, <1>2, <1>3, PTL DEF Spec
=============================================================================
