---------------------------- MODULE OptionProofs ----------------------------
(***************************************************************************)
(* What TLAPS proves of the options of main.  Of the logs main has one     *)
(* page in three or in 33, up to the first that overruns (LogFileExact):   *)
(* the buffer has the pages of those before it, the later ones on top.     *)
(* The file of unallocated space has every sector of a free cluster        *)
(* (UnallocatedExact).  And with what MainProofs says of the other         *)
(* options, TypeOK of main.                                                *)
(***************************************************************************)
EXTENDS MainProofs
-----------------------------------------------------------------------------
(* The logs that are read *)

\* The logs of the partition, where one was asked for.
ToRead == IF args.partition \in DOMAIN Partitions THEN LogFiles(args.partition) ELSE <<>>

\* What can be in Version.
Versions == STRING \cup {""}

\* Of the logs L as many have been begun as there are lists of pages, and the others are left.
LogTyped(L, s, ph) ==
  /\ s \in [pc : {"idle", "next", "restart", "pages", "done"}, left : Seq(ToSet(L)), buf : Seq(LogCell), size : Nat,
            at : Nat, version : Versions, page : Nat, found : Seq(Seq(Nat))]
  /\ s.pc \in {"restart", "pages"} => /\ s.found # <<>> /\ s.size <= Len(s.buf)
                                      /\ s.at <= s.size + PageCells + 33 * s.page
  /\ s.pc = "restart" => s.at \in {0, PageCells}
  /\ s.pc = "idle" => s.found = <<>> /\ s.buf = <<>>
  /\ s.pc # "idle" => /\ Len(s.left) + Len(s.found) = Len(L)
                      /\ \A i \in DOMAIN s.left : s.left[i] = L[Len(s.found) + i]
  /\ s.pc \in {"next", "restart", "pages"} => ph \in {"logfile", "panic", "hang"}
  /\ s.pc = "done" => s.left = <<>>

\* Where page n begins.
At(n) == n * PageCells

\* A page in the buffer is that of a log, whether or not its update sequence has been undone.
Alike(cell, page) ==
  /\ cell.kind = page.kind
  /\ cell.kind # "rest" => cell.fault = page.fault /\ cell.fixups <= PageCells
  /\ cell.kind = "restart" => cell.version = page.version /\ cell.page = page.page
  /\ cell.kind = "record" => cell.id = page.id /\ cell.ends = page.ends

\* The buffer has the pages of the first d logs, those of later ones on top.
Layered(L, buf, d) ==
  /\ \A j \in 1 .. d : L[j].lsize <= Len(buf)
  /\ Len(buf) = 0 \/ \E j \in 1 .. d : Len(buf) = L[j].lsize
  /\ \A j \in 1 .. d : \A n \in 0 .. PagesOf(L[j]) - 1 :
       (\A i \in j + 1 .. d : PagesOf(L[i]) <= n) => Alike(buf[At(n) + 1], PageOf(L[j], n))

\* The record pages that are looked at of the first n.
LogPages(r, n) ==
  LET order == Keep([k \in 1 .. n |-> k - 1],
                    {x \in 0 .. PagesOf(r) - 1 : LookedAt(r, x) /\ PageOf(r, x).kind = "record"})
  IN [k \in DOMAIN order |-> PageOf(r, order[k]).id]

\* main is n pages into the last of the logs.
InPages(L, s, n) ==
  LET d == Len(s.found)
      r == L[d]
  IN /\ s.at = At(n) /\ n >= 2 /\ (n - 2) % Step(r) = 0
     /\ s.found[d] = LogPages(r, n)
     /\ n > PagesOf(r) => ~Overruns(L, d)

\* Sound logs are read to their ends, one after the other, up to the first that overruns.
LogRead(L, s, ph) ==
  LET d == Len(s.found)
  IN /\ \A k \in 1 .. d : k < d \/ s.pc \in {"next", "done"} => s.found[k] = LogPagesOf(L[k]) /\ ~Overruns(L, k)
     /\ Layered(L, s.buf, d)
     /\ s.pc \in {"restart", "pages"} => s.size = L[d].lsize
     /\ s.pc = "restart" => s.found[d] = <<>>
     /\ s.pc = "pages" => /\ s.version = L[d].log[1].version /\ s.page = PageCells
                          /\ \E n \in Nat : InPages(L, s, n)
     /\ s.pc \notin {"idle", "done"} /\ ph \in {"panic", "hang"} => ph = "panic" /\ s.pc = "pages" /\ Overruns(L, d)

LogInv ==
  /\ job \in Jobs
  /\ LogTyped(ToRead, logfile, phase)
  /\ (\A k \in DOMAIN ToRead : SoundLog(ToRead[k])) => LogRead(ToRead, logfile, phase)

\* The numbers below n, and the pages of a log that are looked at and have a record.
Firsts(n) == [k \in 1 .. n |-> k - 1]
Looked(r)  == {x \in 0 .. PagesOf(r) - 1 : LookedAt(r, x) /\ PageOf(r, x).kind = "record"}
-----------------------------------------------------------------------------
(* Pages and steps *)

(* Products of pages by their size.                                        *)
LEMMA PageSizes ==
  ASSUME NEW c \in Nat \ {0}, NEW a \in Nat, NEW b \in Nat
  PROVE  /\ a * c \in Nat /\ b * c \in Nat /\ (a + b) * c = a * c + b * c
         /\ a < b => a * c + c <= b * c
         /\ a <= b => a * c <= b * c
PROOF
<1>1. \A x \in Nat : x * c \in Nat
  OBVIOUS
<1>2. \A x, y \in Nat : (x + y) * c = x * c + y * c
  OBVIOUS
<1>3. ASSUME a < b PROVE a * c + c <= b * c
  <2>1. PICK k \in Nat : b = (a + 1) + k
    <3>1. b - (a + 1) \in Nat /\ b = (a + 1) + (b - (a + 1))
      BY <1>3
    <3> QED BY <3>1
  <2>2. b * c = (a + 1) * c + k * c /\ (a + 1) * c = a * c + 1 * c /\ 1 * c = c
    BY <1>2, <2>1
  <2>3. k * c \in Nat /\ a * c \in Nat
    BY <1>1
  <2> QED BY <2>2, <2>3
<1>4. a <= b => a * c <= b * c
  <2>1. a <= b => a = b \/ a < b
    OBVIOUS
  <2> QED BY <1>1, <1>3, <2>1
<1> QED BY <1>1, <1>2, <1>3, <1>4

LEMMA WholePages ==
  ASSUME NEW c \in Nat \ {0}, NEW x \in Nat, x % c = 0
  PROVE  x \div c \in Nat /\ x = (x \div c) * c
PROOF OBVIOUS

(* A sound log is as long as its pages.                                    *)
LEMMA SoundSize ==
  ASSUME NEW r, r.lsize \in Nat, SoundLog(r)
  PROVE  /\ PagesOf(r) \in Nat /\ PagesOf(r) >= 2 /\ r.lsize = PagesOf(r) * PageCells /\ Len(r.log) = r.lsize
         /\ Step(r) \in {3, 33} /\ r.log[1].version \in {"1.1", "2.0"}
PROOF
<1>1. PageCells \in Nat \ {0} /\ r.lsize % PageCells = 0 /\ r.lsize >= 2 * PageCells /\ Len(r.log) = r.lsize
      /\ r.log[1].version \in {"1.1", "2.0"}
  BY LogFileAssumption DEF SoundLog
<1> DEFINE P == PagesOf(r)
<1>2. P \in Nat /\ r.lsize = P * PageCells
  BY <1>1, WholePages DEF PagesOf
<1>3. P >= 2
  <2> HIDE DEF P
  <2> SUFFICES ASSUME P < 2 PROVE FALSE
    BY <1>2
  <2>1. P * PageCells + PageCells <= 2 * PageCells
    BY <1>1, <1>2, PageSizes
  <2> QED BY <1>1, <1>2, <2>1
<1> QED BY <1>1, <1>2, <1>3 DEF Step

(* Of the pages of a step the last is looked at.                           *)
LEMMA LookedAtLast ==
  ASSUME NEW r, Step(r) \in {3, 33}, NEW n \in Nat, n >= 2, (n - 2) % Step(r) = 0, NEW x \in n .. n + Step(r) - 1
  PROVE  /\ LookedAt(r, x) <=> x = n + Step(r) - 1
         /\ (n + Step(r) - 2) % Step(r) = 0
         /\ (x - 2) % Step(r) = 0 <=> x = n
PROOF
<1>1. CASE Step(r) = 3
  BY <1>1 DEF LookedAt
<1>2. CASE Step(r) = 33
  BY <1>2 DEF LookedAt
<1> QED BY <1>1, <1>2

(* If the log ends within a step, that is the page behind it.              *)
LEMMA BehindIs ==
  ASSUME NEW r, Step(r) \in {3, 33}, NEW n \in Nat, n >= 2, (n - 2) % Step(r) = 0,
         PagesOf(r) \in Nat, n < PagesOf(r), PagesOf(r) <= n + Step(r) - 1
  PROVE  Behind(r) = n + Step(r) - 1 /\ (PagesOf(r) - 2) % Step(r) # 0
PROOF
<1> DEFINE P == PagesOf(r)
           S == Step(r)
           q == n + S - 1
           B == {x \in P .. P + S - 1 : LookedAt(r, x)}
<1> HIDE DEF P, S
<1>1. S \in {3, 33} /\ P \in Nat /\ n < P /\ P <= q /\ q \in n .. q /\ q \in P .. P + S - 1
  BY DEF P, S
<1>2. \A x \in n .. q : (LookedAt(r, x) <=> x = q) /\ ((x - 2) % S = 0 <=> x = n)
  BY LookedAtLast DEF S
<1>3. q \in B /\ B \subseteq Nat
  BY <1>1, <1>2
<1> HIDE DEF B, q
<1>4. Min(B) \in B /\ Min(B) <= q
  BY <1>3, MinOf
<1>5. Min(B) \in n .. q /\ LookedAt(r, Min(B))
  BY <1>1, <1>4 DEF B, q
<1>6. Min(B) = q
  BY <1>2, <1>5
<1>7. P \in n .. q
  BY <1>1
<1>8. (P - 2) % S # 0
  <2>1. (P - 2) % S = 0 <=> P = n
    BY <1>2, <1>7
  <2> QED BY <1>1, <2>1
<1>9. Behind(r) = Min(B)
  BY DEF Behind, B, P, S
<1> QED BY <1>6, <1>8, <1>9 DEF q, P, S

(* One page more.                                                          *)
LEMMA LogPagesNext ==
  ASSUME NEW r, NEW n \in Nat
  PROVE  /\ LogPages(r, 0) = <<>>
         /\ LogPages(r, n + 1) = IF n \in Looked(r) THEN Append(LogPages(r, n), PageOf(r, n).id) ELSE LogPages(r, n)
PROOF
<1> DEFINE T == Looked(r)
           Id(x) == PageOf(r, x).id
           ids(order) == [k \in DOMAIN order |-> Id(order[k])]
<1>1. \A m : LogPages(r, m) = ids(Keep(Firsts(m), T))
  BY DEF LogPages, Firsts, Looked
<1> HIDE DEF T, Id
<1>2. Firsts(n) \in Seq(Nat) /\ Firsts(n + 1) = Append(Firsts(n), n) /\ Firsts(0) = <<>>
  BY DEF Firsts
<1>3. Keep(Firsts(n + 1), T) = IF n \in T THEN Append(Keep(Firsts(n), T), n) ELSE Keep(Firsts(n), T)
  <2>1. PICK f : f = Firsts(n) /\ f \in Seq(Nat)
    BY <1>2
  <2>2. Keep(Append(f, n), T) = IF n \in T THEN Append(Keep(f, T), n) ELSE Keep(f, T)
    BY <2>1, KeepAppend
  <2> QED BY <1>2, <2>1, <2>2
<1>4. Keep(Firsts(n), T) \in Seq(Nat)
  BY <1>2, KeepSeq
<1>5. \A order \in Seq(Nat) : ids(Append(order, n)) = Append(ids(order), Id(n))
  <2> TAKE order \in Seq(Nat)
  <2> DEFINE V == {Id(x) : x \in Nat}
  <2>1. ids(order) \in Seq(V) /\ Len(ids(order)) = Len(order) /\ Id(n) \in V
    <3>1. \A k \in DOMAIN order : order[k] \in Nat /\ Id(order[k]) \in V
      OBVIOUS
    <3>2. DOMAIN order = 1 .. Len(order) /\ Len(order) \in Nat
      OBVIOUS
    <3> HIDE DEF V
    <3>3. ids(order) = [k \in 1 .. Len(order) |-> Id(order[k])]
      BY <3>2
    <3>4. ids(order) \in [1 .. Len(order) -> V]
      <4> HIDE DEF ids
      <4> QED BY <3>1, <3>2, <3>3
    <3>5. PICK o : o = ids(order)
      OBVIOUS
    <3>6. Id(n) \in V
      BY DEF V
    <3> HIDE DEF ids
    <3>7. o \in Seq(V) /\ Len(o) = Len(order)
      BY <3>2, <3>4, <3>5
    <3> QED BY <3>5, <3>6, <3>7
  <2> HIDE DEF V
  <2> QED BY <2>1
<1>6. Keep(Firsts(0), T) = <<>> /\ ids(<<>>) = <<>>
  BY <1>2, KeepEmpty
<1> HIDE DEF ids
<1> QED BY <1>1, <1>3, <1>4, <1>5, <1>6 DEF T, Id

(* Pages that are not looked at add nothing.                               *)
LEMMA LogPagesSame ==
  ASSUME NEW r, NEW n \in Nat, NEW m \in Nat, \A x \in n .. n + m - 1 : x \notin Looked(r)
  PROVE  LogPages(r, n + m) = LogPages(r, n)
PROOF
<1> DEFINE I == {k \in 0 .. m : LogPages(r, n + k) = LogPages(r, n)}
<1>1. 0 \in I
  <2>1. n + 0 = n
    OBVIOUS
  <2> QED BY <2>1
<1>2. ASSUME NEW k \in 0 .. m - 1, k \in I PROVE k + 1 \in I
  <2>1. n + k \in Nat /\ n + k \in n .. n + m - 1 /\ (n + k) + 1 = n + (k + 1) /\ k + 1 \in 0 .. m
    OBVIOUS
  <2>2. LogPages(r, (n + k) + 1) = LogPages(r, n + k)
    BY <2>1, LogPagesNext
  <2>3. LogPages(r, n + (k + 1)) = LogPages(r, n)
    <3>1. LogPages(r, n + k) = LogPages(r, n)
      BY <1>2
    <3> QED BY <2>1, <2>2, <3>1
  <2> QED BY <2>1, <2>3
<1>3. 0 .. m \subseteq I
  <2> HIDE DEF I
  <2> QED BY <1>1, <1>2, BoundedInduction
<1>4. m \in 0 .. m
  OBVIOUS
<1> QED BY <1>3, <1>4

-----------------------------------------------------------------------------
(* The logs and the cells of the buffer                                    *)

\* What the inputs have of a log.
LogList(L) ==
  /\ L \in Seq(ToSet(L))
  /\ \A k \in DOMAIN L : L[k].lsize \in Nat /\ L[k].log \in Seq(LogCell) /\ Len(L[k].log) <= L[k].lsize

(* The logs of a partition are records of it.                              *)
LEMMA ToReadTyped ==
  ASSUME job \in Jobs
  PROVE  LogList(ToRead)
PROOF
<1>1. CASE args.partition \notin DOMAIN Partitions
  <2>1. ToRead = <<>>
    BY <1>1 DEF ToRead
  <2>2. <<>> \in Seq({}) /\ ToSet(<<>>) = {} /\ DOMAIN <<>> = {}
    BY DEF ToSet
  <2> QED BY <2>1, <2>2 DEF LogList
<1>2. CASE args.partition \in DOMAIN Partitions
  <2> DEFINE p == args.partition
             R == job.parts[p].records
             T == {r \in ToSet(R) : r.name = "$LogFile"}
             K == Keep(R, T)
  <2>1. p \in DOMAIN job.parts
    <3>1. Partitions \in {<<>>, job.parts} /\ DOMAIN <<>> = {}
      BY DEF Partitions
    <3> QED BY <1>2, <3>1
  <2>2. /\ R \in Seq(ToSet(R))
        /\ \A n \in DOMAIN R : /\ R[n].lsize \in Nat
                               /\ R[n].name = "$LogFile" => Len(R[n].log) <= R[n].lsize
    BY <2>1, EvidenceAssumption
  <2>3. \A n \in DOMAIN R : R[n].log \in Seq(LogCell)
    BY <2>1, LogFileAssumption
  <2>4. \A r \in T : r.lsize \in Nat /\ r.log \in Seq(LogCell) /\ Len(r.log) <= r.lsize
    BY <2>2, <2>3 DEF ToSet
  <2>5. K \in Seq(ToSet(R) \cap T)
    BY <2>2, KeepType
  <2>6. ToRead = K
    BY <1>2 DEF ToRead, LogFiles
  <2> HIDE DEF K, T, R
  <2>7. \A k \in DOMAIN K : K[k] \in T
    BY <2>5
  <2>8. K \in Seq(ToSet(K))
    BY <2>5 DEF ToSet
  <2> QED BY <2>4, <2>6, <2>7, <2>8 DEF LogList
<1> QED BY <1>1, <1>2

(* What a cell has.                                                        *)
LEMMA CellType ==
  ASSUME NEW cell \in LogCell
  PROVE  /\ cell.kind \in {"restart", "record", "rest"}
         /\ cell.kind # "rest" => cell.fixups \in Nat /\ cell.fault \in STRING
         /\ cell.kind = "restart" => cell.version \in STRING /\ cell.page \in Nat
         /\ cell.kind = "record" => cell.id \in Nat /\ cell.ends \in Nat
PROOF BY DEF LogCell, LogRest

(* The cell whose update sequence is undone stays what it is.              *)
LEMMA UndoneType ==
  ASSUME NEW b \in Seq(LogCell), NEW n \in 1 .. Len(b), b[n].kind # "rest", NEW c, c = [b EXCEPT ![n].fixups = 1]
  PROVE  /\ c \in Seq(LogCell) /\ Len(c) = Len(b)
         /\ \A i \in 1 .. Len(b) : i # n => c[i] = b[i]
         /\ c[n].kind = b[n].kind /\ c[n].fault = b[n].fault /\ c[n].fixups = 1
         /\ b[n].kind = "restart" => c[n].version = b[n].version /\ c[n].page = b[n].page
         /\ b[n].kind = "record" => c[n].id = b[n].id /\ c[n].ends = b[n].ends
PROOF
<1>1. b[n] \in LogCell /\ Len(b) \in Nat /\ DOMAIN b = 1 .. Len(b)
  OBVIOUS
<1> DEFINE x == [b[n] EXCEPT !.fixups = 1]
<1>2. x \in LogCell /\ x.kind = b[n].kind /\ x.fault = b[n].fault /\ x.fixups = 1
      /\ (b[n].kind = "restart" => x.version = b[n].version /\ x.page = b[n].page)
      /\ (b[n].kind = "record" => x.id = b[n].id /\ x.ends = b[n].ends)
  <2>1. CASE b[n].kind = "restart"
    <3>1. b[n] \in [kind : {"restart"}, version : STRING, page : Nat, fixups : Nat, fault : STRING]
      BY <1>1, <2>1 DEF LogCell, LogRest
    <3> QED BY <2>1, <3>1 DEF LogCell
  <2>2. CASE b[n].kind = "record"
    <3>1. b[n] \in [kind : {"record"}, id : Nat, ends : Nat, fixups : Nat, fault : STRING]
      BY <1>1, <2>2 DEF LogCell, LogRest
    <3> QED BY <2>2, <3>1 DEF LogCell
  <2> QED BY <1>1, <2>1, <2>2, CellType
<1>3. c = [b EXCEPT ![n] = x]
  OBVIOUS
<1> HIDE DEF x
<1>4. c \in Seq(LogCell) /\ Len(c) = Len(b) /\ c[n] = x /\ \A i \in 1 .. Len(b) : i # n => c[i] = b[i]
  BY <1>2, <1>3
<1> QED BY <1>2, <1>4

(* The buffer with a log read into it.                                     *)
LEMMA ReadType ==
  ASSUME NEW s, s = logfile, s.buf \in Seq(LogCell), NEW r, r.lsize \in Nat, r.log \in Seq(LogCell), Len(r.log) <= r.lsize,
         NEW c, c = [n \in DOMAIN Buffer(r) |-> IF n <= Len(r.log) THEN r.log[n] ELSE Buffer(r)[n]]
  PROVE  /\ c \in Seq(LogCell) /\ r.lsize <= Len(c)
         /\ \A n \in 1 .. Len(r.log) : c[n] = r.log[n]
         /\ Len(s.buf) < r.lsize => Len(c) = r.lsize
         /\ r.lsize <= Len(s.buf) => Len(c) = Len(s.buf) /\ \A n \in Len(r.log) + 1 .. Len(c) : c[n] = s.buf[n]
PROOF
<1> DEFINE b == Buffer(r)
           l == r.lsize
<1>1. b = IF Len(s.buf) < l THEN [n \in 1 .. l |-> LogRest] ELSE s.buf
  BY DEF Buffer
<1>2. LogRest \in LogCell
  BY DEF LogCell
<1> HIDE DEF b
<1>3. b \in Seq(LogCell) /\ l <= Len(b) /\ (Len(s.buf) < l => Len(b) = l) /\ (l <= Len(s.buf) => b = s.buf)
  <2>1. CASE Len(s.buf) < l
    <3> DEFINE z == [n \in 1 .. l |-> LogRest]
    <3>1. z \in [1 .. l -> LogCell]
      BY <1>2
    <3>2. b = z
      BY <1>1, <2>1
    <3> HIDE DEF z, l
    <3>3. l \in Nat
      BY DEF l
    <3>4. z \in Seq(LogCell) /\ Len(z) = l
      BY <3>1, <3>3
    <3> QED BY <2>1, <3>2, <3>3, <3>4
  <2>2. CASE l <= Len(s.buf)
    BY <1>1, <2>2
  <2> QED BY <2>1, <2>2
<1> DEFINE g(n) == IF n <= Len(r.log) THEN r.log[n] ELSE b[n]
<1>4. c = [n \in 1 .. Len(b) |-> g(n)] /\ Len(b) \in Nat
  BY <1>3 DEF b
<1>5. \A n \in 1 .. Len(b) : g(n) \in LogCell
  BY <1>3
<1>6. \A n \in 1 .. Len(r.log) : n \in 1 .. Len(b) /\ g(n) = r.log[n]
  BY <1>3
<1>7. \A n \in Len(r.log) + 1 .. Len(b) : n \in 1 .. Len(b) /\ g(n) = b[n]
  BY <1>3
<1> HIDE DEF g, b
<1>8. c \in [1 .. Len(b) -> LogCell]
  BY <1>4, <1>5
<1>9. c \in Seq(LogCell) /\ Len(c) = Len(b)
  BY <1>4, <1>8
<1>10. \A n \in 1 .. Len(b) : c[n] = g(n)
  BY <1>4
<1> QED BY <1>3, <1>6, <1>7, <1>9, <1>10
-----------------------------------------------------------------------------
(* Every step keeps the types                                              *)

LogStates(L) ==
  [pc : {"idle", "next", "restart", "pages", "done"}, left : Seq(ToSet(L)), buf : Seq(LogCell), size : Nat,
   at : Nat, version : Versions, page : Nat, found : Seq(Seq(Nat))]

(* The first of a list, and the others.                                    *)
LEMMA TakeOne ==
  ASSUME NEW S, NEW q \in Seq(S), q # <<>>
  PROVE  /\ Head(q) = q[1] /\ 1 \in DOMAIN q /\ Tail(q) \in Seq(S) /\ Len(Tail(q)) = Len(q) - 1 /\ Len(q) \in Nat \ {0}
         /\ \A i \in DOMAIN Tail(q) : i \in Nat /\ i + 1 \in DOMAIN q /\ Tail(q)[i] = q[i + 1]
PROOF
<1>1. /\ Tail(q) \in Seq(S) /\ Len(Tail(q)) = Len(q) - 1 /\ Head(q) = q[1]
      /\ \A i \in 1 .. Len(Tail(q)) : Tail(q)[i] = q[i + 1]
  BY HeadTailProperties
<1>2. Len(q) \in Nat /\ Len(q) # 0 /\ DOMAIN q = 1 .. Len(q)
  BY LenProperties, EmptySeq
<1> PICK l : l = Tail(q)
  OBVIOUS
<1>3. DOMAIN l = 1 .. Len(q) - 1
  BY <1>1
<1> QED BY <1>1, <1>2, <1>3

(* The logs are fixed before the first of them is read.                    *)
LEMMA ProcessTyped ==
  ASSUME job \in Jobs, LogTyped(ToRead, logfile, phase), phase = "logfile", ProcessLogFile
  PROVE  LogTyped(ToRead, logfile', phase')
PROOF
<1> PICK L, s, t : L = ToRead /\ s = logfile /\ t = logfile'
  OBVIOUS
<1>1. LogList(L)
  BY ToReadTyped
<1>2. s \in LogStates(L) /\ s.pc = "idle" /\ s.found = <<>> /\ s.buf = <<>>
  BY DEF LogTyped, ProcessLogFile, LogStates
<1>3. CASE args.partition \notin DOMAIN Partitions
  <2>1. t = s /\ phase' = "panic"
    BY <1>3 DEF ProcessLogFile, Crash
  <2> QED BY <1>2, <2>1 DEF LogTyped
<1>4. CASE args.partition \in DOMAIN Partitions /\ job.parts[args.partition].volume = "none"
  <2>1. t = [s EXCEPT !.pc = "done"] /\ phase' = phase
    BY <1>4 DEF ProcessLogFile
  <2>2. L = <<>>
    <3>1. args.partition \in DOMAIN job.parts
      <4>1. Partitions \in {<<>>, job.parts} /\ DOMAIN <<>> = {}
        BY DEF Partitions
      <4> QED BY <1>4, <4>1
    <3>2. job.parts[args.partition].records = <<>>
      BY <1>4, <3>1, EvidenceAssumption
    <3> QED BY <1>4, <3>2, KeepEmpty DEF ToRead, LogFiles
  <2> QED
    <3>1. s.left = <<>> /\ s.left \in Seq(ToSet(L))
      <4>1. ToSet(L) = {} /\ s.left \in Seq(ToSet(L))
        BY <1>2, <2>2 DEF ToSet, LogStates
      <4> QED BY <4>1
    <3> HIDE DEF ToSet
    <3> DEFINE A == Seq(ToSet(L))
               B == Seq(LogCell)
               F == Seq(Seq(Nat))
    <3> HIDE DEF A, B, F
    <3>2. t \in LogStates(L) /\ t.pc = "done" /\ t.left = <<>> /\ t.found = <<>>
      <4>1. s \in [pc : {"idle", "next", "restart", "pages", "done"}, left : A, buf : B, size : Nat,
                   at : Nat, version : Versions, page : Nat, found : F]
        BY <1>2 DEF LogStates, A, B, F
      <4>2. t \in [pc : {"idle", "next", "restart", "pages", "done"}, left : A, buf : B, size : Nat,
                   at : Nat, version : Versions, page : Nat, found : F] /\ t.pc = "done" /\ t.left = s.left /\ t.found = s.found
        BY <2>1, <4>1
      <4> QED BY <1>2, <3>1, <4>2 DEF LogStates, A, B, F
    <3>3. Len(t.left) + Len(t.found) = Len(L) /\ DOMAIN t.left = {}
      BY <2>2, <3>2
    <3> QED BY <3>2, <3>3 DEF LogTyped, LogStates
<1>5. CASE args.partition \in DOMAIN Partitions /\ job.parts[args.partition].volume # "none"
  <2>1. t = [s EXCEPT !.pc = "next", !.left = L] /\ phase' = phase
    BY <1>5 DEF ProcessLogFile, ToRead
  <2>2. t \in LogStates(L) /\ t.pc = "next" /\ t.left = L /\ t.found = <<>>
    <3> DEFINE A == Seq(ToSet(L))
               B == Seq(LogCell)
               F == Seq(Seq(Nat))
    <3>0. L \in A
      BY <1>1 DEF LogList
    <3> HIDE DEF A, B, F
    <3>1. s \in [pc : {"idle", "next", "restart", "pages", "done"}, left : A, buf : B, size : Nat,
                 at : Nat, version : Versions, page : Nat, found : F]
      BY <1>2 DEF LogStates, A, B, F
    <3>2. t \in [pc : {"idle", "next", "restart", "pages", "done"}, left : A, buf : B, size : Nat,
                 at : Nat, version : Versions, page : Nat, found : F] /\ t.pc = "next" /\ t.left = L /\ t.found = s.found
      BY <2>1, <3>0, <3>1
    <3> QED BY <1>2, <3>2 DEF LogStates, A, B, F
  <2>3. Len(t.found) = 0 /\ Len(L) \in Nat
    BY <1>1, <2>2 DEF LogList
  <2>4. \A i \in DOMAIN t.left : t.left[i] = L[Len(t.found) + i]
    <3>1. \A i \in DOMAIN L : i \in Nat
      BY <1>1 DEF LogList
    <3> QED BY <2>2, <2>3, <3>1
  <2> QED BY <2>1, <2>2, <2>3, <2>4 DEF LogTyped, LogStates
<1> QED BY <1>3, <1>4, <1>5

(* A log is taken from those that are left.                                *)
LEMMA ReadTyped ==
  ASSUME job \in Jobs, LogTyped(ToRead, logfile, phase), phase = "logfile", ReadLog
  PROVE  LogTyped(ToRead, logfile', phase')
PROOF
<1> PICK L, s, t : L = ToRead /\ s = logfile /\ t = logfile'
  OBVIOUS
<1> DEFINE A == Seq(ToSet(L))
           B == Seq(LogCell)
           F == Seq(Seq(Nat))
<1>1. LogList(L)
  BY ToReadTyped
<1>2. s \in LogStates(L) /\ s.pc = "next" /\ Len(s.left) + Len(s.found) = Len(L)
      /\ (\A i \in DOMAIN s.left : s.left[i] = L[Len(s.found) + i]) /\ phase' = "logfile"
  BY DEF LogTyped, ReadLog, LogStates
<1>3. s.left \in A /\ s.buf \in B /\ s.found \in F
  BY <1>2 DEF LogStates
<1>4. s \in [pc : {"idle", "next", "restart", "pages", "done"}, left : A, buf : B, size : Nat,
             at : Nat, version : Versions, page : Nat, found : F]
  BY <1>2 DEF LogStates
<1>5. CASE s.left = <<>>
  <2> HIDE DEF A, B, F
  <2>1. t = [s EXCEPT !.pc = "done"]
    BY <1>5 DEF ReadLog
  <2>2. t \in [pc : {"idle", "next", "restart", "pages", "done"}, left : A, buf : B, size : Nat,
               at : Nat, version : Versions, page : Nat, found : F] /\ t.pc = "done" /\ t.left = s.left /\ t.found = s.found
    BY <1>4, <2>1
  <2> QED BY <1>2, <1>5, <2>2 DEF LogTyped, LogStates, A, B, F
<1>6. CASE s.left # <<>>
  <2>0. PICK r, d, c, l, f : /\ r = Head(s.left) /\ d = Len(s.found) /\ l = Tail(s.left) /\ f = Append(s.found, <<>>)
                            /\ c = [n \in DOMAIN Buffer(r) |-> IF n <= Len(r.log) THEN r.log[n] ELSE Buffer(r)[n]]
    OBVIOUS
  <2>1. t = [s EXCEPT !.pc = "restart", !.left = l, !.size = r.lsize, !.at = 0, !.buf = c,
               !.version = "", !.page = 0, !.found = f]
    <3> HIDE DEF A, B, F
    <3> QED BY <1>6, <2>0 DEF ReadLog
  <2>2. /\ r = s.left[1] /\ 1 \in DOMAIN s.left /\ l \in A /\ Len(l) = Len(s.left) - 1 /\ Len(s.left) \in Nat \ {0}
        /\ \A i \in DOMAIN l : i \in Nat /\ i + 1 \in DOMAIN s.left /\ l[i] = s.left[i + 1]
    <3>1. s.left \in Seq(ToSet(L)) /\ s.left # <<>>
      BY <1>3, <1>6
    <3> QED BY <2>0, <3>1, TakeOne
  <2>3. d \in Nat /\ r = L[d + 1] /\ d + 1 \in DOMAIN L /\ Len(L) = Len(s.left) + d
    <3>1. d \in Nat
      <4>1. s.found \in Seq(Seq(Nat))
        BY <1>3
      <4> HIDE DEF F
      <4> QED BY <2>0, <4>1
    <3>2. DOMAIN L = 1 .. Len(L)
      <4>1. L \in Seq(ToSet(L))
        BY <1>1 DEF LogList
      <4> QED BY <4>1
    <3>3. Len(L) = Len(s.left) + d
      BY <1>2, <2>0
    <3>4. s.left[1] = L[d + 1]
      BY <1>2, <2>0, <2>2
    <3>5. d + 1 \in DOMAIN L
      BY <2>2, <3>1, <3>2, <3>3
    <3> QED BY <2>2, <3>1, <3>3, <3>4, <3>5
  <2>4. r.lsize \in Nat /\ r.log \in Seq(LogCell) /\ Len(r.log) <= r.lsize
    BY <1>1, <2>3 DEF LogList
  <2>5. c \in B /\ r.lsize <= Len(c)
    <3>1. s.buf \in Seq(LogCell)
      BY <1>3
    <3>2. c = [n \in DOMAIN Buffer(r) |-> IF n <= Len(r.log) THEN r.log[n] ELSE Buffer(r)[n]]
      BY <2>0
    <3>3. c \in Seq(LogCell) /\ r.lsize <= Len(c)
      <4> HIDE DEF A, B, F
      <4> QED BY <2>4, <3>1, <3>2, ReadType
    <3> QED BY <3>3
  <2>6. f \in F /\ Len(f) = d + 1 /\ f # <<>>
    <3>1. <<>> \in Seq(Nat)
      OBVIOUS
    <3> HIDE DEF A, B
    <3>2. s.found \in Seq(Seq(Nat))
      BY <1>3
    <3> DEFINE V == Seq(Nat)
    <3> HIDE DEF V
    <3>3. s.found \in Seq(V) /\ <<>> \in V
      BY <3>1, <3>2 DEF V
    <3>4. f \in Seq(V) /\ Len(f) = d + 1 /\ f # <<>>
      BY <2>0, <3>3
    <3> QED BY <3>4 DEF V
  <2> HIDE DEF A, B, F
  <2>7. /\ t \in [pc : {"idle", "next", "restart", "pages", "done"}, left : A, buf : B, size : Nat,
                  at : Nat, version : Versions, page : Nat, found : F]
        /\ t.pc = "restart" /\ t.left = l /\ t.found = f /\ t.size = r.lsize /\ t.buf = c /\ t.at = 0 /\ t.page = 0
    <3>1. PICK n, v : n = r.lsize /\ v = "" /\ v \in Versions
      BY Zenon DEF Versions
    <3>2. l \in A /\ n \in Nat /\ c \in B /\ f \in F
      BY <2>2, <2>4, <2>5, <2>6, <3>1
    <3>3. t = [s EXCEPT !.pc = "restart", !.left = l, !.size = n, !.at = 0, !.buf = c, !.version = v, !.page = 0, !.found = f]
      BY <2>1, <3>1, Zenon
    <3>4. /\ v \in Versions
          /\ s \in [pc : {"idle", "next", "restart", "pages", "done"}, left : A, buf : B, size : Nat,
                    at : Nat, version : Versions, page : Nat, found : F]
      BY <1>4, <3>1
    <3>41. DOMAIN s = {"pc", "left", "buf", "size", "at", "version", "page", "found"}
      BY <3>4
    <3>42. t = [pc |-> "restart", left |-> l, buf |-> c, size |-> n, at |-> 0, version |-> v, page |-> 0, found |-> f]
      BY <3>3, <3>41
    <3>43. t \in [pc : {"idle", "next", "restart", "pages", "done"}, left : A, buf : B, size : Nat,
                    at : Nat, version : Versions, page : Nat, found : F]
      BY <3>2, <3>4, <3>42
    <3>44. t.pc = "restart" /\ t.left = l /\ t.found = f /\ t.size = n /\ t.buf = c /\ t.at = 0 /\ t.page = 0
      BY <3>42
    <3> QED BY <3>1, <3>43, <3>44
  <2>8. Len(l) + Len(f) = Len(L)
    <3>1. PICK q : q = s.left
      OBVIOUS
    <3>2. Len(q) \in Nat /\ Len(l) = Len(q) - 1 /\ Len(L) = Len(q) + d /\ d \in Nat /\ Len(f) = d + 1
      BY <2>2, <2>3, <2>6, <3>1
    <3> QED BY <3>2
  <2>9. \A i \in DOMAIN l : l[i] = L[Len(f) + i]
    <3> TAKE i \in DOMAIN l
    <3>1. l[i] = L[d + (i + 1)] /\ i \in Nat
      BY <1>2, <2>0, <2>2
    <3>2. d + (i + 1) = Len(f) + i
      BY <2>3, <2>6, <3>1
    <3> QED BY <3>1, <3>2
  <2>10. t.at <= t.size + PageCells + 33 * t.page
    BY <2>4, <2>7, LogFileAssumption
  <2>11. t \in LogStates(L)
    BY <2>7 DEF LogStates, A, B, F
  <2> QED BY <1>2, <2>5, <2>6, <2>7, <2>8, <2>9, <2>10, <2>11 DEF LogTyped, LogStates
<1> QED BY <1>5, <1>6
(* A restart page is parsed,                                               *)
LEMMA RestartTyped ==
  ASSUME job \in Jobs, LogTyped(ToRead, logfile, phase), phase = "logfile", ParseRestart
  PROVE  LogTyped(ToRead, logfile', phase')
PROOF
<1> PICK L, s, t : L = ToRead /\ s = logfile /\ t = logfile'
  OBVIOUS
<1> DEFINE A == Seq(ToSet(L))
           B == Seq(LogCell)
           F == Seq(Seq(Nat))
<1>1. /\ s \in [pc : {"idle", "next", "restart", "pages", "done"}, left : A, buf : B, size : Nat,
                at : Nat, version : Versions, page : Nat, found : F]
      /\ s.pc = "restart" /\ s.found # <<>> /\ s.size <= Len(s.buf) /\ s.at \in {0, PageCells}
      /\ s.at <= s.size + PageCells + 33 * s.page /\ Len(s.left) + Len(s.found) = Len(L)
      /\ \A i \in DOMAIN s.left : s.left[i] = L[Len(s.found) + i]
  BY DEF LogTyped, ParseRestart
<1>2. PageCells \in Nat \ {0}
  BY LogFileAssumption
<1>3. CASE RestartPanics
  <2>1. t = s /\ phase' = "panic"
    BY <1>3 DEF ParseRestart, Crash
  <2> QED BY <2>1 DEF LogTyped
<1>4. CASE ~RestartPanics /\ RestartFails
  <2> HIDE DEF A, B, F
  <2>1. t = [s EXCEPT !.pc = "next"] /\ phase' = "logfile"
    BY <1>4 DEF ParseRestart
  <2>2. /\ t \in [pc : {"idle", "next", "restart", "pages", "done"}, left : A, buf : B, size : Nat,
                  at : Nat, version : Versions, page : Nat, found : F]
        /\ t.pc = "next" /\ t.left = s.left /\ t.found = s.found
    BY <1>1, <2>1
  <2> QED BY <1>1, <2>1, <2>2 DEF LogTyped, A, B, F
<1>5. CASE ~RestartPanics /\ ~RestartFails
  <2>1. PICK at, b, cell, c, z : at = s.at /\ b = s.buf /\ cell = b[at + 1] /\ c = [b EXCEPT ![at + 1].fixups = 1] /\ z = s.size
    OBVIOUS
  <2>2. t = [s EXCEPT !.pc = IF at = 0 THEN "restart" ELSE "pages", !.at = at + PageCells, !.buf = c,
               !.version = cell.version, !.page = cell.page] /\ phase' = "logfile"
    <3> HIDE DEF A, B, F
    <3> QED BY <1>5, <2>1 DEF ParseRestart, Undone, PageAt
  <2>3. at \in Nat /\ b \in B /\ z \in Nat /\ z <= Len(b) /\ at \in {0, PageCells}
    <3> HIDE DEF A, B, F
    <3> QED BY <1>1, <2>1
  <2>4. at < z /\ cell.kind = "restart"
    <3>1. z - at # 0 /\ ~(z - at < 0) /\ cell.kind = "restart"
      BY <1>5, <2>1 DEF RestartPanics, RestartFails, Ahead, PageAt
    <3> QED BY <1>2, <2>3, <3>1
  <2>5. at + 1 \in 1 .. Len(b) /\ b[at + 1] = cell
    <3>1. Len(b) \in Nat
      BY <2>3
    <3> HIDE DEF B
    <3> QED BY <2>1, <2>3, <2>4, <3>1
  <2>6. c \in B /\ Len(c) = Len(b) /\ cell \in LogCell
    <3>1. b \in Seq(LogCell) /\ b[at + 1].kind # "rest"
      BY <2>3, <2>4, <2>5
    <3>2. c = [b EXCEPT ![at + 1].fixups = 1]
      BY <2>1
    <3>3. c \in Seq(LogCell) /\ Len(c) = Len(b)
      BY <2>5, <3>1, <3>2, UndoneType
    <3>4. b[at + 1] \in LogCell
      BY <2>5, <3>1
    <3> QED BY <2>5, <3>3, <3>4
  <2>7. cell.version \in Versions /\ cell.page \in Nat
    BY <2>4, <2>6, CellType DEF Versions
  <2>8. PICK v, g, pc, u : v = cell.version /\ g = cell.page /\ pc = (IF at = 0 THEN "restart" ELSE "pages") /\ u = at + PageCells
    OBVIOUS
  <2> HIDE DEF A, B, F
  <2>9. v \in Versions /\ g \in Nat /\ c \in B /\ pc \in {"restart", "pages"} /\ u \in Nat
    BY <1>2, <2>3, <2>6, <2>7, <2>8
  <2>10. t = [s EXCEPT !.pc = pc, !.at = u, !.buf = c, !.version = v, !.page = g]
    BY <2>2, <2>8
  <2>11. /\ t \in [pc : {"idle", "next", "restart", "pages", "done"}, left : A, buf : B, size : Nat,
                   at : Nat, version : Versions, page : Nat, found : F]
         /\ t.pc = pc /\ t.left = s.left /\ t.found = s.found /\ t.size = s.size /\ t.buf = c /\ t.at = u /\ t.page = g
    BY <1>1, <2>9, <2>10
  <2>12. z <= Len(c) /\ u <= z + PageCells + 33 * g /\ (pc = "restart" => u \in {0, PageCells})
    <3>1. pc = "restart" => at = 0
      BY <2>8
    <3> QED BY <1>2, <2>3, <2>4, <2>6, <2>8, <2>9, <3>1
  <2>13. t.size <= Len(t.buf) /\ t.at <= t.size + PageCells + 33 * t.page /\ (t.pc = "restart" => t.at \in {0, PageCells})
    BY <2>1, <2>11, <2>12
  <2>14. t.pc \in {"restart", "pages"} /\ t.found # <<>> /\ Len(t.left) + Len(t.found) = Len(L)
         /\ \A i \in DOMAIN t.left : t.left[i] = L[Len(t.found) + i]
    BY <1>1, <2>9, <2>11
  <2> QED BY <2>2, <2>11, <2>13, <2>14 DEF LogTyped, A, B, F
<1> QED BY <1>3, <1>4, <1>5
(* and a record page.                                                      *)
LEMMA PageTyped ==
  ASSUME job \in Jobs, LogTyped(ToRead, logfile, phase), phase = "logfile", ParsePage
  PROVE  LogTyped(ToRead, logfile', phase')
PROOF
<1> PICK L, s, t : L = ToRead /\ s = logfile /\ t = logfile'
  OBVIOUS
<1> DEFINE A == Seq(ToSet(L))
           B == Seq(LogCell)
           F == Seq(Seq(Nat))
<1>1. /\ s \in [pc : {"idle", "next", "restart", "pages", "done"}, left : A, buf : B, size : Nat,
                at : Nat, version : Versions, page : Nat, found : F]
      /\ s.pc = "pages" /\ s.found # <<>> /\ s.size <= Len(s.buf)
      /\ s.at <= s.size + PageCells + 33 * s.page /\ Len(s.left) + Len(s.found) = Len(L)
      /\ \A i \in DOMAIN s.left : s.left[i] = L[Len(s.found) + i]
  BY DEF LogTyped, ParsePage
<1>2. PageCells \in Nat \ {0}
  BY LogFileAssumption
<1> DEFINE E == logfile.at >= logfile.size \/ logfile.version \notin {"1.1", "2.0"}
<1>3. CASE E
  <2> HIDE DEF A, B, F
  <2>1. t = [s EXCEPT !.pc = "next"] /\ phase' = "logfile"
    BY <1>3 DEF ParsePage
  <2>2. /\ t \in [pc : {"idle", "next", "restart", "pages", "done"}, left : A, buf : B, size : Nat,
                  at : Nat, version : Versions, page : Nat, found : F]
        /\ t.pc = "next" /\ t.left = s.left /\ t.found = s.found
    BY <1>1, <2>1
  <2> QED BY <1>1, <2>1, <2>2 DEF LogTyped, A, B, F
<1>4. CASE ~E /\ PagePanics(NextPage)
  <2>1. t = s /\ phase' = "panic"
    BY <1>4 DEF ParsePage, Crash
  <2> QED BY <2>1 DEF LogTyped
<1>5. CASE ~E /\ ~PagePanics(NextPage) /\ logfile.page = 0
  <2>1. t = s /\ phase' = "hang"
    BY <1>5 DEF ParsePage
  <2> QED BY <2>1 DEF LogTyped
<1>6. CASE ~E /\ ~PagePanics(NextPage) /\ logfile.page # 0
  <2>1. PICK at, b, g, z, f, q : at = s.at /\ b = s.buf /\ g = s.page /\ z = s.size /\ f = s.found /\ q = NextPage
    OBVIOUS
  <2>20. PICK P : P = Parsed(q)
    OBVIOUS
  <2>21. PICK c : c = IF P THEN [b EXCEPT ![q + 1].fixups = 1] ELSE b
    OBVIOUS
  <2>22. PICK k : k = [f EXCEPT ![Len(f)] = IF P THEN Append(f[Len(f)], b[q + 1].id) ELSE f[Len(f)]]
    OBVIOUS
  <2>2.                /\ P = Parsed(q)
                       /\ c = IF P THEN [b EXCEPT ![q + 1].fixups = 1] ELSE b
                       /\ k = [f EXCEPT ![Len(f)] = IF P THEN Append(f[Len(f)], b[q + 1].id) ELSE f[Len(f)]]
    BY <2>20, <2>21, <2>22
  <2>3. t = [s EXCEPT !.at = q + g, !.buf = c, !.found = k] /\ phase' = "logfile"
    <3> HIDE DEF A, B, F
    <3>1. t = [s EXCEPT !.at = NextPage + s.page, !.buf = IF Parsed(NextPage) THEN Undone(NextPage) ELSE s.buf,
                 !.found = [s.found EXCEPT ![Len(s.found)] =
                              IF Parsed(NextPage) THEN Append(s.found[Len(s.found)], PageAt(NextPage).id)
                              ELSE s.found[Len(s.found)]]] /\ phase' = phase
      BY <1>6 DEF ParsePage
    <3>2. Undone(NextPage) = [b EXCEPT ![q + 1].fixups = 1] /\ PageAt(NextPage) = b[q + 1]
      BY <2>1 DEF Undone, PageAt
    <3>3. c = (IF Parsed(NextPage) THEN Undone(NextPage) ELSE s.buf)
      BY <2>1, <2>2, <3>2
    <3>4. k = [s.found EXCEPT ![Len(s.found)] =
                 IF Parsed(NextPage) THEN Append(s.found[Len(s.found)], PageAt(NextPage).id) ELSE s.found[Len(s.found)]]
      BY <2>1, <2>2, <3>2
    <3> QED BY <2>1, <3>1, <3>3, <3>4
  <2>4. at \in Nat /\ b \in B /\ z \in Nat /\ z <= Len(b) /\ g \in Nat /\ f \in F /\ f # <<>> /\ at < z
    <3> HIDE DEF A, B, F
    <3>1. ~(at >= z)
      BY <1>6, <2>1
    <3>2. at \in Nat /\ b \in B /\ z \in Nat /\ z <= Len(b) /\ g \in Nat /\ f \in F /\ f # <<>>
      BY <1>1, <2>1
    <3> QED BY <3>1, <3>2
  <2>5. q \in Nat /\ q + g <= at + 33 * g
    <3>1. BufferPages(s.version) \in {2, 32}
      BY DEF BufferPages
    <3>2. q = at + BufferPages(s.version) * g
      BY <2>1 DEF NextPage
    <3>3. q = at + 2 * g \/ q = at + 32 * g
      BY <3>1, <3>2
    <3> HIDE DEF A, B, F, E
    <3> QED BY <2>4, <3>3
  <2>6. P => q + 1 \in 1 .. Len(b) /\ b[q + 1].kind = "record"
    <3>1. P => q < Len(b) /\ b[q + 1].kind = "record"
      BY <2>1, <2>2 DEF Parsed, IsRecord, PageAt
    <3>2. Len(b) \in Nat
      BY <2>4
    <3> HIDE DEF A, B, F, E
    <3> QED BY <2>5, <3>1, <3>2
  <2>7. c \in B /\ Len(c) = Len(b) /\ (P => b[q + 1].id \in Nat)
    <3>0. b \in Seq(LogCell)
      BY <2>4
    <3>1. CASE P
      <4>1. c = [b EXCEPT ![q + 1].fixups = 1] /\ b[q + 1].kind # "rest"
        BY <2>2, <2>6, <3>1
      <4>2. c \in Seq(LogCell) /\ Len(c) = Len(b)
        BY <2>6, <3>0, <3>1, <4>1, UndoneType
      <4>3. b[q + 1] \in LogCell
        BY <2>6, <3>0, <3>1
      <4> QED BY <2>6, <3>1, <4>2, <4>3, CellType
    <3>2. CASE ~P
      BY <2>2, <3>0, <3>2
    <3> QED BY <3>1, <3>2
  <2>8. k \in F /\ Len(k) = Len(f) /\ k # <<>>
    <3>1. f \in Seq(Seq(Nat)) /\ f # <<>>
      BY <2>4
    <3>2. PICK i, p, w : i = b[q + 1].id /\ p = Append(f[Len(f)], i) /\ w = IF P THEN p ELSE f[Len(f)]
      OBVIOUS
    <3>3. k = [f EXCEPT ![Len(f)] = w] /\ (P => i \in Nat)
      BY <2>2, <2>7, <3>2
    <3> HIDE DEF A, B, F, E
    <3> DEFINE V == Seq(Nat)
    <3>4. f \in Seq(V)
      BY <3>1
    <3>5. f[Len(f)] \in V
      <4> HIDE DEF V
      <4> QED BY <3>1, <3>4
    <3>6. w \in V
      <4>1. P => p \in V
        BY <3>2, <3>3, <3>5
      <4> HIDE DEF V
      <4> QED BY <3>2, <3>5, <4>1
    <3> HIDE DEF V
    <3>8. Len(f) # 0 /\ Len(f) \in Nat /\ f \in [1 .. Len(f) -> V]
      BY <3>1, <3>4
    <3>70. PICK m : m = Len(f)
      OBVIOUS
    <3>71. k \in [1 .. m -> V] /\ m \in Nat
      BY <3>3, <3>6, <3>70, <3>8
    <3>7. k \in Seq(V) /\ Len(k) = Len(f)
      BY <3>70, <3>71
    <3> QED BY <3>7, <3>8 DEF V, F
  <2>9. PICK u : u = q + g
    OBVIOUS
  <2> HIDE DEF A, B, F, E
  <2>10. u \in Nat /\ u <= z + PageCells + 33 * g
    BY <1>2, <2>4, <2>5, <2>9
  <2>11. t = [s EXCEPT !.at = u, !.buf = c, !.found = k]
    BY <2>3, <2>9
  <2>12. /\ t \in [pc : {"idle", "next", "restart", "pages", "done"}, left : A, buf : B, size : Nat,
                   at : Nat, version : Versions, page : Nat, found : F]
         /\ t.pc = "pages" /\ t.left = s.left /\ t.found = k /\ t.size = s.size /\ t.buf = c /\ t.at = u /\ t.page = s.page
    BY <1>1, <2>7, <2>8, <2>10, <2>11
  <2>13. t.size <= Len(t.buf) /\ t.at <= t.size + PageCells + 33 * t.page
    <3>1. z <= Len(c)
      BY <2>4, <2>7
    <3> QED BY <2>1, <2>10, <2>12, <3>1
  <2>14. t.found # <<>> /\ Len(t.found) = Len(s.found)
    BY <2>1, <2>8, <2>12
  <2>15. Len(t.left) + Len(t.found) = Len(L) /\ \A i \in DOMAIN t.left : t.left[i] = L[Len(t.found) + i]
    BY <1>1, <2>12, <2>14
  <2> QED BY <2>3, <2>12, <2>13, <2>14, <2>15 DEF LogTyped, A, B, F
<1> QED BY <1>3, <1>4, <1>5, <1>6

LEMMA LogFileKeepsTyped ==
  ASSUME job \in Jobs, LogTyped(ToRead, logfile, phase), phase = "logfile", ReadLogFile
  PROVE  LogTyped(ToRead, logfile', phase')
PROOF BY ProcessTyped, ReadTyped, RestartTyped, PageTyped DEF ReadLogFile

LEMMA InitTyped ==
  ASSUME Init
  PROVE  LogTyped(ToRead, logfile, phase)
PROOF
<1>1. PICK v : v = "" /\ v \in Versions
  BY Zenon DEF Versions
<1>2. logfile = [pc |-> "idle", left |-> <<>>, buf |-> <<>>, size |-> 0, at |-> 0,
                 version |-> v, page |-> 0, found |-> <<>>]
  BY <1>1, Zenon DEF Init, LogFileInit
<1> PICK L, s : L = ToRead /\ s = logfile
  OBVIOUS
<1> DEFINE A == Seq(ToSet(L))
           B == Seq(LogCell)
           F == Seq(Seq(Nat))
<1>3. PICK l, b, f : l = <<>> /\ b = <<>> /\ f = <<>> /\ l \in A /\ b \in B /\ f \in F
  <2>1. <<>> \in A /\ <<>> \in B /\ <<>> \in F
    OBVIOUS
  <2> HIDE DEF A, B, F
  <2> QED BY <2>1
<1> HIDE DEF A, B, F
<1>4. /\ s \in [pc : {"idle", "next", "restart", "pages", "done"}, left : A, buf : B, size : Nat,
                at : Nat, version : Versions, page : Nat, found : F]
      /\ s.pc = "idle" /\ s.found = <<>> /\ s.buf = <<>>
  <2>1. s = [pc |-> "idle", left |-> l, buf |-> b, size |-> 0, at |-> 0, version |-> v, page |-> 0, found |-> f]
    BY <1>2, <1>3
  <2>2. v \in Versions /\ l \in A /\ b \in B /\ f \in F
    BY <1>1, <1>3
  <2>3. s \in [pc : {"idle", "next", "restart", "pages", "done"}, left : A, buf : B, size : Nat,
               at : Nat, version : Versions, page : Nat, found : F]
    BY <2>1, <2>2
  <2>4. s.pc = "idle" /\ s.found = f /\ s.buf = b
    BY <2>1
  <2> QED BY <1>3, <2>3, <2>4
<1> QED BY <1>4 DEF LogTyped, A, B, F
-----------------------------------------------------------------------------
(* The pages of sound logs                                                 *)

SoundLogs(L) == LogList(L) /\ \A k \in DOMAIN L : SoundLog(L[k])

\* A page as it is written.
Written(page) ==
  /\ page \in LogCell
  /\ page.kind # "rest" => page.fault = "none" /\ page.fixups = PageCells
  /\ page.kind = "restart" => page.page = PageCells
  /\ page.kind = "record" => page.ends <= PageCells

LEMMA Ats ==
  /\ PageCells \in Nat \ {0} /\ At(0) = 0 /\ At(1) = PageCells
  /\ \A n \in Nat : At(n) \in Nat /\ At(n + 1) = At(n) + PageCells
  /\ \A a, b \in Nat : /\ At(a + b) = At(a) + At(b)
                       /\ a < b => At(a) + PageCells <= At(b)
                       /\ a <= b => At(a) <= At(b)
PROOF
<1>1. PageCells \in Nat \ {0}
  BY LogFileAssumption
<1>2. \A a, b \in Nat : /\ a * PageCells \in Nat /\ (a + b) * PageCells = a * PageCells + b * PageCells
                        /\ a < b => a * PageCells + PageCells <= b * PageCells
                        /\ a <= b => a * PageCells <= b * PageCells
  <2> TAKE a, b \in Nat
  <2> QED BY <1>1, PageSizes
<1>3. 0 * PageCells = 0 /\ 1 * PageCells = PageCells
  BY <1>1
<1>4. \A n \in Nat : (n + 1) * PageCells = n * PageCells + PageCells
  <2> TAKE n \in Nat
  <2>1. (n + 1) * PageCells = n * PageCells + 1 * PageCells
    BY <1>2
  <2> QED BY <1>3, <2>1
<1>5. \A n : At(n) = n * PageCells
  BY DEF At
<1> QED BY <1>1, <1>2, <1>3, <1>4, <1>5

LEMMA SoundPages ==
  ASSUME NEW L, SoundLogs(L), NEW k \in DOMAIN L
  PROVE  LET r == L[k]
         IN /\ PagesOf(r) \in Nat /\ PagesOf(r) >= 2 /\ r.lsize = At(PagesOf(r)) /\ Len(r.log) = r.lsize
            /\ Step(r) \in {3, 33} /\ r.log[1].version \in {"1.1", "2.0"} /\ r.log \in Seq(LogCell)
            /\ \A n \in 0 .. PagesOf(r) - 1 : /\ At(n) + PageCells <= r.lsize /\ At(n) + 1 \in 1 .. r.lsize
                                              /\ PageOf(r, n) = r.log[At(n) + 1] /\ Written(PageOf(r, n))
            /\ \A n \in {0, 1} : PageOf(r, n).kind = "restart" /\ PageOf(r, n).version = r.log[1].version
PROOF
<1>0. PICK r : r = L[k]
  OBVIOUS
<1>1. r.lsize \in Nat /\ r.log \in Seq(LogCell) /\ SoundLog(r)
  BY <1>0 DEF SoundLogs, LogList
<1>2. /\ PagesOf(r) \in Nat /\ PagesOf(r) >= 2 /\ r.lsize = At(PagesOf(r)) /\ Len(r.log) = r.lsize
      /\ Step(r) \in {3, 33} /\ r.log[1].version \in {"1.1", "2.0"}
  BY <1>1, SoundSize DEF At
<1>3. ASSUME NEW n \in 0 .. PagesOf(r) - 1
      PROVE  /\ At(n) + PageCells <= r.lsize /\ At(n) + 1 \in 1 .. r.lsize
             /\ PageOf(r, n) = r.log[At(n) + 1] /\ Written(PageOf(r, n))
  <2>1. n \in Nat /\ n < PagesOf(r) /\ PagesOf(r) \in Nat
    BY <1>2, <1>3
  <2>2. At(n) + PageCells <= r.lsize /\ At(n) \in Nat /\ PageCells \in Nat \ {0}
    BY <1>2, <2>1, Ats
  <2>3. At(n) + 1 \in 1 .. r.lsize
    BY <1>1, <2>2
  <2>4. PageOf(r, n) = r.log[At(n) + 1]
    BY DEF PageOf, At
  <2>5. PICK i, p : i = At(n) + 1 /\ p = r.log[i]
    OBVIOUS
  <2>6. i \in DOMAIN r.log
    BY <1>1, <1>2, <2>3, <2>5
  <2>7. p \in LogCell
    BY <1>1, <2>5, <2>6
  <2>8. /\ p.kind # "rest" => p.fault = "none" /\ p.fixups = PageCells
        /\ p.kind = "restart" => p.page = PageCells
        /\ p.kind = "record" => p.ends <= PageCells
    BY <1>1, <2>5, <2>6 DEF SoundLog
  <2> QED BY <2>2, <2>3, <2>4, <2>5, <2>7, <2>8 DEF Written
<1>4. \A n \in {0, 1} : PageOf(r, n).kind = "restart" /\ PageOf(r, n).version = r.log[1].version
  <2>1. PageOf(r, 0) = r.log[1] /\ PageOf(r, 1) = r.log[PageCells + 1]
    <3>1. At(0) + 1 = 1 /\ At(1) + 1 = PageCells + 1
      <4>1. At(0) = 0 /\ At(1) = PageCells
        BY Ats
      <4> QED BY <4>1
    <3>2. \A n : PageOf(r, n) = r.log[At(n) + 1]
      BY DEF PageOf, At
    <3>3. PageOf(r, 0) = r.log[At(0) + 1] /\ PageOf(r, 1) = r.log[At(1) + 1]
      BY <3>2
    <3> QED BY <3>1, <3>3
  <2>2. r.log[1].kind = "restart" /\ r.log[PageCells + 1].kind = "restart"
        /\ r.log[PageCells + 1].version = r.log[1].version
    BY <1>1 DEF SoundLog
  <2> QED BY <2>1, <2>2
<1> QED BY <1>0, <1>1, <1>2, <1>3, <1>4

(* A log that is read lies on top,                                         *)
LEMMA ReadLayered ==
  ASSUME NEW L, SoundLogs(L), NEW d \in Nat, d + 1 \in DOMAIN L, NEW b \in Seq(LogCell), Layered(L, b, d),
         NEW r, r = L[d + 1], NEW c \in Seq(LogCell), r.lsize <= Len(c),
         \A n \in 1 .. Len(r.log) : c[n] = r.log[n],
         Len(b) < r.lsize => Len(c) = r.lsize,
         r.lsize <= Len(b) => Len(c) = Len(b) /\ \A n \in Len(r.log) + 1 .. Len(c) : c[n] = b[n]
  PROVE  Layered(L, c, d + 1)
PROOF
<1>0. DOMAIN L = 1 .. Len(L) /\ Len(L) \in Nat
  BY DEF SoundLogs, LogList
<1>1. \A j \in 1 .. d + 1 : j \in DOMAIN L
  BY <1>0
<1>2. \A j \in 1 .. d + 1 : L[j].lsize \in Nat
  BY <1>1 DEF SoundLogs, LogList
<1>3. Len(b) \in Nat /\ Len(c) \in Nat
  OBVIOUS
<1>4. r.lsize \in Nat
  BY <1>2
<1>5. \A j \in 1 .. d + 1 : L[j].lsize <= Len(c)
  <2> TAKE j \in 1 .. d + 1
  <2>1. CASE j = d + 1
    BY <2>1
  <2>2. CASE j \in 1 .. d
    <3>1. L[j].lsize <= Len(b)
      BY <2>2 DEF Layered
    <3>2. L[j].lsize \in Nat
      BY <1>2
    <3>3. Len(b) <= Len(c)
      BY <1>3, <1>4
    <3> QED BY <1>3, <3>1, <3>2, <3>3
  <2> QED BY <2>1, <2>2
<1>6. Len(c) = 0 \/ \E j \in 1 .. d + 1 : Len(c) = L[j].lsize
  <2>1. CASE Len(b) < r.lsize
    BY <2>1
  <2>2. CASE r.lsize <= Len(b)
    <3>1. Len(b) = 0 \/ \E j \in 1 .. d : Len(b) = L[j].lsize
      BY DEF Layered
    <3>2. \A j \in 1 .. d : j \in 1 .. d + 1
      OBVIOUS
    <3> QED BY <2>2, <3>1, <3>2
  <2> QED BY <1>3, <1>4, <2>1, <2>2
<1>7. ASSUME NEW j \in 1 .. d + 1, NEW n \in 0 .. PagesOf(L[j]) - 1, \A i \in j + 1 .. d + 1 : PagesOf(L[i]) <= n
      PROVE  Alike(c[At(n) + 1], PageOf(L[j], n))
  <2>1. /\ At(n) + 1 \in 1 .. L[j].lsize /\ PageOf(L[j], n) = L[j].log[At(n) + 1] /\ Written(PageOf(L[j], n))
        /\ PagesOf(L[j]) \in Nat
    <3>1. j \in DOMAIN L
      BY <1>1
    <3> QED BY <3>1, SoundPages
  <2>2. CASE j = d + 1
    <3>1. Len(r.log) = r.lsize
      BY SoundPages
    <3>2. c[At(n) + 1] = PageOf(L[j], n)
      BY <2>1, <2>2, <3>1
    <3>3. PICK p : p = PageOf(L[j], n)
      OBVIOUS
    <3>4. Written(p) /\ PageCells \in Nat
      BY <2>1, <3>3, Ats
    <3>5. Alike(p, p)
      BY <3>4 DEF Written, Alike
    <3> QED BY <3>2, <3>3, <3>5
  <2>3. CASE j \in 1 .. d
    <3>1. PagesOf(r) <= n /\ PagesOf(r) \in Nat /\ r.lsize = At(PagesOf(r)) /\ Len(r.log) = r.lsize
      <4>1. d + 1 \in j + 1 .. d + 1
        BY <2>3
      <4>2. PagesOf(r) <= n
        BY <1>7, <4>1
      <4> QED BY <4>2, SoundPages
    <3>2. r.lsize <= At(n) /\ At(n) \in Nat
      <4>1. n \in Nat
        BY <2>1
      <4> QED BY <3>1, <4>1, Ats
    <3>3. L[j].lsize <= Len(b) /\ L[j].lsize \in Nat
      BY <1>2, <2>3 DEF Layered
    <3>4. r.lsize <= Len(b) /\ At(n) + 1 \in Len(r.log) + 1 .. Len(b)
      <4>1. PICK x, y, z, l : x = At(n) /\ y = Len(b) /\ z = L[j].lsize /\ l = r.lsize
        OBVIOUS
      <4>2. x \in Nat /\ y \in Nat /\ z \in Nat /\ l \in Nat /\ l <= x /\ z <= y /\ x + 1 \in 1 .. z /\ Len(r.log) = l
        BY <1>3, <1>4, <2>1, <3>1, <3>2, <3>3, <4>1
      <4>3. l <= y /\ x + 1 \in l + 1 .. y
        BY <4>2
      <4> QED BY <4>1, <4>2, <4>3
    <3>5. c[At(n) + 1] = b[At(n) + 1]
      BY <3>4
    <3>6. \A i \in j + 1 .. d : PagesOf(L[i]) <= n
      BY <1>7
    <3>7. Alike(b[At(n) + 1], PageOf(L[j], n))
      BY <2>3, <3>6 DEF Layered
    <3> QED BY <3>5, <3>7
  <2> QED BY <2>2, <2>3
<1> QED BY <1>5, <1>6, <1>7 DEF Layered

(* and what is undone stays alike.                                         *)
LEMMA UndoneLayered ==
  ASSUME NEW L, SoundLogs(L), NEW d \in Nat, d \in DOMAIN L, NEW b \in Seq(LogCell), Layered(L, b, d),
         NEW m \in 1 .. Len(b), b[m].kind # "rest", NEW c, c = [b EXCEPT ![m].fixups = 1]
  PROVE  Layered(L, c, d)
PROOF
<1>1. /\ c \in Seq(LogCell) /\ Len(c) = Len(b)
      /\ \A i \in 1 .. Len(b) : i # m => c[i] = b[i]
      /\ c[m].kind = b[m].kind /\ c[m].fault = b[m].fault /\ c[m].fixups = 1
      /\ b[m].kind = "restart" => c[m].version = b[m].version /\ c[m].page = b[m].page
      /\ b[m].kind = "record" => c[m].id = b[m].id /\ c[m].ends = b[m].ends
  BY UndoneType, SMTT(30)
<1>2. PageCells \in Nat \ {0}
  BY Ats
<1>3. \A i \in 1 .. Len(b) : \A p : Alike(b[i], p) => Alike(c[i], p)
  <2> SUFFICES ASSUME NEW i \in 1 .. Len(b), NEW p, Alike(b[i], p) PROVE Alike(c[i], p)
    OBVIOUS
  <2>1. CASE i # m
    BY <1>1, <2>1
  <2>2. CASE i = m
    <3>1. PICK x, y : x = b[m] /\ y = c[m]
      OBVIOUS
    <3>2. y.kind = x.kind /\ y.fault = x.fault /\ y.fixups = 1
          /\ (x.kind = "restart" => y.version = x.version /\ y.page = x.page)
          /\ (x.kind = "record" => y.id = x.id /\ y.ends = x.ends)
      BY <1>1, <3>1
    <3>3. Alike(x, p)
      BY <2>2, <3>1
    <3>4. Alike(y, p)
      BY <1>2, <3>2, <3>3 DEF Alike
    <3> QED BY <2>2, <3>1, <3>4
  <2> QED BY <2>1, <2>2
<1>4. \A j \in 1 .. d : j \in DOMAIN L
  <2>1. DOMAIN L = 1 .. Len(L) /\ Len(L) \in Nat
    BY DEF SoundLogs, LogList
  <2> QED BY <2>1
<1>5. ASSUME NEW j \in 1 .. d, NEW n \in 0 .. PagesOf(L[j]) - 1, \A i \in j + 1 .. d : PagesOf(L[i]) <= n
      PROVE  Alike(c[At(n) + 1], PageOf(L[j], n))
  <2>1. At(n) + 1 \in 1 .. L[j].lsize
    BY <1>4, SoundPages
  <2>2. L[j].lsize <= Len(b) /\ L[j].lsize \in Nat /\ Len(b) \in Nat
    BY <1>4 DEF Layered, SoundLogs, LogList
  <2>3. At(n) + 1 \in 1 .. Len(b)
    BY <2>1, <2>2
  <2>4. Alike(b[At(n) + 1], PageOf(L[j], n))
    BY <1>5 DEF Layered
  <2> QED BY <1>3, <2>3, <2>4
<1> QED BY <1>1, <1>5 DEF Layered
-----------------------------------------------------------------------------
(* Sound logs are read to their ends                                       *)

(* Nothing is in the buffer before the first log.                          *)
LEMMA NothingRead ==
  ASSUME NEW L, NEW s, s.found = <<>>, s.buf = <<>>, s.pc \notin {"restart", "pages"}, NEW ph,
         s.pc \notin {"idle", "done"} => ph \notin {"panic", "hang"}
  PROVE  LogRead(L, s, ph)
PROOF
<1>1. Len(s.found) = 0 /\ Len(s.buf) = 0 /\ 1 .. 0 = {}
  OBVIOUS
<1>2. Layered(L, s.buf, 0)
  BY <1>1 DEF Layered
<1> QED BY <1>1, <1>2 DEF LogRead

LEMMA ProcessRead ==
  ASSUME LogTyped(ToRead, logfile, phase), phase = "logfile", ProcessLogFile
  PROVE  LogRead(ToRead, logfile', phase')
PROOF
<1>1. logfile.pc = "idle" /\ logfile.found = <<>> /\ logfile.buf = <<>>
  BY DEF LogTyped, ProcessLogFile
<1>2. DOMAIN logfile = {"pc", "left", "buf", "size", "at", "version", "page", "found"}
  <2> PICK L, s : L = ToRead /\ s = logfile
    OBVIOUS
  <2> DEFINE A == Seq(ToSet(L))
             B == Seq(LogCell)
             F == Seq(Seq(Nat))
  <2>1. s \in [pc : {"idle", "next", "restart", "pages", "done"}, left : A, buf : B, size : Nat,
               at : Nat, version : Versions, page : Nat, found : F]
    BY DEF LogTyped
  <2> HIDE DEF A, B, F
  <2> QED BY <2>1
<1>3. logfile'.pc \in {"idle", "done", "next"} /\ logfile'.found = <<>> /\ logfile'.buf = <<>>
      /\ (logfile'.pc \in {"done", "next"} => phase' = "logfile")
  BY <1>1, <1>2 DEF ProcessLogFile, Crash
<1> PICK t, q : t = logfile' /\ q = phase'
  OBVIOUS
<1>4. LogRead(ToRead, t, q)
  BY <1>3, NothingRead
<1> QED BY <1>4

LEMMA ReadRead ==
  ASSUME SoundLogs(ToRead), LogTyped(ToRead, logfile, phase), LogRead(ToRead, logfile, phase), phase = "logfile", ReadLog
  PROVE  LogRead(ToRead, logfile', phase')
PROOF
<1> PICK L, s, t, ph : L = ToRead /\ s = logfile /\ t = logfile' /\ ph = phase'
  OBVIOUS
<1> DEFINE A == Seq(ToSet(L))
           B == Seq(LogCell)
           F == Seq(Seq(Nat))
<1>1. /\ s \in [pc : {"idle", "next", "restart", "pages", "done"}, left : A, buf : B, size : Nat,
                at : Nat, version : Versions, page : Nat, found : F]
      /\ s.pc = "next" /\ Len(s.left) + Len(s.found) = Len(L)
      /\ \A i \in DOMAIN s.left : s.left[i] = L[Len(s.found) + i]
  BY DEF LogTyped, ReadLog
<1>2. /\ \A k \in 1 .. Len(s.found) : s.found[k] = LogPagesOf(L[k]) /\ ~Overruns(L, k)
      /\ Layered(L, s.buf, Len(s.found))
  BY <1>1 DEF LogRead
<1>3. ph = "logfile" /\ s.left \in A /\ s.buf \in B /\ s.found \in F
  <2> HIDE DEF A, B, F
  <2> QED BY <1>1 DEF ReadLog
<1>4. DOMAIN s = {"pc", "left", "buf", "size", "at", "version", "page", "found"}
  <2> HIDE DEF A, B, F
  <2> QED BY <1>1
<1>5. CASE s.left = <<>>
  <2> HIDE DEF A, B, F
  <2>1. t = [s EXCEPT !.pc = "done"]
    BY <1>5 DEF ReadLog
  <2>2. t.pc = "done" /\ t.found = s.found /\ t.buf = s.buf
    BY <1>4, <2>1
  <2> QED BY <1>2, <2>2 DEF LogRead
<1>6. CASE s.left # <<>>
  <2>0. PICK r, d, c, l, f, b : /\ r = Head(s.left) /\ d = Len(s.found) /\ l = Tail(s.left) /\ f = Append(s.found, <<>>) /\ b = s.buf
                               /\ c = [n \in DOMAIN Buffer(r) |-> IF n <= Len(r.log) THEN r.log[n] ELSE Buffer(r)[n]]
    OBVIOUS
  <2>1. t = [s EXCEPT !.pc = "restart", !.left = l, !.size = r.lsize, !.at = 0, !.buf = c,
               !.version = "", !.page = 0, !.found = f]
    <3> HIDE DEF A, B, F
    <3> QED BY <1>6, <2>0 DEF ReadLog
  <2>2. t.pc = "restart" /\ t.size = r.lsize /\ t.buf = c /\ t.found = f
    <3>1. PICK v, z : v = "" /\ z = r.lsize
      OBVIOUS
    <3>2. t = [s EXCEPT !.pc = "restart", !.left = l, !.size = z, !.at = 0, !.buf = c, !.version = v, !.page = 0, !.found = f]
      BY <2>1, <3>1, Zenon
    <3>3. t = [pc |-> "restart", left |-> l, buf |-> c, size |-> z, at |-> 0, version |-> v, page |-> 0, found |-> f]
      BY <1>4, <3>2
    <3>4. t.pc = "restart" /\ t.size = z /\ t.buf = c /\ t.found = f
      BY <3>3
    <3> QED BY <3>1, <3>4
  <2>3. r = s.left[1] /\ 1 \in DOMAIN s.left /\ Len(s.left) \in Nat \ {0}
    <3>1. s.left \in Seq(ToSet(L)) /\ s.left # <<>>
      BY <1>3, <1>6
    <3> QED BY <2>0, <3>1, TakeOne
  <2>4. d \in Nat /\ r = L[d + 1] /\ d + 1 \in DOMAIN L
    <3>1. d \in Nat
      <4>1. s.found \in Seq(Seq(Nat))
        BY <1>3
      <4> HIDE DEF A, B, F
      <4> QED BY <2>0, <4>1
    <3>2. DOMAIN L = 1 .. Len(L)
      <4>1. L \in Seq(ToSet(L))
        BY DEF SoundLogs, LogList
      <4> QED BY <4>1
    <3>3. Len(L) = Len(s.left) + d
      BY <1>1, <2>0
    <3>4. s.left[1] = L[d + 1]
      BY <1>1, <2>0, <2>3
    <3>5. d + 1 \in DOMAIN L
      BY <2>3, <3>1, <3>2, <3>3
    <3> QED BY <2>3, <3>1, <3>4, <3>5
  <2>5. r.lsize \in Nat /\ r.log \in Seq(LogCell) /\ Len(r.log) <= r.lsize
    BY <2>4 DEF SoundLogs, LogList
  <2>6. Layered(L, c, d + 1)
    <3>1. b \in Seq(LogCell) /\ b = logfile.buf
      BY <1>3, <2>0
    <3>2. c = [n \in DOMAIN Buffer(r) |-> IF n <= Len(r.log) THEN r.log[n] ELSE Buffer(r)[n]]
      BY <2>0
    <3>3. Layered(L, b, d)
      BY <1>2, <2>0
    <3> HIDE DEF A, B, F
    <3>4. /\ c \in Seq(LogCell) /\ r.lsize <= Len(c)
          /\ \A n \in 1 .. Len(r.log) : c[n] = r.log[n]
          /\ Len(b) < r.lsize => Len(c) = r.lsize
          /\ r.lsize <= Len(b) => Len(c) = Len(b) /\ \A n \in Len(r.log) + 1 .. Len(c) : c[n] = b[n]
      BY <2>5, <3>1, <3>2, ReadType
    <3> QED BY <2>4, <3>1, <3>3, <3>4, ReadLayered
  <2>7. Len(f) = d + 1 /\ f[d + 1] = <<>> /\ \A k \in 1 .. d : f[k] = s.found[k]
    <3> DEFINE V == Seq(Nat)
    <3>1. s.found \in Seq(V) /\ <<>> \in V
      BY <1>3
    <3> HIDE DEF A, B, F, V
    <3> QED BY <2>0, <3>1
  <2>8. \A k \in 1 .. d + 1 : k < d + 1 => f[k] = LogPagesOf(L[k]) /\ ~Overruns(L, k)
    <3> TAKE k \in 1 .. d + 1
    <3>1. k < d + 1 => k \in 1 .. d
      BY <2>4
    <3> QED BY <1>2, <2>0, <2>7, <3>1
  <2> HIDE DEF A, B, F
  <2> QED BY <1>3, <2>2, <2>4, <2>6, <2>7, <2>8 DEF LogRead
<1> QED BY <1>5, <1>6
\* A log is being read, and its pages are in the buffer.
Being(L, s, d) ==
  /\ d \in Nat /\ d >= 1 /\ d \in DOMAIN L /\ d = Len(s.found) /\ s.found \in Seq(Seq(Nat))
  /\ s.buf \in Seq(LogCell) /\ Layered(L, s.buf, d) /\ s.size = L[d].lsize /\ s.size <= Len(s.buf)
  /\ \A k \in 1 .. d : k < d => s.found[k] = LogPagesOf(L[k]) /\ ~Overruns(L, k)
  /\ \A n \in 0 .. PagesOf(L[d]) - 1 : At(n) + 1 \in 1 .. Len(s.buf) /\ Alike(s.buf[At(n) + 1], PageOf(L[d], n))

LEMMA BeingRead ==
  ASSUME NEW L, NEW s, NEW ph, SoundLogs(L), LogTyped(L, s, ph), LogRead(L, s, ph), s.pc \in {"restart", "pages"}
  PROVE  \E d : /\ Being(L, s, d) /\ s.at \in Nat
                /\ DOMAIN s = {"pc", "left", "buf", "size", "at", "version", "page", "found"}
PROOF
<1> DEFINE A == Seq(ToSet(L))
           B == Seq(LogCell)
           F == Seq(Seq(Nat))
<1>1. /\ s \in [pc : {"idle", "next", "restart", "pages", "done"}, left : A, buf : B, size : Nat,
                at : Nat, version : Versions, page : Nat, found : F]
      /\ Len(s.left) + Len(s.found) = Len(L) /\ s.found # <<>> /\ s.size <= Len(s.buf)
  BY DEF LogTyped
<1>2. PICK d, q, f, b : d = Len(s.found) /\ q = s.left /\ f = s.found /\ b = s.buf
  OBVIOUS
<1>3. q \in Seq(ToSet(L)) /\ f \in Seq(Seq(Nat)) /\ b \in Seq(LogCell) /\ s.at \in Nat
      /\ DOMAIN s = {"pc", "left", "buf", "size", "at", "version", "page", "found"}
  <2>1. q \in A /\ f \in F /\ b \in B /\ s.at \in Nat
        /\ DOMAIN s = {"pc", "left", "buf", "size", "at", "version", "page", "found"}
    <3> HIDE DEF A, B, F
    <3> QED BY <1>1, <1>2
  <2> QED BY <2>1
<1>4. d \in Nat /\ d >= 1
  <2> DEFINE V == Seq(Nat)
  <2>1. f \in Seq(V) /\ f # <<>> /\ d = Len(f)
    BY <1>1, <1>2, <1>3
  <2> HIDE DEF A, B, F, V
  <2> QED BY <2>1
<1>5. d \in DOMAIN L
  <2>1. DOMAIN L = 1 .. Len(L)
    <3>1. L \in Seq(ToSet(L))
      BY DEF SoundLogs, LogList
    <3> QED BY <3>1
  <2>2. Len(q) \in Nat
    BY <1>3
  <2>3. Len(q) + d = Len(L)
    BY <1>1, <1>2
  <2> HIDE DEF A, B, F
  <2> QED BY <1>4, <2>1, <2>2, <2>3
<1>6. Layered(L, b, d) /\ s.size = L[d].lsize
      /\ \A k \in 1 .. d : k < d => f[k] = LogPagesOf(L[k]) /\ ~Overruns(L, k)
  BY <1>2 DEF LogRead
<1>7. ASSUME NEW n \in 0 .. PagesOf(L[d]) - 1 PROVE At(n) + 1 \in 1 .. Len(b) /\ Alike(b[At(n) + 1], PageOf(L[d], n))
  <2>1. At(n) + 1 \in 1 .. L[d].lsize
    BY <1>5, SoundPages
  <2>2. L[d].lsize <= Len(b) /\ L[d].lsize \in Nat
    BY <1>1, <1>2, <1>5, <1>6 DEF SoundLogs, LogList
  <2>3. At(n) + 1 \in 1 .. Len(b)
    <3>1. Len(b) \in Nat
      BY <1>3
    <3> HIDE DEF A, B, F
    <3> QED BY <2>1, <2>2, <3>1
  <2>4. \A i \in d + 1 .. d : PagesOf(L[i]) <= n
    BY <1>4
  <2>5. Alike(b[At(n) + 1], PageOf(L[d], n))
    BY <1>4, <1>6, <2>4 DEF Layered
  <2> QED BY <2>3, <2>5
<1> HIDE DEF A, B, F
<1> QED BY <1>1, <1>2, <1>3, <1>4, <1>5, <1>6, <1>7 DEF Being

(* Neither restart page of a sound log fails.                              *)
LEMMA RestartRead ==
  ASSUME SoundLogs(ToRead), LogTyped(ToRead, logfile, phase), LogRead(ToRead, logfile, phase), phase = "logfile", ParseRestart
  PROVE  LogRead(ToRead, logfile', phase')
PROOF
<1> PICK L, s, t, ph : L = ToRead /\ s = logfile /\ t = logfile' /\ ph = phase'
  OBVIOUS
<1>1. s.pc = "restart"
  BY DEF ParseRestart
<1>2. PICK d : /\ Being(L, s, d) /\ s.at \in Nat
               /\ DOMAIN s = {"pc", "left", "buf", "size", "at", "version", "page", "found"}
  BY <1>1, BeingRead
<1>3. s.at \in {0, PageCells} /\ s.found[d] = <<>>
  BY <1>1, <1>2 DEF LogTyped, LogRead, Being
<1>4. PICK r, at, b, cell, n, c : /\ r = L[d] /\ at = s.at /\ b = s.buf /\ cell = b[at + 1] /\ n = (IF at = 0 THEN 0 ELSE 1)
                                 /\ c = [b EXCEPT ![at + 1].fixups = 1]
  OBVIOUS
<1>5. /\ PagesOf(r) \in Nat /\ PagesOf(r) >= 2 /\ r.lsize = At(PagesOf(r)) /\ r.lsize \in Nat
      /\ \A m \in 0 .. PagesOf(r) - 1 : At(m) + PageCells <= r.lsize /\ Written(PageOf(r, m))
      /\ \A m \in {0, 1} : PageOf(r, m).kind = "restart" /\ PageOf(r, m).version = r.log[1].version
  <2>1. d \in DOMAIN L
    BY <1>2 DEF Being
  <2>2. r.lsize \in Nat
    BY <1>4, <2>1 DEF SoundLogs, LogList
  <2> QED BY <1>4, <2>1, <2>2, SoundPages
<1>6. n \in {0, 1} /\ at = At(n) /\ n \in 0 .. PagesOf(r) - 1 /\ PageCells \in Nat \ {0}
  <2>1. PageCells \in Nat \ {0} /\ At(0) = 0 /\ At(1) = PageCells
    BY Ats
  <2>2. n \in {0, 1} /\ at = At(n)
    <3>1. at \in {0, PageCells}
      BY <1>3, <1>4
    <3>2. n = (IF at = 0 THEN 0 ELSE 1)
      BY <1>4
    <3> QED BY <2>1, <3>1, <3>2
  <2>3. n \in 0 .. PagesOf(r) - 1
    <3>1. PICK P : P = PagesOf(r) /\ P \in Nat /\ P >= 2
      BY <1>5
    <3> QED BY <2>2, <3>1
  <2> QED BY <2>1, <2>2, <2>3
<1>7. at + 1 \in 1 .. Len(b) /\ Alike(cell, PageOf(r, n)) /\ b \in Seq(LogCell) /\ s.size = r.lsize
      /\ Layered(L, b, d) /\ Len(b) \in Nat
  <2>1. b \in Seq(LogCell) /\ s.size = r.lsize /\ Layered(L, b, d)
    BY <1>2, <1>4 DEF Being
  <2>2. At(n) + 1 \in 1 .. Len(b) /\ Alike(b[At(n) + 1], PageOf(r, n))
    BY <1>2, <1>4, <1>6 DEF Being
  <2>3. Len(b) \in Nat
    BY <2>1
  <2>4. at + 1 \in 1 .. Len(b) /\ Alike(cell, PageOf(r, n))
    BY <1>4, <1>6, <2>2
  <2> QED BY <2>1, <2>3, <2>4
<1>8. cell \in LogCell
  BY <1>4, <1>7
<1>9. PICK p : p = PageOf(r, n) /\ p.kind = "restart" /\ p.version = r.log[1].version /\ Written(p) /\ Alike(cell, p)
  BY <1>5, <1>6, <1>7
<1>10. /\ cell.kind = "restart" /\ cell.fault = "none" /\ cell.fixups <= PageCells /\ cell.fixups \in Nat
       /\ cell.version = r.log[1].version /\ cell.page = PageCells
  <2>1. p.fault = "none" /\ p.page = PageCells
    BY <1>9 DEF Written
  <2>2. cell.kind = "restart" /\ cell.fault = p.fault /\ cell.fixups <= PageCells /\ cell.version = p.version /\ cell.page = p.page
    BY <1>9 DEF Alike
  <2> QED BY <1>8, <1>9, <2>1, <2>2, CellType
<1>11. at + PageCells <= s.size /\ s.size \in Nat /\ at \in Nat
  BY <1>2, <1>4, <1>5, <1>6, <1>7
<1>12. PageAt(logfile.at) = cell /\ Ahead(logfile.at) = s.size - at
  BY <1>4 DEF PageAt, Ahead
<1>13. ~RestartFails
  <2>1. s.size - at # 0
    BY <1>6, <1>11
  <2> QED BY <1>10, <1>12, <2>1 DEF RestartFails
<1>14. ~RestartPanics
  <2>1. ~(s.size - at < 0) /\ ~(cell.fixups > s.size - at)
    BY <1>6, <1>10, <1>11
  <2>2. ~(at >= Len(b))
    BY <1>7, <1>11
  <2>3. ~(logfile.at >= Len(logfile.buf)) /\ ~(Ahead(logfile.at) < 0) /\ ~(PageAt(logfile.at).fixups > Ahead(logfile.at))
        /\ PageAt(logfile.at).fault # "panic"
    BY <1>4, <1>10, <1>12, <2>1, <2>2
  <2> QED BY <2>3 DEF RestartPanics
<1>15. PICK pc, u, v : pc = (IF at = 0 THEN "restart" ELSE "pages") /\ u = at + PageCells /\ v = cell.version
  OBVIOUS
<1>16. t = [s EXCEPT !.pc = pc, !.at = u, !.buf = c, !.version = v, !.page = PageCells] /\ ph = "logfile"
  <2>1. t = [s EXCEPT !.pc = IF at = 0 THEN "restart" ELSE "pages", !.at = s.at + PageCells, !.buf = Undone(logfile.at),
               !.version = cell.version, !.page = cell.page] /\ ph = "logfile"
    BY <1>4, <1>12, <1>13, <1>14 DEF ParseRestart
  <2>2. Undone(logfile.at) = c
    BY <1>4 DEF Undone
  <2> QED BY <1>4, <1>10, <1>15, <2>1, <2>2
<1>17. t.pc = pc /\ t.at = u /\ t.buf = c /\ t.version = v /\ t.page = PageCells /\ t.found = s.found /\ t.size = s.size
  BY <1>2, <1>16
<1>18. Layered(L, c, d)
  <2>1. b[at + 1].kind # "rest" /\ c = [b EXCEPT ![at + 1].fixups = 1] /\ d \in Nat /\ d \in DOMAIN L
    BY <1>2, <1>4, <1>10 DEF Being
  <2> QED BY <1>7, <2>1, UndoneLayered
<1>19. CASE n = 0
  <2>1. pc = "restart"
    BY <1>4, <1>6, <1>15, <1>19, Ats
  <2> QED BY <1>2, <1>3, <1>4, <1>7, <1>16, <1>17, <1>18, <2>1 DEF LogRead, Being
<1>20. CASE n = 1
  <2>1. pc = "pages" /\ u = At(2)
    <3>1. at = PageCells /\ at # 0
      BY <1>6, <1>20, Ats
    <3>2. At(1 + 1) = At(1) + PageCells /\ 1 + 1 = 2
      BY Ats
    <3> QED BY <1>6, <1>15, <1>20, <3>1, <3>2
  <2>2. LogPages(r, 2) = <<>>
    <3>1. \A x \in 0 .. 0 + 2 - 1 : x \notin Looked(r)
      BY DEF Looked, LookedAt
    <3>2. LogPages(r, 0 + 2) = LogPages(r, 0) /\ 0 + 2 = 2
      BY <3>1, LogPagesSame
    <3>3. LogPages(r, 0) = <<>>
      BY LogPagesNext
    <3> QED BY <3>2, <3>3
  <2>3. InPages(L, t, 2)
    <3>1. Len(t.found) = d /\ L[d] = r /\ t.found[d] = LogPages(r, 2) /\ t.at = At(2)
      BY <1>2, <1>3, <1>4, <1>17, <2>1, <2>2 DEF Being
    <3>2. (2 - 2) % Step(r) = 0
      <4>1. Step(r) \in {3, 33}
        BY DEF Step
      <4> QED BY <4>1
    <3>3. ~(2 > PagesOf(r))
      BY <1>5
    <3> QED BY <3>1, <3>2, <3>3 DEF InPages
  <2>4. v = L[d].log[1].version
    BY <1>4, <1>10, <1>15
  <2>5. Len(t.found) = d /\ Layered(L, t.buf, d) /\ t.size = L[d].lsize /\ d \in Nat
        /\ \A k \in 1 .. d : k < d => t.found[k] = LogPagesOf(L[k]) /\ ~Overruns(L, k)
    BY <1>2, <1>17, <1>18 DEF Being
  <2>6. t.version = L[d].log[1].version /\ t.page = PageCells /\ t.pc = "pages" /\ \E m \in Nat : InPages(L, t, m)
    BY <1>17, <2>1, <2>3, <2>4
  <2> QED BY <1>16, <2>5, <2>6 DEF LogRead
<1> QED BY <1>6, <1>19, <1>20
\* The page that main looks at next is page Q of the log r, and is in cell.
Facing(L, s, d, n, Q) ==
  LET r == L[d]
  IN /\ Being(L, s, d) /\ s.pc = "pages" /\ s.version = r.log[1].version /\ s.page = PageCells
     /\ n \in Nat /\ n >= 2 /\ (n - 2) % Step(r) = 0 /\ s.at = At(n) /\ s.found[d] = LogPages(r, n)
     /\ n > PagesOf(r) => ~Overruns(L, d)
     /\ Q = n + Step(r) - 1

LEMMA FacingAt ==
  ASSUME NEW L, SoundLogs(L), NEW s, s = logfile, NEW d, NEW n, NEW Q, Facing(L, s, d, n, Q)
  PROVE  /\ Q \in Nat /\ Q > n /\ NextPage = At(Q) /\ At(Q) \in Nat
         /\ At(n + Step(L[d])) = At(Q) + PageCells /\ n + Step(L[d]) = Q + 1
PROOF
<1> PICK r, S : r = L[d] /\ S = Step(r)
  OBVIOUS
<1>1. n \in Nat /\ S \in {3, 33} /\ Q = n + S - 1
  BY DEF Facing, Step
<1>2. Q \in Nat /\ Q > n /\ n + S = Q + 1
  BY <1>1
<1>3. s.version \in {"1.1", "2.0"} /\ s.version = r.log[1].version
  <2>1. d \in DOMAIN L
    BY DEF Facing, Being
  <2>2. r.log[1].version \in {"1.1", "2.0"}
    BY <2>1, SoundPages
  <2> QED BY <2>2 DEF Facing
<1>4. BufferPages(s.version) = S - 1
  BY <1>3 DEF BufferPages, Step
<1>5. s.at = At(n) /\ s.page = PageCells
  BY DEF Facing
<1>6. NextPage = At(n) + (S - 1) * PageCells
  BY <1>4, <1>5 DEF NextPage
<1>7. (S - 1) * PageCells = At(S - 1) /\ S - 1 \in Nat /\ n + (S - 1) = Q
  <2>1. S - 1 \in Nat /\ n + (S - 1) = Q
    BY <1>1
  <2> QED BY <2>1 DEF At
<1>8. At(n + (S - 1)) = At(n) + At(S - 1)
  BY <1>1, <1>7, Ats
<1>9. At(Q + 1) = At(Q) + PageCells /\ At(Q) \in Nat
  BY <1>2, Ats
<1> QED BY <1>2, <1>6, <1>7, <1>8, <1>9

(* In the log it is parsed if it is a record page,                         *)
LEMMA PageWithin ==
  ASSUME NEW L, SoundLogs(L), NEW s, s = logfile, NEW d, NEW n, NEW Q, Facing(L, s, d, n, Q), Q < PagesOf(L[d])
  PROVE  /\ ~PagePanics(At(Q))
         /\ Parsed(At(Q)) <=> PageOf(L[d], Q).kind = "record"
         /\ Parsed(At(Q)) => PageAt(At(Q)).id = PageOf(L[d], Q).id
PROOF
<1> PICK r, b, p, cell, q, z : r = L[d] /\ b = s.buf /\ p = PageOf(r, Q) /\ q = At(Q) /\ cell = b[q + 1] /\ z = s.size
  OBVIOUS
<1>1. Q \in Nat /\ q \in Nat /\ PageCells \in Nat \ {0}
  BY FacingAt, Ats
<1>2. Being(L, s, d) /\ d \in DOMAIN L
  BY DEF Facing, Being
<1>3. /\ PagesOf(r) \in Nat
      /\ \A m \in 0 .. PagesOf(r) - 1 : At(m) + PageCells <= r.lsize /\ Written(PageOf(r, m))
  BY <1>2, SoundPages
<1>4. Q \in 0 .. PagesOf(r) - 1
  BY <1>1, <1>3
<1>5. q + PageCells <= r.lsize /\ Written(p)
  BY <1>3, <1>4
<1>6. q + 1 \in 1 .. Len(b) /\ Alike(cell, p) /\ b \in Seq(LogCell) /\ z = r.lsize /\ z <= Len(b)
  BY <1>2, <1>4 DEF Being
<1>7. Len(b) \in Nat /\ cell \in LogCell /\ z \in Nat
  <2>1. z \in Nat
    BY <1>2, <1>6 DEF SoundLogs, LogList
  <2> QED BY <1>6, <2>1
<1>8. q + PageCells <= z /\ q < Len(b) /\ z - q > 0 /\ ~(z - q < 0) /\ z - q >= PageCells /\ Len(b) - q >= PageCells
  BY <1>1, <1>5, <1>6, <1>7
<1>9. PageAt(q) = cell /\ Ahead(q) = z - q /\ logfile.buf = b
  BY DEF PageAt, Ahead
<1>10. cell.kind = p.kind /\ (cell.kind = "record" => /\ cell.fault = "none" /\ cell.fixups <= PageCells /\ cell.ends <= PageCells
                                                     /\ cell.id = p.id /\ cell.fixups \in Nat /\ cell.ends \in Nat)
  <2>1. cell.kind = p.kind
    BY <1>6 DEF Alike
  <2>2. CASE cell.kind = "record"
    <3>1. p.fault = "none" /\ p.ends <= PageCells
      BY <1>5, <2>1, <2>2 DEF Written
    <3>2. cell.fault = p.fault /\ cell.fixups <= PageCells /\ cell.id = p.id /\ cell.ends = p.ends
      BY <1>6, <2>2 DEF Alike
    <3> QED BY <1>7, <2>1, <2>2, <3>1, <3>2, CellType
  <2> QED BY <2>1, <2>2
<1>11. IsRecord(q) <=> cell.kind = "record"
  BY <1>8, <1>9 DEF IsRecord
<1>12. cell.kind = "record" => ~(cell.fixups > z - q) /\ ~(cell.ends > Len(b) - q)
  <2>1. PICK x, y, m : x = cell.fixups /\ y = cell.ends /\ m = Len(b)
    OBVIOUS
  <2>2. cell.kind = "record" => x \in Nat /\ y \in Nat /\ x <= PageCells /\ y <= PageCells
    BY <1>10, <2>1
  <2>3. z \in Nat /\ q \in Nat /\ m \in Nat /\ PageCells \in Nat /\ z - q >= PageCells /\ m - q >= PageCells
    BY <1>1, <1>7, <1>8, <2>1
  <2>4. cell.kind = "record" => ~(x > z - q) /\ ~(y > m - q)
    BY <2>2, <2>3
  <2> QED BY <2>1, <2>4
<1>13. ~PagePanics(q)
  <2>1. ~(q >= Len(logfile.buf))
    BY <1>1, <1>7, <1>8, <1>9
  <2>2. ~(IsRecord(q) /\ Ahead(q) < 0)
    BY <1>8, <1>9
  <2>3. IsRecord(q) => ~(PageAt(q).fixups > Ahead(q)) /\ ~(PageAt(q).ends > Len(logfile.buf) - q)
    BY <1>9, <1>11, <1>12
  <2>4. IsRecord(q) => PageAt(q).fault # "panic"
    BY <1>9, <1>10, <1>11
  <2> QED BY <2>1, <2>2, <2>3, <2>4 DEF PagePanics
<1>14. Parsed(q) <=> cell.kind = "record"
  BY <1>8, <1>9, <1>10, <1>11 DEF Parsed
<1> QED BY <1>9, <1>10, <1>13, <1>14

(* and behind it main ends where the log overruns.                         *)
LEMMA PageBehind ==
  ASSUME NEW L, SoundLogs(L), NEW s, s = logfile, NEW d, NEW n, NEW Q, Facing(L, s, d, n, Q),
         n < PagesOf(L[d]), PagesOf(L[d]) <= Q
  PROVE  (PagePanics(At(Q)) <=> Overruns(L, d)) /\ ~Parsed(At(Q))
PROOF
<1> PICK r, b, P, cell, q, z : r = L[d] /\ b = s.buf /\ P = PagesOf(r) /\ q = At(Q) /\ cell = b[q + 1] /\ z = s.size
  OBVIOUS
<1>1. Q \in Nat /\ q \in Nat /\ PageCells \in Nat \ {0} /\ n \in Nat /\ Q = n + Step(r) - 1
  BY FacingAt, Ats DEF Facing
<1>2. Being(L, s, d) /\ d \in DOMAIN L /\ d \in Nat /\ d >= 1
  BY DEF Facing, Being
<1>3. P \in Nat /\ r.lsize = At(P) /\ Step(r) \in {3, 33} /\ r.lsize \in Nat
  <2>1. r.lsize \in Nat
    BY <1>2 DEF SoundLogs, LogList
  <2> QED BY <1>2, <2>1, SoundPages
<1>4. Behind(r) = Q /\ (P - 2) % Step(r) # 0
  <2>1. n >= 2 /\ (n - 2) % Step(r) = 0
    BY DEF Facing
  <2>2. PagesOf(r) \in Nat /\ n < PagesOf(r) /\ PagesOf(r) <= n + Step(r) - 1
    BY <1>1, <1>3
  <2>3. n \in Nat /\ Step(r) \in {3, 33}
    BY <1>1, <1>3
  <2> QED BY <1>1, <2>1, <2>2, <2>3, BehindIs
<1>5. b \in Seq(LogCell) /\ Layered(L, b, d) /\ z = r.lsize /\ z <= Len(b)
  BY <1>2 DEF Being
<1>6. Len(b) \in Nat /\ At(P) <= At(Q) /\ (P < Q => At(P) + PageCells <= At(Q))
  <2>1. Len(b) \in Nat
    BY <1>5
  <2>2. P <= Q
    OBVIOUS
  <2> QED BY <1>1, <1>3, <2>1, <2>2, Ats
<1>7. Ahead(q) = z - q /\ PageAt(q) = cell /\ logfile.buf = b /\ z = At(P)
  BY <1>3, <1>5 DEF Ahead, PageAt
<1>8. ~(Ahead(q) > 0) /\ (Ahead(q) < 0 <=> P < Q)
  <2>1. z - q <= 0 /\ (z - q < 0 <=> P < Q)
    <3>1. P <= Q
      BY DEF Facing
    <3>2. P = Q => z = q
      BY <1>7
    <3> QED BY <1>1, <1>3, <1>5, <1>6, <3>1, <3>2
  <2> QED BY <1>1, <1>3, <1>5, <1>7, <2>1
<1>9. ~Parsed(q)
  BY <1>8 DEF Parsed
<1>10. PagePanics(q) <=> q >= Len(b) \/ (q < Len(b) /\ cell.kind = "record" /\ P < Q)
  BY <1>7, <1>8 DEF PagePanics, IsRecord
<1> DEFINE left == {j \in 1 .. d - 1 : PagesOf(L[j]) > Q}
<1>11. Overruns(L, d) <=> (left # {} => Q > P /\ PageOf(L[Max(left)], Q).kind = "record")
  BY <1>4 DEF Overruns
<1>12. \A j \in 1 .. d : /\ j \in DOMAIN L /\ PagesOf(L[j]) \in Nat /\ L[j].lsize = At(PagesOf(L[j])) /\ L[j].lsize \in Nat
                         /\ L[j].lsize <= Len(b)
  <2> TAKE j \in 1 .. d
  <2>1. j \in DOMAIN L
    <3>1. DOMAIN L = 1 .. Len(L) /\ Len(L) \in Nat
      BY DEF SoundLogs, LogList
    <3> QED BY <1>2, <3>1
  <2>2. L[j].lsize \in Nat
    BY <2>1 DEF SoundLogs, LogList
  <2>3. L[j].lsize <= Len(b)
    BY <1>5 DEF Layered
  <2> QED BY <2>1, <2>2, <2>3, SoundPages
<1>13. CASE left = {}
  <2>1. \A j \in 1 .. d : PagesOf(L[j]) <= Q
    <3> TAKE j \in 1 .. d
    <3>1. CASE j = d
      BY <3>1
    <3>2. CASE j # d
      <4>1. j \in 1 .. d - 1
        BY <1>2, <3>2
      <4>2. ~(PagesOf(L[j]) > Q)
        BY <1>13, <4>1
      <4> QED BY <1>1, <1>12, <4>2
    <3> QED BY <3>1, <3>2
  <2>2. \A j \in 1 .. d : L[j].lsize <= q
    <3> TAKE j \in 1 .. d
    <3>1. PagesOf(L[j]) \in Nat /\ PagesOf(L[j]) <= Q /\ L[j].lsize = At(PagesOf(L[j]))
      BY <1>12, <2>1
    <3> QED BY <1>1, <3>1, Ats
  <2>3. Len(b) = 0 \/ \E j \in 1 .. d : Len(b) = L[j].lsize
    BY <1>5 DEF Layered
  <2>4. q >= Len(b)
    BY <1>1, <1>6, <2>2, <2>3
  <2> HIDE DEF left
  <2> QED BY <1>9, <1>10, <1>11, <1>13, <2>4
<1>14. CASE left # {}
  <2>1. Max(left) \in left /\ \A y \in left : y <= Max(left)
    <3>1. left \subseteq 0 .. d /\ d \in Nat
      BY <1>2
    <3> HIDE DEF left
    <3> QED BY <1>14, <3>1, MaxOf
  <2>2. PICK j : j = Max(left) /\ j \in 1 .. d - 1 /\ PagesOf(L[j]) > Q /\ \A y \in left : y <= j
    <3>1. PICK j : j = Max(left)
      OBVIOUS
    <3>2. j \in left /\ \A y \in left : y <= j
      <4> HIDE DEF left
      <4> QED BY <2>1, <3>1
    <3>3. j \in 1 .. d - 1 /\ PagesOf(L[j]) > Q
      BY <3>2 DEF left
    <3> HIDE DEF left
    <3> QED BY <3>1, <3>2, <3>3
  <2>3. \A i \in j + 1 .. d : PagesOf(L[i]) <= Q
    <3> TAKE i \in j + 1 .. d
    <3>0. i \in 1 .. d /\ i > j
      BY <1>2, <2>2
    <3>1. CASE i = d
      BY <3>1
    <3>2. CASE i # d
      <4>1. i \in 1 .. d - 1
        BY <1>2, <3>0, <3>2
      <4>2. PagesOf(L[i]) > Q => i \in left
        BY <4>1
      <4>3. ~(i <= j)
        BY <2>2, <3>0
      <4> HIDE DEF left
      <4>4. ~(PagesOf(L[i]) > Q)
        BY <2>2, <4>2, <4>3
      <4> QED BY <1>1, <1>12, <3>0, <4>4
    <3> QED BY <3>1, <3>2
  <2> HIDE DEF left
  <2>4. j \in 1 .. d /\ Q \in 0 .. PagesOf(L[j]) - 1
    <3>1. j \in 1 .. d
      BY <1>2, <2>2
    <3>2. PagesOf(L[j]) \in Nat
      BY <1>12, <3>1
    <3> QED BY <1>1, <2>2, <3>1, <3>2
  <2>5. Alike(cell, PageOf(L[j], Q))
    BY <1>5, <2>3, <2>4 DEF Layered
  <2>6. cell.kind = PageOf(L[j], Q).kind
    BY <2>5 DEF Alike
  <2>7. q < Len(b)
    <3>1. At(Q) + PageCells <= L[j].lsize
      BY <1>12, <2>4, SoundPages
    <3>2. PICK x, y : x = Len(b) /\ y = L[j].lsize
      OBVIOUS
    <3>3. x \in Nat /\ y \in Nat /\ y <= x /\ q + PageCells <= y
      BY <1>6, <1>12, <2>4, <3>1, <3>2
    <3>4. q < x
      BY <1>1, <3>3
    <3> QED BY <3>2, <3>4
  <2>8. PagePanics(q) <=> cell.kind = "record" /\ P < Q
    <3>1. Len(b) \in Nat /\ q \in Nat
      BY <1>1, <1>6
    <3>2. PICK x : x = Len(b)
      OBVIOUS
    <3>3. ~(q >= x)
      BY <2>7, <3>1, <3>2
    <3> QED BY <1>10, <2>7, <3>2, <3>3, Zenon
  <2>9. Q > P <=> P < Q
    BY <1>1, <1>3
  <2>10. Overruns(L, d) <=> Q > P /\ PageOf(L[j], Q).kind = "record"
    BY <1>11, <1>14, <2>2, Zenon
  <2> QED BY <1>1, <1>9, <2>6, <2>8, <2>9, <2>10, Zenon
<1> QED BY <1>13, <1>14
(* What main has of a log after the page it faces.                         *)
LEMMA PagesOn ==
  ASSUME NEW L, SoundLogs(L), NEW s, s = logfile, NEW d, NEW n, NEW Q, Facing(L, s, d, n, Q), n < PagesOf(L[d])
  PROVE  /\ \A m : m = Q + 1 => (m - 2) % Step(L[d]) = 0
         /\ LogPages(L[d], Q + 1) = IF Q < PagesOf(L[d]) /\ PageOf(L[d], Q).kind = "record"
                                    THEN Append(s.found[d], PageOf(L[d], Q).id) ELSE s.found[d]
PROOF
<1> PICK r, S, f : r = L[d] /\ S = Step(r) /\ f = LogPages(r, n)
  OBVIOUS
<1>1. /\ n \in Nat /\ n >= 2 /\ (n - 2) % Step(r) = 0 /\ Step(r) \in {3, 33} /\ Q = n + Step(r) - 1 /\ Q \in Nat
      /\ s.found[d] = f /\ n < PagesOf(r)
  BY FacingAt DEF Facing, Step
<1>2. PagesOf(r) \in Nat
  <2>1. d \in DOMAIN L
    BY DEF Facing, Being
  <2> QED BY <2>1, SoundPages
<1>3. \A x \in n .. n + Step(r) - 1 : LookedAt(r, x) <=> x = n + Step(r) - 1
  BY <1>1, LookedAtLast
<1>4. (n + Step(r) - 2) % Step(r) = 0
  <2>1. n \in n .. n + Step(r) - 1
    BY <1>1
  <2> QED BY <1>1, <2>1, LookedAtLast
<1>5. \A m : m = Q + 1 => (m - 2) % Step(r) = 0
  <2> TAKE m
  <2>1. m = Q + 1 => m - 2 = n + Step(r) - 2
    BY <1>1
  <2> QED BY <1>4, <2>1
<1>6. LogPages(r, Q) = f
  <2>1. PICK m : m = Step(r) - 1 /\ m \in Nat /\ n + m = Q
    BY <1>1
  <2>2. \A x \in n .. n + m - 1 : x \notin Looked(r)
    <3> TAKE x \in n .. n + m - 1
    <3>1. x \in n .. n + Step(r) - 1 /\ x # n + Step(r) - 1
      BY <1>1, <2>1
    <3> QED BY <1>3, <3>1 DEF Looked
  <2> QED BY <1>1, <2>1, <2>2, LogPagesSame
<1>7. Q \in Looked(r) <=> Q < PagesOf(r) /\ PageOf(r, Q).kind = "record"
  <2>1. LookedAt(r, Q)
    <3>1. Q \in n .. n + Step(r) - 1
      BY <1>1
    <3> QED BY <1>1, <1>3, <3>1
  <2>2. Q \in 0 .. PagesOf(r) - 1 <=> Q < PagesOf(r)
    BY <1>1, <1>2
  <2> QED BY <2>1, <2>2 DEF Looked
<1>8. LogPages(r, Q + 1) = IF Q \in Looked(r) THEN Append(LogPages(r, Q), PageOf(r, Q).id) ELSE LogPages(r, Q)
  BY <1>1, LogPagesNext
<1> QED BY <1>1, <1>4, <1>5, <1>6, <1>7, <1>8

(* All pages of a log.                                                     *)
LEMMA LogPagesAll ==
  ASSUME NEW r, PagesOf(r) \in Nat, NEW n \in Nat, n >= PagesOf(r)
  PROVE  LogPages(r, n) = LogPagesOf(r)
PROOF
<1>1. LogPages(r, PagesOf(r)) = LogPagesOf(r)
  BY DEF LogPages, LogPagesOf
<1>2. PICK m : m = n - PagesOf(r) /\ m \in Nat /\ PagesOf(r) + m = n
  OBVIOUS
<1>3. \A x \in PagesOf(r) .. PagesOf(r) + m - 1 : x \notin Looked(r)
  BY DEF Looked
<1>4. LogPages(r, PagesOf(r) + m) = LogPages(r, PagesOf(r))
  BY <1>2, <1>3, LogPagesSame
<1> QED BY <1>1, <1>2, <1>4

(* The record pages of a sound log are parsed until it ends or overruns.   *)
LEMMA PageRead ==
  ASSUME SoundLogs(ToRead), LogTyped(ToRead, logfile, phase), LogRead(ToRead, logfile, phase), phase = "logfile", ParsePage
  PROVE  LogRead(ToRead, logfile', phase')
PROOF
<1> PICK L, s, t, ph : L = ToRead /\ s = logfile /\ t = logfile' /\ ph = phase'
  OBVIOUS
<1>1. s.pc = "pages"
  BY DEF ParsePage
<1>2. PICK d : /\ Being(L, s, d) /\ s.at \in Nat
               /\ DOMAIN s = {"pc", "left", "buf", "size", "at", "version", "page", "found"}
  BY <1>1, BeingRead
<1>3. PICK n \in Nat : InPages(L, s, n)
  BY <1>1 DEF LogRead
<1>4. s.version = L[d].log[1].version /\ s.page = PageCells
  BY <1>1, <1>2 DEF LogRead, Being
<1>5. d = Len(s.found) /\ d \in Nat /\ d >= 1 /\ d \in DOMAIN L /\ Layered(L, s.buf, d) /\ s.size = L[d].lsize
      /\ \A k \in 1 .. d : k < d => s.found[k] = LogPagesOf(L[k]) /\ ~Overruns(L, k)
  BY <1>2 DEF Being
<1>6. PICK r, P, Q, q : r = L[d] /\ P = PagesOf(r) /\ Q = n + Step(r) - 1 /\ q = At(Q)
  OBVIOUS
<1>7. Facing(L, s, d, n, Q)
  BY <1>1, <1>2, <1>3, <1>4, <1>5, <1>6 DEF Facing, InPages
<1>8. P \in Nat /\ s.size = At(P) /\ r.log[1].version \in {"1.1", "2.0"}
  BY <1>5, <1>6, SoundPages
<1>9. /\ Q \in Nat /\ Q > n /\ NextPage = q /\ q \in Nat /\ At(Q + 1) = q + PageCells /\ s.at = At(n)
      /\ PageCells \in Nat \ {0} /\ s.found[d] = LogPages(r, n) /\ (n > P => ~Overruns(L, d))
  <2>1. /\ Q \in Nat /\ Q > n /\ NextPage = At(Q) /\ At(Q) \in Nat /\ At(n + Step(L[d])) = At(Q) + PageCells
        /\ n + Step(L[d]) = Q + 1
    BY <1>7, FacingAt
  <2>2. s.at = At(n) /\ s.found[d] = LogPages(r, n) /\ (n > P => ~Overruns(L, d)) /\ PageCells \in Nat \ {0}
    BY <1>6, <1>7, Ats DEF Facing
  <2> QED BY <1>6, <2>1, <2>2
<1> DEFINE E == logfile.at >= logfile.size \/ logfile.version \notin {"1.1", "2.0"}
<1>10. E <=> n >= P
  <2>1. n < P => At(n) + PageCells <= At(P)
    BY <1>8, Ats
  <2>2. n >= P => At(P) <= At(n)
    BY <1>8, Ats
  <2>3. At(n) \in Nat /\ At(P) \in Nat
    BY <1>8, Ats
  <2>4. E <=> At(n) >= At(P)
    BY <1>4, <1>6, <1>8, <1>9
  <2> HIDE DEF E
  <2> QED BY <1>8, <1>9, <2>1, <2>2, <2>3, <2>4
<1>11. CASE n >= P
  <2>1. t = [s EXCEPT !.pc = "next"] /\ ph = "logfile"
    BY <1>10, <1>11 DEF ParsePage
  <2>2. t.pc = "next" /\ t.found = s.found /\ t.buf = s.buf
    BY <1>2, <2>1
  <2>3. s.found[d] = LogPagesOf(L[d])
    BY <1>6, <1>8, <1>9, <1>11, LogPagesAll
  <2>4. ~Overruns(L, d)
    <3>1. CASE n = P
      <4>1. (P - 2) % Step(r) = 0
        BY <1>6, <1>7, <3>1 DEF Facing
      <4> QED BY <1>6, <4>1 DEF Overruns
    <3>2. CASE n > P
      BY <1>9, <3>2
    <3> QED BY <1>8, <1>11, <3>1, <3>2
  <2>5. \A k \in 1 .. d : s.found[k] = LogPagesOf(L[k]) /\ ~Overruns(L, k)
    <3> TAKE k \in 1 .. d
    <3>1. k < d \/ k = d
      BY <1>5
    <3> QED BY <1>5, <2>3, <2>4, <3>1
  <2> QED BY <1>5, <2>1, <2>2, <2>5 DEF LogRead
<1>12. CASE n < P
  <2>0. ~(n >= P)
    BY <1>8, <1>12
  <2>1. ~E
    BY <1>10, <2>0
  <2>2. CASE PagePanics(q)
    <3>1. t = s /\ ph = "panic"
      BY <1>9, <2>1, <2>2 DEF ParsePage, Crash
    <3>2. Overruns(L, d)
      <4>1. ~(Q < P)
        BY <1>6, <1>7, <2>2, PageWithin
      <4>2. P <= Q
        BY <1>8, <1>9, <4>1
      <4> QED BY <1>6, <1>7, <1>12, <2>2, <4>2, PageBehind
    <3> QED BY <1>1, <1>5, <3>1, <3>2 DEF LogRead
  <2>3. CASE ~PagePanics(q)
    <3>0. logfile.page # 0
      BY <1>4, <1>9
    <3>1. PICK G, b, c, f, k, u : /\ b = s.buf /\ f = s.found /\ u = q + PageCells
                                  /\ G = (IF Parsed(q) THEN 1 ELSE 0)
                                  /\ c = IF G = 1 THEN [b EXCEPT ![q + 1].fixups = 1] ELSE b
                                  /\ k = [f EXCEPT ![d] = IF G = 1 THEN Append(f[d], b[q + 1].id) ELSE f[d]]
      <4>1. PICK G : G = (IF Parsed(q) THEN 1 ELSE 0)
        OBVIOUS
      <4>2. PICK b, f, u : b = s.buf /\ f = s.found /\ u = q + PageCells
        OBVIOUS
      <4>3. PICK c : c = IF G = 1 THEN [b EXCEPT ![q + 1].fixups = 1] ELSE b
        OBVIOUS
      <4>4. PICK k : k = [f EXCEPT ![d] = IF G = 1 THEN Append(f[d], b[q + 1].id) ELSE f[d]]
        OBVIOUS
      <4> HIDE DEF E
      <4> QED BY <4>1, <4>2, <4>3, <4>4
    <3>2. G = 1 <=> Parsed(q)
      BY <3>1
    <3>3. t = [s EXCEPT !.at = u, !.buf = c, !.found = k] /\ ph = "logfile"
      <4>1. t = [s EXCEPT !.at = NextPage + s.page, !.buf = IF Parsed(NextPage) THEN Undone(NextPage) ELSE s.buf,
                   !.found = [s.found EXCEPT ![Len(s.found)] =
                                IF Parsed(NextPage) THEN Append(s.found[Len(s.found)], PageAt(NextPage).id)
                                ELSE s.found[Len(s.found)]]] /\ ph = phase
        BY <1>9, <2>1, <2>3, <3>0 DEF ParsePage
      <4>2. Undone(NextPage) = [b EXCEPT ![q + 1].fixups = 1] /\ PageAt(NextPage) = b[q + 1]
        BY <1>9, <3>1 DEF Undone, PageAt
      <4>3. c = (IF Parsed(NextPage) THEN Undone(NextPage) ELSE s.buf)
        BY <1>9, <3>1, <3>2, <4>2
      <4>4. k = [s.found EXCEPT ![Len(s.found)] =
                   IF Parsed(NextPage) THEN Append(s.found[Len(s.found)], PageAt(NextPage).id) ELSE s.found[Len(s.found)]]
        BY <1>5, <1>9, <3>1, <3>2, <4>2
      <4>5. u = NextPage + s.page
        BY <1>4, <1>9, <3>1
      <4> QED BY <4>1, <4>3, <4>4, <4>5
    <3>4. t.pc = "pages" /\ t.at = u /\ t.buf = c /\ t.found = k /\ t.size = s.size /\ t.version = s.version /\ t.page = s.page
      BY <1>1, <1>2, <3>3
    <3>5. Layered(L, c, d)
      <4>1. CASE G = 1
        <5>1. IsRecord(q) /\ b \in Seq(LogCell) /\ b = logfile.buf
          BY <1>2, <3>1, <3>2, <4>1 DEF Parsed, Being
        <5>2. q < Len(b) /\ b[q + 1].kind = "record" /\ Len(b) \in Nat
          BY <5>1 DEF IsRecord, PageAt
        <5>3. q + 1 \in 1 .. Len(b) /\ b[q + 1].kind # "rest" /\ c = [b EXCEPT ![q + 1].fixups = 1]
          BY <1>9, <3>1, <4>1, <5>2
        <5>4. Layered(L, b, d)
          BY <1>5, <3>1
        <5> QED BY <1>5, <5>1, <5>3, <5>4, UndoneLayered
      <4>2. CASE G # 1
        BY <1>5, <3>1, <4>2
      <4> QED BY <4>1, <4>2
    <3>6. G = 1 <=> Q < P /\ PageOf(r, Q).kind = "record"
      <4>1. CASE Q < P
        BY <1>6, <1>7, <3>2, <4>1, PageWithin
      <4>2. CASE P <= Q
        <5>1. ~Parsed(q)
          BY <1>6, <1>7, <1>12, <4>2, PageBehind
        <5>2. ~(Q < P)
          BY <1>8, <1>9, <4>2
        <5> QED BY <3>2, <5>1, <5>2
      <4> QED BY <1>8, <1>9, <4>1, <4>2
    <3>7. G = 1 => b[q + 1].id = PageOf(r, Q).id
      <4>1. CASE G = 1
        <5>1. PageAt(q).id = PageOf(r, Q).id
          BY <1>6, <1>7, <3>2, <3>6, <4>1, PageWithin
        <5> QED BY <3>1, <5>1 DEF PageAt
      <4> QED BY <4>1
    <3>8. LogPages(r, Q + 1) = (IF G = 1 THEN Append(f[d], b[q + 1].id) ELSE f[d])
           /\ \A m : m = Q + 1 => (m - 2) % Step(r) = 0
      <4>1. /\ \A m : m = Q + 1 => (m - 2) % Step(r) = 0
            /\ LogPages(r, Q + 1) = IF Q < P /\ PageOf(r, Q).kind = "record"
                                    THEN Append(f[d], PageOf(r, Q).id) ELSE f[d]
        BY <1>6, <1>7, <1>12, <3>1, PagesOn
      <4> QED BY <3>6, <3>7, <4>1
    <3>9. Len(k) = d /\ k[d] = LogPages(r, Q + 1) /\ \A i \in 1 .. d : i < d => k[i] = f[i]
      <4>0. PICK w : w = (IF G = 1 THEN Append(f[d], b[q + 1].id) ELSE f[d])
        OBVIOUS
      <4>1. k = [f EXCEPT ![d] = w] /\ w = LogPages(r, Q + 1)
        BY <3>1, <3>8, <4>0
      <4>2. DOMAIN f = 1 .. d
        <5> DEFINE V == Seq(Nat)
        <5>1. f \in Seq(V) /\ d = Len(f)
          BY <1>2, <3>1 DEF Being
        <5> HIDE DEF V
        <5> QED BY <5>1
      <4> HIDE DEF E
      <4>3. DOMAIN k = 1 .. d
        BY <4>1, <4>2
      <4>4. Len(k) = d
        <5> DEFINE V == {k[i] : i \in 1 .. d}
        <5>1. k = [f EXCEPT ![d] = w] /\ f = [i \in 1 .. d |-> f[i]]
          <6> DEFINE W == Seq(Nat)
          <6>1. f \in Seq(W) /\ d = Len(f)
            BY <1>2, <3>1 DEF Being
          <6> HIDE DEF W
          <6> QED BY <4>1, <6>1
        <5>2. k \in [1 .. d -> V]
          BY <5>1
        <5> HIDE DEF V
        <5> QED BY <1>5, <5>2
      <4>5. k[d] = w /\ \A i \in 1 .. d : i < d => k[i] = f[i]
        BY <1>5, <4>1, <4>2
      <4> QED BY <4>1, <4>4, <4>5
    <3>10. InPages(L, t, Q + 1)
      <4>1. t.at = At(Q + 1) /\ Q + 1 >= 2
        <5>1. n >= 2
          BY <1>7 DEF Facing
        <5> QED BY <1>9, <3>1, <3>4, <5>1
      <4>2. Q + 1 > P => ~Overruns(L, d)
        <5>1. CASE P <= Q
          BY <1>6, <1>7, <1>12, <2>3, <5>1, PageBehind
        <5>2. CASE Q < P
          <6>1. ~(Q + 1 > P)
            BY <1>8, <1>9, <5>2
          <6> QED BY <6>1
        <5> QED BY <1>8, <1>9, <5>1, <5>2
      <4>3. Len(t.found) = d /\ L[d] = r /\ t.found[d] = LogPages(r, Q + 1)
        BY <1>6, <3>4, <3>9
      <4>4. PICK m : m = Q + 1
        OBVIOUS
      <4>5. (m - 2) % Step(r) = 0
        BY <3>8, <4>4
      <4>6. t.at = At(m) /\ m >= 2 /\ t.found[d] = LogPages(r, m) /\ (m > P => ~Overruns(L, d))
        BY <4>1, <4>2, <4>3, <4>4
      <4>7. InPages(L, t, m)
        BY <1>6, <4>3, <4>5, <4>6 DEF InPages
      <4> QED BY <4>4, <4>7
    <3>11. Len(t.found) = d /\ Layered(L, t.buf, d) /\ t.size = L[d].lsize /\ d \in Nat
           /\ \A i \in 1 .. d : i < d => t.found[i] = LogPagesOf(L[i]) /\ ~Overruns(L, i)
      BY <1>5, <3>1, <3>4, <3>5, <3>9
    <3>12. t.version = L[d].log[1].version /\ t.page = PageCells /\ t.pc = "pages" /\ \E m \in Nat : InPages(L, t, m)
      <4>1. Q + 1 \in Nat
        BY <1>9
      <4> QED BY <1>4, <3>4, <3>10, <4>1
    <3> QED BY <3>3, <3>11, <3>12 DEF LogRead
  <2> QED BY <2>2, <2>3
<1> QED BY <1>8, <1>11, <1>12
(* Every step of ProcessLogFile keeps the invariant.                       *)
LEMMA LogFileKeepsInv ==
  ASSUME LogInv, phase = "logfile", ReadLogFile
  PROVE  LogInv'
PROOF
<1>1. job \in Jobs /\ job' = job /\ LogTyped(ToRead, logfile, phase)
  BY LogFileQuiet DEF LogInv
<1>2. PICK L, t, q : L = ToRead /\ t = logfile' /\ q = phase'
  OBVIOUS
<1>3. ToRead' = L
  BY <1>1, <1>2 DEF ToRead, LogFiles, args, Partitions
<1>4. LogTyped(L, t, q)
  BY <1>1, <1>2, LogFileKeepsTyped
<1>5. (\A k \in DOMAIN L : SoundLog(L[k])) => LogRead(L, t, q)
  <2> SUFFICES ASSUME \A k \in DOMAIN L : SoundLog(L[k]) PROVE LogRead(L, t, q)
    OBVIOUS
  <2>1. SoundLogs(ToRead)
    BY <1>1, <1>2, ToReadTyped DEF SoundLogs
  <2>2. LogRead(ToRead, logfile, phase)
    BY <1>2 DEF LogInv
  <2>3. CASE ProcessLogFile
    BY <1>1, <1>2, <2>3, ProcessRead
  <2>4. CASE ReadLog
    BY <1>1, <1>2, <2>1, <2>2, <2>4, ReadRead
  <2>5. CASE ParseRestart
    BY <1>1, <1>2, <2>1, <2>2, <2>5, RestartRead
  <2>6. CASE ParsePage
    BY <1>1, <1>2, <2>1, <2>2, <2>6, PageRead
  <2> QED BY <2>3, <2>4, <2>5, <2>6 DEF ReadLogFile
<1>6. LogTyped(L, t, q) <=> LogTyped(ToRead, logfile, phase)'
  BY <1>2, <1>3 DEF LogTyped
<1>7. LogRead(L, t, q) <=> LogRead(ToRead, logfile, phase)'
  BY <1>2, <1>3 DEF LogRead, InPages, Layered
<1>8. ((\A k \in DOMAIN ToRead : SoundLog(ToRead[k])) => LogRead(ToRead, logfile, phase))'
  BY <1>3, <1>5, <1>7
<1> QED BY <1>1, <1>4, <1>6, <1>8 DEF LogInv

(* No other step touches a log.                                            *)
LEMMA AsideLog ==
  ASSUME LogInv, job' = job, logfile' = logfile,
         logfile.pc \in {"next", "restart", "pages"} => phase' = phase
  PROVE  LogInv'
PROOF
<1> PICK L, s, p, q : L = ToRead /\ s = logfile /\ p = phase /\ q = phase'
  OBVIOUS
<1>1. ToRead' = L /\ logfile' = s
  BY DEF ToRead, LogFiles, args, Partitions
<1>2. s.pc \in {"next", "restart", "pages"} => q = p
  OBVIOUS
<1>3. s.pc \in {"idle", "next", "restart", "pages", "done"}
  <2> DEFINE A == Seq(ToSet(L))
             B == Seq(LogCell)
             F == Seq(Seq(Nat))
  <2>1. s \in [pc : {"idle", "next", "restart", "pages", "done"}, left : A, buf : B, size : Nat,
               at : Nat, version : Versions, page : Nat, found : F]
    BY DEF LogInv, LogTyped
  <2> HIDE DEF A, B, F
  <2> QED BY <2>1
<1>4. LogTyped(L, s, q)
  <2>1. LogTyped(L, s, p)
    BY DEF LogInv
  <2> QED BY <1>2, <2>1 DEF LogTyped
<1>5. LogRead(L, s, p) => LogRead(L, s, q)
  BY <1>2, <1>3 DEF LogRead
<1>6. (\A k \in DOMAIN L : SoundLog(L[k])) => LogRead(L, s, q)
  BY <1>5 DEF LogInv
<1>7. LogTyped(L, s, q) <=> LogTyped(ToRead, logfile, phase)'
  BY <1>1 DEF LogTyped
<1>8. LogRead(L, s, q) <=> LogRead(ToRead, logfile, phase)'
  BY <1>1 DEF LogRead, InPages, Layered
<1>9. ((\A k \in DOMAIN ToRead : SoundLog(ToRead[k])) => LogRead(ToRead, logfile, phase))'
  BY <1>1, <1>6, <1>8
<1>10. job' \in Jobs
  BY DEF LogInv
<1> QED BY <1>4, <1>7, <1>9, <1>10 DEF LogInv

LEMMA InitLogInv == Init => LogInv
PROOF
<1> SUFFICES ASSUME Init PROVE LogInv
  OBVIOUS
<1>1. LogTyped(ToRead, logfile, phase) /\ job \in Jobs
  BY InitTyped DEF Init
<1>2. logfile.pc = "idle" /\ logfile.found = <<>> /\ logfile.buf = <<>>
  <2>1. PICK v : v = ""
    OBVIOUS
  <2>2. logfile = [pc |-> "idle", left |-> <<>>, buf |-> <<>>, size |-> 0, at |-> 0,
                   version |-> v, page |-> 0, found |-> <<>>]
    BY <2>1, Zenon DEF Init, LogFileInit
  <2> QED BY <2>2
<1>3. PICK L, s, p : L = ToRead /\ s = logfile /\ p = phase
  OBVIOUS
<1>4. LogRead(L, s, p)
  BY <1>2, <1>3, NothingRead
<1> QED BY <1>1, <1>3, <1>4 DEF LogInv

LEMMA NextLogInv == LogInv /\ [Next]_vars => LogInv'
PROOF
<1> SUFFICES ASSUME LogInv, [Next]_vars PROVE LogInv'
  OBVIOUS
<1> DEFINE Aside == /\ job' = job /\ logfile' = logfile
                    /\ logfile.pc \in {"next", "restart", "pages"} => phase' = phase
<1>1. Aside => LogInv'
  BY AsideLog
<1>2. logfile.pc \in {"next", "restart", "pages"} => phase \in {"logfile", "panic", "hang"}
  BY DEF LogInv, LogTyped
<1>3. CASE UNCHANGED vars
  BY <1>1, <1>3 DEF vars
<1>4. Start \/ First \/ Logs \/ Shadows \/ Unallocate \/ Again \/ Finish \/ Report => Aside
  BY <1>2 DEF Start, First, Logs, Shadows, Unallocate, Again, Finish, Report, BuildAndShow
<1>5. CASE /\ phase \in {"journal", "again"} /\ ProcessJrnl
           /\ UNCHANGED <<logfile, shadowVars, unallocatedVars, selectionVars, usnrecords>>
  BY <1>1, <1>2, <1>5, JournalStays
<1>6. CASE phase = "logfile" /\ ReadLogFile /\ UNCHANGED <<journalVars, shadowVars, unallocatedVars, selectionVars, usnrecords>>
  BY <1>6, LogFileKeepsInv
<1>7. CASE phase = "vss" /\ ReadShadow /\ UNCHANGED <<journalVars, logfile, unallocatedVars, selectionVars, usnrecords>>
  BY <1>1, <1>2, <1>7, ShadowQuiet
<1>8. CASE phase = "clusters" /\ ShowClusters /\ UNCHANGED <<journalVars, logfile, unallocatedVars, selectionVars, usnrecords>>
  BY <1>1, <1>2, <1>8, ShowQuiet
<1>9. CASE phase = "unallocated" /\ CollectUnallocated /\ UNCHANGED <<journalVars, logfile, shadowVars, selectionVars, usnrecords>>
  BY <1>1, <1>2, <1>9, UnallocatedQuiet
<1>10. CASE /\ phase = "loop" /\ \E p \in todo : Select(p)
            /\ UNCHANGED <<journalVars, logfile, shadowVars, unallocatedVars, usnrecords>>
  <2>1. job' = job
    BY <1>10 DEF Select
  <2> QED BY <1>1, <1>2, <1>10, <2>1
<1>11. CASE Ended
  BY <1>3, <1>11 DEF Ended
<1> HIDE DEF Aside
<1> QED BY <1>1, <1>3, <1>4, <1>5, <1>6, <1>7, <1>8, <1>9, <1>10, <1>11 DEF Next

(* Where a log is, and how long the buffer is.                             *)
LEMMA LogFileTyped == Spec => []LogFileTypeOK
PROOF
<1>1. LogInv => LogFileTypeOK
  <2> SUFFICES ASSUME LogInv PROVE LogFileTypeOK
    OBVIOUS
  <2> PICK L, s : L = ToRead /\ s = logfile
    OBVIOUS
  <2> DEFINE A == Seq(ToSet(L))
             B == Seq(LogCell)
             F == Seq(Seq(Nat))
  <2>1. s \in [pc : {"idle", "next", "restart", "pages", "done"}, left : A, buf : B, size : Nat,
               at : Nat, version : Versions, page : Nat, found : F]
    BY DEF LogInv, LogTyped
  <2>2. s.pc \in {"restart", "pages"} => s.size <= Len(s.buf) /\ s.at <= s.size + PageCells + 33 * s.page
    BY DEF LogInv, LogTyped
  <2> HIDE DEF A, B, F
  <2>3. s.pc \in {"idle", "next", "restart", "pages", "done"}
    BY <2>1
  <2> QED BY <2>2, <2>3 DEF LogFileTypeOK
<1> QED BY <1>1, InitLogInv, NextLogInv, PTL DEF Spec

(* When no log is left, main faces the last.                               *)
LEMMA NoneLeft ==
  ASSUME NEW l, l = <<>>, NEW d \in Nat, NEW e \in Nat, Len(l) + d = e
  PROVE  d = e
PROOF
<1>1. Len(l) = 0
  OBVIOUS
<1> QED BY <1>1

(* Of sound logs that are read main has, of each, one page of every buffer *)
(* area and a page, and it is the first log that overruns it ends at: the  *)
(* buffer has the pages of the logs before, layer over layer, and what is  *)
(* behind the end of a log is what an earlier one left there.              *)
THEOREM LogFileExactHolds == Spec => []LogFileExact
PROOF
<1>1. LogInv => LogFileExact
  <2> SUFFICES ASSUME LogInv, args.partition \in DOMAIN Partitions, logfile.pc # "idle" PROVE LogsExact
    BY DEF LogFileExact
  <2> DEFINE logs == LogFiles(args.partition)
             over == {k \in DOMAIN logs : Overruns(logs, k)}
  <2> SUFFICES ASSUME \A k \in DOMAIN logs : SoundLog(logs[k])
               PROVE  /\ \A k \in DOMAIN logfile.found : k # Len(logfile.found) \/ logfile.pc \in {"next", "done"} =>
                           logfile.found[k] = LogPagesOf(logs[k])
                      /\ logfile.pc = "done" => over = {} /\ Len(logfile.found) = Len(logs)
                      /\ phase \in {"panic", "hang"} /\ logfile.pc \notin {"idle", "done"} =>
                           phase = "panic" /\ over # {} /\ Len(logfile.found) = Min(over)
    BY DEF LogsExact
  <2>1. logs = ToRead
    BY DEF ToRead
  <2>2. PICK s, f, d, l : s = logfile /\ f = s.found /\ d = Len(f) /\ l = s.left
    OBVIOUS
  <2> PICK L, ph : L = logs /\ ph = phase
    OBVIOUS
  <2> HIDE DEF logs
  <2>3. LogTyped(L, s, ph) /\ LogRead(L, s, ph) /\ job \in Jobs
    BY <2>1, <2>2 DEF LogInv
  <2>4. L \in Seq(ToSet(L)) /\ f \in Seq(Seq(Nat)) /\ l \in Seq(ToSet(L))
    <3> DEFINE A == Seq(ToSet(L))
               B == Seq(LogCell)
               F == Seq(Seq(Nat))
    <3>1. s \in [pc : {"idle", "next", "restart", "pages", "done"}, left : A, buf : B, size : Nat,
                 at : Nat, version : Versions, page : Nat, found : F]
      BY <2>3 DEF LogTyped
    <3>2. L \in A
      BY <2>1, <2>3, ToReadTyped DEF LogList
    <3> HIDE DEF A, B, F
    <3>3. l \in A /\ f \in F
      BY <2>2, <3>1
    <3> QED BY <3>2, <3>3 DEF A, F
  <2>5. d \in Nat /\ DOMAIN f = 1 .. d /\ Len(l) \in Nat /\ Len(L) \in Nat /\ DOMAIN L = 1 .. Len(L)
    <3> DEFINE V == Seq(Nat)
    <3>1. f \in Seq(V)
      BY <2>4
    <3> HIDE DEF V
    <3> QED BY <2>2, <2>4, <3>1
  <2>6. Len(l) + d = Len(L)
    BY <2>2, <2>3 DEF LogTyped
  <2>7. \A k \in 1 .. d : k < d \/ s.pc \in {"next", "done"} => f[k] = LogPagesOf(L[k]) /\ ~Overruns(L, k)
    BY <2>2, <2>3 DEF LogRead
  <2>8. \A k \in DOMAIN f : k # d \/ s.pc \in {"next", "done"} => f[k] = LogPagesOf(L[k])
    <3> TAKE k \in DOMAIN f
    <3>1. k \in 1 .. d /\ (k # d => k < d)
      BY <2>5
    <3> QED BY <2>7, <3>1
  <2>9. s.pc = "done" => over = {} /\ d = Len(L)
    <3> SUFFICES ASSUME s.pc = "done" PROVE over = {} /\ d = Len(L)
      OBVIOUS
    <3>1. l = <<>>
      BY <2>2, <2>3 DEF LogTyped
    <3>2. d = Len(L)
      BY <2>5, <2>6, <3>1, NoneLeft, Zenon
    <3>3. \A k \in DOMAIN L : ~Overruns(L, k)
      BY <2>5, <2>7, <3>2
    <3> QED BY <3>2, <3>3
  <2>10. ph \in {"panic", "hang"} /\ s.pc \notin {"idle", "done"} => ph = "panic" /\ over # {} /\ d = Min(over)
    <3> SUFFICES ASSUME ph \in {"panic", "hang"}, s.pc \notin {"idle", "done"} PROVE ph = "panic" /\ over # {} /\ d = Min(over)
      OBVIOUS
    <3>1. ph = "panic" /\ s.pc = "pages" /\ Overruns(L, d)
      BY <2>2, <2>3 DEF LogRead
    <3>2. d >= 1
      <4>1. f # <<>>
        BY <2>2, <2>3, <3>1 DEF LogTyped
      <4> DEFINE V == Seq(Nat)
      <4>2. f \in Seq(V)
        BY <2>4
      <4> HIDE DEF V, over
      <4> QED BY <2>2, <4>1, <4>2
    <3>3. d \in over
      BY <2>5, <2>6, <3>1, <3>2
    <3>4. \A k \in over : k \in Nat /\ d <= k
      <4> TAKE k \in over
      <4>1. k \in 1 .. Len(L) /\ Overruns(L, k)
        BY <2>5
      <4>2. ~(k < d)
        <5>1. k < d => k \in 1 .. d
          BY <2>5, <4>1
        <5> QED BY <2>7, <4>1, <5>1
      <4> QED BY <2>5, <4>1, <4>2
    <3>5. over \subseteq Nat
      BY <3>4
    <3> HIDE DEF over
    <3>6. Min(over) \in over /\ Min(over) <= d
      BY <3>3, <3>5, MinOf
    <3>7. d <= Min(over) /\ Min(over) \in Nat
      BY <3>4, <3>6
    <3>8. d = Min(over)
      BY <2>5, <3>6, <3>7
    <3> QED BY <3>1, <3>3, <3>8
  <2> HIDE DEF over
  <2> QED BY <2>2, <2>8, <2>9, <2>10
<1> QED BY <1>1, InitLogInv, NextLogInv, PTL DEF Spec
-----------------------------------------------------------------------------
(* The sectors of $Bitmap *)

BitmapRun == [rel : Int, len : Nat]

\* A volume with a run list of $Bitmap.
Listed(part) == part.offset \in Nat /\ part.bitmap \in Seq(BitmapRun)

\* Run n: its length, how far it is from the one before, and where it begins.
RunLen(part, n) == part.bitmap[n].len
RunRel(part, n) == part.bitmap[n].rel
Lcn(part, n)    == Sums([k \in DOMAIN part.bitmap |-> part.bitmap[k].rel])[n]

\* Runs side by side.
Adjoins(part, k)     == RunRel(part, k) # 0 /\ RunRel(part, k) = RunLen(part, k - 1) /\ RunRel(part, k - 1) # 0
Together(part, m, n) == \A k \in m + 1 .. n : Adjoins(part, k)

\* A run that cannot be read, and the runs that are lost by such a one.
Off(part, limit, n) ==
  RunRel(part, n) # 0 /\ RunLen(part, n) > 0 /\ (Lcn(part, n) < 0 \/ Refused(part.offset + Lcn(part, n) + RunLen(part, n), limit))
LostBy(part, limit, n, k) ==
  \/ Off(part, limit, k) /\ (k <= n \/ Together(part, n, k))
  \/ k > 1 /\ Lcn(part, k) < 0 /\ (k <= n \/ Together(part, n, k - 1))
Lost(part, limit, n) == \E k \in 1 .. Len(part.bitmap) : LostBy(part, limit, n, k)

\* What the disk has of a run, and what is read of it.
OnDisk(part, n)     == IF RunRel(part, n) = 0 THEN NoSectors(RunLen(part, n))
                       ELSE SectorsFrom(part.offset + Lcn(part, n), RunLen(part, n))
Read(part, limit, n) == IF Lost(part, limit, n) THEN NoSectors(RunLen(part, n)) ELSE OnDisk(part, n)

\* The states of the loop over the runs.
Gotten == [to : Int, begun : BOOLEAN, at : Int, size : Nat, data : Seq(Int), failed : BOOLEAN]

\* The sectors of runs, by how many runs there are.
Contents(part, g) ==
  /\ g \in [0 .. Len(part.bitmap) -> Seq(Int)] /\ g[0] = <<>>
  /\ \A n \in 1 .. Len(part.bitmap) : g[n] = g[n - 1] \o OnDisk(part, n)

\* The first m runs can be read, and of the first n none but the first begins before the volume.
Untouched(part, limit, n, m) ==
  /\ \A k \in 1 .. m : ~Off(part, limit, k)
  /\ \A k \in 2 .. n : Lcn(part, k) >= 0

\* The runs behind m are side by side, or there is none and the next will not join run n.
Waiting(part, n, m) ==
  \/ m < n /\ Together(part, m + 1, n) /\ (m > 0 => ~Adjoins(part, m + 1))
  \/ m = n /\ (RunRel(part, n) # 0 => RunLen(part, n) = 0 /\ (n > 1 => ~Adjoins(part, n)))

\* They begin at this cluster and are that long together.
Pending(part, g, n, m, at, len) ==
  /\ m < n /\ at = Lcn(part, m + 1) /\ at + len = Lcn(part, n) + RunLen(part, n) /\ RunLen(part, m + 1) > 0
  /\ \A k \in m + 1 .. n : RunRel(part, k) # 0 /\ at <= Lcn(part, k) /\ Lcn(part, k) + RunLen(part, k) <= at + len
  /\ g[n] = g[m] \o SectorsFrom(part.offset + at, len)

\* After n runs the sectors of m are there, and those of the others wait.
Waits(part, limit, g, s, n, m) ==
  /\ m \in 0 .. n /\ s.data = g[m] /\ ~s.failed /\ s.to = Lcn(part, n) /\ (s.begun <=> n > 0)
  /\ Untouched(part, limit, n, m)
  /\ n > 0 => Waiting(part, n, m)
  /\ s.size = 0 => m = n
  /\ s.size # 0 => Pending(part, g, n, m, s.at, s.size)

\* What waited is there.
Whole(g, s, t, n) == ~t.failed /\ t.data = g[n] /\ t.size = 0 /\ t.to = s.to /\ t.begun = s.begun

\* The runs after m are lost and no others, but for those in which there is nothing to lose.
Cut(part, limit, m) ==
  \A k \in 1 .. Len(part.bitmap) : RunRel(part, k) = 0 \/ RunLen(part, k) = 0 \/ (Lost(part, limit, k) <=> k > m)

\* It has failed, with the sectors of m runs.
Stopped(part, limit, g, s, m) == s.failed /\ m \in 0 .. Len(part.bitmap) /\ s.data = g[m] /\ Cut(part, limit, m)

(* Where the runs lie.                                                     *)
LEMMA RunsLie ==
  ASSUME NEW part, Listed(part)
  PROVE  /\ Len(part.bitmap) \in Nat /\ part.offset \in Nat
         /\ \A n \in 1 .. Len(part.bitmap) : RunRel(part, n) \in Int /\ RunLen(part, n) \in Nat
         /\ \A n \in 0 .. Len(part.bitmap) : Lcn(part, n) \in Int
         /\ Lcn(part, 0) = 0
         /\ \A n \in 1 .. Len(part.bitmap) : Lcn(part, n) = Lcn(part, n - 1) + RunRel(part, n)
PROOF
<1>1. PICK R \in Seq(BitmapRun) : R = part.bitmap
  BY DEF Listed
<1> DEFINE rels == [k \in DOMAIN R |-> R[k].rel]
<1>2. Len(R) \in Nat /\ DOMAIN R = 1 .. Len(R) /\ \A n \in 1 .. Len(R) : R[n].rel \in Int /\ R[n].len \in Nat
  <2>1. Len(R) \in Nat /\ DOMAIN R = 1 .. Len(R) /\ \A n \in 1 .. Len(R) : R[n] \in BitmapRun
    BY LenProperties, ElementOfSeq
  <2> QED BY <2>1 DEF BitmapRun
<1>3. rels \in Seq(Int) /\ Len(rels) = Len(R) /\ \A n \in 1 .. Len(R) : rels[n] = R[n].rel
  BY <1>2
<1>4. \A n : Lcn(part, n) = Sums(rels)[n]
  BY <1>1 DEF Lcn
<1>5. \A n : RunRel(part, n) = R[n].rel /\ RunLen(part, n) = R[n].len
  BY <1>1 DEF RunRel, RunLen
<1> HIDE DEF rels
<1>6. /\ Sums(rels)[0] = 0 /\ \A k \in 0 .. Len(rels) : Sums(rels)[k] \in Int
      /\ \A k \in 1 .. Len(rels) : Sums(rels)[k] = Sums(rels)[k - 1] + rels[k]
  BY <1>3, SumsAre
<1>7. Len(R) = Len(part.bitmap) /\ part.offset \in Nat
  BY <1>1 DEF Listed
<1>8. \A n \in 0 .. Len(R) : Lcn(part, n) \in Int
  BY <1>3, <1>4, <1>6
<1>9. ASSUME NEW n \in 1 .. Len(R) PROVE Lcn(part, n) = Lcn(part, n - 1) + RunRel(part, n)
  <2>1. Sums(rels)[n] = Sums(rels)[n - 1] + rels[n] /\ rels[n] = R[n].rel
    BY <1>3, <1>6
  <2> QED BY <1>4, <1>5, <2>1
<1>10. \A n \in 1 .. Len(R) : RunRel(part, n) \in Int /\ RunLen(part, n) \in Nat
  BY <1>2, <1>5
<1> HIDE DEF Listed
<1> QED BY <1>2, <1>4, <1>6, <1>7, <1>8, <1>9, <1>10

(* Sectors one after the other.                                            *)
LEMMA SectorsType ==
  /\ \A s \in Int : \A n \in Nat : SectorsFrom(s, n) \in Seq(Int) /\ Len(SectorsFrom(s, n)) = n
  /\ \A n \in Nat : NoSectors(n) \in Seq(Int) /\ Len(NoSectors(n)) = n
  /\ \A s \in Int : SectorsFrom(s, 0) = <<>> /\ NoSectors(0) = <<>>
PROOF
<1>1. ASSUME NEW s \in Int, NEW n \in Nat PROVE SectorsFrom(s, n) \in Seq(Int) /\ Len(SectorsFrom(s, n)) = n
  BY DEF SectorsFrom
<1>2. ASSUME NEW n \in Nat PROVE NoSectors(n) \in Seq(Int) /\ Len(NoSectors(n)) = n
  BY DEF NoSectors
<1>3. \A t \in Seq(Int) : Len(t) = 0 => t = <<>>
  BY EmptySeq
<1> QED BY <1>1, <1>2, <1>3

(* Runs side by side end where the next one begins.                      *)
LEMMA SidesAre ==
  ASSUME NEW S, NEW a \in Seq(S), NEW b \in Seq(S), NEW c \in Seq(S), Len(c) = Len(a) + Len(b),
         \A i \in 1 .. Len(a) : c[i] = a[i], \A i \in 1 .. Len(b) : c[Len(a) + i] = b[i]
  PROVE  a \o b = c
PROOF
<1>1. PICK d \in Seq(S) : d = a \o b
  <2>1. a \o b \in Seq(S)
    BY ConcatProperties
  <2> QED BY <2>1
<1>2. Len(d) = Len(a) + Len(b) /\ Len(a) \in Nat /\ Len(b) \in Nat
  BY <1>1
<1>3. ASSUME NEW i \in 1 .. Len(c) PROVE d[i] = c[i]
  <2>1. CASE i <= Len(a)
    BY <1>1, <1>2, <1>3, <2>1
  <2>2. CASE i > Len(a)
    <3>1. PICK j \in 1 .. Len(b) : i = Len(a) + j
      <4>1. i - Len(a) \in 1 .. Len(b) /\ i = Len(a) + (i - Len(a))
        BY <1>2, <2>2
      <4> QED BY <4>1
    <3>2. d[i] = b[j]
      BY <1>1, <1>2, <2>2, <3>1
    <3> QED BY <3>1, <3>2
  <2> QED BY <1>2, <2>1, <2>2
<1>4. d = c
  BY <1>2, <1>3, SeqEqual
<1> QED BY <1>1, <1>4

(* They go on where they end.                                            *)
LEMMA SectorsGoOn ==
  ASSUME NEW s \in Int, NEW m \in Nat, NEW n \in Nat
  PROVE  /\ SectorsFrom(s, m) \o SectorsFrom(s + m, n) = SectorsFrom(s, m + n)
         /\ NoSectors(m) \o NoSectors(n) = NoSectors(m + n)
PROOF
<1> DEFINE a == SectorsFrom(s, m)
           b == SectorsFrom(s + m, n)
           c == SectorsFrom(s, m + n)
<1>1. /\ a \in Seq(Int) /\ Len(a) = m /\ b \in Seq(Int) /\ Len(b) = n /\ c \in Seq(Int) /\ Len(c) = m + n
      /\ \A i \in 1 .. m : a[i] = s + i - 1
      /\ \A i \in 1 .. n : b[i] = s + m + i - 1
      /\ \A i \in 1 .. m + n : c[i] = s + i - 1
  BY SectorsType DEF SectorsFrom
<1> HIDE DEF a, b, c
<1>2. a \o b = c
  <2>1. /\ Len(c) = Len(a) + Len(b)
        /\ \A i \in 1 .. Len(a) : c[i] = a[i]
        /\ \A i \in 1 .. Len(b) : c[Len(a) + i] = b[i]
    BY <1>1
  <2> QED BY <1>1, <2>1, SidesAre
<1> DEFINE d == NoSectors(m)
           e == NoSectors(n)
           f == NoSectors(m + n)
<1>3. /\ d \in Seq(Int) /\ Len(d) = m /\ e \in Seq(Int) /\ Len(e) = n /\ f \in Seq(Int) /\ Len(f) = m + n
      /\ \A i \in 1 .. m : d[i] = -1
      /\ \A i \in 1 .. n : e[i] = -1
      /\ \A i \in 1 .. m + n : f[i] = -1
  BY SectorsType DEF NoSectors
<1> HIDE DEF d, e, f
<1>4. d \o e = f
  <2>1. /\ Len(f) = Len(d) + Len(e)
        /\ \A i \in 1 .. Len(d) : f[i] = d[i]
        /\ \A i \in 1 .. Len(e) : f[Len(d) + i] = e[i]
    BY <1>3
  <2> QED BY <1>3, <2>1, SidesAre
<1> QED BY <1>2, <1>4 DEF a, b, c, d, e, f

(* What waits is read, or is not.                                          *)
Flushed(part, limit, s, t) ==
  /\ s.failed \/ s.size = 0 => t = s
  /\ ~s.failed /\ s.size # 0 /\ (s.at < 0 \/ Refused(part.offset + s.at + s.size, limit)) => t.failed /\ t.data = s.data
  /\ ~s.failed /\ s.size # 0 /\ ~(s.at < 0 \/ Refused(part.offset + s.at + s.size, limit)) =>
       /\ ~t.failed /\ t.data = s.data \o SectorsFrom(part.offset + s.at, s.size)
       /\ t.size = 0 /\ t.to = s.to /\ t.begun = s.begun

(* What waits is read, or cannot be.                                     *)
LEMMA FlushIs ==
  ASSUME NEW part, Listed(part), NEW limit \in Int, NEW s \in Gotten, NEW t, t = FlushPending(part, limit, 1, s)
  PROVE  t \in Gotten /\ Flushed(part, limit, s, t)
PROOF
<1> DEFINE A == Seq(Int)
<1>1. PICK to, at, sz, secs : s.to = to /\ s.at = at /\ s.size = sz /\ s.data = secs
  OBVIOUS
<1>2. to \in Int /\ at \in Int /\ sz \in Nat /\ secs \in Seq(Int) /\ s.begun \in BOOLEAN /\ s.failed \in BOOLEAN
  BY <1>1 DEF Gotten
<1>3. PICK off \in Nat : off = part.offset
  BY DEF Listed
<1>4. at * 1 = at /\ off + at \in Int
  BY <1>2
<1>5. s \in [to : Int, begun : BOOLEAN, at : Int, size : Nat, data : A, failed : BOOLEAN]
  BY DEF Gotten
<1>6. CASE s.failed \/ sz = 0
  <2>1. t = s
    BY <1>1, <1>6 DEF FlushPending
  <2> QED BY <1>1, <1>6, <2>1 DEF Flushed
<1>7. CASE ~s.failed /\ sz # 0 /\ (at < 0 \/ Refused(off + at + sz, limit))
  <2>1. t = [s EXCEPT !.failed = TRUE]
    <3>1. ~(s.failed \/ s.size = 0) /\ (s.at < 0 \/ Refused(part.offset + s.at * 1 + s.size, limit))
      BY <1>1, <1>3, <1>4, <1>7
    <3> QED BY <3>1 DEF FlushPending
  <2>2. t \in [to : Int, begun : BOOLEAN, at : Int, size : Nat, data : A, failed : BOOLEAN] /\ t.failed /\ t.data = s.data
    <3> HIDE DEF A
    <3> QED BY <1>5, <2>1
  <2> QED BY <1>1, <1>3, <1>7, <2>2 DEF Gotten, Flushed
<1>8. CASE ~s.failed /\ sz # 0 /\ ~(at < 0 \/ Refused(off + at + sz, limit))
  <2>1. PICK more \in Seq(Int) : more = SectorsFrom(off + at, sz)
    BY <1>2, <1>4, SectorsType
  <2>2. PICK all : all = secs \o more
    OBVIOUS
  <2>3. all \in A
    BY <1>2, <2>1, <2>2
  <2>4. t = [s EXCEPT !.data = all, !.size = 0]
    <3>1. ~(s.failed \/ s.size = 0) /\ ~(s.at < 0 \/ Refused(part.offset + s.at * 1 + s.size, limit))
      BY <1>1, <1>3, <1>4, <1>8
    <3>2. SectorsFrom(part.offset + s.at * 1, s.size) = more /\ s.data \o more = all
      BY <1>1, <1>3, <1>4, <2>1, <2>2
    <3> QED BY <3>1, <3>2 DEF FlushPending
  <2>5. /\ t \in [to : Int, begun : BOOLEAN, at : Int, size : Nat, data : A, failed : BOOLEAN]
        /\ t.data = all /\ t.size = 0 /\ t.to = s.to
    <3> HIDE DEF A
    <3>1. PICK u : u = [s EXCEPT !.data = all]
      OBVIOUS
    <3>2. u \in [to : Int, begun : BOOLEAN, at : Int, size : Nat, data : A, failed : BOOLEAN] /\ u.data = all /\ u.to = s.to
      BY <1>5, <2>3, <3>1
    <3>3. t = [u EXCEPT !.size = 0]
      BY <2>4, <3>1
    <3> QED BY <3>2, <3>3
  <2>6. t.data = s.data \o SectorsFrom(part.offset + s.at, s.size)
    BY <1>1, <1>3, <2>1, <2>2, <2>5
  <2>7. t.begun = s.begun /\ t.failed = s.failed
    BY <1>5, <2>4, Zenon
  <2>8. t \in Gotten /\ ~t.failed
    BY <1>8, <2>5, <2>7 DEF Gotten
  <2> QED BY <1>1, <1>3, <1>8, <2>5, <2>6, <2>7, <2>8 DEF Flushed
<1> QED BY <1>1, <1>2, <1>3, <1>6, <1>7, <1>8 DEF Flushed

(* One run.                                                                *)
Joins(s, run) == run.rel # 0 /\ s.size # 0 /\ s.to + run.rel = s.at + s.size

Stretched(s, run, f, t) ==
  /\ s.failed \/ (s.begun /\ s.to + run.rel < 0) => t.failed /\ t.data = s.data
  /\ ~(s.failed \/ (s.begun /\ s.to + run.rel < 0)) =>
       /\ Joins(s, run) => ~t.failed /\ t.data = s.data /\ t.at = s.at /\ t.size = s.size + run.len
       /\ ~Joins(s, run) /\ f.failed => t.failed /\ t.data = f.data
       /\ ~Joins(s, run) /\ ~f.failed =>
            /\ run.rel = 0 => t.data = f.data \o NoSectors(run.len) /\ t.size = f.size
            /\ run.rel # 0 => t.data = f.data /\ t.size = run.len /\ t.at = t.to
       /\ ~t.failed => t.to = s.to + run.rel /\ t.begun
       /\ ~t.failed <=> Joins(s, run) \/ ~f.failed

(* The next run joins what waits, or what waits is read before it.       *)
LEMMA GetRunIs ==
  ASSUME NEW part, Listed(part), NEW limit \in Int, NEW s \in Gotten, NEW run \in BitmapRun,
         NEW f, f = FlushPending(part, limit, 1, s), NEW t, t = GetRun(part, limit, 1, s, run)
  PROVE  t \in Gotten /\ Stretched(s, run, f, t)
PROOF
<1> DEFINE A == Seq(Int)
           G == [to : Int, begun : BOOLEAN, at : Int, size : Nat, data : A, failed : BOOLEAN]
<1>1. PICK to, at, sz, secs, rel, len, start :
        /\ s.to = to /\ s.at = at /\ s.size = sz /\ s.data = secs /\ run.rel = rel /\ run.len = len /\ start = to + rel
  OBVIOUS
<1>2. /\ to \in Int /\ at \in Int /\ sz \in Nat /\ secs \in Seq(Int) /\ s.begun \in BOOLEAN /\ s.failed \in BOOLEAN
      /\ rel \in Int /\ len \in Nat
  BY <1>1 DEF Gotten, BitmapRun
<1>3. len * 1 = len /\ sz \div 1 = sz /\ start \in Int
  BY <1>1, <1>2
<1>4. s \in G /\ f \in G
  <2>1. f \in Gotten
    BY FlushIs
  <2> QED BY <2>1 DEF Gotten
<1> DEFINE ends == s.failed \/ (s.begun /\ start < 0)
           joins == rel # 0 /\ sz # 0 /\ start = at + sz
<1>5. (ends <=> s.failed \/ (s.begun /\ s.to + run.rel < 0)) /\ (joins <=> Joins(s, run))
  BY <1>1 DEF Joins
<1>6. t = IF ends THEN [s EXCEPT !.failed = TRUE]
          ELSE IF joins THEN [s EXCEPT !.size = sz + len, !.to = start, !.begun = TRUE]
          ELSE IF f.failed THEN f
          ELSE IF rel = 0 THEN [f EXCEPT !.data = @ \o NoSectors(len), !.to = start, !.begun = TRUE]
          ELSE [f EXCEPT !.at = start, !.size = len, !.to = start, !.begun = TRUE]
  <2>1. run.len * 1 = len /\ s.size \div 1 = sz /\ s.to + run.rel = start
    BY <1>1, <1>3
  <2>2. s.size + run.len * 1 = sz + len
    BY <1>1, <1>3
  <2> HIDE DEF ends
  <2>3. t = IF s.failed \/ (s.begun /\ s.to + run.rel < 0) THEN [s EXCEPT !.failed = TRUE]
          ELSE IF run.rel # 0 /\ s.size # 0 /\ s.to + run.rel = s.at + s.size \div 1
          THEN [s EXCEPT !.size = s.size + run.len * 1, !.to = s.to + run.rel, !.begun = TRUE]
          ELSE IF f.failed THEN f
          ELSE IF run.rel = 0 THEN [f EXCEPT !.data = f.data \o NoSectors(run.len * 1), !.to = s.to + run.rel, !.begun = TRUE]
          ELSE [f EXCEPT !.at = s.to + run.rel, !.size = run.len * 1, !.to = s.to + run.rel, !.begun = TRUE]
    BY Zenon DEF GetRun
  <2> QED BY <1>1, <1>5, <2>1, <2>2, <2>3, Zenon
<1> HIDE DEF ends, joins
<1>7. CASE ends
  <2>1. t = [s EXCEPT !.failed = TRUE]
    BY <1>6, <1>7
  <2>2. t \in G /\ t.failed /\ t.data = s.data
    <3> HIDE DEF A
    <3> QED BY <1>4, <2>1
  <2> QED BY <1>5, <1>7, <2>2 DEF Gotten, Stretched
<1>8. CASE ~ends /\ joins
  <2>1. sz + len \in Nat
    BY <1>2
  <2>2. PICK u : u = [s EXCEPT !.size = sz + len]
    OBVIOUS
  <2>3. PICK v : v = [u EXCEPT !.to = start]
    OBVIOUS
  <2>4. t = [v EXCEPT !.begun = TRUE]
    BY <1>6, <1>8, <2>2, <2>3
  <2>5. u \in G /\ u.size = sz + len /\ u.data = s.data /\ u.at = s.at
    <3> HIDE DEF A
    <3> QED BY <1>4, <2>1, <2>2
  <2>6. v \in G /\ v.size = sz + len /\ v.data = s.data /\ v.at = s.at /\ v.to = start
    <3> HIDE DEF A
    <3> QED BY <1>3, <2>5, <2>3
  <2>7. t \in G /\ t.size = sz + len /\ t.data = s.data /\ t.at = s.at /\ t.to = start /\ t.begun
    <3> HIDE DEF A
    <3> QED BY <2>4, <2>6
  <2>8. t.failed = s.failed
    <3>1. u.failed = s.failed
      BY <1>4, <2>2, Zenon
    <3>2. v.failed = u.failed
      BY <2>3, <2>5, Zenon
    <3>3. t.failed = v.failed
      BY <2>4, <2>6, Zenon
    <3> QED BY <3>1, <3>2, <3>3
  <2>9. ~s.failed
    BY <1>8 DEF ends
  <2>10. ~t.failed
    BY <2>8, <2>9
  <2> QED BY <1>1, <1>5, <1>8, <2>7, <2>10 DEF Gotten, Stretched
<1>9. CASE ~ends /\ ~joins /\ f.failed
  <2>1. t = f
    BY <1>6, <1>9
  <2> QED BY <1>4, <1>5, <1>9, <2>1 DEF Gotten, Stretched
<1>10. CASE ~ends /\ ~joins /\ ~f.failed /\ rel = 0
  <2>1. PICK all : all = f.data \o NoSectors(len)
    OBVIOUS
  <2>2. all \in A
    <3>1. f.data \in Seq(Int) /\ NoSectors(len) \in Seq(Int)
      BY <1>2, <1>4, SectorsType
    <3> QED BY <2>1, <3>1
  <2>3. PICK u : u = [f EXCEPT !.data = all]
    OBVIOUS
  <2>4. PICK v : v = [u EXCEPT !.to = start]
    OBVIOUS
  <2>5. t = [v EXCEPT !.begun = TRUE]
    BY <1>6, <1>10, <2>1, <2>3, <2>4
  <2>6. u \in G /\ u.size = f.size /\ u.data = all
    <3> HIDE DEF A
    <3> QED BY <1>4, <2>2, <2>3
  <2>7. v \in G /\ v.size = f.size /\ v.data = all /\ v.to = start
    <3> HIDE DEF A
    <3> QED BY <1>3, <2>4, <2>6
  <2>8. t \in G /\ t.size = f.size /\ t.data = all /\ t.to = start /\ t.begun
    <3> HIDE DEF A
    <3> QED BY <2>5, <2>7
  <2>9. t.failed = f.failed
    <3>1. u.failed = f.failed
      BY <1>4, <2>3, Zenon
    <3>2. v.failed = u.failed
      BY <2>4, <2>6, Zenon
    <3>3. t.failed = v.failed
      BY <2>5, <2>7, Zenon
    <3> QED BY <3>1, <3>2, <3>3
  <2>10. ~t.failed
    BY <1>10, <2>9
  <2> QED BY <1>1, <1>5, <1>10, <2>1, <2>8, <2>10 DEF Gotten, Stretched
<1>11. CASE ~ends /\ ~joins /\ ~f.failed /\ rel # 0
  <2>1. PICK u : u = [f EXCEPT !.at = start]
    OBVIOUS
  <2>2. PICK w : w = [u EXCEPT !.size = len]
    OBVIOUS
  <2>3. PICK v : v = [w EXCEPT !.to = start]
    OBVIOUS
  <2>4. t = [v EXCEPT !.begun = TRUE]
    BY <1>6, <1>11, <2>1, <2>2, <2>3
  <2>5. u \in G /\ u.data = f.data /\ u.at = start
    <3> HIDE DEF A
    <3> QED BY <1>3, <1>4, <2>1
  <2>6. w \in G /\ w.data = f.data /\ w.at = start /\ w.size = len
    <3> HIDE DEF A
    <3> QED BY <1>2, <2>2, <2>5
  <2>7. v \in G /\ v.data = f.data /\ v.at = start /\ v.size = len /\ v.to = start
    <3> HIDE DEF A
    <3> QED BY <1>3, <2>3, <2>6
  <2>8. t \in G /\ t.data = f.data /\ t.at = start /\ t.size = len /\ t.to = start /\ t.begun
    <3> HIDE DEF A
    <3> QED BY <2>4, <2>7
  <2>9. t.failed = f.failed
    <3>1. u.failed = f.failed
      BY <1>4, <2>1, Zenon
    <3>2. w.failed = u.failed
      BY <2>2, <2>5, Zenon
    <3>3. v.failed = w.failed
      BY <2>3, <2>6, Zenon
    <3>4. t.failed = v.failed
      BY <2>4, <2>7, Zenon
    <3> QED BY <3>1, <3>2, <3>3, <3>4
  <2>10. ~t.failed
    BY <1>11, <2>9
  <2> QED BY <1>1, <1>5, <1>11, <2>8, <2>10 DEF Gotten, Stretched
<1> QED BY <1>7, <1>8, <1>9, <1>10, <1>11 DEF Stretched

(* What is behind a run that cannot be read is lost, and so is what it is to be read with.  *)
LEMMA CutByOff ==
  ASSUME NEW part, Listed(part), NEW limit \in Int, NEW n \in 1 .. Len(part.bitmap), NEW m \in 0 .. n - 1,
         Untouched(part, limit, n, m), Together(part, m + 1, n), m > 0 => ~Adjoins(part, m + 1),
         NEW b \in m + 1 .. n, Off(part, limit, b)
  PROVE  Cut(part, limit, m)
PROOF
<1> DEFINE N == Len(part.bitmap)
<1>1. N \in Nat /\ n \in Nat /\ m \in Nat
  BY RunsLie
<1> HIDE DEF N
<1>2. n \in 1 .. N
  BY DEF N
<1>3. ASSUME NEW k \in 1 .. N, k > m PROVE Lost(part, limit, k)
  <2>1. b <= k \/ Together(part, k, b)
    <3>1. CASE k < b
      <4>1. \A j \in k + 1 .. b : j \in m + 1 + 1 .. n
        BY <1>1, <1>2, <1>3
      <4> QED BY <4>1 DEF Together
    <3> QED BY <1>1, <1>3, <3>1
  <2>2. b \in 1 .. N
    BY <1>1, <1>2
  <2> QED BY <2>1, <2>2 DEF Lost, LostBy, N
<1>4. ASSUME NEW k \in 1 .. N, k <= m, Lost(part, limit, k) PROVE FALSE
  <2>1. PICK j \in 1 .. N : LostBy(part, limit, k, j)
    BY <1>4 DEF Lost, N
  <2>2. CASE Off(part, limit, j) /\ (j <= k \/ Together(part, k, j))
    <3>1. j > m
      <4>1. j \in 1 .. m => ~Off(part, limit, j)
        BY DEF Untouched
      <4> QED BY <1>1, <2>2, <4>1
    <3>2. Together(part, k, j) /\ m + 1 \in k + 1 .. j
      BY <1>1, <1>4, <2>2, <3>1
    <3> QED BY <1>1, <1>4, <3>2 DEF Together
  <2>3. CASE j > 1 /\ Lcn(part, j) < 0 /\ (j <= k \/ Together(part, k, j - 1))
    <3>1. j > n
      <4>1. j \in 2 .. n => Lcn(part, j) >= 0
        BY DEF Untouched
      <4>2. Lcn(part, j) \in Int
        BY <1>1, RunsLie DEF N
      <4> QED BY <1>1, <2>3, <4>1, <4>2
    <3>2. Together(part, k, j - 1) /\ m + 1 \in k + 1 .. j - 1
      BY <1>1, <1>4, <2>3, <3>1
    <3> QED BY <1>1, <1>4, <3>2 DEF Together
  <2> QED BY <2>1, <2>2, <2>3 DEF LostBy
<1> QED BY <1>1, <1>3, <1>4 DEF Cut, N

(* Where the next run would begin before the volume, the runs that wait are lost.  *)
LEMMA CutByBefore ==
  ASSUME NEW part, Listed(part), NEW limit \in Int, NEW n \in 1 .. Len(part.bitmap) - 1, NEW m \in 0 .. n,
         Untouched(part, limit, n, m), Waiting(part, n, m), Lcn(part, n + 1) < 0
  PROVE  Cut(part, limit, m)
PROOF
<1> DEFINE N == Len(part.bitmap)
<1>1. N \in Nat /\ n \in Nat /\ m \in Nat
  BY RunsLie
<1> HIDE DEF N
<1>2. n \in 1 .. N - 1
  BY DEF N
<1>3. ASSUME NEW k \in 1 .. N, k > m PROVE Lost(part, limit, k)
  <2>1. n + 1 <= k \/ Together(part, k, (n + 1) - 1)
    <3>1. CASE k <= n
      <4>1. Together(part, m + 1, n)
        BY <1>1, <1>3, <3>1 DEF Waiting
      <4>2. \A j \in k + 1 .. (n + 1) - 1 : j \in m + 1 + 1 .. n
        BY <1>1, <1>2, <1>3
      <4> QED BY <4>1, <4>2 DEF Together
    <3> QED BY <1>1, <1>3, <3>1
  <2>2. n + 1 \in 1 .. N /\ n + 1 > 1
    BY <1>1, <1>2
  <2> QED BY <2>1, <2>2 DEF Lost, LostBy, N
<1>4. ASSUME NEW k \in 1 .. N, k <= m, Lost(part, limit, k) PROVE RunRel(part, k) = 0 \/ RunLen(part, k) = 0
  <2>1. PICK j \in 1 .. N : LostBy(part, limit, k, j)
    BY <1>4 DEF Lost, N
  <2>2. CASE Off(part, limit, j) /\ (j <= k \/ Together(part, k, j))
    <3>1. j > m
      <4>1. j \in 1 .. m => ~Off(part, limit, j)
        BY DEF Untouched
      <4> QED BY <1>1, <2>2, <4>1
    <3>2. Together(part, k, j) /\ m + 1 \in k + 1 .. j
      BY <1>1, <1>4, <2>2, <3>1
    <3>3. Adjoins(part, m + 1) /\ m > 0 /\ (m + 1) - 1 = m
      BY <1>1, <1>4, <3>2 DEF Together
    <3>4. m = n /\ (RunRel(part, n) # 0 => RunLen(part, n) = 0)
      BY <3>3 DEF Waiting
    <3> QED BY <3>3, <3>4 DEF Adjoins
  <2>3. CASE j > 1 /\ Lcn(part, j) < 0 /\ (j <= k \/ Together(part, k, j - 1))
    <3>1. j > n
      <4>1. j \in 2 .. n => Lcn(part, j) >= 0
        BY DEF Untouched
      <4>2. Lcn(part, j) \in Int
        BY <1>1, RunsLie DEF N
      <4> QED BY <1>1, <2>3, <4>1, <4>2
    <3>2. Together(part, k, j - 1)
      BY <1>1, <1>4, <2>3, <3>1
    <3>3. CASE m < n
      <4>1. m + 1 \in k + 1 .. j - 1 /\ m > 0
        BY <1>1, <1>4, <3>1, <3>3
      <4> QED BY <1>1, <3>2, <3>3, <4>1 DEF Together, Waiting
    <3>4. CASE m = n
      <4>1. RunRel(part, n) # 0 => RunLen(part, n) = 0 /\ (n > 1 => ~Adjoins(part, n))
        BY <1>1, <3>4 DEF Waiting
      <4>2. CASE k = n
        BY <4>1, <4>2
      <4>3. CASE k < n
        <5>1. n \in k + 1 .. j - 1 /\ n > 1
          BY <1>1, <3>1, <4>3
        <5>2. Adjoins(part, n)
          BY <3>2, <5>1 DEF Together
        <5> QED BY <4>1, <5>1, <5>2 DEF Adjoins
      <4> QED BY <1>1, <1>4, <3>4, <4>2, <4>3
    <3> QED BY <1>1, <3>3, <3>4
  <2> QED BY <2>1, <2>2, <2>3 DEF LostBy
<1> QED BY <1>1, <1>3, <1>4 DEF Cut, N

(* Where every run can be read, none is lost.                              *)
LEMMA CutByNone ==
  ASSUME NEW part, Listed(part), NEW limit \in Int, Untouched(part, limit, Len(part.bitmap), Len(part.bitmap))
  PROVE  Cut(part, limit, Len(part.bitmap))
PROOF
<1> DEFINE N == Len(part.bitmap)
<1>1. N \in Nat
  BY RunsLie
<1>2. ASSUME NEW k \in 1 .. N PROVE ~Lost(part, limit, k) /\ ~(k > N)
  <2>1. \A j \in 1 .. N : ~Off(part, limit, j)
    BY DEF Untouched
  <2>2. \A j \in 1 .. N : j > 1 => ~(Lcn(part, j) < 0)
    <3>1. \A j \in 1 .. N : Lcn(part, j) \in Int /\ (j > 1 => j \in 2 .. N)
      BY <1>1, RunsLie
    <3> QED BY <3>1 DEF Untouched
  <2> QED BY <1>1, <2>1, <2>2 DEF Lost, LostBy
<1> QED BY <1>2 DEF Cut

(* What waits is read, or it ends there.                                   *)
LEMMA FlushWaits ==
  ASSUME NEW part, Listed(part), NEW limit \in Int, NEW g, Contents(part, g), NEW s \in Gotten,
         NEW n \in 0 .. Len(part.bitmap), NEW m, Waits(part, limit, g, s, n, m),
         NEW t, t = FlushPending(part, limit, 1, s)
  PROVE  (Whole(g, s, t, n) /\ Untouched(part, limit, n, n)) \/ Stopped(part, limit, g, t, m)
PROOF
<1> DEFINE N == Len(part.bitmap)
<1>1. PICK off, at, sz : off = part.offset /\ at = s.at /\ sz = s.size
  OBVIOUS
<1>2. /\ N \in Nat /\ n \in 0 .. N /\ m \in 0 .. n /\ off \in Nat /\ at \in Int /\ sz \in Nat
      /\ \A k \in 1 .. N : RunRel(part, k) \in Int /\ RunLen(part, k) \in Nat /\ Lcn(part, k) \in Int
      /\ \A k \in 1 .. N : Lcn(part, k) = Lcn(part, k - 1) + RunRel(part, k)
  <2>1. at \in Int /\ sz \in Nat
    BY <1>1 DEF Gotten
  <2>2. m \in 0 .. n
    BY DEF Waits
  <2> QED BY <1>1, <2>1, <2>2, RunsLie
<1>3. Flushed(part, limit, s, t)
  BY FlushIs
<1> HIDE DEF N
<1>4. s.data = g[m] /\ ~s.failed /\ Untouched(part, limit, n, m) /\ (sz = 0 => m = n) /\ (sz # 0 => Pending(part, g, n, m, at, sz))
  BY <1>1 DEF Waits
<1>5. CASE sz = 0
  <2>1. t = s
    BY <1>1, <1>3, <1>5 DEF Flushed
  <2> QED BY <1>1, <1>4, <1>5, <2>1 DEF Whole
<1>6. CASE sz # 0 /\ (at < 0 \/ Refused(off + at + sz, limit))
  <2>1. t.failed /\ t.data = g[m]
    BY <1>1, <1>3, <1>4, <1>6 DEF Flushed
  <2>2. /\ m < n /\ at = Lcn(part, m + 1) /\ at + sz = Lcn(part, n) + RunLen(part, n) /\ RunLen(part, m + 1) > 0
        /\ \A k \in m + 1 .. n : RunRel(part, k) # 0
    BY <1>4, <1>6 DEF Pending
  <2>3. Together(part, m + 1, n) /\ (m > 0 => ~Adjoins(part, m + 1))
    BY <1>2, <2>2 DEF Waiting, Waits
  <2>4. \E b \in m + 1 .. n : Off(part, limit, b)
    <3>1. CASE at < 0
      <4>1. Off(part, limit, m + 1)
        BY <1>2, <2>2, <3>1 DEF Off
      <4> QED BY <1>2, <2>2, <4>1
    <3>2. CASE Refused(off + at + sz, limit) /\ RunLen(part, n) > 0
      <4>1. PICK a, l : a = Lcn(part, n) /\ l = RunLen(part, n)
        OBVIOUS
      <4>2. n \in 1 .. N /\ n \in m + 1 .. n
        BY <1>2, <2>2
      <4>3. a \in Int /\ l \in Nat /\ at + sz = a + l /\ RunRel(part, n) # 0 /\ l > 0
        BY <1>2, <2>2, <3>2, <4>1, <4>2
      <4>4. Refused(off + a + l, limit)
        <5>1. off + at + sz = off + a + l
          BY <1>2, <4>3
        <5> QED BY <3>2, <5>1
      <4>5. Off(part, limit, n)
        BY <1>1, <4>1, <4>3, <4>4 DEF Off
      <4> QED BY <4>2, <4>5
    <3>3. CASE Refused(off + at + sz, limit) /\ RunLen(part, n) = 0
      <4>1. n > m + 1
        BY <1>2, <2>2, <3>3
      <4>2. Adjoins(part, n)
        BY <1>2, <2>3, <4>1 DEF Together
      <4>3. RunRel(part, n) = RunLen(part, n - 1) /\ RunRel(part, n) # 0 /\ RunRel(part, n - 1) # 0
        BY <4>2 DEF Adjoins
      <4>4. n - 1 \in m + 1 .. n /\ n - 1 \in 1 .. N /\ n \in 1 .. N
        BY <1>2, <4>1
      <4>5. Lcn(part, n - 1) + RunLen(part, n - 1) = Lcn(part, n) /\ RunLen(part, n - 1) > 0
        BY <1>2, <4>3, <4>4
      <4>6. Refused(off + Lcn(part, n - 1) + RunLen(part, n - 1), limit)
        <5>1. PICK a, l : a = Lcn(part, n - 1) /\ l = RunLen(part, n - 1)
          OBVIOUS
        <5>2. a \in Int /\ l \in Nat
          BY <1>2, <4>4, <5>1
        <5>3. a + l = at + sz
          BY <1>2, <2>2, <3>3, <4>4, <4>5, <5>1
        <5>4. Refused(off + a + l, limit)
          BY <1>2, <3>3, <5>2, <5>3
        <5> QED BY <5>1, <5>4
      <4>7. Off(part, limit, n - 1)
        BY <1>1, <4>3, <4>5, <4>6 DEF Off
      <4> QED BY <4>4, <4>7
    <3>4. RunLen(part, n) \in Nat
      BY <1>2, <2>2
    <3> QED BY <1>6, <3>1, <3>2, <3>3, <3>4
  <2>5. PICK b \in m + 1 .. n : Off(part, limit, b)
    BY <2>4
  <2>6. n \in 1 .. N /\ m \in 0 .. n - 1
    BY <1>2, <2>2
  <2>7. Cut(part, limit, m)
    BY <1>4, <2>3, <2>5, <2>6, CutByOff DEF N
  <2>8. m \in 0 .. N
    BY <1>2
  <2> QED BY <2>1, <2>7, <2>8 DEF Stopped, N
<1>7. CASE sz # 0 /\ ~(at < 0 \/ Refused(off + at + sz, limit))
  <2>1. /\ ~t.failed /\ t.data = g[m] \o SectorsFrom(off + at, sz) /\ t.size = 0 /\ t.to = s.to /\ t.begun = s.begun
    BY <1>1, <1>3, <1>4, <1>7 DEF Flushed
  <2>2. /\ g[n] = g[m] \o SectorsFrom(off + at, sz)
        /\ \A k \in m + 1 .. n : at <= Lcn(part, k) /\ Lcn(part, k) + RunLen(part, k) <= at + sz
    BY <1>1, <1>4, <1>7 DEF Pending
  <2>3. Whole(g, s, t, n)
    BY <2>1, <2>2 DEF Whole
  <2>4. ASSUME NEW k \in 1 .. n PROVE ~Off(part, limit, k)
    <3>1. CASE k <= m
      BY <1>2, <1>4, <3>1 DEF Untouched
    <3>2. CASE k > m
      <4>1. k \in m + 1 .. n /\ k \in 1 .. N
        BY <1>2, <3>2
      <4>2. ~(Lcn(part, k) < 0 \/ Refused(off + Lcn(part, k) + RunLen(part, k), limit))
        <5>1. PICK a, l : a = Lcn(part, k) /\ l = RunLen(part, k)
          OBVIOUS
        <5>2. a \in Int /\ l \in Nat /\ at <= a /\ a + l <= at + sz
          BY <1>2, <2>2, <4>1, <5>1
        <5>3. ~(a < 0 \/ Refused(off + a + l, limit))
          <6>1. a >= 0 /\ off + a + l <= off + at + sz
            BY <1>2, <1>7, <5>2
          <6> QED BY <1>2, <1>7, <5>2, <6>1 DEF Refused
        <5> QED BY <5>1, <5>3
      <4> QED BY <1>1, <4>2 DEF Off
    <3> QED BY <1>2, <3>1, <3>2
  <2> QED BY <1>4, <2>3, <2>4 DEF Untouched
<1> QED BY <1>5, <1>6, <1>7

(* One more run is there or waits, or it ends with what was there.         *)
LEMMA RunWaits ==
  ASSUME NEW part, Listed(part), NEW limit \in Int, NEW g, Contents(part, g), NEW s \in Gotten,
         NEW n \in 0 .. Len(part.bitmap) - 1, NEW m, Waits(part, limit, g, s, n, m),
         NEW t, t = GetRun(part, limit, 1, s, part.bitmap[n + 1])
  PROVE  \E k \in Nat : Waits(part, limit, g, t, n + 1, k) \/ Stopped(part, limit, g, t, k)
PROOF
<1> DEFINE N == Len(part.bitmap)
<1>1. PICK off, at, sz, rel, len, a, b, c, d :
        /\ off = part.offset /\ at = s.at /\ sz = s.size /\ rel = RunRel(part, n + 1) /\ len = RunLen(part, n + 1)
        /\ a = Lcn(part, n) /\ b = Lcn(part, n + 1) /\ c = RunRel(part, n) /\ d = RunLen(part, n)
  OBVIOUS
<1>2. /\ N \in Nat /\ n \in 0 .. N - 1 /\ m \in 0 .. n /\ n + 1 \in 1 .. N /\ (n > 0 => n \in 1 .. N)
      /\ off \in Nat /\ at \in Int /\ sz \in Nat
      /\ rel \in Int /\ len \in Nat /\ a \in Int /\ b \in Int /\ b = a + rel /\ (n > 0 => c \in Int /\ d \in Nat)
  <2>1. at \in Int /\ sz \in Nat
    BY <1>1 DEF Gotten
  <2>2. m \in 0 .. n
    BY DEF Waits
  <2>3. N \in Nat /\ n \in 0 .. N - 1 /\ n + 1 \in 1 .. N /\ n \in 0 .. N /\ (n > 0 => n \in 1 .. N) /\ (n + 1) - 1 = n
    BY RunsLie
  <2>4. off \in Nat /\ rel \in Int /\ len \in Nat /\ a \in Int /\ b \in Int /\ b = a + rel
    BY <1>1, <2>3, RunsLie
  <2>5. n > 0 => c \in Int /\ d \in Nat
    BY <1>1, <2>3, RunsLie
  <2> QED BY <2>1, <2>2, <2>3, <2>4, <2>5
<1>3. PICK f : f = FlushPending(part, limit, 1, s)
  OBVIOUS
<1>4. PICK run \in BitmapRun : run = part.bitmap[n + 1] /\ run.rel = rel /\ run.len = len
  BY <1>1, <1>2, ElementOfSeq DEF Listed, RunRel, RunLen
<1>5. Stretched(s, run, f, t) /\ t \in Gotten /\ f \in Gotten
  BY <1>3, <1>4, GetRunIs, FlushIs
<1>6. (Whole(g, s, f, n) /\ Untouched(part, limit, n, n)) \/ Stopped(part, limit, g, f, m)
  BY <1>2, <1>3, FlushWaits
<1>7. /\ g[n + 1] = g[n] \o OnDisk(part, n + 1) /\ (n + 1) - 1 = n /\ n + 1 \in Nat /\ n \in Nat
      /\ g[m] \in Seq(Int) /\ g[n] \in Seq(Int)
  <2>1. g \in [0 .. N -> Seq(Int)] /\ \A k \in 1 .. N : g[k] = g[k - 1] \o OnDisk(part, k)
    BY DEF Contents
  <2> HIDE DEF N
  <2>2. g[n + 1] = g[(n + 1) - 1] \o OnDisk(part, n + 1)
    BY <1>2, <2>1
  <2>3. (n + 1) - 1 = n /\ n + 1 \in Nat /\ n \in Nat /\ m \in 0 .. N /\ n \in 0 .. N
    BY <1>2
  <2> QED BY <2>1, <2>2, <2>3
<1> HIDE DEF N
<1>8. /\ s.data = g[m] /\ ~s.failed /\ Untouched(part, limit, n, m) /\ (sz = 0 => m = n) /\ (sz # 0 => Pending(part, g, n, m, at, sz))
      /\ s.to = a /\ (n > 0 => Waiting(part, n, m)) /\ (s.begun <=> n > 0)
  BY <1>1 DEF Waits
<1>9. CASE n > 0 /\ b < 0
  <2>1. s.begun /\ s.to + run.rel < 0
    BY <1>2, <1>4, <1>8, <1>9
  <2>2. t.failed /\ t.data = g[m]
    BY <1>5, <1>8, <2>1 DEF Stretched
  <2>3. n \in 1 .. N - 1 /\ Lcn(part, n + 1) < 0 /\ m \in 0 .. N /\ m \in Nat
    BY <1>1, <1>2, <1>9
  <2>4. Cut(part, limit, m)
    BY <1>2, <1>8, <1>9, <2>3, CutByBefore DEF N
  <2> QED BY <2>2, <2>3, <2>4 DEF Stopped, N
<1>10. CASE ~(n > 0 /\ b < 0)
  <2>1. ~(s.failed \/ (s.begun /\ s.to + run.rel < 0))
    BY <1>2, <1>4, <1>8, <1>10
  <2>2. ASSUME NEW k \in 2 .. n + 1 PROVE Lcn(part, k) >= 0
    <3>1. CASE k = n + 1
      BY <1>1, <1>2, <1>10, <3>1
    <3>2. CASE k # n + 1
      <4>1. k \in 2 .. n
        BY <1>2, <3>2
      <4> QED BY <1>8, <4>1 DEF Untouched
    <3> QED BY <3>1, <3>2
  <2>3. Joins(s, run) <=> rel # 0 /\ sz # 0 /\ b = at + sz
    BY <1>1, <1>2, <1>4, <1>8 DEF Joins
  <2>4. CASE Joins(s, run)
    <3>1. /\ ~t.failed /\ t.data = g[m] /\ t.at = at /\ t.size = sz + len /\ t.to = b /\ t.begun
      <4>1. ~t.failed /\ t.data = s.data /\ t.at = s.at /\ t.size = s.size + run.len
        BY <1>5, <2>1, <2>4 DEF Stretched
      <4>2. t.to = s.to + run.rel /\ t.begun
        BY <1>5, <2>1, <2>4, <4>1 DEF Stretched
      <4> QED BY <1>1, <1>2, <1>4, <1>8, <4>1, <4>2
    <3>2. /\ m < n /\ at = Lcn(part, m + 1) /\ at + sz = a + d /\ RunLen(part, m + 1) > 0
          /\ \A k \in m + 1 .. n : RunRel(part, k) # 0 /\ at <= Lcn(part, k) /\ Lcn(part, k) + RunLen(part, k) <= at + sz
          /\ g[n] = g[m] \o SectorsFrom(off + at, sz)
      BY <1>1, <1>8, <2>3, <2>4 DEF Pending
    <3>3. n > 0 /\ c # 0
      <4>1. n \in m + 1 .. n /\ n > 0
        BY <1>2, <3>2
      <4> QED BY <1>1, <3>2, <4>1
    <3>4. Adjoins(part, n + 1)
      <4>1. rel # 0 /\ rel = d
        BY <1>2, <2>3, <2>4, <3>2, <3>3
      <4> QED BY <1>1, <1>7, <3>3, <4>1 DEF Adjoins
    <3>5. Together(part, m + 1, n) /\ (m > 0 => ~Adjoins(part, m + 1))
      BY <1>2, <1>8, <3>2, <3>3 DEF Waiting
    <3>6. Together(part, m + 1, n + 1)
      <4>1. ASSUME NEW k \in m + 1 + 1 .. n + 1 PROVE Adjoins(part, k)
        <5>1. k = n + 1 \/ k \in m + 1 + 1 .. n
          BY <1>2
        <5> QED BY <3>4, <3>5, <5>1 DEF Together
      <4> QED BY <4>1 DEF Together
    <3>7. Waiting(part, n + 1, m)
      <4>1. m < n + 1
        BY <1>2, <3>2
      <4> QED BY <3>5, <3>6, <4>1 DEF Waiting
    <3>8. Pending(part, g, n + 1, m, at, sz + len)
      <4>1. at + (sz + len) = b + len
        <5>1. b = at + sz
          BY <2>3, <2>4
        <5>2. at + (sz + len) = (at + sz) + len
          BY <1>2
        <5> QED BY <5>1, <5>2
      <4>2. ASSUME NEW k \in m + 1 .. n + 1
            PROVE  RunRel(part, k) # 0 /\ at <= Lcn(part, k) /\ Lcn(part, k) + RunLen(part, k) <= at + (sz + len)
        <5>1. CASE k = n + 1
          <6>1. rel # 0 /\ at <= b /\ b + len <= at + (sz + len)
            BY <1>2, <2>3, <2>4
          <6> QED BY <1>1, <5>1, <6>1
        <5>2. CASE k # n + 1
          <6>1. k \in m + 1 .. n /\ k \in 1 .. N
            BY <1>2, <5>2
          <6>2. PICK x, y : x = Lcn(part, k) /\ y = RunLen(part, k)
            OBVIOUS
          <6>3. x \in Int /\ y \in Nat
            BY <6>1, <6>2, RunsLie DEF N
          <6>4. RunRel(part, k) # 0 /\ at <= x /\ x + y <= at + sz
            BY <3>2, <6>1, <6>2
          <6> QED BY <1>2, <6>2, <6>3, <6>4
        <5> QED BY <5>1, <5>2
      <4>3. g[n + 1] = g[m] \o SectorsFrom(off + at, sz + len)
        <5>1. OnDisk(part, n + 1) = SectorsFrom(off + at + sz, len)
          <6>1. off + b = off + at + sz
            BY <1>2, <2>3, <2>4
          <6> QED BY <1>1, <2>3, <2>4, <6>1 DEF OnDisk
        <5>2. PICK x, y : x = SectorsFrom(off + at, sz) /\ y = SectorsFrom(off + at + sz, len)
          OBVIOUS
        <5>3. x \in Seq(Int) /\ y \in Seq(Int) /\ x \o y = SectorsFrom(off + at, sz + len)
          <6>1. off + at \in Int /\ off + at + sz \in Int
            BY <1>2
          <6>2. sz \in Nat /\ len \in Nat
            BY <1>2
          <6>3. x \in Seq(Int) /\ y \in Seq(Int)
            BY <5>2, <6>1, <6>2, SectorsType
          <6>4. SectorsFrom(off + at, sz) \o SectorsFrom(off + at + sz, len) = SectorsFrom(off + at, sz + len)
            BY <6>1, <6>2, SectorsGoOn, Zenon
          <6> QED BY <5>2, <6>3, <6>4
        <5>4. (g[m] \o x) \o y = g[m] \o (x \o y)
          <6>1. Associates(g[m], x, y)
            BY <1>7, <5>3, Associative
          <6> QED BY <6>1 DEF Associates
        <5> QED BY <1>7, <3>2, <5>1, <5>2, <5>3, <5>4
      <4>4. m < n + 1
        BY <1>2
      <4> QED BY <1>1, <3>2, <4>1, <4>2, <4>3, <4>4 DEF Pending
    <3>9. Waits(part, limit, g, t, n + 1, m)
      <4>1. Untouched(part, limit, n + 1, m)
        BY <1>8, <2>2 DEF Untouched
      <4>2. t.size # 0 /\ m \in 0 .. n + 1 /\ n + 1 > 0
        BY <1>2, <2>3, <2>4, <3>1
      <4>3. (t.begun <=> n + 1 > 0)
        <5>1. t.begun \in BOOLEAN /\ t.begun
          BY <1>5, <3>1 DEF Gotten
        <5> QED BY <4>2, <5>1
      <4> QED BY <1>1, <3>1, <3>7, <3>8, <4>1, <4>2, <4>3 DEF Waits
    <3> QED BY <1>2, <3>9
  <2>5. CASE ~Joins(s, run) /\ f.failed
    <3>1. t.failed /\ t.data = f.data
      BY <1>5, <2>1, <2>5 DEF Stretched
    <3>2. Stopped(part, limit, g, f, m)
      BY <1>6, <2>5 DEF Whole
    <3>3. Stopped(part, limit, g, t, m)
      BY <3>1, <3>2 DEF Stopped
    <3> QED BY <1>2, <3>3
  <2>6. CASE ~Joins(s, run) /\ ~f.failed
    <3>1. f.data = g[n] /\ f.size = 0 /\ Untouched(part, limit, n, n)
      BY <1>6, <2>6 DEF Whole, Stopped
    <3>2. ~t.failed /\ t.to = b /\ t.begun
      <4>1. ~t.failed
        BY <1>5, <2>1, <2>6 DEF Stretched
      <4>2. t.to = s.to + run.rel /\ t.begun
        BY <1>5, <2>1, <4>1 DEF Stretched
      <4> QED BY <1>2, <1>4, <1>8, <4>1, <4>2
    <3>3. (t.begun <=> n + 1 > 0) /\ n + 1 > 0
      <4>1. n + 1 > 0
        BY <1>2
      <4>2. t.begun \in BOOLEAN /\ t.begun
        BY <1>5, <3>2 DEF Gotten
      <4> QED BY <4>1, <4>2
    <3>4. ~Off(part, limit, n + 1) => Untouched(part, limit, n + 1, n + 1)
      <4>1. \A k \in 1 .. n + 1 : k = n + 1 \/ k \in 1 .. n
        BY <1>2
      <4> QED BY <2>2, <3>1, <4>1 DEF Untouched
    <3>5. CASE rel = 0
      <4>1. t.data = g[n + 1] /\ t.size = 0
        <5>1. t.data = f.data \o NoSectors(run.len) /\ t.size = f.size
          BY <1>4, <1>5, <2>1, <2>6, <3>5 DEF Stretched
        <5>2. OnDisk(part, n + 1) = NoSectors(len)
          BY <1>1, <3>5 DEF OnDisk
        <5> QED BY <1>4, <1>7, <3>1, <5>1, <5>2
      <4>2. Untouched(part, limit, n + 1, n + 1) /\ Waiting(part, n + 1, n + 1)
        BY <1>1, <3>4, <3>5 DEF Off, Waiting
      <4>3. n + 1 \in 0 .. n + 1
        BY <1>2
      <4> QED BY <1>1, <1>7, <3>2, <3>3, <4>1, <4>2, <4>3 DEF Waits
    <3>6. CASE rel # 0
      <4>1. t.data = g[n] /\ t.size = len /\ t.at = b
        BY <1>4, <1>5, <2>1, <2>6, <3>1, <3>2, <3>6 DEF Stretched
      <4>2. n > 0 => ~Adjoins(part, n + 1)
        <5> SUFFICES ASSUME n > 0, Adjoins(part, n + 1) PROVE FALSE
          OBVIOUS
        <5>1. rel = d /\ d # 0 /\ c # 0
          BY <1>1, <1>7 DEF Adjoins
        <5>2. m < n
          BY <1>1, <1>8, <5>1 DEF Waiting
        <5>3. sz # 0
          BY <1>2, <1>8, <5>2
        <5>4. at + sz = a + d
          BY <1>1, <1>8, <5>3 DEF Pending
        <5> QED BY <1>2, <2>3, <2>6, <5>1, <5>3, <5>4
      <4>3. OnDisk(part, n + 1) = SectorsFrom(off + b, len)
        BY <1>1, <3>6 DEF OnDisk
      <4>4. CASE len = 0
        <5>1. off + b \in Int
          BY <1>2
        <5>2. t.data = g[n + 1]
          <6>1. OnDisk(part, n + 1) = <<>>
            BY <4>3, <4>4, <5>1, SectorsType
          <6>2. g[n] \o <<>> = g[n]
            BY <1>7, ConcatEmptySeq
          <6> QED BY <1>7, <4>1, <6>1, <6>2
        <5>3. Untouched(part, limit, n + 1, n + 1)
          BY <1>1, <1>2, <3>4, <4>4 DEF Off
        <5>4. Waiting(part, n + 1, n + 1)
          <6>1. n + 1 > 1 => n > 0
            BY <1>2
          <6> QED BY <1>1, <4>2, <4>4, <6>1 DEF Waiting
        <5>5. n + 1 \in 0 .. n + 1
          BY <1>2
        <5> QED BY <1>1, <1>7, <3>2, <3>3, <4>1, <4>4, <5>2, <5>3, <5>4, <5>5 DEF Waits
      <4>5. CASE len # 0
        <5>1. Untouched(part, limit, n + 1, n)
          BY <2>2, <3>1 DEF Untouched
        <5>2. Waiting(part, n + 1, n)
          <6>1. Together(part, n + 1, n + 1)
            BY <1>2 DEF Together
          <6> QED BY <1>2, <4>2, <6>1 DEF Waiting
        <5>3. Pending(part, g, n + 1, n, b, len)
          <6>1. \A k \in n + 1 .. n + 1 : k = n + 1
            BY <1>2
          <6>2. b <= b /\ b + len <= b + len /\ len > 0 /\ n < n + 1
            BY <1>2, <4>5
          <6> QED BY <1>1, <1>7, <3>6, <4>3, <6>1, <6>2 DEF Pending
        <5>4. n \in 0 .. n + 1
          BY <1>2
        <5>5. Waits(part, limit, g, t, n + 1, n)
          BY <1>1, <3>2, <3>3, <4>1, <4>5, <5>1, <5>2, <5>3, <5>4 DEF Waits
        <5> QED BY <1>7, <5>5
      <4> QED BY <4>4, <4>5
    <3> QED BY <3>5, <3>6
  <2> QED BY <2>4, <2>5, <2>6
<1> QED BY <1>9, <1>10

(* The states of the loop.                                                 *)
LEMMA GotIs ==
  ASSUME NEW part, Listed(part), NEW limit \in Int
  PROVE  \E gs \in [0 .. Len(part.bitmap) -> Gotten] :
           /\ gs[0] = NothingGot
           /\ \A n \in 1 .. Len(part.bitmap) : gs[n] = GetRun(part, limit, 1, gs[n - 1], part.bitmap[n])
           /\ \E secs : /\ secs = FlushPending(part, limit, 1, gs[Len(part.bitmap)]).data
                        /\ GetContent(part, limit, 1) =
                             secs \o NoSectors(Sums([n \in DOMAIN part.bitmap |-> part.bitmap[n].len])[Len(part.bitmap)] - Len(secs))
PROOF
<1>1. PICK R \in Seq(BitmapRun) : R = part.bitmap
  BY DEF Listed
<1> DEFINE N == Len(R)
           step == [n \in 1 .. N |-> [v \in Gotten |-> GetRun(part, limit, 1, v, R[n])]]
           Is(s) == s = [n \in 0 .. N |-> IF n = 0 THEN NothingGot ELSE GetRun(part, limit, 1, s[n - 1], R[n])]
<1>2. N \in Nat /\ \A n \in 1 .. N : R[n] \in BitmapRun
  BY LenProperties, ElementOfSeq
<1>3. step \in [1 .. N -> [Gotten -> Gotten]]
  <2>1. \A n \in 1 .. N : \A v \in Gotten : GetRun(part, limit, 1, v, R[n]) \in Gotten
    <3> TAKE n \in 1 .. N
    <3> TAKE v \in Gotten
    <3>1. PICK run \in BitmapRun : run = R[n]
      BY <1>2
    <3>2. \A f, t : f = FlushPending(part, limit, 1, v) /\ t = GetRun(part, limit, 1, v, run) => t \in Gotten
      BY GetRunIs
    <3> QED BY <3>1, <3>2
  <2> QED BY <2>1
<1>4. NothingGot \in Gotten
  <2>1. <<>> \in Seq(Int)
    BY EmptySeq
  <2> QED BY <2>1 DEF NothingGot, Gotten
<1>5. PICK g \in [0 .. N -> Gotten] : g[0] = NothingGot /\ \A i \in 1 .. N : g[i] = step[i][g[i - 1]]
  <2> DEFINE base == NothingGot
             V == Gotten
  <2>1. N \in Nat /\ base \in V /\ step \in StepFunctions(N, V)
    BY <1>2, <1>3, <1>4 DEF StepFunctions
  <2> HIDE DEF N, step, base, V
  <2>2. \E g : Solution(N, V, base, step, g)
    BY <2>1, Recursion
  <2> QED BY <2>2 DEF base, V, Solution
<1>6. \A i \in 1 .. N : g[i] = GetRun(part, limit, 1, g[i - 1], R[i])
  <2> SUFFICES ASSUME NEW i \in 1 .. N PROVE g[i] = GetRun(part, limit, 1, g[i - 1], R[i])
    OBVIOUS
  <2>1. g[i - 1] \in Gotten
    BY <1>2
  <2>2. step[i][g[i - 1]] = GetRun(part, limit, 1, g[i - 1], R[i])
    BY <2>1
  <2> QED BY <1>5, <2>2
<1>7. Is(g)
  <2> HIDE DEF N, step
  <2>1. N \in Nat
    BY <1>2 DEF N
  <2> QED BY <1>5, <1>6, <2>1
<1> DEFINE gs == CHOOSE s : Is(s)
<1>8. Is(gs)
  <2> HIDE DEF Is
  <2> QED BY <1>7
<1> DEFINE secs == FlushPending(part, limit, 1, gs[N]).data
           total == Sums([n \in DOMAIN R |-> R[n].len])[N]
<1>9. GetContent(part, limit, 1) = secs \o NoSectors(total * 1 - Len(secs))
  BY <1>1 DEF GetContent
<1> HIDE DEF gs
<1>10. gs[0] = NothingGot /\ \A n \in 1 .. N : gs[n] = GetRun(part, limit, 1, gs[n - 1], R[n])
  <2>1. gs = [n \in 0 .. N |-> IF n = 0 THEN NothingGot ELSE GetRun(part, limit, 1, gs[n - 1], R[n])]
    BY <1>8
  <2>2. 0 \in 0 .. N /\ \A k \in 1 .. N : k \in 0 .. N /\ k # 0
    BY <1>2
  <2> HIDE DEF N
  <2> QED BY <2>1, <2>2
<1> DEFINE I == {n \in 0 .. N : gs[n] = g[n]}
<1>11. 0 .. N \subseteq I
  <2>1. 0 \in I
    BY <1>2, <1>5, <1>10
  <2>2. ASSUME NEW n \in 0 .. N - 1, n \in I PROVE n + 1 \in I
    <3>1. n + 1 \in 1 .. N /\ (n + 1) - 1 = n /\ n + 1 \in 0 .. N
      BY <1>2
    <3> QED BY <1>6, <1>10, <2>2, <3>1
  <2> HIDE DEF I, N
  <2>3. N \in Nat
    BY <1>2 DEF N
  <2> QED BY <2>1, <2>2, <2>3, BoundedInduction
<1>12. gs = g
  <2>1. gs = [n \in 0 .. N |-> IF n = 0 THEN NothingGot ELSE GetRun(part, limit, 1, gs[n - 1], R[n])]
    BY <1>8
  <2> HIDE DEF N
  <2> QED BY <1>11, <2>1
<1>13. total * 1 = total
  <2>1. [n \in DOMAIN R |-> R[n].len] \in Seq(Int) /\ Len([n \in DOMAIN R |-> R[n].len]) = N
    <3>1. N \in Nat /\ DOMAIN R = 1 .. N /\ \A n \in 1 .. N : R[n].len \in Int
      BY <1>2 DEF BitmapRun
    <3> HIDE DEF N
    <3> QED BY <3>1
  <2> DEFINE L == [n \in DOMAIN R |-> R[n].len]
  <2>2. total \in Int
    <3>1. \A k \in 0 .. Len(L) : Sums(L)[k] \in Int
      BY <2>1, SumsAre
    <3>2. Len(L) = N /\ N \in 0 .. N
      BY <1>2, <2>1
    <3> HIDE DEF L, N
    <3> QED BY <3>1, <3>2 DEF L
  <2> HIDE DEF total
  <2> QED BY <2>2
<1>14. /\ gs \in [0 .. N -> Gotten] /\ gs[0] = NothingGot
       /\ \A n \in 1 .. N : gs[n] = GetRun(part, limit, 1, gs[n - 1], R[n])
       /\ GetContent(part, limit, 1) = secs \o NoSectors(total - Len(secs))
  BY <1>9, <1>10, <1>12, <1>13
<1> HIDE DEF N
<1>15. N = Len(part.bitmap) /\ total = Sums([n \in DOMAIN part.bitmap |-> part.bitmap[n].len])[N]
  BY <1>1 DEF N
<1> QED BY <1>1, <1>14, <1>15

(* It ends with the sectors of the runs before the first that is lost.     *)
LEMMA GotWaits ==
  ASSUME NEW part, Listed(part), NEW limit \in Int, NEW g, Contents(part, g), NEW gs \in [0 .. Len(part.bitmap) -> Gotten],
         gs[0] = NothingGot,
         \A n \in 1 .. Len(part.bitmap) : gs[n] = GetRun(part, limit, 1, gs[n - 1], part.bitmap[n])
  PROVE  \E m \in 0 .. Len(part.bitmap) : /\ FlushPending(part, limit, 1, gs[Len(part.bitmap)]).data = g[m]
                                          /\ Cut(part, limit, m)
PROOF
<1> DEFINE N == Len(part.bitmap)
           I == {n \in 0 .. N : \E k \in Nat : Waits(part, limit, g, gs[n], n, k) \/ Stopped(part, limit, g, gs[n], k)}
<1>1. N \in Nat
  BY RunsLie
<1>2. 0 \in I
  <2>1. /\ NothingGot.data = <<>> /\ NothingGot.to = 0 /\ NothingGot.size = 0 /\ ~NothingGot.failed /\ ~NothingGot.begun
    BY DEF NothingGot
  <2>2. g[0] = <<>> /\ Lcn(part, 0) = 0
    BY RunsLie DEF Contents
  <2>3. Untouched(part, limit, 0, 0)
    BY DEF Untouched
  <2>4. 0 \in 0 .. 0 /\ ~(0 > 0)
    OBVIOUS
  <2>5. Waits(part, limit, g, NothingGot, 0, 0)
    BY <2>1, <2>2, <2>3, <2>4 DEF Waits
  <2> QED BY <1>1, <2>5
<1>3. ASSUME NEW n \in 0 .. N - 1, n \in I PROVE n + 1 \in I
  <2>1. PICK s, t : s = gs[n] /\ t = GetRun(part, limit, 1, s, part.bitmap[n + 1])
    OBVIOUS
  <2>2. n + 1 \in 1 .. N /\ (n + 1) - 1 = n /\ n + 1 \in 0 .. N /\ n \in 0 .. N
    BY <1>1
  <2>3. gs[n + 1] = t /\ s \in Gotten
    BY <2>1, <2>2
  <2>4. PICK k \in Nat : Waits(part, limit, g, s, n, k) \/ Stopped(part, limit, g, s, k)
    BY <1>3, <2>1
  <2>5. CASE Waits(part, limit, g, s, n, k)
    <3>1. \E j \in Nat : Waits(part, limit, g, t, n + 1, j) \/ Stopped(part, limit, g, t, j)
      BY <2>1, <2>3, <2>5, RunWaits
    <3> QED BY <2>2, <2>3, <3>1
  <2>6. CASE Stopped(part, limit, g, s, k)
    <3>1. PICK run \in BitmapRun : run = part.bitmap[n + 1]
      BY <2>2, ElementOfSeq DEF Listed
    <3>2. \A f : f = FlushPending(part, limit, 1, s) => Stretched(s, run, f, t)
      BY <2>1, <2>3, <3>1, GetRunIs
    <3>3. t.failed /\ t.data = s.data
      BY <2>6, <3>2 DEF Stretched, Stopped
    <3>4. Stopped(part, limit, g, t, k)
      BY <2>6, <3>3 DEF Stopped
    <3> QED BY <2>2, <2>3, <2>4, <3>4
  <2> QED BY <2>4, <2>5, <2>6
<1>4. N \in I
  <2> HIDE DEF I, N
  <2>1. 0 .. N \subseteq I
    BY <1>1, <1>2, <1>3, BoundedInduction
  <2> QED BY <1>1, <2>1
<1>5. PICK s, t : s = gs[N] /\ t = FlushPending(part, limit, 1, s)
  OBVIOUS
<1>6. s \in Gotten /\ N \in 0 .. N
  BY <1>1, <1>5
<1>7. PICK k \in Nat : Waits(part, limit, g, s, N, k) \/ Stopped(part, limit, g, s, k)
  BY <1>4, <1>5
<1>8. \E m \in 0 .. N : t.data = g[m] /\ Cut(part, limit, m)
  <2>1. CASE Waits(part, limit, g, s, N, k)
    <3>1. (Whole(g, s, t, N) /\ Untouched(part, limit, N, N)) \/ Stopped(part, limit, g, t, k)
      BY <1>5, <1>6, <2>1, FlushWaits
    <3>2. CASE Whole(g, s, t, N) /\ Untouched(part, limit, N, N)
      BY <1>6, <3>2, CutByNone DEF Whole
    <3>3. CASE Stopped(part, limit, g, t, k)
      BY <3>3 DEF Stopped
    <3> QED BY <3>1, <3>2, <3>3
  <2>2. CASE Stopped(part, limit, g, s, k)
    <3>1. Flushed(part, limit, s, t)
      BY <1>5, <1>6, FlushIs
    <3>2. t = s
      BY <2>2, <3>1 DEF Flushed, Stopped
    <3> QED BY <2>2, <3>2 DEF Stopped
  <2> QED BY <1>7, <2>1, <2>2
<1> QED BY <1>5, <1>8

(* The reference definition, run by run.                                   *)
LEMMA BitmapByIs ==
  ASSUME NEW part, Listed(part), NEW limit \in Int
  PROVE  BitmapBy(part, limit, 1) = FlattenSeq([n \in 1 .. Len(part.bitmap) |-> Read(part, limit, n)])
PROOF
<1> DEFINE R == part.bitmap
           N == Len(R)
           lcn == Sums([n \in DOMAIN R |-> R[n].rel])
           side(m, n) == \A k \in m + 1 .. n : R[k].rel # 0 /\ R[k].rel = R[k - 1].len /\ R[k - 1].rel # 0
           off(n) == R[n].rel # 0 /\ R[n].len > 0 /\ (lcn[n] < 0 \/ Refused(part.offset + lcn[n] * 1 + R[n].len * 1, limit))
           gone(n) == \E k \in DOMAIN R : \/ off(k) /\ (k <= n \/ side(n, k))
                                          \/ k > 1 /\ lcn[k] < 0 /\ (k <= n \/ side(n, k - 1))
           rr(n) == IF R[n].rel = 0 \/ gone(n) THEN NoSectors(R[n].len * 1)
                    ELSE SectorsFrom(part.offset + lcn[n] * 1, R[n].len * 1)
<1>1. BitmapBy(part, limit, 1) = FlattenSeq([n \in DOMAIN R |-> rr(n)])
  BY DEF BitmapBy
<1>2. DOMAIN R = 1 .. N
  BY LenProperties DEF Listed
<1>3. /\ \A n : R[n].rel = RunRel(part, n) /\ R[n].len = RunLen(part, n) /\ lcn[n] = Lcn(part, n)
  BY DEF RunRel, RunLen, Lcn
<1>4. \A n \in 1 .. N : RunRel(part, n) \in Int /\ RunLen(part, n) \in Nat /\ Lcn(part, n) \in Int
  <2>1. N \in Nat /\ \A n \in 1 .. N : n \in 0 .. N
    BY RunsLie
  <2> QED BY <2>1, RunsLie
<1> HIDE DEF lcn
<1>5. \A m, n : side(m, n) <=> Together(part, m, n)
  BY <1>3 DEF Together, Adjoins
<1>6. ASSUME NEW n \in 1 .. N PROVE off(n) <=> Off(part, limit, n)
  <2>1. lcn[n] * 1 = Lcn(part, n) /\ R[n].len * 1 = RunLen(part, n)
    <3>1. \A x \in Int : x * 1 = x
      OBVIOUS
    <3> QED BY <1>3, <1>4, <3>1
  <2> QED BY <1>3, <2>1 DEF Off
<1> HIDE DEF side, off
<1>7. ASSUME NEW n \in 1 .. N PROVE gone(n) <=> Lost(part, limit, n)
  BY <1>2, <1>3, <1>5, <1>6 DEF Lost, LostBy
<1> HIDE DEF gone
<1>8. ASSUME NEW n \in 1 .. N PROVE rr(n) = Read(part, limit, n)
  <2>1. lcn[n] * 1 = Lcn(part, n) /\ R[n].len * 1 = RunLen(part, n)
    <3>1. \A x \in Int : x * 1 = x
      OBVIOUS
    <3> QED BY <1>3, <1>4, <3>1
  <2> QED BY <1>3, <1>7, <2>1 DEF Read, OnDisk
<1> HIDE DEF rr, R, N
<1>9. [n \in DOMAIN R |-> rr(n)] = [n \in 1 .. N |-> Read(part, limit, n)]
  BY <1>2, <1>8
<1> QED BY <1>1, <1>9 DEF N, R

(* What is read of a run is as long as the run.                          *)
LEMMA ReadTypes ==
  ASSUME NEW part, Listed(part), NEW limit \in Int, NEW n \in 1 .. Len(part.bitmap)
  PROVE  /\ OnDisk(part, n) \in Seq(Int) /\ Len(OnDisk(part, n)) = RunLen(part, n)
         /\ Read(part, limit, n) \in Seq(Int)
PROOF
<1>1. RunLen(part, n) \in Nat /\ part.offset + Lcn(part, n) \in Int
  <2>1. n \in 0 .. Len(part.bitmap) /\ Len(part.bitmap) \in Nat
    BY RunsLie
  <2>2. part.offset \in Nat /\ Lcn(part, n) \in Int /\ RunLen(part, n) \in Nat
    BY <2>1, RunsLie
  <2> QED BY <2>2
<1>2. OnDisk(part, n) \in Seq(Int) /\ Len(OnDisk(part, n)) = RunLen(part, n)
  BY <1>1, SectorsType DEF OnDisk
<1> QED BY <1>1, <1>2, SectorsType DEF Read

(* What is read of $Bitmap.                                                *)
LEMMA ContentIs ==
  ASSUME NEW part, Listed(part), NEW limit \in Int
  PROVE  GetContent(part, limit, 1) = BitmapBy(part, limit, 1) /\ GetContent(part, limit, 1) \in Seq(Int)
PROOF
<1> DEFINE N == Len(part.bitmap)
           ss == [n \in 1 .. N |-> OnDisk(part, n)]
           rr == [n \in 1 .. N |-> Read(part, limit, n)]
           L == [n \in DOMAIN part.bitmap |-> part.bitmap[n].len]
           T == Sums(L)
<1>1. N \in Nat
  BY RunsLie
<1>2. ss \in Seq(Seq(Int)) /\ Len(ss) = N /\ rr \in Seq(Seq(Int)) /\ Len(rr) = N
  <2>1. \A n \in 1 .. N : OnDisk(part, n) \in Seq(Int) /\ Read(part, limit, n) \in Seq(Int)
    BY ReadTypes
  <2> HIDE DEF N
  <2> QED BY <1>1, <2>1
<1>3. PICK g \in [0 .. N -> Seq(Int)] : Flattens(g, ss) /\ FlattenSeq(ss) = g[N]
  <2> HIDE DEF ss, rr, N
  <2> QED BY <1>2, FlattenDef
<1>4. PICK h \in [0 .. N -> Seq(Int)] : Flattens(h, rr) /\ FlattenSeq(rr) = h[N]
  <2> HIDE DEF ss, rr, N
  <2> QED BY <1>2, FlattenDef
<1>5. /\ g[0] = <<>> /\ \A n \in 1 .. N : g[n] = g[n - 1] \o OnDisk(part, n)
      /\ h[0] = <<>> /\ \A n \in 1 .. N : h[n] = h[n - 1] \o Read(part, limit, n)
  <2>1. (\A n \in 1 .. N : ss[n] = OnDisk(part, n)) /\ \A n \in 1 .. N : rr[n] = Read(part, limit, n)
    OBVIOUS
  <2> HIDE DEF ss, rr, N
  <2> QED BY <1>2, <1>3, <1>4, <2>1 DEF Flattens
<1>6. Contents(part, g)
  BY <1>3, <1>5 DEF Contents
<1>7. /\ T[0] = 0 /\ \A n \in 0 .. N : T[n] \in Nat
      /\ \A n \in 1 .. N : T[n] = T[n - 1] + RunLen(part, n)
      /\ \A j, k \in 0 .. N : j <= k => T[j] <= T[k]
  <2>1. L \in Seq(Nat) /\ Len(L) = N /\ \A n \in 1 .. N : L[n] = RunLen(part, n)
    <3>1. DOMAIN part.bitmap = 1 .. N
      BY LenProperties DEF Listed
    <3>2. \A n \in 1 .. N : part.bitmap[n].len = RunLen(part, n) /\ RunLen(part, n) \in Nat
      BY RunsLie DEF RunLen
    <3>3. L = [n \in 1 .. N |-> RunLen(part, n)]
      BY <3>1, <3>2
    <3> HIDE DEF N, L
    <3> QED BY <1>1, <3>2, <3>3
  <2> HIDE DEF L, N
  <2>2. L \in Seq(Int)
    BY <2>1
  <2>3. Sums(L)[0] = 0 /\ \A k \in 1 .. N : Sums(L)[k] = Sums(L)[k - 1] + L[k]
    BY <2>1, <2>2, SumsAre
  <2>4. (\A k \in 0 .. N : Sums(L)[k] \in Nat) /\ \A j, k \in 0 .. N : j <= k => Sums(L)[j] <= Sums(L)[k]
    BY <2>1, SumsGrow
  <2> QED BY <2>1, <2>3, <2>4
<1>8. PICK gs \in [0 .. N -> Gotten] :
        /\ gs[0] = NothingGot
        /\ \A n \in 1 .. N : gs[n] = GetRun(part, limit, 1, gs[n - 1], part.bitmap[n])
        /\ \E secs : /\ secs = FlushPending(part, limit, 1, gs[N]).data
                     /\ GetContent(part, limit, 1) = secs \o NoSectors(T[N] - Len(secs))
  BY GotIs, Zenon
<1> HIDE DEF ss, T, L
<1>9. PICK secs : /\ secs = FlushPending(part, limit, 1, gs[N]).data
                  /\ GetContent(part, limit, 1) = secs \o NoSectors(T[N] - Len(secs))
  BY <1>8, Zenon
<1>10. PICK m \in 0 .. N : secs = g[m] /\ Cut(part, limit, m)
  BY <1>6, <1>8, <1>9, GotWaits, Zenon
<1>11. \A n \in 0 .. N : Len(g[n]) = T[n]
  <2> DEFINE I == {n \in 0 .. N : Len(g[n]) = T[n]}
  <2>1. 0 \in I
    BY <1>1, <1>5, <1>7
  <2>2. ASSUME NEW n \in 0 .. N - 1, n \in I PROVE n + 1 \in I
    <3>1. n + 1 \in 1 .. N /\ (n + 1) - 1 = n /\ n + 1 \in 0 .. N /\ g[n] \in Seq(Int)
      <4> HIDE DEF N
      <4>1. n + 1 \in 1 .. N /\ (n + 1) - 1 = n /\ n + 1 \in 0 .. N /\ n \in 0 .. N
        BY <1>1
      <4>2. g[n] \in Seq(Int)
        BY <1>3, <4>1
      <4> QED BY <4>1, <4>2
    <3>2. g[n + 1] = g[n] \o OnDisk(part, n + 1) /\ T[n + 1] = T[n] + RunLen(part, n + 1)
      BY <1>5, <1>7, <3>1
    <3>3. OnDisk(part, n + 1) \in Seq(Int) /\ Len(OnDisk(part, n + 1)) = RunLen(part, n + 1)
      BY <3>1, ReadTypes
    <3>4. Len(g[n + 1]) = Len(g[n]) + Len(OnDisk(part, n + 1))
      BY <3>1, <3>2, <3>3, ConcatProperties
    <3> QED BY <2>2, <3>1, <3>2, <3>3, <3>4
  <2>3. 0 .. N \subseteq I
    <3> HIDE DEF I, N
    <3> QED BY <1>1, <2>1, <2>2, BoundedInduction
  <2> QED BY <2>3
<1>12. ASSUME NEW n \in 1 .. N PROVE Read(part, limit, n) = IF n <= m THEN OnDisk(part, n) ELSE NoSectors(RunLen(part, n))
  <2>1. CASE RunRel(part, n) = 0
    BY <2>1 DEF Read, OnDisk
  <2>2. CASE RunLen(part, n) = 0
    <3>1. part.offset + Lcn(part, n) \in Int
      <4>1. n \in 0 .. N
        BY <1>1
      <4>2. part.offset \in Nat /\ Lcn(part, n) \in Int
        BY <4>1, RunsLie
      <4> QED BY <4>2
    <3> QED BY <2>2, <3>1, SectorsType DEF Read, OnDisk
  <2>3. CASE Lost(part, limit, n) <=> n > m
    BY <1>1, <1>10, <2>3 DEF Read
  <2> QED BY <1>10, <2>1, <2>2, <2>3 DEF Cut
<1> DEFINE zeros == [n \in 0 .. N |-> NoSectors(T[n] - T[m])]
           J == {n \in 0 .. N : (n <= m => h[n] = g[n]) /\ (m <= n => h[n] = g[m] \o zeros[n])}
<1>13. zeros[m] = <<>>
  <2>1. PICK a \in Nat : a = T[m]
    BY <1>7, <1>10
  <2>2. zeros[m] = NoSectors(a - a) /\ a - a = 0
    BY <1>10, <2>1
  <2> QED BY <2>2, SectorsType
<1>14. ASSUME NEW n \in 0 .. N - 1, n >= m
       PROVE  /\ zeros[n] \in Seq(Int) /\ NoSectors(RunLen(part, n + 1)) \in Seq(Int)
              /\ zeros[n] \o NoSectors(RunLen(part, n + 1)) = zeros[n + 1]
  <2>1. n + 1 \in 1 .. N /\ (n + 1) - 1 = n /\ n + 1 \in 0 .. N /\ n \in 0 .. N
    BY <1>1
  <2>2. PICK a, b, l : a = T[n] /\ b = T[m] /\ l = RunLen(part, n + 1)
    OBVIOUS
  <2>3. T[n + 1] = a + l
    BY <1>7, <2>1, <2>2
  <2>4. a \in Nat /\ b \in Nat /\ l \in Nat /\ b <= a
    BY <1>7, <1>10, <1>14, <2>1, <2>2, RunsLie
  <2>5. PICK d \in Nat : d = a - b /\ (a + l) - b = d + l
    <3>1. a - b \in Nat /\ (a + l) - b = (a - b) + l
      BY <2>4
    <3> QED BY <3>1
  <2>6. zeros[n] = NoSectors(d)
    BY <2>1, <2>2, <2>5
  <2>7. zeros[n + 1] = NoSectors(d + l)
    <3>1. zeros[n + 1] = NoSectors(T[n + 1] - T[m])
      BY <2>1
    <3> QED BY <2>2, <2>3, <2>5, <3>1
  <2>8. NoSectors(d) \o NoSectors(l) = NoSectors(d + l)
    <3>1. 0 \in Int
      OBVIOUS
    <3> QED BY <2>4, <2>5, <3>1, SectorsGoOn
  <2> HIDE DEF zeros
  <2> QED BY <2>2, <2>4, <2>5, <2>6, <2>7, <2>8, SectorsType
<1> HIDE DEF zeros
<1>15. g[m] \in Seq(Int) /\ g[m] \o zeros[m] = g[m]
  <2>1. g[m] \in Seq(Int)
    BY <1>3, <1>10
  <2> QED BY <1>13, <2>1, ConcatEmptySeq
<1>16. h[N] = g[m] \o NoSectors(T[N] - T[m])
  <2>1. 0 \in J
    <3>1. 0 \in 0 .. N /\ h[0] = g[0] /\ (m <= 0 => m = 0)
      BY <1>1, <1>5, <1>10
    <3> HIDE DEF N
    <3> QED BY <1>15, <3>1
  <2>2. ASSUME NEW n \in 0 .. N - 1, n \in J PROVE n + 1 \in J
    <3>1. n + 1 \in 1 .. N /\ (n + 1) - 1 = n /\ n + 1 \in 0 .. N
      BY <1>1
    <3>2. h[n + 1] = h[n] \o Read(part, limit, n + 1) /\ g[n + 1] = g[n] \o OnDisk(part, n + 1)
      BY <1>5, <3>1
    <3>3. (n <= m => h[n] = g[n]) /\ (m <= n => h[n] = g[m] \o zeros[n])
      BY <2>2
    <3> HIDE DEF N
    <3>4. m <= n \/ (n + 1 <= m /\ n <= m)
      BY <1>1, <1>10
    <3>5. CASE n + 1 <= m /\ n <= m
      <4>1. Read(part, limit, n + 1) = OnDisk(part, n + 1)
        BY <1>12, <3>1, <3>5
      <4>2. h[n + 1] = g[n + 1]
        BY <3>2, <3>3, <3>5, <4>1
      <4>3. m <= n + 1 => n + 1 = m
        BY <1>1, <1>10, <3>5
      <4>4. m <= n + 1 => h[n + 1] = g[m] \o zeros[n + 1]
        BY <1>15, <4>2, <4>3
      <4> QED BY <3>1, <4>2, <4>4
    <3>6. CASE m <= n
      <4>1. PICK y : y = NoSectors(RunLen(part, n + 1))
        OBVIOUS
      <4>2. ~(n + 1 <= m) /\ n >= m
        BY <1>1, <1>10, <3>6
      <4>3. Read(part, limit, n + 1) = y
        BY <1>12, <3>1, <4>1, <4>2
      <4>4. zeros[n] \in Seq(Int) /\ y \in Seq(Int) /\ zeros[n] \o y = zeros[n + 1]
        BY <1>14, <4>1, <4>2
      <4>5. h[n] = g[m] \o zeros[n]
        BY <3>3, <3>6
      <4>6. Associates(g[m], zeros[n], y)
        BY <1>15, <4>4, Associative
      <4>7. h[n + 1] = g[m] \o zeros[n + 1]
        BY <3>2, <4>3, <4>4, <4>5, <4>6 DEF Associates
      <4> QED BY <3>1, <4>2, <4>7
    <3> QED BY <3>4, <3>5, <3>6
  <2>3. 0 .. N \subseteq J
    <3> HIDE DEF J, N
    <3> QED BY <1>1, <2>1, <2>2, BoundedInduction
  <2>4. N \in 0 .. N /\ m <= N
    BY <1>1, <1>10
  <2>5. h[N] = g[m] \o zeros[N]
    <3> HIDE DEF N
    <3>1. N \in J
      BY <2>3, <2>4
    <3> QED BY <2>4, <3>1
  <2>6. zeros[N] = NoSectors(T[N] - T[m])
    BY <2>4 DEF zeros
  <2> QED BY <2>5, <2>6
<1>17. GetContent(part, limit, 1) = h[N]
  BY <1>9, <1>10, <1>11, <1>16
<1>18. h[N] \in Seq(Int)
  BY <1>1, <1>4
<1>19. BitmapBy(part, limit, 1) = FlattenSeq(rr)
  BY BitmapByIs
<1> QED BY <1>4, <1>17, <1>18, <1>19
-----------------------------------------------------------------------------
(* The blocks *)

(* One number more.                                                        *)
LEMMA FirstsOn ==
  ASSUME NEW n \in Nat, NEW T
  PROVE  Keep(Firsts(n + 1), T) = IF n \in T THEN Append(Keep(Firsts(n), T), n) ELSE Keep(Firsts(n), T)
PROOF
<1>1. Firsts(n) \in Seq(Nat) /\ Firsts(n + 1) = Append(Firsts(n), n)
  BY DEF Firsts
<1>2. PICK f : f = Firsts(n) /\ f \in Seq(Nat)
  BY <1>1
<1>3. Keep(Append(f, n), T) = IF n \in T THEN Append(Keep(f, T), n) ELSE Keep(f, T)
  BY <1>2, KeepAppend
<1> QED BY <1>1, <1>2, <1>3

(* Numbers of which none is in the set add nothing.                        *)
LEMMA KeepBeyond ==
  ASSUME NEW S, NEW m \in Nat, NEW n \in Nat, m <= n, \A x \in m .. n - 1 : x \notin S
  PROVE  Keep(Firsts(n), S) = Keep(Firsts(m), S)
PROOF
<1> DEFINE I == {d \in 0 .. n - m : Keep(Firsts(m + d), S) = Keep(Firsts(m), S)}
<1>1. n - m \in Nat /\ m + 0 = m /\ m + (n - m) = n
  OBVIOUS
<1>2. 0 \in I
  BY <1>1
<1>3. ASSUME NEW d \in 0 .. (n - m) - 1, d \in I PROVE d + 1 \in I
  <2>1. PICK x \in Nat : x = m + d
    OBVIOUS
  <2>2. m + (d + 1) = x + 1 /\ x \notin S /\ d + 1 \in 0 .. n - m
    BY <2>1
  <2>3. Firsts(x) \in Seq(Nat) /\ Firsts(x + 1) = Append(Firsts(x), x)
    BY DEF Firsts
  <2>4. PICK f : f = Firsts(x) /\ f \in Seq(Nat) /\ Firsts(x + 1) = Append(f, x)
    BY <2>3
  <2>5. Keep(Append(f, x), S) = Keep(f, S)
    BY <2>2, <2>4, KeepAppend
  <2>6. Keep(Firsts(m + d), S) = Keep(Firsts(m), S)
    BY <1>3
  <2> QED BY <2>1, <2>2, <2>4, <2>5, <2>6
<1> HIDE DEF I
<1>4. 0 .. n - m \subseteq I
  <2>1. PICK N \in Nat : N = n - m
    BY <1>1
  <2>2. 0 \in I /\ \A d \in 0 .. N - 1 : d \in I => d + 1 \in I
    BY <1>2, <1>3, <2>1
  <2>3. 0 .. N \subseteq I
    BY <2>2, BoundedInduction
  <2> QED BY <2>1, <2>3
<1>5. n - m \in I
  BY <1>1, <1>4
<1> QED BY <1>1, <1>5 DEF I

(* The numbers of a set in order are those that any bound of it leaves.    *)
LEMMA AscendingIs ==
  ASSUME NEW n \in Nat, NEW S, S \subseteq 0 .. n - 1
  PROVE  Ascending(S) = Keep(Firsts(n), S)
PROOF
<1>1. PICK M \in Nat : M = Max({0} \cup S) /\ \A y \in S : y <= M
  <2>1. {0} \cup S \subseteq 0 .. n /\ {0} \cup S # {}
    OBVIOUS
  <2>2. PICK R : R = {0} \cup S /\ R \subseteq 0 .. n /\ R # {}
    BY <2>1
  <2>3. Max(R) \in R /\ \A y \in R : y <= Max(R)
    BY <2>2, MaxOf
  <2>4. Max(R) \in Nat /\ \A y \in S : y <= Max(R)
    <3>1. PICK M : M = Max(R)
      OBVIOUS
    <3>2. M \in 0 .. n /\ \A y \in S : y <= M
      BY <2>2, <2>3, <3>1
    <3> QED BY <3>1, <3>2
  <2> QED BY <2>2, <2>4
<1>2. Ascending(S) = Keep(Firsts(M + 1), S)
  BY <1>1 DEF Ascending, Firsts
<1>3. CASE n <= M + 1
  <2>1. \A x \in n .. (M + 1) - 1 : x \notin S
    OBVIOUS
  <2>2. M + 1 \in Nat
    OBVIOUS
  <2> QED BY <1>2, <1>3, <2>1, <2>2, KeepBeyond
<1>4. CASE n > M + 1
  <2>1. \A x \in M + 1 .. n - 1 : x \notin S
    BY <1>1
  <2>2. M + 1 \in Nat /\ M + 1 <= n
    BY <1>4
  <2> QED BY <1>2, <2>1, <2>2, KeepBeyond
<1> QED BY <1>3, <1>4

\* The last cluster of the run of free clusters that x lies in, and those that begin one.
LastFree(free, x) == Min({b \in free : b >= x /\ b + 1 \notin free})
FirstFree(free)   == {a \in free : a - 1 \notin free}

(* A run of free clusters.                                                 *)
LEMMA LastFreeIs ==
  ASSUME NEW B \in Nat, NEW free, free \subseteq 0 .. B - 1, NEW x \in free
  PROVE  /\ LastFree(free, x) \in free /\ x <= LastFree(free, x) /\ LastFree(free, x) + 1 \notin free
         /\ x .. LastFree(free, x) \subseteq free
         /\ IF x + 1 \in free THEN LastFree(free, x + 1) = LastFree(free, x) ELSE LastFree(free, x) = x
PROOF
<1> DEFINE S == {b \in free : b >= x /\ b + 1 \notin free}
<1>1. x \in Nat /\ x < B
  OBVIOUS
<1>2. S # {}
  <2> SUFFICES ASSUME S = {} PROVE FALSE
    OBVIOUS
  <2> DEFINE I == {d \in 0 .. B : x + d \in free}
  <2>1. 0 \in I
    BY <1>1
  <2>2. \A d \in 0 .. B - 1 : d \in I => d + 1 \in I
    <3> TAKE d \in 0 .. B - 1
    <3>1. HAVE d \in I
    <3>2. x + d \in free /\ x + d >= x /\ (x + d) + 1 = x + (d + 1) /\ d + 1 \in 0 .. B
      BY <1>1, <3>1
    <3> QED BY <3>2
  <2> HIDE DEF I
  <2>3. 0 .. B \subseteq I
    BY <2>1, <2>2, BoundedInduction
  <2>4. B \in I
    BY <2>3
  <2> QED BY <1>1, <2>4 DEF I
<1>3. PICK L : L = LastFree(free, x) /\ L \in S /\ \A y \in S : L <= y
  <2>1. S \subseteq Nat
    <3>1. free \subseteq Nat /\ S \subseteq free
      OBVIOUS
    <3> HIDE DEF S
    <3> QED BY <3>1
  <2>2. Min(S) \in S /\ \A y \in S : Min(S) <= y
    <3> HIDE DEF S
    <3> QED BY <1>2, <2>1, MinOf
  <2>3. LastFree(free, x) = Min(S)
    BY DEF LastFree
  <2> HIDE DEF S
  <2> QED BY <2>2, <2>3
<1>4. L \in free /\ L \in Nat /\ x <= L /\ L + 1 \notin free
  BY <1>3
<1>5. x .. L \subseteq free
  <2> DEFINE I == {d \in 0 .. L - x : x + d \in free}
  <2>1. 0 \in I
    BY <1>1, <1>4
  <2>2. \A d \in 0 .. (L - x) - 1 : d \in I => d + 1 \in I
    <3> TAKE d \in 0 .. (L - x) - 1
    <3>1. HAVE d \in I
    <3>2. x + d \in free /\ x + d < L /\ x + d >= x
      BY <1>1, <1>4, <3>1
    <3>3. (x + d) + 1 \in free
      <4>1. x + d \notin S
        BY <1>3, <1>4, <3>2
      <4> QED BY <3>2, <4>1
    <3> QED BY <1>1, <1>4, <3>3
  <2> HIDE DEF I
  <2>3. PICK N \in Nat : N = L - x
    BY <1>1, <1>4
  <2>4. 0 .. N \subseteq I
    BY <2>1, <2>2, <2>3, BoundedInduction
  <2>5. \A y \in x .. L : y - x \in 0 .. N /\ x + (y - x) = y
    BY <1>1, <1>4, <2>3
  <2>6. \A d \in I : x + d \in free
    BY DEF I
  <2> QED BY <2>4, <2>5, <2>6
<1>6. CASE x + 1 \in free
  <2>1. S = {b \in free : b >= x + 1 /\ b + 1 \notin free}
    <3>1. \A b \in free : b >= x /\ b + 1 \notin free <=> b >= x + 1 /\ b + 1 \notin free
      <4> TAKE b \in free
      <4>1. b \in Nat /\ (b = x \/ (b >= x <=> b >= x + 1))
        BY <1>1
      <4> QED BY <1>6, <4>1
    <3> QED BY <3>1
  <2>2. LastFree(free, x + 1) = L
    BY <1>3, <2>1 DEF LastFree
  <2> QED BY <1>3, <1>4, <1>5, <1>6, <2>2
<1>7. CASE x + 1 \notin free
  <2>1. x \in S
    BY <1>1, <1>7
  <2>2. L = x
    BY <1>1, <1>3, <1>4, <2>1
  <2> QED BY <1>3, <1>4, <1>5, <1>7, <2>2
<1> QED BY <1>6, <1>7

(* What is kept of a sequence is told by which of its elements are in the set.  *)
LEMMA KeepAlike ==
  ASSUME NEW S, NEW T, NEW U
  PROVE  \A s \in Seq(S) : (\A e \in Range(s) : e \in T <=> e \in U) => Keep(s, T) = Keep(s, U)
PROOF
<1> DEFINE Same(s) == (\A e \in Range(s) : e \in T <=> e \in U) => Keep(s, T) = Keep(s, U)
           P == {s \in Seq(S) : Same(s)}
<1>1. <<>> \in P
  BY KeepEmpty, EmptySeq
<1>2. ASSUME NEW s \in P, NEW e \in S PROVE Append(s, e) \in P
  <2>1. s \in Seq(S) /\ Append(s, e) \in Seq(S)
    OBVIOUS
  <2>2. ASSUME \A x \in Range(Append(s, e)) : x \in T <=> x \in U PROVE Keep(Append(s, e), T) = Keep(Append(s, e), U)
    <3>1. Range(s) \subseteq Range(Append(s, e)) /\ e \in Range(Append(s, e))
      <4>1. PICK t : t = Append(s, e)
        OBVIOUS
      <4>2. /\ DOMAIN t = 1 .. Len(s) + 1 /\ DOMAIN s = 1 .. Len(s) /\ Len(s) \in Nat
            /\ t[Len(s) + 1] = e /\ \A i \in 1 .. Len(s) : t[i] = s[i]
        BY <2>1, <4>1
      <4>3. Len(s) + 1 \in DOMAIN t /\ \A i \in DOMAIN s : i \in DOMAIN t
        BY <4>2
      <4> QED BY <4>1, <4>2, <4>3 DEF Range
    <3>2. Keep(s, T) = Keep(s, U)
      BY <2>2, <3>1
    <3>3. e \in T <=> e \in U
      BY <2>2, <3>1
    <3>4. Keep(Append(s, e), T) = IF e \in T THEN Append(Keep(s, T), e) ELSE Keep(s, T)
      BY <2>1, KeepAppend
    <3>5. Keep(Append(s, e), U) = IF e \in U THEN Append(Keep(s, U), e) ELSE Keep(s, U)
      BY <2>1, KeepAppend
    <3> QED BY <3>2, <3>3, <3>4, <3>5, Zenon
  <2> QED BY <2>1, <2>2
<1> HIDE DEF P
<1>3. \A s \in Seq(S) : s \in P
  BY <1>1, <1>2, SeqInduction
<1> QED BY <1>3 DEF P

(* Clusters on the disk.                                                   *)
LEMMA TimesSum == \A a, b, c \in Int : (a + b) * c = a * c + b * c
PROOF OBVIOUS

LEMMA TimesOrder == \A a, b \in Int : \A c \in Nat : a <= b => a * c <= b * c
PROOF
<1> SUFFICES ASSUME NEW a \in Int, NEW b \in Int, NEW c \in Nat, a <= b PROVE a * c <= b * c
  OBVIOUS
<1>1. PICK d \in Nat : d = b - a /\ b = a + d
  <2>1. b - a \in Nat /\ b = a + (b - a)
    OBVIOUS
  <2> QED BY <2>1
<1>2. d * c \in Nat /\ b * c = a * c + d * c
  BY <1>1, TimesSum
<1> QED BY <1>2

(* A number of clusters fits if it is at most what fits.                   *)
LEMMA BlockFits ==
  ASSUME NEW a \in Int, NEW q \in Nat \ {0}, NEW m \in Int
  PROVE  m * q <= a <=> m <= a \div q
PROOF
<1>1. PICK d \in Int : d = a \div q /\ d * q <= a /\ a < d * q + q
  <2>1. a \div q \in Int /\ (a \div q) * q <= a /\ a < (a \div q) * q + q
    OBVIOUS
  <2> QED BY <2>1
<1>2. m * q \in Int /\ d * q \in Int
  OBVIOUS
<1>3. m <= d => m * q <= d * q
  BY TimesOrder
<1>4. d + 1 <= m => (d + 1) * q <= m * q
  BY TimesOrder
<1>5. (d + 1) * q = d * q + q
  BY TimesSum
<1> QED BY <1>1, <1>2, <1>3, <1>4, <1>5

(* The sectors of a cluster are those whose quotient it is.                *)
LEMMA OfCluster ==
  ASSUME NEW offset \in Nat, NEW q \in Nat \ {0}, NEW x \in Int, NEW s \in Int,
         offset + x * q <= s, s < (offset + x * q) + q
  PROVE  (s - offset) \div q = x
PROOF
<1>1. PICK a \in Int : a = s - offset
  OBVIOUS
<1>2. x * q \in Int /\ x * q <= a /\ a < x * q + q
  BY <1>1
<1>3. (x + 1) * q = x * q + q
  BY TimesSum
<1>4. x <= a \div q
  BY <1>2, BlockFits
<1>5. ~(x + 1 <= a \div q)
  BY <1>2, <1>3, BlockFits
<1>6. a \div q \in Int
  OBVIOUS
<1> QED BY <1>1, <1>4, <1>5, <1>6

\* A volume whose clusters have sectors.
Clustered(part) == part.offset \in Nat /\ part.spc \in Nat \ {0}

\* What the disk has of n clusters from x on.
ClustersRead(part, size, x, n) == Keep(SectorsFrom(part.offset + x * part.spc, n * part.spc), 0 .. size - 1)

(* Clusters lie one behind the other.                                      *)
LEMMA ClustersGoOn ==
  ASSUME NEW part, Clustered(part), NEW size \in Nat, NEW x \in Nat, NEW n \in Nat
  PROVE  /\ ClustersRead(part, size, x, n) \in Seq(Int) /\ ClustersRead(part, size, x, 1) \in Seq(Int)
         /\ ClustersRead(part, size, x, 1 + n) = ClustersRead(part, size, x, 1) \o ClustersRead(part, size, x + 1, n)
PROOF
<1>1. PICK o \in Nat, q \in Nat : o = part.offset /\ q = part.spc
  BY DEF Clustered
<1>2. PICK s \in Nat, m \in Nat : s = o + x * q /\ m = n * q
  <2>1. x * q \in Nat /\ n * q \in Nat
    OBVIOUS
  <2>2. o + x * q \in Nat
    BY <2>1
  <2> QED BY <2>1, <2>2
<1>3. o + (x + 1) * q = s + q /\ (1 + n) * q = q + m /\ 1 * q = q
  <2>1. (x + 1) * q = x * q + 1 * q /\ (1 + n) * q = 1 * q + n * q /\ x * q \in Int
    BY TimesSum
  <2>2. 1 * q = q
    OBVIOUS
  <2> QED BY <1>2, <2>1, <2>2
<1> DEFINE D == 0 .. size - 1
<1>4. /\ ClustersRead(part, size, x, n) = Keep(SectorsFrom(s, m), D)
      /\ ClustersRead(part, size, x, 1) = Keep(SectorsFrom(s, q), D)
      /\ ClustersRead(part, size, x, 1 + n) = Keep(SectorsFrom(s, q + m), D)
      /\ ClustersRead(part, size, x + 1, n) = Keep(SectorsFrom(s + q, m), D)
  BY <1>1, <1>2, <1>3 DEF ClustersRead
<1> HIDE DEF D
<1>5. SectorsFrom(s, m) \in Seq(Int) /\ SectorsFrom(s, q) \in Seq(Int) /\ SectorsFrom(s + q, m) \in Seq(Int)
  BY SectorsType
<1>6. SectorsFrom(s, q + m) = SectorsFrom(s, q) \o SectorsFrom(s + q, m)
  <2>1. s \in Int
    OBVIOUS
  <2> QED BY <2>1, SectorsGoOn, Zenon
<1>7. Keep(SectorsFrom(s, q) \o SectorsFrom(s + q, m), D) = Keep(SectorsFrom(s, q), D) \o Keep(SectorsFrom(s + q, m), D)
  BY <1>5, KeepConcat
<1> QED BY <1>4, <1>5, <1>6, <1>7, KeepSeq

\* The last cluster that fits, of those counted from 1.
LastOf(part, size) == (size - part.offset) \div part.spc

\* What is sent from x to the end of its run.
Sent(part, size, limit, free, x) ==
  IF x \in CanBeRead(free, LastOf(part, size), limit) THEN ClustersRead(part, size, x, LastFree(free, x) + 1 - x) ELSE <<>>

\* What is read of x, and what is sent of its run behind it.
ReadIn(part, size, R, x) == IF x \in R THEN ClustersRead(part, size, x, 1) ELSE <<>>
SentBehind(part, size, limit, free, x) == IF x + 1 \in free THEN Sent(part, size, limit, free, x + 1) ELSE <<>>

SentInTwo(part, size, limit, free, x) ==
  ReadIn(part, size, CanBeRead(free, LastOf(part, size), limit), x) \o SentBehind(part, size, limit, free, x)

\* The clusters have numbers up to some cluster.
Numbered(free) == \E B \in Nat : free \subseteq 0 .. B - 1

(* Of a run of free clusters all are read, or none.                        *)
LEMMA ReadableIs ==
  ASSUME NEW B \in Nat, NEW free, free \subseteq 0 .. B - 1, NEW last \in Int, NEW limit, NEW x \in free
  PROVE  x \in CanBeRead(free, last, limit) <=> limit = NoLimit \/ LastFree(free, x) < last
PROOF
<1>1. PICK L : /\ L = LastFree(free, x) /\ L \in free /\ x <= L /\ L + 1 \notin free
               /\ x .. L \subseteq free
  BY LastFreeIs
<1>2. x \in Nat /\ L \in Nat
  BY <1>1
<1>3. ASSUME L < last PROVE x < last /\ ~(x .. last \subseteq free)
  <2>1. L + 1 \in x .. last /\ x < last
    BY <1>1, <1>2, <1>3
  <2> QED BY <1>1, <2>1
<1>4. ASSUME NEW y \in x .. last, y \notin free PROVE L < last
  <2>1. y \notin x .. L
    BY <1>1, <1>4
  <2> QED BY <1>2, <2>1
<1>5. x < last /\ ~(x .. last \subseteq free) <=> L < last
  BY <1>3, <1>4
<1> QED BY <1>1, <1>5, Zenon DEF CanBeRead

(* A cluster, and those behind it.                                         *)
LEMMA SentOn ==
  ASSUME NEW free, Numbered(free), NEW part, Clustered(part), NEW size \in Nat, NEW limit, NEW x \in free
  PROVE  /\ Sent(part, size, limit, free, x) \in Seq(Int)
         /\ Sent(part, size, limit, free, x) = SentInTwo(part, size, limit, free, x)
PROOF
<1> PICK B \in Nat : free \subseteq 0 .. B - 1
  BY DEF Numbered
<1>0. PICK last \in Int : last = LastOf(part, size)
  <2>1. PICK a \in Int, q \in Nat \ {0} : a = size - part.offset /\ q = part.spc
    BY DEF Clustered
  <2> QED BY <2>1 DEF LastOf
<1> SUFFICES /\ Sent(part, size, limit, free, x) \in Seq(Int)
             /\ Sent(part, size, limit, free, x) =
                  (IF x \in CanBeRead(free, LastOf(part, size), limit) THEN ClustersRead(part, size, x, 1) ELSE <<>>)
                    \o (IF x + 1 \in free THEN Sent(part, size, limit, free, x + 1) ELSE <<>>)
  BY DEF SentInTwo, ReadIn, SentBehind
<1> DEFINE R == CanBeRead(free, last, limit)
           W(y) == Sent(part, size, limit, free, y)
<1>1. PICK L : /\ L = LastFree(free, x) /\ L \in free /\ x <= L /\ L + 1 \notin free
               /\ (x + 1 \in free => LastFree(free, x + 1) = L)
               /\ (x + 1 \notin free => L = x)
  <2>1. LastFree(free, x) \in free /\ x <= LastFree(free, x) /\ LastFree(free, x) + 1 \notin free
    BY LastFreeIs
  <2>2. IF x + 1 \in free THEN LastFree(free, x + 1) = LastFree(free, x) ELSE LastFree(free, x) = x
    BY LastFreeIs
  <2> QED BY <2>1, <2>2, Zenon
<1>2. x \in Nat /\ L \in Nat /\ x + 1 \in Nat
  BY <1>1
<1>3. x + 1 \in free => (x + 1 \in R <=> x \in R)
  BY <1>1, ReadableIs
<1>4. \A y : W(y) = IF y \in R THEN ClustersRead(part, size, y, LastFree(free, y) + 1 - y) ELSE <<>>
  BY <1>0 DEF Sent
<1> HIDE DEF R, W
<1>5. CASE x \notin R
  <2>1. W(x) = <<>> /\ (x + 1 \in free => W(x + 1) = <<>>)
    BY <1>3, <1>4, <1>5
  <2>2. <<>> \in Seq(Int) /\ <<>> \o <<>> = <<>>
    OBVIOUS
  <2> QED BY <1>0, <1>5, <2>1, <2>2 DEF R, W
<1>6. CASE x \in R
  <2>1. PICK d \in Nat : d = L - x /\ L + 1 - x = 1 + d /\ L + 1 - (x + 1) = d
    <3>1. L - x \in Nat /\ L + 1 - x = 1 + (L - x) /\ L + 1 - (x + 1) = L - x
      BY <1>1, <1>2
    <3> QED BY <3>1
  <2>2. W(x) = ClustersRead(part, size, x, 1 + d)
    BY <1>1, <1>4, <1>6, <2>1
  <2>3. ClustersRead(part, size, x, 1 + d) = ClustersRead(part, size, x, 1) \o ClustersRead(part, size, x + 1, d)
    <3>1. x \in Nat /\ d \in Nat
      BY <1>2
    <3> QED BY <3>1, ClustersGoOn, Zenon
  <2>4. ClustersRead(part, size, x, 1 + d) \in Seq(Int) /\ ClustersRead(part, size, x, 1) \in Seq(Int)
    <3>1. 1 + d \in Nat
      OBVIOUS
    <3> QED BY <1>2, <3>1, ClustersGoOn
  <2>5. CASE x + 1 \in free
    <3>1. W(x + 1) = ClustersRead(part, size, x + 1, d)
      BY <1>1, <1>3, <1>4, <1>6, <2>1, <2>5
    <3> QED BY <1>0, <1>6, <2>2, <2>3, <2>4, <2>5, <3>1 DEF R, W
  <2>6. CASE x + 1 \notin free
    <3>1. 1 + d = 1
      BY <1>1, <1>2, <2>1, <2>6
    <3>2. ClustersRead(part, size, x, 1) \o <<>> = ClustersRead(part, size, x, 1)
      BY <2>4, ConcatEmptySeq
    <3> QED BY <1>0, <1>6, <2>2, <2>4, <2>6, <3>1, <3>2 DEF R, W
  <2> QED BY <2>5, <2>6
<1> QED BY <1>5, <1>6

(* What is read of a run of free clusters is what is sent of it.           *)
LEMMA BlockIs ==
  ASSUME NEW free, Numbered(free), NEW part, Clustered(part), NEW size \in Nat,
         NEW limit \in {NoLimit, size}, NEW x \in free
  PROVE  ReadBlock(part, size, limit, <<x, LastFree(free, x)>>) = Sent(part, size, limit, free, x)
PROOF
<1> PICK B \in Nat : free \subseteq 0 .. B - 1
  BY DEF Numbered
<1>1. PICK L \in Nat : L = LastFree(free, x) /\ x <= L /\ x \in Nat
  <2>1. x \in Nat /\ \A y \in free : y \in Nat
    OBVIOUS
  <2>2. LastFree(free, x) \in free /\ x <= LastFree(free, x)
    BY LastFreeIs
  <2> QED BY <2>1, <2>2
<1>2. PICK o \in Nat, q \in Nat \ {0} : o = part.offset /\ q = part.spc
  BY DEF Clustered
<1>3. PICK n \in Nat : n = L + 1 - x /\ L - x + 1 = n /\ x + n = L + 1
  <2>1. L + 1 - x \in Nat /\ L - x + 1 = L + 1 - x /\ x + (L + 1 - x) = L + 1
    BY <1>1
  <2> QED BY <2>1
<1>4. PICK s \in Nat, m \in Nat : s = o + x * q /\ m = n * q /\ s + m = o + (L + 1) * q
  <2>1. x * q \in Nat /\ n * q \in Nat
    BY <1>1
  <2>2. (x + n) * q = x * q + n * q
    BY <1>1, TimesSum
  <2>3. PICK a \in Nat, b \in Nat : a = x * q /\ b = n * q /\ (L + 1) * q = a + b
    BY <1>3, <2>1, <2>2
  <2>4. o + a \in Nat /\ (o + a) + b = o + (a + b)
    OBVIOUS
  <2> QED BY <2>3, <2>4
<1>5. PICK last \in Int : last = LastOf(part, size) /\ last = (size - o) \div q
  <2>1. size - o \in Int
    OBVIOUS
  <2> QED BY <1>2, <2>1 DEF LastOf
<1>6. ReadBlock(part, size, limit, <<x, L>>) = IF Refused(s + m, limit) THEN <<>> ELSE Keep(SectorsFrom(s, m), 0 .. size - 1)
  <2>1. <<x, L>>[1] = x /\ <<x, L>>[2] = L
    OBVIOUS
  <2> QED BY <1>2, <1>3, <1>4, <2>1 DEF ReadBlock
<1>7. ClustersRead(part, size, x, n) = Keep(SectorsFrom(s, m), 0 .. size - 1)
  BY <1>2, <1>4 DEF ClustersRead
<1>8. s + m <= size <=> L < last
  <2>1. PICK a \in Int : a = (L + 1) * q /\ s + m = o + a
    BY <1>4
  <2>2. a <= size - o <=> L + 1 <= last
    BY <1>5, <2>1, BlockFits
  <2> QED BY <2>1, <2>2
<1>9. Refused(s + m, limit) <=> limit # NoLimit /\ ~(L < last)
  <2>1. s + m \in Nat
    OBVIOUS
  <2> QED BY <1>8, <2>1 DEF Refused, NoLimit
<1>10. x \in CanBeRead(free, last, limit) <=> limit = NoLimit \/ L < last
  BY <1>1, ReadableIs
<1>11. Sent(part, size, limit, free, x) =
         IF x \in CanBeRead(free, last, limit) THEN ClustersRead(part, size, x, n) ELSE <<>>
  BY <1>1, <1>3, <1>5 DEF Sent
<1> QED BY <1>1, <1>6, <1>7, <1>9, <1>10, <1>11, Zenon

\* The sectors on the disk of clusters.
SectorSet(part, size, clusters) == {s \in part.offset .. size - 1 : (s - part.offset) \div part.spc \in clusters}

(* One cluster more, of the sectors of clusters in order.                  *)
LEMMA ClusterOn ==
  ASSUME NEW part, Clustered(part), NEW size \in Nat, NEW R, NEW x \in Nat
  PROVE  /\ Keep(Firsts(part.offset + x * part.spc), SectorSet(part, size, R)) \in Seq(Int)
         /\ Keep(Firsts(part.offset + (x + 1) * part.spc), SectorSet(part, size, R)) =
              Keep(Firsts(part.offset + x * part.spc), SectorSet(part, size, R)) \o ReadIn(part, size, R, x)
PROOF
<1> DEFINE T == SectorSet(part, size, R)
           D == 0 .. size - 1
<1>1. PICK o \in Nat, q \in Nat \ {0} : o = part.offset /\ q = part.spc
  BY DEF Clustered
<1>2. PICK s \in Nat : s = o + x * q /\ o + (x + 1) * q = s + q /\ 1 * q = q /\ o <= s
  <2>1. PICK a \in Nat : a = x * q
    OBVIOUS
  <2>2. (x + 1) * q = a + 1 * q
    BY <2>1, TimesSum
  <2>3. 1 * q = q /\ o + a \in Nat /\ o + (a + q) = (o + a) + q /\ o <= o + a
    OBVIOUS
  <2> QED BY <2>1, <2>2, <2>3
<1>3. PICK f \in Seq(Int), g \in Seq(Int) : f = Firsts(s) /\ g = SectorsFrom(s, q) /\ Firsts(s + q) = f \o g
  <2>1. SectorsFrom(0, s) \o SectorsFrom(0 + s, q) = SectorsFrom(0, s + q)
    <3>1. 0 \in Int
      OBVIOUS
    <3> QED BY <3>1, SectorsGoOn
  <2>2. \A n \in Nat : Firsts(n) = SectorsFrom(0, n)
    BY DEF Firsts, SectorsFrom
  <2>3. 0 + s = s /\ s + q \in Nat
    OBVIOUS
  <2>4. SectorsFrom(0, s) \in Seq(Int) /\ SectorsFrom(s, q) \in Seq(Int)
    BY SectorsType
  <2> QED BY <2>1, <2>2, <2>3, <2>4
<1>4. ASSUME NEW e \in Range(g) PROVE e \in T <=> e \in D /\ x \in R
  <2>1. PICK i \in 1 .. q : e = s + i - 1
    <3>1. PICK i \in DOMAIN g : e = g[i]
      BY DEF Range
    <3>2. DOMAIN g = 1 .. q /\ \A j \in 1 .. q : g[j] = s + j - 1
      BY <1>3 DEF SectorsFrom
    <3> QED BY <3>1, <3>2
  <2>2. e \in Int /\ s <= e /\ e < s + q
    BY <2>1
  <2>3. (e - o) \div q = x
    BY <1>2, <2>2, OfCluster
  <2>4. e \in o .. size - 1 <=> e \in D
    BY <1>2, <2>2
  <2> QED BY <1>1, <2>3, <2>4 DEF SectorSet
<1> HIDE DEF T
<1>5. Keep(g, T) = IF x \in R THEN Keep(g, D) ELSE <<>>
  <2> HIDE DEF D
  <2>1. CASE x \in R
    BY <1>4, <2>1, KeepAlike
  <2>2. CASE x \notin R
    <3>1. Range(g) \cap T = {}
      BY <1>4, <2>2
    <3> QED BY <2>2, <3>1, KeepNone
  <2> QED BY <2>1, <2>2
<1>6. ClustersRead(part, size, x, 1) = Keep(g, D)
  BY <1>1, <1>2, <1>3 DEF ClustersRead
<1>7. Keep(f \o g, T) = Keep(f, T) \o Keep(g, T) /\ Keep(f, T) \in Seq(Int)
  BY KeepConcat, KeepSeq
<1> HIDE DEF D
<1>8. Keep(Firsts(o + x * q), T) \in Seq(Int)
  BY <1>2, <1>3, <1>7
<1>9. Keep(Firsts(o + (x + 1) * q), T) = Keep(Firsts(o + x * q), T) \o ReadIn(part, size, R, x)
  BY <1>2, <1>3, <1>5, <1>6, <1>7 DEF ReadIn
<1> QED BY <1>1, <1>8, <1>9 DEF T

\* What is read of the blocks of free clusters.
ReadOf(part, size, limit, bs) == FlattenSeq([n \in DOMAIN bs |-> ReadBlock(part, size, limit, bs[n])])

(* The blocks have the sectors of the free clusters, in order, but for a   *)
(* run of them whose read is refused.                                      *)
LEMMA BlocksAre ==
  ASSUME NEW free, Numbered(free), NEW part, Clustered(part), NEW size \in Nat, NEW limit \in {NoLimit, size}
  PROVE  ReadOf(part, size, limit, Blocks(free)) =
           Ascending(SectorSet(part, size, CanBeRead(free, LastOf(part, size), limit)))
PROOF
<1> DEFINE A == FirstFree(free)
           first == Ascending(A)
           rd == [a \in A |-> ReadBlock(part, size, limit, <<a, LastFree(free, a)>>)]
<1>1. PICK offset \in Nat, q \in Nat \ {0} : offset = part.offset /\ q = part.spc
  BY DEF Clustered
<1> DEFINE R == CanBeRead(free, LastOf(part, size), limit)
           T == SectorSet(part, size, R)
           W(x) == Sent(part, size, limit, free, x)
           one(x) == ReadIn(part, size, R, x)
           rest(x) == IF x \in free /\ x - 1 \in free THEN W(x) ELSE <<>>
           kk(x) == Keep(Firsts(offset + x * q), T)
           ff(x) == FlatMap(rd, Keep(Firsts(x), A))
<1> SUFFICES ASSUME NEW B \in Nat, free \subseteq 0 .. B - 1
             PROVE  ReadOf(part, size, limit, Blocks(free)) = Ascending(T)
  BY DEF Numbered
<1>2. A \subseteq free /\ A \subseteq 0 .. B - 1 /\ R \subseteq free
  BY DEF FirstFree, CanBeRead
<1>3. ASSUME NEW a \in A PROVE rd[a] = W(a)
  <2>1. a \in free
    BY <1>2
  <2>2. ReadBlock(part, size, limit, <<a, LastFree(free, a)>>) = Sent(part, size, limit, free, a)
    BY <2>1, BlockIs
  <2>3. rd[a] = ReadBlock(part, size, limit, <<a, LastFree(free, a)>>)
    OBVIOUS
  <2> HIDE DEF rd
  <2> QED BY <2>2, <2>3
<1>4. rd \in Maps(A, Seq(Int))
  <2>1. \A a \in A : rd[a] \in Seq(Int)
    <3> TAKE a \in A
    <3>1. a \in free
      BY <1>2
    <3>2. W(a) \in Seq(Int)
      BY <3>1, SentOn
    <3> HIDE DEF rd, W, A
    <3> QED BY <1>3, <3>2
  <2>2. DOMAIN rd = A /\ rd = [a \in A |-> rd[a]]
    OBVIOUS
  <2> HIDE DEF rd
  <2> QED BY <2>1, <2>2 DEF Maps
<1>5. ReadOf(part, size, limit, Blocks(free)) = FlatMap(rd, first)
  <2>1. first \in Seq(A)
    <3>1. first = Keep(Firsts(B), A)
      BY <1>2, AscendingIs
    <3>2. Firsts(B) \in Seq(Nat)
      BY DEF Firsts
    <3>3. Keep(Firsts(B), A) \in Seq(Nat \cap A) /\ Nat \cap A = A
      BY <1>2, <3>2, KeepType
    <3> QED BY <3>1, <3>3
  <2>2. Blocks(free) = [n \in DOMAIN first |-> <<first[n], LastFree(free, first[n])>>]
    BY DEF Blocks, FirstFree, LastFree
  <2> HIDE DEF first
  <2>3. \A n \in DOMAIN first : first[n] \in A
    BY <2>1
  <2>4. \A n \in DOMAIN first : ReadBlock(part, size, limit, <<first[n], LastFree(free, first[n])>>) = rd[first[n]]
    BY <2>3
  <2> HIDE DEF rd
  <2>5. DOMAIN Blocks(free) = DOMAIN first
    BY <2>2
  <2>6. \A n \in DOMAIN first : ReadBlock(part, size, limit, Blocks(free)[n]) = rd[first[n]]
    BY <2>2, <2>4
  <2>7. [n \in DOMAIN Blocks(free) |-> ReadBlock(part, size, limit, Blocks(free)[n])] = [n \in DOMAIN first |-> rd[first[n]]]
    BY <2>5, <2>6
  <2> QED BY <2>7 DEF ReadOf, FlatMap, Along
<1> HIDE DEF rd
<1>6. ASSUME NEW x \in 0 .. B
      PROVE  /\ kk(x) \in Seq(Int)
             /\ kk(x + 1) = kk(x) \o one(x)
             /\ ff(x) \in Seq(Int)
             /\ ff(x + 1) = IF x \in A THEN ff(x) \o rd[x] ELSE ff(x)
  <2>1. ASSUME NEW n \in Nat
        PROVE  Firsts(n) \in Seq(Nat) /\ Firsts(n + 1) = Append(Firsts(n), n)
    BY DEF Firsts
  <2>2. kk(x) \in Seq(Int) /\ kk(x + 1) = kk(x) \o one(x)
    <3>1. x \in Nat
      OBVIOUS
    <3>2. /\ Keep(Firsts(part.offset + x * part.spc), T) \in Seq(Int)
          /\ Keep(Firsts(part.offset + (x + 1) * part.spc), T) = Keep(Firsts(part.offset + x * part.spc), T) \o one(x)
      <4> HIDE DEF R
      <4> QED BY <3>1, ClusterOn, Zenon
    <3> HIDE DEF T, one
    <3> QED BY <1>1, <3>2
  <2>8. Firsts(x) \in Seq(Nat) /\ Firsts(x + 1) = Append(Firsts(x), x) /\ x \in Nat
    <3>1. x \in Nat
      OBVIOUS
    <3> QED BY <2>1, <3>1
  <2>9. Keep(Firsts(x), A) \in Seq(A)
    <3>1. Keep(Firsts(x), A) \in Seq(Nat \cap A) /\ Nat \cap A = A
      <4>1. Nat \cap A = A
        BY <1>2
      <4> HIDE DEF A
      <4> QED BY <2>8, <4>1, KeepType, Zenon
    <3> QED BY <3>1, Zenon
  <2>10. ff(x) \in Seq(Int)
    BY <1>4, <2>9, FlatMapType
  <2>11. Keep(Firsts(x + 1), A) = IF x \in A THEN Append(Keep(Firsts(x), A), x) ELSE Keep(Firsts(x), A)
    <3> HIDE DEF A
    <3> QED BY <2>8, FirstsOn
  <2>12. ff(x + 1) = IF x \in A THEN ff(x) \o rd[x] ELSE ff(x)
    <3> HIDE DEF A
    <3>1. CASE x \in A
      BY <1>4, <2>9, <2>11, <3>1, FlatMapAppend
    <3>2. CASE x \notin A
      BY <2>11, <3>2
    <3> QED BY <3>1, <3>2
  <2> QED BY <2>2, <2>10, <2>12
<1>7. ff(0) = <<>> /\ kk(0) = <<>>
  <2>1. Firsts(0) = <<>> /\ offset + 0 * q = offset /\ Firsts(offset) \in Seq(Nat)
    BY DEF Firsts
  <2>2. ff(0) = <<>>
    BY <2>1, KeepEmpty, FlatMapEmpty
  <2>3. Range(Firsts(offset)) \cap T = {}
    <3>1. \A y \in Range(Firsts(offset)) : y < offset
      BY DEF Firsts, Range
    <3>2. \A y \in T : ~(y < offset)
      BY <1>1 DEF SectorSet
    <3> QED BY <3>1, <3>2
  <2>4. Keep(Firsts(offset), T) = <<>>
    <3> HIDE DEF T
    <3> QED BY <2>1, <2>3, KeepNone
  <2> QED BY <2>1, <2>2, <2>4
<1>8. ASSUME NEW x \in free PROVE W(x) \in Seq(Int) /\ W(x) = one(x) \o (IF x + 1 \in free THEN W(x + 1) ELSE <<>>)
  <2>1. W(x) \in Seq(Int) /\ W(x) = SentInTwo(part, size, limit, free, x)
    BY SentOn
  <2>2. SentBehind(part, size, limit, free, x) = IF x + 1 \in free THEN W(x + 1) ELSE <<>>
    BY DEF SentBehind
  <2> QED BY <2>1, <2>2 DEF SentInTwo
<1> DEFINE J == {x \in 0 .. B : ff(x) = kk(x) \o rest(x)}
<1> HIDE DEF kk, ff, W, T, R, A
<1>9. 0 \in J
  <2>1. rest(0) = <<>>
    <3>1. 0 - 1 \notin free
      OBVIOUS
    <3> QED BY <3>1
  <2>2. <<>> \o <<>> = <<>>
    OBVIOUS
  <2>3. 0 \in 0 .. B
    OBVIOUS
  <2>4. ff(0) = kk(0) \o rest(0)
    BY <1>7, <2>1, <2>2
  <2> HIDE DEF rest
  <2> QED BY <2>3, <2>4
<1>10. ASSUME NEW x \in 0 .. B - 1, x \in J PROVE x + 1 \in J
  <2>1. x \in 0 .. B /\ x + 1 \in 0 .. B /\ (x + 1) - 1 = x
    OBVIOUS
  <2>2. ff(x) = kk(x) \o rest(x) /\ kk(x) \in Seq(Int) /\ ff(x) \in Seq(Int)
    BY <1>6, <1>10, <2>1
  <2>3. /\ kk(x + 1) = kk(x) \o one(x)
        /\ ff(x + 1) = IF x \in A THEN ff(x) \o rd[x] ELSE ff(x)
    BY <1>6, <2>1
  <2>4. kk(x) \o <<>> = kk(x)
    BY <2>2
  <2>5. CASE x \notin free
    <3>1. rest(x) = <<>> /\ rest(x + 1) = <<>> /\ one(x) = <<>> /\ x \notin A
      BY <1>2, <2>1, <2>5 DEF ReadIn
    <3> HIDE DEF rest, one
    <3>2. ff(x + 1) = kk(x + 1) \o rest(x + 1)
      BY <2>2, <2>3, <2>4, <3>1
    <3> QED BY <2>1, <3>2
  <2>6. CASE x \in free
    <3>1. ff(x + 1) = kk(x) \o W(x)
      <4>1. CASE x - 1 \in free
        <5>1. x \notin A /\ rest(x) = W(x)
          BY <2>6, <4>1 DEF A, FirstFree
        <5> QED BY <2>2, <2>3, <5>1
      <4>2. CASE x - 1 \notin free
        <5>1. x \in A /\ rest(x) = <<>>
          BY <2>6, <4>2 DEF A, FirstFree
        <5>2. rd[x] = W(x)
          BY <1>3, <5>1
        <5> QED BY <2>2, <2>3, <2>4, <5>1, <5>2
      <4> QED BY <4>1, <4>2
    <3>2. W(x) = one(x) \o rest(x + 1)
      BY <1>8, <2>1, <2>6
    <3>3. one(x) \in Seq(Int) /\ rest(x + 1) \in Seq(Int)
      <4>1. x \in Nat /\ <<>> \in Seq(Int) /\ 0 \in Nat
        OBVIOUS
      <4>2. one(x) \in Seq(Int)
        BY <4>1, ClustersGoOn DEF ReadIn
      <4>3. rest(x + 1) \in Seq(Int)
        BY <1>8, <4>1
      <4> QED BY <4>2, <4>3
    <3> HIDE DEF rest, one
    <3>4. Associates(kk(x), one(x), rest(x + 1))
      BY <2>2, <3>3, Associative
    <3>5. ff(x + 1) = kk(x + 1) \o rest(x + 1)
      BY <2>3, <3>1, <3>2, <3>4 DEF Associates
    <3> QED BY <2>1, <3>5
  <2> QED BY <2>5, <2>6
<1>11. B \in J
  <2> HIDE DEF J
  <2>1. 0 .. B \subseteq J
    BY <1>9, <1>10, BoundedInduction
  <2> QED BY <2>1
<1>12. ff(B) = kk(B)
  <2>1. B \notin free /\ rest(B) = <<>> /\ ff(B) = kk(B) \o rest(B)
    BY <1>11
  <2>2. B \in 0 .. B
    OBVIOUS
  <2>3. kk(B) \in Seq(Int)
    BY <1>6, <2>2
  <2> QED BY <2>1, <2>3
<1>13. first = Keep(Firsts(B), A)
  BY <1>2, AscendingIs
<1>14. Ascending(T) = kk(B)
  <2>1. PICK n \in Nat : n = offset + B * q
    <3>1. B * q \in Nat
      OBVIOUS
    <3> QED BY <3>1
  <2>2. ASSUME NEW y \in T PROVE y \in 0 .. n - 1
    <3>1. y \in Int /\ offset <= y /\ (y - offset) \div q \in R
      BY <1>1 DEF T, SectorSet
    <3>2. PICK d \in Int : d = y - offset
      BY <3>1
    <3>3. ~(B <= d \div q)
      <4>1. d \div q \in 0 .. B - 1
        BY <1>2, <3>1, <3>2
      <4> QED BY <4>1
    <3>4. ~(B * q <= d)
      BY <3>3, BlockFits
    <3>5. B * q \in Int
      OBVIOUS
    <3> QED BY <2>1, <3>1, <3>2, <3>4, <3>5
  <2>3. T \subseteq 0 .. n - 1
    BY <2>2
  <2>4. kk(B) = Keep(Firsts(n), T)
    BY <2>1 DEF kk
  <2> QED BY <2>3, <2>4, AscendingIs
<1>15. ReadOf(part, size, limit, Blocks(free)) = Ascending(T)
  BY <1>5, <1>12, <1>13, <1>14 DEF ff
<1> QED BY <1>15 DEF T, R
-----------------------------------------------------------------------------
(* What is written *)

\* Where a block begins and ends.
Pairs == {b \in Nat \X Nat : b[1] <= b[2]}

Sectors == 0 .. job.size - 1

\* What is read of a partition, what is still to come, and all of it.
BlocksOf(p) == Blocks(FreeClusters(p))
SendsOf     == [p \in DOMAIN Partitions |-> ReadOf(job.parts[p], job.size, Limit, BlocksOf(p))]
ToSend      == ReadOf(job.parts[blocks.part], job.size, Limit, blocks.left) \o FlatMap(SendsOf, blocks.todo)
AllSends    == FlatMap(SendsOf, Numbers(Len(Partitions)))

\* The file when this has been written, if it can be.
Saved(f) == job.old \o (IF job.writable THEN f ELSE <<>>)

\* Where main is when the blocks are written.
Drained == {"clusters", "loop", "selected", "again", "done"}

BlocksTyped ==
  /\ blocks \in [todo : Seq(DOMAIN Partitions), part : {0} \cup DOMAIN Partitions, left : Seq(Pairs)]
  /\ blocks.left # <<>> => blocks.part \in Ntfs

\* What is written, is held and is to come is all there is to write.
UnallocInv ==
  /\ job \in Jobs /\ BlocksTyped
  /\ held \in Seq(Seq(Sectors)) /\ Len(held) <= 1
  /\ \E f \in Seq(Sectors) : file = Saved(f) /\ f \o (FlattenSeq(held) \o ToSend) = AllSends
  /\ args.unallocated /\ phase \in Drained => Collected

(* A volume and its disk.                                                  *)
LEMMA VolumeTypes ==
  ASSUME job \in Jobs
  PROVE  /\ job.size \in Nat /\ Limit \in {NoLimit, job.size} /\ Limit \in Int /\ DOMAIN Partitions = 1 .. Len(Partitions) /\ Len(Partitions) \in Nat
         /\ \A p \in DOMAIN Partitions : p \in DOMAIN job.parts
         /\ \A p \in Ntfs : /\ Listed(job.parts[p]) /\ Clustered(job.parts[p]) /\ job.size > 0
                            /\ DOMAIN job.bits = 0 .. job.size - 1
                            /\ \A s \in 0 .. job.size - 1 : job.bits[s] \in Seq(BOOLEAN)
PROOF
<1>1. /\ job.size \in Nat /\ DOMAIN job.bits = 0 .. job.size - 1 /\ job.parts \in Seq(ToSet(job.parts))
      /\ \A p \in DOMAIN job.parts : job.parts[p].volume # "none" => job.parts[p].spc \in Nat \ {0}
  BY EvidenceAssumption
<1>2. DOMAIN Partitions = 1 .. Len(Partitions) /\ Len(Partitions) \in Nat
  <2>1. CASE args.search
    BY <2>1 DEF Partitions
  <2>2. CASE ~args.search
    BY <1>1, <2>2, LenProperties DEF Partitions
  <2> QED BY <2>1, <2>2
<1>3. \A p \in DOMAIN Partitions : p \in DOMAIN job.parts
  <2>1. CASE args.search
    BY <2>1 DEF Partitions
  <2>2. CASE ~args.search
    BY <2>2 DEF Partitions
  <2> QED BY <2>1, <2>2
<1>4. ASSUME NEW p \in Ntfs
      PROVE  /\ Listed(job.parts[p]) /\ Clustered(job.parts[p]) /\ job.size > 0
             /\ \A s \in 0 .. job.size - 1 : job.bits[s] \in Seq(BOOLEAN)
  <2>1. p \in DOMAIN job.parts /\ job.parts[p].volume = "ntfs"
    BY DEF Ntfs
  <2>2. /\ job.size > 0 /\ \A s \in 0 .. job.size - 1 : job.bits[s] \in Seq(BOOLEAN)
        /\ job.parts[p].offset \in Nat /\ job.parts[p].bitmap \in Seq([rel : Int, len : Nat])
    BY <2>1, UnallocatedAssumption
  <2>3. Listed(job.parts[p])
    BY <2>2 DEF Listed, BitmapRun
  <2>4. Clustered(job.parts[p])
    BY <1>1, <2>1, <2>2 DEF Clustered
  <2> QED BY <2>2, <2>3, <2>4
<1>5. Limit \in {NoLimit, job.size} /\ Limit \in Int
  BY <1>1 DEF Limit, NoLimit
<1> QED BY <1>1, <1>2, <1>3, <1>4, <1>5

(* The bits of sectors.                                                    *)
LEMMA BitsType ==
  ASSUME NEW size \in Nat, size > 0, NEW bits, DOMAIN bits = 0 .. size - 1,
         \A s \in 0 .. size - 1 : bits[s] \in Seq(BOOLEAN), NEW sectors \in Seq(Int)
  PROVE  Bits(bits, sectors) \in Seq(BOOLEAN)
PROOF
<1> DEFINE of(s) == IF s \in DOMAIN bits THEN bits[s] ELSE [b \in DOMAIN bits[0] |-> FALSE]
           ss == [n \in DOMAIN sectors |-> of(sectors[n])]
           W == Seq(BOOLEAN)
<1>1. bits[0] \in W
  <2>1. 0 \in 0 .. size - 1
    OBVIOUS
  <2> QED BY <2>1
<1>2. [b \in DOMAIN bits[0] |-> FALSE] \in W
  <2>1. DOMAIN bits[0] = 1 .. Len(bits[0]) /\ Len(bits[0]) \in Nat
    BY <1>1, LenProperties
  <2> QED BY <2>1
<1>3. ASSUME NEW s PROVE of(s) \in W
  <2>1. CASE s \in DOMAIN bits
    BY <2>1
  <2>2. CASE s \notin DOMAIN bits
    BY <1>2, <2>2
  <2> QED BY <2>1, <2>2
<1> HIDE DEF of, W
<1>4. ss \in Seq(W)
  <2>1. DOMAIN sectors = 1 .. Len(sectors) /\ Len(sectors) \in Nat
    OBVIOUS
  <2>2. \A n \in 1 .. Len(sectors) : of(sectors[n]) \in W
    BY <1>3
  <2> QED BY <2>1, <2>2
<1>5. FlattenSeq(ss) \in Seq(BOOLEAN)
  <2> HIDE DEF ss
  <2> QED BY <1>4, FlattenType DEF W
<1> QED BY <1>5 DEF Bits, of

(* The free clusters are those of the reference, and there is a last one.  *)
LEMMA FreeIs ==
  ASSUME job \in Jobs
  PROVE  /\ \A p \in Ntfs : FreeClusters(p) = FreeBy(Bits(job.bits, BitmapBy(job.parts[p], Limit, 1)))
         /\ \A p : p \notin Ntfs => FreeClusters(p) = {}
         /\ \A p : \E B \in Nat : FreeClusters(p) \subseteq 0 .. B - 1
PROOF
<1>1. ASSUME NEW p \in Ntfs
      PROVE  /\ FreeClusters(p) = FreeBy(Bits(job.bits, BitmapBy(job.parts[p], Limit, 1)))
             /\ \E B \in Nat : FreeClusters(p) \subseteq 0 .. B - 1
  <2>1. PICK c : c = GetContent(job.parts[p], Limit, 1)
    OBVIOUS
  <2>2. c = BitmapBy(job.parts[p], Limit, 1) /\ c \in Seq(Int)
    BY <2>1, VolumeTypes, ContentIs
  <2>3. PICK b : b = Bits(job.bits, c)
    OBVIOUS
  <2>4. b \in Seq(BOOLEAN)
    BY <2>2, <2>3, VolumeTypes, BitsType
  <2>5. FreeClusters(p) = FreeBy(b)
    BY <2>1, <2>3 DEF FreeClusters
  <2>6. FreeBy(b) \subseteq 0 .. Len(b) - 1 /\ Len(b) \in Nat
    BY <2>4 DEF FreeBy
  <2> QED BY <2>2, <2>3, <2>5, <2>6
<1>2. ASSUME NEW p, p \notin Ntfs PROVE FreeClusters(p) = {} /\ \E B \in Nat : FreeClusters(p) \subseteq 0 .. B - 1
  <2>1. 0 \in Nat /\ FreeClusters(p) = {}
    BY <1>2 DEF FreeClusters
  <2> QED BY <2>1
<1> QED BY <1>1, <1>2

(* Blocks begin before they end.                                           *)
LEMMA BlocksType ==
  ASSUME job \in Jobs
  PROVE  \A p : BlocksOf(p) \in Seq(Pairs) /\ (p \notin Ntfs => BlocksOf(p) = <<>>)
PROOF
<1> SUFFICES ASSUME NEW p PROVE BlocksOf(p) \in Seq(Pairs) /\ (p \notin Ntfs => BlocksOf(p) = <<>>)
  OBVIOUS
<1> PICK free : free = FreeClusters(p)
  OBVIOUS
<1>1. PICK B \in Nat : free = FreeClusters(p) /\ free \subseteq 0 .. B - 1
  BY FreeIs
<1> DEFINE A == FirstFree(free)
<1>2. PICK first : first = Ascending(A) /\ first \in Seq(A)
  <2>1. A \subseteq 0 .. B - 1 /\ Firsts(B) \in Seq(Nat)
    BY <1>1 DEF FirstFree, Firsts
  <2>2. Ascending(A) = Keep(Firsts(B), A)
    BY <2>1, AscendingIs
  <2>3. Keep(Firsts(B), A) \in Seq(Nat \cap A) /\ Nat \cap A = A
    BY <2>1, KeepType
  <2> QED BY <2>2, <2>3
<1>3. BlocksOf(p) = [n \in DOMAIN first |-> <<first[n], LastFree(free, first[n])>>]
  BY <1>1, <1>2 DEF BlocksOf, Blocks, FirstFree, LastFree
<1>4. \A a \in A : <<a, LastFree(free, a)>> \in Pairs
  <2> TAKE a \in A
  <2>1. a \in free /\ a \in Nat /\ \A y \in free : y \in Nat
    BY <1>1 DEF FirstFree
  <2>2. PICK L : L = LastFree(free, a) /\ L \in free /\ a <= L
    BY <1>1, <2>1, LastFreeIs
  <2>3. <<a, L>> \in Nat \X Nat /\ <<a, L>>[1] = a /\ <<a, L>>[2] = L
    BY <2>1, <2>2
  <2> QED BY <2>2, <2>3 DEF Pairs
<1> HIDE DEF A
<1>5. DOMAIN first = 1 .. Len(first) /\ Len(first) \in Nat /\ \A n \in 1 .. Len(first) : first[n] \in A
  BY <1>2
<1>6. BlocksOf(p) \in Seq(Pairs)
  BY <1>3, <1>4, <1>5
<1>7. ASSUME p \notin Ntfs PROVE BlocksOf(p) = <<>>
  <2>1. free = {}
    BY <1>1, <1>7, FreeIs
  <2>2. A = {}
    BY <2>1 DEF A, FirstFree
  <2>3. DOMAIN first = {}
    BY <1>5, <2>2
  <2> QED BY <1>3, <2>3
<1> QED BY <1>6, <1>7

\* What is read of blocks is what is read of each.
ReadsEach(part, size, limit) ==
  \E rd \in Maps(Pairs, Seq(0 .. size - 1)) :
    /\ \A b \in Pairs : rd[b] = ReadBlock(part, size, limit, b)
    /\ \A bs \in Seq(Pairs) : ReadOf(part, size, limit, bs) = FlatMap(rd, bs)

(* Sectors of the disk are read, block by block.                           *)
LEMMA ReadOfIs ==
  ASSUME NEW part, Clustered(part), NEW size \in Nat, NEW limit
  PROVE  ReadsEach(part, size, limit)
PROOF
<1> DEFINE rd == [b \in Pairs |-> ReadBlock(part, size, limit, b)]
           D == 0 .. size - 1
           W == Seq(D)
<1>1. ASSUME NEW b \in Pairs PROVE rd[b] \in W
  <2>1. PICK f \in Nat, l \in Nat : f = part.offset + b[1] * part.spc /\ l = (b[2] - b[1] + 1) * part.spc
    <3>1. PICK x \in Nat, y \in Nat : x = b[1] /\ y = b[2] - b[1] + 1
      BY DEF Pairs
    <3>2. PICK c \in Nat : c = part.spc
      BY DEF Clustered
    <3>3. x * c \in Nat /\ y * c \in Nat
      OBVIOUS
    <3> QED BY <3>1, <3>2, <3>3 DEF Clustered
  <2>2. rd[b] = IF Refused(f + l, limit) THEN <<>> ELSE Keep(SectorsFrom(f, l), D)
    BY <2>1 DEF ReadBlock
  <2>3. Keep(SectorsFrom(f, l), D) \in W
    <3>1. SectorsFrom(f, l) \in Seq(Int)
      BY SectorsType
    <3>2. Int \cap D = D
      OBVIOUS
    <3> HIDE DEF D
    <3> QED BY <3>1, <3>2, KeepType
  <2>4. <<>> \in W
    OBVIOUS
  <2> HIDE DEF rd, W
  <2> QED BY <2>2, <2>3, <2>4
<1>2. rd \in Maps(Pairs, W)
  <2>1. rd = [b \in Pairs |-> rd[b]]
    OBVIOUS
  <2> HIDE DEF rd, W
  <2> QED BY <1>1, <2>1 DEF Maps
<1>3. ASSUME NEW bs \in Seq(Pairs) PROVE ReadOf(part, size, limit, bs) = FlatMap(rd, bs)
  <2>1. \A n \in DOMAIN bs : bs[n] \in Pairs
    OBVIOUS
  <2>2. [n \in DOMAIN bs |-> ReadBlock(part, size, limit, bs[n])] = [n \in DOMAIN bs |-> rd[bs[n]]]
    BY <2>1
  <2> QED BY <2>2 DEF ReadOf, FlatMap, Along
<1>4. \A b \in Pairs : rd[b] = ReadBlock(part, size, limit, b)
  OBVIOUS
<1> QED BY <1>2, <1>3, <1>4 DEF ReadsEach, W, D

(* What is read of a partition are sectors.                                *)
LEMMA SendsType ==
  ASSUME job \in Jobs
  PROVE  /\ SendsOf \in Maps(DOMAIN Partitions, Seq(Sectors))
         /\ \A p \in Ntfs : \A bs \in Seq(Pairs) : ReadOf(job.parts[p], job.size, Limit, bs) \in Seq(Sectors)
         /\ \A part, size, limit : ReadOf(part, size, limit, <<>>) = <<>>
PROOF
<1>1. ASSUME NEW p \in Ntfs, NEW bs \in Seq(Pairs) PROVE ReadOf(job.parts[p], job.size, Limit, bs) \in Seq(Sectors)
  <2>1. PICK part, size, limit : part = job.parts[p] /\ size = job.size /\ limit = Limit
    OBVIOUS
  <2>2. Clustered(part) /\ size \in Nat
    BY <2>1, VolumeTypes
  <2>3. PICK rd \in Maps(Pairs, Seq(0 .. size - 1)) :
          \A cs \in Seq(Pairs) : ReadOf(part, size, limit, cs) = FlatMap(rd, cs)
    <3>1. ReadsEach(part, size, limit)
      BY <2>2, ReadOfIs
    <3> QED BY <3>1, Zenon DEF ReadsEach
  <2>4. FlatMap(rd, bs) \in Seq(0 .. size - 1)
    BY FlatMapType
  <2> QED BY <2>1, <2>3, <2>4 DEF Sectors
<1>2. ASSUME NEW part, NEW size, NEW limit PROVE ReadOf(part, size, limit, <<>>) = <<>>
  <2>1. [n \in DOMAIN <<>> |-> ReadBlock(part, size, limit, <<>>[n])] = <<>>
    OBVIOUS
  <2> QED BY <2>1, FlattenEmpty DEF ReadOf
<1>3. ASSUME NEW p \in DOMAIN Partitions PROVE SendsOf[p] \in Seq(Sectors)
  <2>1. SendsOf[p] = ReadOf(job.parts[p], job.size, Limit, BlocksOf(p))
    BY DEF SendsOf
  <2>2. CASE p \in Ntfs
    BY <1>1, <2>1, <2>2, BlocksType
  <2>3. CASE p \notin Ntfs
    <3>1. <<>> \in Seq(Sectors)
      OBVIOUS
    <3> QED BY <1>2, <2>1, <2>3, <3>1, BlocksType
  <2> QED BY <2>2, <2>3
<1>4. SendsOf \in Maps(DOMAIN Partitions, Seq(Sectors))
  <2>1. SendsOf = [p \in DOMAIN Partitions |-> SendsOf[p]]
    BY DEF SendsOf
  <2> QED BY <1>3, <2>1 DEF Maps
<1> QED BY <1>1, <1>2, <1>4

(* The parts of what is to be written.                                     *)
LEMMA ToSendType ==
  ASSUME UnallocInv
  PROVE  /\ ReadOf(job.parts[blocks.part], job.size, Limit, blocks.left) \in Seq(Sectors)
         /\ FlatMap(SendsOf, blocks.todo) \in Seq(Sectors)
         /\ ToSend \in Seq(Sectors) /\ FlattenSeq(held) \in Seq(Sectors)
PROOF
<1>1. blocks.todo \in Seq(DOMAIN Partitions) /\ blocks.left \in Seq(Pairs)
  BY DEF UnallocInv, BlocksTyped
<1>2. PICK r, d : /\ r = ReadOf(job.parts[blocks.part], job.size, Limit, blocks.left)
                  /\ d = FlatMap(SendsOf, blocks.todo)
  OBVIOUS
<1>3. r \in Seq(Sectors)
  <2>1. CASE blocks.left = <<>>
    <3>1. <<>> \in Seq(Sectors)
      OBVIOUS
    <3> QED BY <1>2, <2>1, <3>1, SendsType DEF UnallocInv
  <2>2. CASE blocks.left # <<>>
    BY <1>1, <1>2, <2>2, SendsType DEF UnallocInv, BlocksTyped
  <2> QED BY <2>1, <2>2
<1>4. d \in Seq(Sectors)
  BY <1>1, <1>2, SendsType, FlatMapType DEF UnallocInv
<1>5. ToSend \in Seq(Sectors)
  <2>1. ToSend = r \o d
    BY <1>2 DEF ToSend
  <2> QED BY <1>3, <1>4, <2>1
<1>6. FlattenSeq(held) \in Seq(Sectors)
  BY FlattenType DEF UnallocInv
<1> QED BY <1>2, <1>3, <1>4, <1>5, <1>6

(* A step of CollectUnallocated keeps it: the next partition,              *)
LEMMA CollectNextStep ==
  ASSUME UnallocInv, CollectNext, phase = "unallocated"
  PROVE  UnallocInv'
PROOF
<1>1. /\ job' = job /\ held' = held /\ file' = file /\ job \in Jobs /\ BlocksTyped
      /\ blocks.left = <<>> /\ blocks.todo # <<>>
      /\ \/ phase' = "panic" /\ blocks' = blocks
         \/ phase' = phase /\ blocks' = [todo |-> Tail(blocks.todo), part |-> Head(blocks.todo), left |-> BlocksOf(Head(blocks.todo))]
  BY DEF UnallocInv, CollectNext, BlocksOf
<1>2. SendsOf' = SendsOf /\ AllSends' = AllSends /\ Sectors' = Sectors /\ Partitions' = Partitions /\ Ntfs' = Ntfs
      /\ Limit' = Limit
  BY <1>1 DEF SendsOf, AllSends, Sectors, Partitions, Ntfs, BlocksOf, FreeClusters, Limit, args
<1>3. phase' \notin Drained
  BY <1>1 DEF Drained
<1>4. PICK f \in Seq(Sectors) : file = Saved(f) /\ f \o (FlattenSeq(held) \o ToSend) = AllSends
  BY DEF UnallocInv
<1>5. held \in Seq(Seq(Sectors)) /\ Len(held) <= 1
  BY DEF UnallocInv
<1>6. BlocksTyped' /\ ToSend' = ToSend
  <2>1. CASE blocks' = blocks
    BY <1>1, <1>2, <2>1 DEF BlocksTyped, ToSend
  <2>2. CASE blocks' = [todo |-> Tail(blocks.todo), part |-> Head(blocks.todo), left |-> BlocksOf(Head(blocks.todo))]
    <3>1. PICK t, h, l : t = blocks.todo /\ h = Head(t) /\ l = BlocksOf(h)
      OBVIOUS
    <3>2. t \in Seq(DOMAIN Partitions) /\ t # <<>> /\ h \in DOMAIN Partitions /\ Tail(t) \in Seq(DOMAIN Partitions)
      BY <1>1, <3>1 DEF BlocksTyped
    <3>3. l \in Seq(Pairs) /\ (h \notin Ntfs => l = <<>>)
      BY <1>1, <3>1, BlocksType
    <3>4. blocks' = [todo |-> Tail(t), part |-> h, left |-> l]
      BY <2>2, <3>1
    <3>5. BlocksTyped'
      BY <1>2, <3>2, <3>3, <3>4 DEF BlocksTyped
    <3>6. ToSend' = ReadOf(job.parts[h], job.size, Limit, l) \o FlatMap(SendsOf, Tail(t))
      BY <1>1, <1>2, <3>4 DEF ToSend
    <3>7. SendsOf[h] = ReadOf(job.parts[h], job.size, Limit, l)
      BY <3>1, <3>2 DEF SendsOf
    <3>8. FlatMap(SendsOf, t) = SendsOf[h] \o FlatMap(SendsOf, Tail(t))
      BY <1>1, <3>1, <3>2, SendsType, FlatMapHead
    <3>9. ToSend = <<>> \o FlatMap(SendsOf, t)
      BY <1>1, <3>1, SendsType DEF ToSend
    <3>10. FlatMap(SendsOf, t) \in Seq(Sectors)
      BY <3>1, ToSendType
    <3> QED BY <3>5, <3>6, <3>7, <3>8, <3>9, <3>10
  <2> QED BY <1>1, <2>1, <2>2
<1>7. \E g \in Seq(Sectors') : file' = Saved(g)' /\ g \o (FlattenSeq(held') \o ToSend') = AllSends'
  BY <1>1, <1>2, <1>4, <1>6 DEF Saved
<1> QED BY <1>1, <1>2, <1>3, <1>5, <1>6, <1>7 DEF UnallocInv

(* Sequences, one behind the other.                                        *)
LEMMA Concatenated ==
  ASSUME NEW S, NEW a \in Seq(S), NEW b \in Seq(S), NEW c \in Seq(S)
  PROVE  /\ a \o b \in Seq(S) /\ (a \o b) \o c \in Seq(S)
         /\ <<>> \o ((a \o b) \o c) = (a \o b) \o c
PROOF
<1>1. a \o b \in Seq(S)
  OBVIOUS
<1>2. (a \o b) \o c \in Seq(S)
  BY <1>1
<1>3. \A x \in Seq(S) : <<>> \o x = x
  OBVIOUS
<1> QED BY <1>1, <1>2, <1>3

(* the next block,                                                         *)
LEMMA SendBlockStep ==
  ASSUME UnallocInv, SendBlock, phase = "unallocated"
  PROVE  UnallocInv'
PROOF
<1>1. /\ job' = job /\ file' = file /\ phase' = phase /\ job \in Jobs /\ BlocksTyped
      /\ blocks.left # <<>> /\ held = <<>>
      /\ held' = <<ReadBlock(job.parts[blocks.part], job.size, Limit, Head(blocks.left))>>
      /\ blocks' = [blocks EXCEPT !.left = Tail(@)]
  <2>1. job \in Jobs /\ BlocksTyped
    BY DEF UnallocInv
  <2>2. /\ job' = job /\ file' = file /\ phase' = phase /\ blocks.left # <<>> /\ held = <<>>
        /\ held' = <<ReadBlock(job.parts[blocks.part], job.size, Limit, Head(blocks.left))>>
    BY DEF SendBlock
  <2>3. blocks' = [blocks EXCEPT !.left = Tail(@)]
    BY Zenon DEF SendBlock
  <2> QED BY <2>1, <2>2, <2>3, Zenon
<1>2. SendsOf' = SendsOf /\ AllSends' = AllSends /\ Sectors' = Sectors /\ Partitions' = Partitions /\ Ntfs' = Ntfs
  BY <1>1 DEF SendsOf, AllSends, Sectors, Partitions, Ntfs, BlocksOf, FreeClusters, Limit, args
<1>3. PICK b, l, p : b = blocks /\ l = b.left /\ p = b.part
  OBVIOUS
<1>4. l \in Seq(Pairs) /\ l # <<>> /\ p \in Ntfs /\ Tail(l) \in Seq(Pairs) /\ Head(l) \in Pairs
  BY <1>1, <1>3 DEF BlocksTyped
<1>5. blocks'.left = Tail(l) /\ blocks'.part = p /\ blocks'.todo = b.todo /\ BlocksTyped'
  <2> DEFINE T == Seq(DOMAIN Partitions)
             Q == {0} \cup DOMAIN Partitions
             L == Seq(Pairs)
  <2>1. b \in [todo : T, part : Q, left : L] /\ Tail(l) \in L
    BY <1>1, <1>3, <1>4 DEF BlocksTyped
  <2> HIDE DEF T, Q, L
  <2>2. PICK c : c = [b EXCEPT !.left = Tail(l)]
    OBVIOUS
  <2>3. c \in [todo : T, part : Q, left : L] /\ c.left = Tail(l) /\ c.part = p /\ c.todo = b.todo
    BY <1>3, <2>1, <2>2
  <2>4. blocks' = c
    BY <1>1, <1>3, <2>2
  <2> QED BY <1>2, <1>4, <2>3, <2>4 DEF BlocksTyped, T, Q, L
<1>6. PICK part, size : part = job.parts[p] /\ size = job.size
  OBVIOUS
<1>7. Clustered(part) /\ size \in Nat
  BY <1>1, <1>4, <1>6, VolumeTypes
<1>8. PICK r : r = ReadBlock(part, size, Limit, Head(l)) /\ r \in Seq(Sectors)
               /\ ReadOf(part, size, Limit, l) = r \o ReadOf(part, size, Limit, Tail(l))
  <2>1. PICK rd \in Maps(Pairs, Seq(0 .. size - 1)) :
          /\ \A x \in Pairs : rd[x] = ReadBlock(part, size, Limit, x)
          /\ \A bs \in Seq(Pairs) : ReadOf(part, size, Limit, bs) = FlatMap(rd, bs)
    <3>1. ReadsEach(part, size, Limit)
      BY <1>7, ReadOfIs
    <3> QED BY <3>1, Zenon DEF ReadsEach
  <2>2. FlatMap(rd, l) = rd[Head(l)] \o FlatMap(rd, Tail(l))
    BY <1>4, FlatMapHead
  <2>3. rd[Head(l)] \in Seq(0 .. size - 1)
    BY <1>4 DEF Maps
  <2> QED BY <1>4, <1>6, <2>1, <2>2, <2>3 DEF Sectors
<1>9. PICK u, d : u = ReadOf(part, size, Limit, Tail(l)) /\ d = FlatMap(SendsOf, b.todo)
  OBVIOUS
<1>10. u \in Seq(Sectors) /\ d \in Seq(Sectors)
  BY <1>1, <1>3, <1>4, <1>6, <1>9, SendsType, ToSendType
<1>11. held' = <<r>> /\ FlattenSeq(held') = r /\ FlattenSeq(held) = <<>>
  <2>1. held' = <<r>>
    BY <1>1, <1>3, <1>6, <1>8
  <2>2. <<>> \in Seq(Seq(Sectors)) /\ Append(<<>>, r) = <<r>> /\ <<>> \o r = r
    BY <1>8
  <2>3. FlattenSeq(Append(<<>>, r)) = FlattenSeq(<<>>) \o r
    BY <1>8, <2>2, FlattenAppend
  <2> QED BY <1>1, <2>1, <2>2, <2>3, FlattenEmpty
<1>12. ToSend = (r \o u) \o d /\ ToSend' = u \o d
  <2>1. ToSend = ReadOf(part, size, Limit, l) \o d
    BY <1>3, <1>6, <1>9 DEF ToSend
  <2>2. ToSend' = u \o d
    BY <1>1, <1>2, <1>3, <1>5, <1>6, <1>9 DEF ToSend, Limit
  <2> QED BY <1>8, <1>9, <2>1, <2>2
<1>13. FlattenSeq(held) \o ToSend = FlattenSeq(held') \o ToSend'
  <2>1. Associates(r, u, d)
    BY <1>8, <1>10, Associative
  <2>2. <<>> \o ((r \o u) \o d) = (r \o u) \o d
    BY <1>8, <1>10, Concatenated
  <2> QED BY <1>11, <1>12, <2>1, <2>2 DEF Associates
<1>14. PICK f \in Seq(Sectors) : file = Saved(f) /\ f \o (FlattenSeq(held) \o ToSend) = AllSends
  BY DEF UnallocInv
<1>15. \E g \in Seq(Sectors') : file' = Saved(g)' /\ g \o (FlattenSeq(held') \o ToSend') = AllSends'
  BY <1>1, <1>2, <1>13, <1>14 DEF Saved
<1>16. held' \in Seq(Seq(Sectors')) /\ Len(held') <= 1
  BY <1>2, <1>8, <1>11
<1>17. phase' \notin Drained
  BY <1>1 DEF Drained
<1>18. job' \in Jobs
  BY <1>1
<1> QED BY <1>5, <1>15, <1>16, <1>17, <1>18 DEF UnallocInv

(* and what of it is written.                                              *)
LEMMA WriteBlockStep ==
  ASSUME UnallocInv, WriteBlock, phase = "unallocated"
  PROVE  UnallocInv'
PROOF
<1>1. /\ job' = job /\ phase' = phase /\ blocks' = blocks /\ job \in Jobs /\ BlocksTyped
      /\ held # <<>> /\ held' = <<>>
      /\ file' = IF job.writable THEN file \o Head(held) ELSE file
  BY DEF UnallocInv, WriteBlock
<1>2. /\ SendsOf' = SendsOf /\ AllSends' = AllSends /\ Sectors' = Sectors /\ Partitions' = Partitions /\ Ntfs' = Ntfs
      /\ ToSend' = ToSend
  BY <1>1 DEF SendsOf, AllSends, Sectors, Partitions, Ntfs, BlocksOf, FreeClusters, Limit, args, ToSend
<1>3. PICK r : r \in Seq(Sectors) /\ r = Head(held) /\ held = <<r>>
  <2> DEFINE W == Seq(Sectors)
  <2>1. held \in Seq(W) /\ Len(held) <= 1
    BY DEF UnallocInv
  <2> HIDE DEF W
  <2>2. Head(held) \in W /\ held = <<Head(held)>>
    <3>1. PICK h \in Seq(W) : h = held /\ Len(h) <= 1 /\ h # <<>>
      BY <1>1, <2>1
    <3>2. Len(h) # 0 /\ Len(h) \in Nat
      BY <3>1, EmptySeq
    <3>3. PICK n \in Nat : n = Len(h) /\ n # 0 /\ n <= 1
      BY <3>1, <3>2, Zenon
    <3>4. Len(h) = 1
      BY <3>3
    <3>5. h[1] \in W /\ Head(h) = h[1]
      BY <3>4
    <3>6. h = <<h[1]>>
      BY <3>4
    <3> QED BY <3>1, <3>4, <3>6
  <2> QED BY <2>2 DEF W
<1>4. FlattenSeq(held) = r /\ FlattenSeq(held') = <<>>
  <2>1. <<>> \in Seq(Seq(Sectors)) /\ Append(<<>>, r) = <<r>> /\ <<>> \o r = r
    BY <1>3
  <2>2. FlattenSeq(Append(<<>>, r)) = FlattenSeq(<<>>) \o r
    BY <1>3, <2>1, FlattenAppend
  <2> QED BY <1>1, <1>3, <2>1, <2>2, FlattenEmpty
<1>5. PICK f \in Seq(Sectors) : file = Saved(f) /\ f \o (FlattenSeq(held) \o ToSend) = AllSends
  BY DEF UnallocInv
<1>6. PICK t \in Seq(Sectors) : t = ToSend
  BY ToSendType
<1>7. PICK old : old = job.old /\ old \in Seq(ToSet(old))
  BY <1>1, UnallocatedAssumption
<1>8. file' = Saved(f \o r)
  <2> DEFINE S == ToSet(old) \cup Sectors
  <2>1. old \in Seq(S) /\ f \in Seq(S) /\ r \in Seq(S)
    BY <1>3, <1>7
  <2> HIDE DEF S
  <2>2. Associates(old, f, r)
    BY <2>1, Associative
  <2>3. CASE job.writable
    BY <1>1, <1>3, <1>5, <1>7, <2>2, <2>3 DEF Associates, Saved
  <2>4. CASE ~job.writable
    BY <1>1, <1>5, <2>4 DEF Saved
  <2> QED BY <2>3, <2>4
<1>9. (f \o r) \o (FlattenSeq(held') \o t) = AllSends
  <2>1. Associates(f, r, t)
    BY <1>3, Associative
  <2>2. <<>> \o t = t
    OBVIOUS
  <2> QED BY <1>4, <1>5, <1>6, <2>1, <2>2 DEF Associates
<1>10. \E g \in Seq(Sectors') : file' = Saved(g)' /\ g \o (FlattenSeq(held') \o ToSend') = AllSends'
  <2>1. f \o r \in Seq(Sectors)
    BY <1>3
  <2>2. file' = Saved(f \o r)'
    BY <1>1, <1>8 DEF Saved
  <2> QED BY <1>1, <1>2, <1>6, <1>9, <2>1, <2>2
<1>11. BlocksTyped' /\ held' \in Seq(Seq(Sectors)) /\ Len(held') <= 1
  BY <1>1, <1>2 DEF BlocksTyped
<1>12. phase' \notin Drained
  BY <1>1 DEF Drained
<1> QED BY <1>1, <1>2, <1>10, <1>11, <1>12 DEF UnallocInv

(* No other step touches the blocks.                                       *)
LEMMA AsideUnalloc ==
  ASSUME UnallocInv, job' = job, blocks' = blocks, held' = held, file' = file,
         args.unallocated /\ phase' \in Drained => Collected
  PROVE  UnallocInv'
PROOF
<1>1. /\ SendsOf' = SendsOf /\ AllSends' = AllSends /\ Sectors' = Sectors /\ Partitions' = Partitions /\ Ntfs' = Ntfs
      /\ ToSend' = ToSend /\ args' = args
  BY DEF SendsOf, AllSends, Sectors, Partitions, Ntfs, BlocksOf, FreeClusters, Limit, args, ToSend
<1>2. BlocksTyped'
  BY <1>1 DEF UnallocInv, BlocksTyped
<1>3. \E f \in Seq(Sectors') : file' = Saved(f)' /\ f \o (FlattenSeq(held') \o ToSend') = AllSends'
  BY <1>1 DEF UnallocInv, Saved
<1>4. args'.unallocated /\ phase' \in Drained => Collected'
  BY <1>1 DEF Collected
<1>5. job' \in Jobs /\ held' \in Seq(Seq(Sectors')) /\ Len(held') <= 1
  BY <1>1 DEF UnallocInv
<1> QED BY <1>2, <1>3, <1>4, <1>5 DEF UnallocInv

(* It holds at the start,                                                *)
LEMMA InitUnallocInv == Init => UnallocInv
PROOF
<1> SUFFICES ASSUME Init PROVE UnallocInv
  OBVIOUS
<1>1. /\ job \in Jobs /\ phase = "start" /\ held = <<>> /\ file = job.old
      /\ blocks = [todo |-> [p \in DOMAIN Partitions |-> p], part |-> 0, left |-> <<>>]
  BY DEF Init, UnallocatedInit
<1>2. DOMAIN Partitions = 1 .. Len(Partitions) /\ Len(Partitions) \in Nat
  BY <1>1, VolumeTypes
<1>3. PICK t : t = Numbers(Len(Partitions)) /\ t \in Seq(DOMAIN Partitions)
  <2>1. PICK n \in Nat : n = Len(Partitions) /\ DOMAIN Partitions = 1 .. n
    BY <1>2, Zenon
  <2>2. Numbers(n) \in Seq(1 .. n)
    BY DEF Numbers
  <2>3. Numbers(Len(Partitions)) \in Seq(DOMAIN Partitions)
    BY <2>1, <2>2, Zenon
  <2> QED BY <2>3, Zenon
<1>4. blocks.todo = t /\ blocks.left = <<>>
  BY <1>1, <1>2, <1>3 DEF Numbers
<1>5. BlocksTyped
  BY <1>1, <1>2, <1>3, <1>4 DEF BlocksTyped, Numbers
<1>6. FlattenSeq(held) \o ToSend = AllSends /\ AllSends \in Seq(Sectors)
  <2>1. PICK a : a = AllSends /\ a \in Seq(Sectors)
    BY <1>1, <1>3, SendsType, FlatMapType DEF AllSends
  <2>2. ToSend = <<>> \o a
    BY <1>1, <1>3, <1>4, <2>1, SendsType DEF ToSend, AllSends
  <2>3. <<>> \o a = a
    BY <2>1
  <2> QED BY <1>1, <2>1, <2>2, <2>3, FlattenEmpty
<1>7. \E f \in Seq(Sectors) : file = Saved(f) /\ f \o (FlattenSeq(held) \o ToSend) = AllSends
  <2>1. PICK old : old = job.old /\ old \in Seq(ToSet(old))
    BY <1>1, UnallocatedAssumption
  <2>2. old \o <<>> = old /\ <<>> \o AllSends = AllSends /\ <<>> \in Seq(Sectors)
    BY <1>6, <2>1
  <2>3. file = Saved(<<>>)
    BY <1>1, <2>1, <2>2 DEF Saved
  <2> QED BY <1>6, <2>2, <2>3
<1>8. held \in Seq(Seq(Sectors)) /\ Len(held) <= 1
  BY <1>1
<1>9. phase \notin Drained
  BY <1>1 DEF Drained
<1> QED BY <1>1, <1>5, <1>7, <1>8, <1>9 DEF UnallocInv

(* and after every step of main.                                         *)
LEMMA NextUnallocInv == UnallocInv /\ [Next]_vars => UnallocInv'
PROOF
<1> SUFFICES ASSUME UnallocInv, [Next]_vars PROVE UnallocInv'
  OBVIOUS
<1> DEFINE Aside == /\ job' = job /\ blocks' = blocks /\ held' = held /\ file' = file
                    /\ args.unallocated /\ phase' \in Drained => Collected
<1>1. args.unallocated /\ phase \in Drained => Collected
  BY DEF UnallocInv
<1>2. UNCHANGED vars => Aside
  BY <1>1 DEF vars, unallocatedVars
<1>3. Start => Aside
  BY DEF Start, unallocatedVars, Drained
<1>4. ASSUME NEW n \in 1 .. 3, phase' = From(n), job' = job, UNCHANGED unallocatedVars PROVE Aside
  <2>1. From(n) \in {"logfile", "vss", "unallocated", "clusters", "loop"}
    BY FromType
  <2>2. From(n) \in {"clusters", "loop"} => ~args.unallocated
    BY FromAsked
  <2> QED BY <1>4, <2>1, <2>2 DEF unallocatedVars, Drained
<1>5. First \/ Logs \/ Shadows => Aside
  BY <1>4 DEF First, Logs, Shadows
<1>6. Unallocate => Aside
  BY DEF Unallocate, unallocatedVars
<1>7. Again \/ Finish => Aside
  BY <1>1 DEF Again, Finish, unallocatedVars, Drained
<1>8. Report => Aside
  BY <1>1, ShowQuiet DEF Report, unallocatedVars, Drained
<1>9. phase \in {"journal", "again"} /\ ProcessJrnl
        /\ UNCHANGED <<logfile, shadowVars, unallocatedVars, selectionVars, usnrecords>> => Aside
  BY <1>1, JournalStays DEF unallocatedVars, Drained
<1>10. phase = "logfile" /\ ReadLogFile /\ UNCHANGED <<journalVars, shadowVars, unallocatedVars, selectionVars, usnrecords>>
         => Aside
  BY LogFileQuiet DEF unallocatedVars, Drained
<1>11. phase = "vss" /\ ReadShadow /\ UNCHANGED <<journalVars, logfile, unallocatedVars, selectionVars, usnrecords>>
         => Aside
  BY ShadowQuiet DEF unallocatedVars, Drained
<1>12. phase = "clusters" /\ ShowClusters /\ UNCHANGED <<journalVars, logfile, unallocatedVars, selectionVars, usnrecords>>
         => Aside
  BY <1>1, ShowQuiet DEF unallocatedVars, Drained
<1>13. phase = "loop" /\ (\E p \in todo : Select(p))
         /\ UNCHANGED <<journalVars, logfile, shadowVars, unallocatedVars, usnrecords>> => Aside
  BY <1>1, LoopQuiet DEF unallocatedVars, Drained
<1>14. Ended => Aside
  BY <1>2 DEF Ended
<1>15. Aside => UnallocInv'
  BY AsideUnalloc
<1>16. ASSUME phase = "unallocated", CollectUnallocated PROVE UnallocInv'
  <2>1. CASE CollectNext
    BY <1>16, <2>1, CollectNextStep
  <2>2. CASE SendBlock
    BY <1>16, <2>2, SendBlockStep
  <2>3. CASE WriteBlock
    BY <1>16, <2>3, WriteBlockStep
  <2> QED BY <1>16, <2>1, <2>2, <2>3 DEF CollectUnallocated
<1> HIDE DEF Aside
<1> QED BY <1>2, <1>3, <1>5, <1>6, <1>7, <1>8, <1>9, <1>10, <1>11, <1>12, <1>13, <1>14, <1>15, <1>16 DEF Next

(* What is written behind the old are sectors of the disk.                 *)
LEMMA UnallocatedTyped == Spec => []UnallocatedTypeOK
PROOF
<1>1. UnallocInv => UnallocatedTypeOK
  <2> SUFFICES ASSUME UnallocInv PROVE UnallocatedTypeOK
    OBVIOUS
  <2>1. PICK f \in Seq(Sectors) : file = job.old \o f
    <3>1. PICK e \in Seq(Sectors) : file = Saved(e)
      BY DEF UnallocInv
    <3>2. PICK f \in Seq(Sectors) : f = IF job.writable THEN e ELSE <<>>
      <4>1. <<>> \in Seq(Sectors)
        OBVIOUS
      <4> QED BY <4>1
    <3> QED BY <3>1, <3>2 DEF Saved
  <2>2. PICK old : old = job.old /\ old \in Seq(ToSet(old))
    BY UnallocatedAssumption DEF UnallocInv
  <2>3. PICK size : size = job.size /\ Sectors = 0 .. size - 1
    BY DEF Sectors
  <2>4. PICK g : g = old \o f /\ file = g
    BY <2>1, <2>2
  <2>5. /\ DOMAIN g = 1 .. Len(old) + Len(f) /\ Len(old) \in Nat /\ Len(f) \in Nat
        /\ \A n \in 1 .. Len(old) + Len(f) : n > Len(old) => g[n] = f[n - Len(old)]
    BY <2>2, <2>4
  <2>6. \A n \in DOMAIN g : n > Len(old) => g[n] \in Sectors
    <3> TAKE n \in DOMAIN g
    <3>1. HAVE n > Len(old)
    <3>2. n - Len(old) \in 1 .. Len(f) /\ g[n] = f[n - Len(old)]
      BY <2>5, <3>1
    <3>3. \A k \in 1 .. Len(f) : f[k] \in Sectors
      OBVIOUS
    <3> QED BY <3>2, <3>3
  <2>7. \A n \in DOMAIN file : n > Len(job.old) => file[n] \in 0 .. job.size - 1
    BY <2>2, <2>3, <2>4, <2>6
  <2>8. blocks.part \in {0} \cup DOMAIN Partitions /\ Len(held) <= 1
    BY DEF UnallocInv, BlocksTyped
  <2> QED BY <2>7, <2>8 DEF UnallocatedTypeOK
<1> QED BY <1>1, InitUnallocInv, NextUnallocInv, PTL DEF Spec

(* Of a partition the sectors of free clusters are read.                   *)
LEMMA SendsAre ==
  ASSUME job \in Jobs, NEW p \in DOMAIN Partitions
  PROVE  SendsOf[p] = IF p \in Ntfs THEN SectorsOf(job.parts[p], job.size, Limit, job.bits) ELSE <<>>
PROOF
<1>1. SendsOf[p] = ReadOf(job.parts[p], job.size, Limit, BlocksOf(p))
  BY DEF SendsOf
<1>2. CASE p \notin Ntfs
  BY <1>1, <1>2, BlocksType, SendsType
<1>3. CASE p \in Ntfs
  <2>1. PICK part, size, bits, limit : part = job.parts[p] /\ size = job.size /\ bits = job.bits /\ limit = Limit
    OBVIOUS
  <2>2. Clustered(part) /\ size \in Nat /\ limit \in {NoLimit, size}
    BY <1>3, <2>1, VolumeTypes
  <2>3. PICK free : free = FreeClusters(p)
    OBVIOUS
  <2>4. free = FreeBy(Bits(bits, BitmapBy(part, limit, 1))) /\ Numbered(free)
    BY <1>3, <2>1, <2>3, FreeIs DEF Numbered
  <2>5. ReadOf(part, size, limit, Blocks(free)) =
          Ascending(SectorSet(part, size, CanBeRead(free, LastOf(part, size), limit)))
    BY <2>2, <2>4, BlocksAre
  <2>6. SectorsOf(part, size, limit, bits) =
          Ascending(SectorSet(part, size, CanBeRead(free, LastOf(part, size), limit)))
    BY <2>4 DEF SectorsOf, SectorSet, LastOf
  <2> QED BY <1>1, <1>3, <2>1, <2>3, <2>5, <2>6 DEF BlocksOf
<1> QED BY <1>2, <1>3

(* If it can be written the file has, behind what was in it, every sector  *)
(* of the disk in a cluster taken for free and no other, partition by      *)
(* partition, and a reader that refuses reads past the disk loses a run at *)
(* its end: runs joined to be read at once are the runs one by one, blocks *)
(* are the maximal runs of free clusters, of any size, and what is under   *)
(* way between the goroutine and main comes before what is still to come.  *)
THEOREM UnallocatedExactHolds == Spec => []UnallocatedExact
PROOF
<1>1. UnallocInv => UnallocatedExact
  <2> DEFINE found == FlattenSeq([p \in DOMAIN Partitions |->
                        IF p \in Ntfs THEN SectorsOf(job.parts[p], job.size, Limit, job.bits) ELSE <<>>])
  <2> SUFFICES ASSUME UnallocInv, args.unallocated, phase \in {"clusters", "loop", "done"}
               PROVE  file = Saved(found)
    BY DEF UnallocatedExact, Saved
  <2>1. job \in Jobs /\ blocks.todo = <<>> /\ blocks.left = <<>> /\ held = <<>>
    BY DEF UnallocInv, Drained, Collected
  <2>2. PICK f \in Seq(Sectors) : file = Saved(f) /\ f \o (FlattenSeq(held) \o ToSend) = AllSends
    BY DEF UnallocInv
  <2>3. FlattenSeq(held) = <<>> /\ ToSend = <<>>
    <3>1. <<>> \o <<>> = <<>>
      OBVIOUS
    <3> QED BY <2>1, <3>1, FlattenEmpty, FlatMapEmpty, SendsType DEF ToSend
  <2>4. f \o (<<>> \o <<>>) = f
    OBVIOUS
  <2>5. f = AllSends
    BY <2>2, <2>3, <2>4
  <2>6. AllSends = FlattenSeq([p \in DOMAIN Partitions |-> SendsOf[p]])
    <3>1. PICK n \in Nat : n = Len(Partitions) /\ DOMAIN Partitions = 1 .. n
      BY <2>1, VolumeTypes, Zenon
    <3>2. DOMAIN Numbers(n) = 1 .. n /\ \A p \in 1 .. n : Numbers(n)[p] = p
      BY DEF Numbers
    <3>3. Along(SendsOf, Numbers(n)) = [p \in 1 .. n |-> SendsOf[p]]
      BY <3>2 DEF Along
    <3>4. AllSends = FlattenSeq(Along(SendsOf, Numbers(n)))
      BY <3>1, Zenon DEF AllSends, FlatMap
    <3> QED BY <3>1, <3>3, <3>4, Zenon
  <2>7. [p \in DOMAIN Partitions |-> SendsOf[p]]
          = [p \in DOMAIN Partitions |-> IF p \in Ntfs THEN SectorsOf(job.parts[p], job.size, Limit, job.bits) ELSE <<>>]
    BY <2>1, SendsAre
  <2> QED BY <2>2, <2>5, <2>6, <2>7
<1> QED BY <1>1, InitUnallocInv, NextUnallocInv, PTL DEF Spec

(* The type invariant of main: of the phases that of the journal, and of   *)
(* each part what its own invariant says.                                  *)
THEOREM TypeOKHolds == Spec => []TypeOK
PROOF
<1>1. JournalInv => phase \in {"start", "journal", "logfile", "vss", "unallocated", "clusters", "loop", "selected",
                               "again", "done", "panic", "hang"}
  BY DEF JournalInv, Kinds, Phases, After
<1>2. Spec => []JournalInv
  BY InitJournalInv, NextJournalInv, PTL DEF Spec
<1>3. Spec => []JournalTypeOK
  BY JournalTypeHolds
<1>4. Spec => []LogFileTypeOK
  BY LogFileTyped
<1>5. Spec => []ShadowTypeOK
  BY ShadowTyped
<1>6. Spec => []UnallocatedTypeOK
  BY UnallocatedTyped
<1>7. Spec => []SelectionTypeOK
  BY SelectionTyped
<1> QED BY <1>1, <1>2, <1>3, <1>4, <1>5, <1>6, <1>7, PTL DEF TypeOK
=============================================================================
