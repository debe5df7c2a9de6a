---------------------------- MODULE ExportProofs -----------------------------
(***************************************************************************)
(* Exporting and hashing, for all jobs, options and disks: no file is ever *)
(* two files one behind the other, every file is exported once, what is    *)
(* hashed is the file the hash is printed for, what is sent is, unit by    *)
(* unit, what the run lists and the extents say but where the code is      *)
(* known to misread, and reading panics exactly on the records that say    *)
(* more than their buffer holds.                                           *)
(***************************************************************************)
EXTENDS Export, SequenceProofs

RangeOf(s) == {s[k] : k \in 1 .. Len(s)}

(* Where the loop, the producer and HashFiles are.                         *)
Position ==
  /\ rpos >= 1 /\ hpos >= 1
  /\ phase \in {"export", "hash", "panic"} => order # <<>>
  /\ order # <<>> /\ (closed \/ phase \in {"loop", "hash", "done"}) => rpos > Len(records)
  /\ phase = "done" => DOMAIN job = RangeOf(order)

(* The file that is being read is the one the producer is at.              *)
Opened == loc # NoFile => phase \in {"export", "panic"} /\ rpos <= Len(records) /\ ~records[rpos].folder

(* What was sent are files of partitions the loop has taken, in order, and *)
(* those of the partition at hand come last.                               *)
OfTaken(m) ==
  /\ m.part \in RangeOf(order) /\ m.idx \in 1 .. Len(job[m.part].records)
  /\ m.rec = job[m.part].records[m.idx] /\ ~m.rec.folder /\ m # NoResult
  /\ m.part = part => m.idx < rpos

Before(l, m) == (l.part = m.part => l.idx < m.idx) /\ (l.part = part => m.part = part)

Ordered ==
  \A k \in 1 .. Len(sent) : OfTaken(sent[k]) /\ \A j \in 1 .. k - 1 : Before(sent[j], sent[k])

(* Every file that the producer has passed was sent.                       *)
Passed(p, i) == p \in RangeOf(order) /\ (p = part => i < rpos)

AllSent ==
  \A p \in DOMAIN job : \A i \in 1 .. Len(job[p].records) :
    Passed(p, i) /\ ~job[p].records[i].folder =>
      \E k \in 1 .. Len(sent) : sent[k].part = p /\ sent[k].idx = i

(* The channel holds what was sent and not yet taken; the consumer has the *)
(* result before that.                                                     *)
Taken == Len(sent) - Len(results)

Queue ==
  /\ sent \in Seq(RangeOf(sent)) /\ results \in Seq(RangeOf(sent))
  /\ Len(results) <= Len(sent)
  /\ \A k \in 1 .. Len(results) : results[k] = sent[Taken + k] /\ results[k].part = part
  /\ holding # NoResult => Taken >= 1 /\ holding = sent[Taken] /\ holding.part = part

(* A tree: what is in a directory that is there, up to the top.            *)
Tree(F, T) ==
  /\ <<>> \in T /\ F \cap T = {}
  /\ \A x \in F \cup T : x \in Seq(Name) /\ Prefixes(x) \ {x} \subseteq T

(* A path that was written is a file, or will never be: it is a directory  *)
(* with something in it, or has a file above it.                           *)
Settled(F, T, x) ==
  \/ x \in F \/ x = <<>>
  \/ \E f \in F : f \in Prefixes(x) \ {x}
  \/ x \in T /\ \E y \in F \cup T : y # <<>> /\ Up(y) = x

(* The files, with the one that is about to be written if it can be.       *)
Writes(T, q) == q \notin T /\ Up(q) \in T
Present == DOMAIN files \cup {q \in {Path(holding)} : holding # NoResult /\ Writes(dirs, q)}

(* Making the directories of d, removing what is at q, writing q.          *)
Made(F, T, d)     == IF Prefixes(d) \cap F # {} THEN T ELSE T \cup Prefixes(d)
Emptied(F, M, q)  == IF q # <<>> /\ \A y \in (M \cup F) \ {<<>>} : Up(y) # q THEN M \ {q} ELSE M
Rewritten(F, T, q) == (F \ {q}) \cup {y \in {q} : Writes(T, y)}

DirOf(m) == DirPath(m.part, m.rec)

Standing ==
  /\ Tree(Present, dirs)
  /\ \A k \in 1 .. Taken : Settled(Present, dirs, Path(sent[k]))
  /\ \A q \in dirs \ {<<>>} : \E k \in 1 .. Len(sent) : q \in Prefixes(DirOf(sent[k]))

(* Every path that was written has the content of the last result written  *)
(* there, except the one the consumer is about to write.                   *)
Written == IF holding = NoResult THEN Taken ELSE Taken - 1

Files ==
  /\ Standing
  /\ \A path \in DOMAIN files :
       /\ holding # NoResult => path # Path(holding)
       /\ \E k \in 1 .. Written : /\ Path(sent[k]) = path /\ files[path] = sent[k].content
                                  /\ \A j \in k + 1 .. Written : Path(sent[j]) # path

(* Hashes are of what was sent.                                            *)
Hashed == HashOfOwnContent /\ \A h \in hashes : h.part \in DOMAIN job /\ h.idx \in 1 .. Len(job[h.part].records)

IInv == job \in Jobs /\ TypeOK /\ Position /\ Opened /\ Ordered /\ AllSent /\ Queue /\ Files /\ Hashed
-----------------------------------------------------------------------------
LEMMA JobType ==
  ASSUME job \in Jobs
  PROVE  \A p \in DOMAIN job : /\ job[p].records \in Seq(Record)
                               /\ Len(job[p].records) \in Nat
PROOF
<1>1. \A p \in DOMAIN job : job[p] \in Volume
  BY ExportAssumption
<1>2. \A p \in DOMAIN job : job[p].records \in Seq(Record)
  BY <1>1 DEF Volume
<1> QED BY <1>2

(* Appending to a sequence.                                                *)
LEMMA AppendFacts ==
  ASSUME NEW S, NEW s \in Seq(S), NEW x
  PROVE  /\ Append(s, x) \in Seq(S \cup {x}) /\ Len(s) \in Nat /\ Len(Append(s, x)) = Len(s) + 1
         /\ Append(s, x)[Len(s) + 1] = x /\ Append(s, x) # <<>> /\ Last(Append(s, x)) = x
         /\ \A k \in 1 .. Len(s) : Append(s, x)[k] = s[k]
         /\ RangeOf(Append(s, x)) = RangeOf(s) \cup {x}
PROOF
<1>1. s \in Seq(S \cup {x}) /\ Len(s) \in Nat
  OBVIOUS
<1> DEFINE t == Append(s, x)
<1>2. /\ t \in Seq(S \cup {x}) /\ Len(t) = Len(s) + 1 /\ t[Len(s) + 1] = x
      /\ \A k \in 1 .. Len(s) : t[k] = s[k]
  BY <1>1
<1>3. t # <<>>
  BY <1>1, <1>2
<1> HIDE DEF t
<1>4. RangeOf(t) = RangeOf(s) \cup {x}
  BY <1>1, <1>2 DEF RangeOf
<1> QED BY <1>1, <1>2, <1>3, <1>4 DEF Last, t

(* Taking the head of a sequence.                                          *)
LEMMA TailFacts ==
  ASSUME NEW S, NEW s \in Seq(S), s # <<>>
  PROVE  /\ Tail(s) \in Seq(S) /\ Len(s) \in Nat \ {0} /\ Len(Tail(s)) = Len(s) - 1
         /\ Head(s) = s[1] /\ Head(s) \in S
         /\ \A k \in 1 .. Len(s) - 1 : Tail(s)[k] = s[k + 1]
PROOF OBVIOUS

(* The partition at hand is one of the job.                                *)
LEMMA PartInOrder ==
  ASSUME TypeOK, order # <<>>
  PROVE  part \in RangeOf(order) /\ part \in DOMAIN job
PROOF
<1>1. order \in Seq(DOMAIN job) /\ Len(order) \in Nat \ {0}
  BY DEF TypeOK
<1>2. Len(order) \in 1 .. Len(order) /\ order[Len(order)] \in DOMAIN job
  BY <1>1
<1> QED BY <1>2 DEF part, Last, RangeOf

(* Paths.  What a prefix is.                                               *)
LEMMA PrefixIs ==
  ASSUME NEW x \in Seq(Name)
  PROVE  \A y : y \in Prefixes(x) <=>
                  y \in Seq(Name) /\ Len(y) <= Len(x) /\ \A k \in 1 .. Len(y) : y[k] = x[k]
PROOF
<1>1. Len(x) \in Nat
  OBVIOUS
<1>2. ASSUME NEW l \in 0 .. Len(x)
      PROVE  /\ SubSeq(x, 1, l) \in Seq(Name) /\ Len(SubSeq(x, 1, l)) = l
             /\ \A k \in 1 .. l : SubSeq(x, 1, l)[k] = x[k]
  <2>1. \A k \in 1 .. l : x[k] \in Name
    BY <1>1
  <2> QED BY <1>1, <2>1, SubSeqProperties
<1>3. ASSUME NEW y, y \in Prefixes(x)
      PROVE  y \in Seq(Name) /\ Len(y) <= Len(x) /\ \A k \in 1 .. Len(y) : y[k] = x[k]
  <2>1. PICK l \in 0 .. Len(x) : y = SubSeq(x, 1, l)
    BY <1>3 DEF Prefixes
  <2> QED BY <2>1, <1>1, <1>2
<1>4. ASSUME NEW y \in Seq(Name), Len(y) <= Len(x), \A k \in 1 .. Len(y) : y[k] = x[k]
      PROVE  y \in Prefixes(x)
  <2>1. Len(y) \in 0 .. Len(x)
    BY <1>1, <1>4
  <2>2. y = SubSeq(x, 1, Len(y))
    BY <2>1, <1>2, <1>4, SeqEqual
  <2> QED BY <2>1, <2>2 DEF Prefixes
<1> QED BY <1>3, <1>4

LEMMA PrefixOrder ==
  ASSUME NEW x \in Seq(Name)
  PROVE  /\ x \in Prefixes(x) /\ <<>> \in Prefixes(x)
         /\ \A y \in Prefixes(x) : /\ y \in Seq(Name) /\ Prefixes(y) \subseteq Prefixes(x)
                                   /\ x \in Prefixes(y) => y = x
PROOF
<1>1. Len(x) \in Nat
  OBVIOUS
<1>2. x \in Prefixes(x) /\ <<>> \in Prefixes(x)
  <2>1. <<>> \in Seq(Name) /\ Len(<<>>) <= Len(x) /\ \A k \in 1 .. Len(<<>>) : FALSE
    BY <1>1
  <2>2. <<>> \in Prefixes(x)
    BY <2>1, PrefixIs
  <2>3. x \in Prefixes(x)
    BY <1>1, PrefixIs
  <2> QED BY <2>2, <2>3
<1>3. ASSUME NEW y \in Prefixes(x) PROVE y \in Seq(Name) /\ Prefixes(y) \subseteq Prefixes(x)
  <2>1. y \in Seq(Name) /\ Len(y) <= Len(x) /\ \A k \in 1 .. Len(y) : y[k] = x[k]
    BY PrefixIs
  <2>2. ASSUME NEW z \in Prefixes(y) PROVE z \in Prefixes(x)
    <3>1. z \in Seq(Name) /\ Len(z) <= Len(y) /\ \A k \in 1 .. Len(z) : z[k] = y[k]
      BY <2>1, PrefixIs
    <3>2. Len(z) <= Len(x) /\ \A k \in 1 .. Len(z) : k \in 1 .. Len(y)
      BY <1>1, <2>1, <3>1
    <3> QED BY <2>1, <3>1, <3>2, PrefixIs
  <2> QED BY <2>1, <2>2
<1>4. ASSUME NEW y \in Prefixes(x), x \in Prefixes(y) PROVE y = x
  <2>1. y \in Seq(Name) /\ Len(y) <= Len(x) /\ \A k \in 1 .. Len(y) : y[k] = x[k]
    BY PrefixIs
  <2>2. Len(x) <= Len(y)
    BY <1>4, <2>1, PrefixIs
  <2>3. Len(x) = Len(y)
    BY <1>1, <2>1, <2>2
  <2> QED BY <2>1, <2>3, SeqEqual
<1> QED BY <1>2, <1>3, <1>4

(* The directory a path is in.                                             *)
LEMMA UpIs ==
  ASSUME NEW x \in Seq(Name)
  PROVE  /\ Up(x) \in Prefixes(x) /\ Up(x) \in Seq(Name)
         /\ x # <<>> => /\ Up(x) # x /\ x \notin Prefixes(Up(x)) /\ Len(Up(x)) = Len(x) - 1
                        /\ Prefixes(x) \ {x} \subseteq Prefixes(Up(x))
PROOF
<1>1. CASE x = <<>>
  BY <1>1, PrefixOrder DEF Up
<1>2. CASE x # <<>>
  <2>1. Len(x) \in Nat \ {0}
    BY <1>2
  <2>2. Up(x) = SubSeq(x, 1, Len(x) - 1) /\ Len(x) - 1 \in 0 .. Len(x)
    BY <1>2, <2>1 DEF Up, Front
  <2>3. Up(x) \in Prefixes(x)
    BY <2>2 DEF Prefixes
  <2>4. Len(Up(x)) = Len(x) - 1
    <3>1. ASSUME NEW l \in 0 .. Len(x) PROVE Len(SubSeq(x, 1, l)) = l
      <4>1. \A k \in 1 .. l : x[k] \in Name
        BY <2>1
      <4> QED BY <2>1, <4>1, SubSeqProperties
    <3> QED BY <2>2, <3>1
  <2>5. Up(x) \in Seq(Name) /\ \A k \in 1 .. Len(x) - 1 : Up(x)[k] = x[k]
    BY <2>3, <2>4, PrefixIs
  <2>6. Up(x) # x /\ x \notin Prefixes(Up(x))
    BY <2>1, <2>4, <2>5, PrefixIs
  <2>7. ASSUME NEW y \in Prefixes(x), y # x PROVE y \in Prefixes(Up(x))
    <3>1. y \in Seq(Name) /\ Len(y) <= Len(x) /\ \A k \in 1 .. Len(y) : y[k] = x[k]
      BY PrefixIs
    <3>2. Len(y) # Len(x)
      BY <2>7, <3>1, SeqEqual
    <3>3. Len(y) <= Len(x) - 1 /\ \A k \in 1 .. Len(y) : k \in 1 .. Len(x) - 1
      BY <2>1, <3>1, <3>2
    <3> QED BY <2>4, <2>5, <3>1, <3>3, PrefixIs
  <2> QED BY <2>3, <2>4, <2>5, <2>6, <2>7
<1> QED BY <1>1, <1>2

(* Of two prefixes one is a prefix of the other.                           *)
LEMMA Comparable ==
  ASSUME NEW x \in Seq(Name), NEW y \in Prefixes(x), NEW z \in Prefixes(x)
  PROVE  y \in Prefixes(z) \/ z \in Prefixes(y)
PROOF
<1>1. /\ y \in Seq(Name) /\ Len(y) <= Len(x) /\ \A k \in 1 .. Len(y) : y[k] = x[k]
      /\ z \in Seq(Name) /\ Len(z) <= Len(x) /\ \A k \in 1 .. Len(z) : z[k] = x[k]
  BY PrefixIs
<1>2. Len(y) \in Nat /\ Len(z) \in Nat
  BY <1>1
<1>3. CASE Len(y) <= Len(z)
  <2>1. \A k \in 1 .. Len(y) : k \in 1 .. Len(z)
    BY <1>2, <1>3
  <2> QED BY <1>1, <1>3, <2>1, PrefixIs
<1>4. CASE Len(z) <= Len(y)
  <2>1. \A k \in 1 .. Len(z) : k \in 1 .. Len(y)
    BY <1>2, <1>4
  <2> QED BY <1>1, <1>4, <2>1, PrefixIs
<1> QED BY <1>2, <1>3, <1>4

(* A path above another has a path in it that leads there.                 *)
LEMMA ChildOf ==
  ASSUME NEW x \in Seq(Name), NEW y \in Prefixes(x), y # x
  PROVE  \E c \in Prefixes(x) : c # <<>> /\ Up(c) = y
PROOF
<1> DEFINE n == Len(y) + 1
           c == SubSeq(x, 1, n)
<1>1. y \in Seq(Name) /\ Len(y) <= Len(x) /\ \A k \in 1 .. Len(y) : y[k] = x[k]
  BY PrefixIs
<1>2. Len(y) # Len(x)
  BY <1>1, SeqEqual
<1>3. n \in 1 .. Len(x) /\ Len(y) \in Nat
  BY <1>1, <1>2
<1>4. c \in Prefixes(x)
  BY <1>3 DEF Prefixes
<1>5. Len(c) = n
  BY <1>3
<1> HIDE DEF c
<1>6. c \in Seq(Name) /\ c # <<>> /\ \A k \in 1 .. Len(c) : c[k] = x[k]
  BY <1>3, <1>4, <1>5, PrefixIs
<1>7. Up(c) \in Seq(Name) /\ Len(Up(c)) = Len(y) /\ \A k \in 1 .. Len(Up(c)) : Up(c)[k] = c[k]
  <2>1. Up(c) \in Prefixes(c) /\ Len(Up(c)) = Len(c) - 1 /\ Up(c) \in Seq(Name)
    BY <1>6, UpIs
  <2>2. \A k \in 1 .. Len(Up(c)) : Up(c)[k] = c[k]
    BY <1>6, <2>1, PrefixIs
  <2> QED BY <1>3, <1>5, <2>1, <2>2
<1>8. \A k \in 1 .. Len(Up(c)) : Up(c)[k] = y[k]
  BY <1>1, <1>3, <1>5, <1>6, <1>7
<1>9. Up(c) = y
  BY <1>1, <1>7, <1>8, SeqEqual
<1> QED BY <1>4, <1>6, <1>9

(* Making the directories of a path and removing what is at it: what is    *)
(* left is a tree, with the file if it can be written, and whatever was    *)
(* settled is.                                                             *)
LEMMA Cleared ==
  ASSUME NEW F, NEW T, Tree(F, T), NEW d \in Seq(Name), NEW q \in Seq(Name), Up(q) \in Prefixes(d),
         NEW K, K = Emptied(F, Made(F, T, d), q), NEW P, P = Rewritten(F, K, q)
  PROVE  /\ Tree(P, K) /\ Settled(P, K, q)
         /\ \A x : Settled(F, T, x) => Settled(P, K, x)
         /\ K \subseteq T \cup Prefixes(d)
PROOF
<1> DEFINE M == Made(F, T, d)
<1>0. /\ M = IF Prefixes(d) \cap F # {} THEN T ELSE T \cup Prefixes(d)
      /\ K = IF q # <<>> /\ \A y \in (M \cup F) \ {<<>>} : Up(y) # q THEN M \ {q} ELSE M
      /\ P = (F \ {q}) \cup {y \in {q} : Writes(K, y)}
  BY DEF Made, Emptied, Rewritten
<1> HIDE DEF M
<1>1. /\ <<>> \in T /\ F \cap T = {} /\ \A x \in F \cup T : x \in Seq(Name) /\ Prefixes(x) \ {x} \subseteq T
  BY DEF Tree
<1>2. \A x \in Prefixes(d) : x \in Seq(Name) /\ Prefixes(x) \subseteq Prefixes(d)
  BY PrefixOrder
<1>3. /\ T \subseteq M /\ M \subseteq T \cup Prefixes(d) /\ F \cap M = {}
      /\ \A x \in F \cup M : x \in Seq(Name) /\ Prefixes(x) \ {x} \subseteq M
      /\ M # T => Prefixes(d) \subseteq M
  <2>1. CASE Prefixes(d) \cap F # {}
    BY <2>1, <1>0, <1>1
  <2>2. CASE Prefixes(d) \cap F = {}
    <3>1. M = T \cup Prefixes(d)
      BY <1>0, <2>2
    <3>2. \A x \in F \cup M : x \in Seq(Name)
      BY <3>1, <1>1, <1>2
    <3>3. \A x \in F \cup M : Prefixes(x) \ {x} \subseteq M
      BY <3>1, <1>1, <1>2
    <3> QED BY <2>2, <3>1, <3>2, <3>3, <1>1
  <2> QED BY <2>1, <2>2
<1>4. Prefixes(d) \subseteq M \/ \E f \in F : f \in Prefixes(d)
  BY <1>0
<1>5. \/ K = M /\ (q = <<>> \/ \E y \in (M \cup F) \ {<<>>} : Up(y) = q)
      \/ K = M \ {q} /\ q # <<>> /\ \A y \in (M \cup F) \ {<<>>} : Up(y) # q
  BY <1>0
<1>6. K \subseteq M /\ M \subseteq K \cup {q} /\ <<>> \in K
  BY <1>1, <1>3, <1>5
<1>7. q # <<>> => Up(q) # q /\ q \notin Prefixes(Up(q)) /\ Prefixes(q) \ {q} \subseteq Prefixes(Up(q))
  BY UpIs
<1>8. Up(q) \in Prefixes(q) /\ Up(q) \in Seq(Name)
  BY UpIs
<1>9. \A x \in F \cup M : q \in M \ K /\ q \in Prefixes(x) => x = q
  <2> SUFFICES ASSUME NEW x \in F \cup M, q \in M \ K, q \in Prefixes(x), x # q PROVE FALSE
    OBVIOUS
  <2>1. \A y \in (M \cup F) \ {<<>>} : Up(y) # q
    BY <1>5
  <2>2. PICK c \in Prefixes(x) : c # <<>> /\ Up(c) = q
    BY <1>3, ChildOf
  <2>3. c \in M \cup F
    BY <1>3
  <2> QED BY <2>1, <2>2, <2>3
<1>10. \A x \in F \cup K : x \in Seq(Name) /\ Prefixes(x) \ {x} \subseteq K
  <2> SUFFICES ASSUME NEW x \in F \cup K, NEW y \in Prefixes(x), y # x PROVE x \in Seq(Name) /\ y \in K
    BY <1>3, <1>6
  <2>1. x \in F \cup M /\ x \in Seq(Name) /\ y \in M
    BY <1>3, <1>6
  <2> QED BY <1>6, <1>9, <2>1
<1>11. F \subseteq P
  <2>1. q \in F => Writes(K, q)
    <3> SUFFICES ASSUME q \in F PROVE Writes(K, q)
      OBVIOUS
    <3>1. q # <<>> /\ q \notin K
      BY <1>1, <1>3, <1>6
    <3>2. Up(q) \in K
      BY <1>7, <1>8, <1>10, <3>1
    <3> QED BY <3>1, <3>2 DEF Writes
  <2> QED BY <1>0, <2>1
<1>12. /\ P \subseteq F \cup {q}
       /\ q \in P <=> q \notin K /\ Up(q) \in K
  BY <1>0 DEF Writes
<1>13. Tree(P, K)
  <2>1. P \cap K = {}
    BY <1>3, <1>6, <1>12
  <2>2. ASSUME q \in P PROVE Prefixes(q) \ {q} \subseteq K
    <3>1. q # <<>> /\ Up(q) \in K
      BY <1>6, <1>12, <2>2
    <3>2. Prefixes(Up(q)) \subseteq K
      BY <1>10, <3>1
    <3> QED BY <1>7, <3>1, <3>2
  <2>3. \A x \in P \cup K : x \in Seq(Name) /\ Prefixes(x) \ {x} \subseteq K
    BY <1>10, <1>12, <2>2
  <2> QED BY <1>6, <2>1, <2>3 DEF Tree
<1>14. Settled(P, K, q)
  <2>1. CASE q = <<>>
    BY <2>1 DEF Settled
  <2>2. CASE q # <<>> /\ q \in K
    <3>1. PICK y \in (M \cup F) \ {<<>>} : Up(y) = q
      BY <1>5, <2>2
    <3>2. y # q
      BY <1>7, <2>2, <3>1
    <3>3. y \in P \cup K
      BY <1>6, <1>11, <3>2
    <3> QED BY <2>2, <3>1, <3>3 DEF Settled
  <2>3. CASE q # <<>> /\ q \notin K /\ Up(q) \in K
    BY <1>12, <2>3 DEF Settled
  <2>4. CASE q # <<>> /\ q \notin K /\ Up(q) \notin K
    <3>1. Up(q) \notin M /\ Up(q) \in Prefixes(d)
      BY <1>6, <1>7, <2>4
    <3>2. PICK f \in F : f \in Prefixes(d)
      BY <1>4, <3>1
    <3>3. f \in Prefixes(Up(q)) \/ Up(q) \in Prefixes(f)
      BY <3>1, <3>2, Comparable
    <3>4. Up(q) \in Prefixes(f) => Up(q) = f
      BY <1>3, <3>1
    <3>5. f \in Prefixes(Up(q))
      BY <1>8, <3>3, <3>4, PrefixOrder
    <3>6. f \in Prefixes(q) \ {q} /\ f \in P
      BY <1>7, <1>8, <1>11, <2>4, <3>5, PrefixOrder
    <3> QED BY <3>6 DEF Settled
  <2> QED BY <2>1, <2>2, <2>3, <2>4
<1>15. ASSUME NEW x, Settled(F, T, x), x # q PROVE Settled(P, K, x)
  <2>1. CASE x \in F \/ x = <<>> \/ \E f \in F : f \in Prefixes(x) \ {x}
    BY <1>11, <2>1 DEF Settled
  <2>2. CASE x \in T /\ \E y \in F \cup T : y # <<>> /\ Up(y) = x
    <3>1. PICK y \in F \cup T : y # <<>> /\ Up(y) = x
      BY <2>2
    <3>2. x \in K
      BY <1>3, <1>6, <1>15, <2>2
    <3>3. y \in P \cup K
      BY <1>3, <1>6, <1>11, <1>12, <3>1, <3>2
    <3> QED BY <3>1, <3>2, <3>3 DEF Settled
  <2> QED BY <1>15, <2>1, <2>2 DEF Settled
<1>16. K \subseteq T \cup Prefixes(d)
  BY <1>3, <1>6
<1> QED BY <1>13, <1>14, <1>15, <1>16


(* Where a record's file goes: under its directory, or at it, or at the one*)
(* above.                                                                  *)
LEMMA PathTyped ==
  ASSUME NEW p \in Nat, NEW r \in Record
  PROVE  /\ DirPath(p, r) \in Seq(Name) /\ FilePath(p, r) \in Seq(Name)
         /\ Up(FilePath(p, r)) \in Prefixes(DirPath(p, r))
PROOF
<1>1. Location \in Seq(Name) /\ r.dir \in Seq(STRING) /\ r.name \in STRING /\ r.id \in Nat
  BY ExportAssumption DEF Record
<1>2. /\ \A name \in STRING : Named(name) \in Name
      /\ FileName(r) \in Name /\ <<"partition", p>> \in Name
  <2>1. \A n \in Nat, name \in STRING : <<"name", n, name>> \in Name /\ <<"id", n, name>> \in Name
    BY DEF Name
  <2>2. \A name \in STRING : Named(name) \in Name
    BY <2>1 DEF Named
  <2>3. <<"id", r.id, r.name>> \in Name /\ Named(r.name) \in Name
    BY <1>1, <2>1, <2>2, Zenon
  <2>4. <<"partition", p>> \in Name
    BY DEF Name
  <2> QED BY <2>2, <2>3, <2>4 DEF FileName
<1> DEFINE names == [n \in DOMAIN r.dir |-> Named(r.dir[n])]
<1>3. names \in Seq(Name)
  <2>1. Len(r.dir) \in Nat /\ DOMAIN r.dir = 1 .. Len(r.dir) /\ \A n \in 1 .. Len(r.dir) : r.dir[n] \in STRING
    BY <1>1
  <2>2. names \in [1 .. Len(r.dir) -> Name]
    BY <1>2, <2>1
  <2> HIDE DEF names
  <2> QED BY <2>1, <2>2, SeqDef
<1>4. r.dir # <<>> => Tail(names) \in Seq(Name)
  <2> SUFFICES ASSUME r.dir # <<>> PROVE Tail(names) \in Seq(Name)
    OBVIOUS
  <2>1. 1 \in DOMAIN r.dir
    BY <1>1
  <2>2. names # <<>>
    BY <2>1
  <2> HIDE DEF names
  <2> QED BY <1>3, <2>2, TailFacts
<1>5. Up(Location) \in Seq(Name)
  BY <1>1, UpIs
<1> DEFINE dir == DirPath(p, r)
<1>6. \/ dir = Location
      \/ dir = Location \o <<<<"partition", p>>>> \o names
      \/ r.dir # <<>> /\ dir = Up(Location) \o Tail(names)
      \/ dir = Location \o names
  BY DEF DirPath
<1> HIDE DEF names
<1>7. dir \in Seq(Name)
  <2> HIDE DEF dir
  <2> DEFINE top == <<<<"partition", p>>>>
  <2>1. top \in Seq(Name)
    <3> DEFINE e == <<"partition", p>>
    <3>1. e \in Name
      BY <1>2
    <3> HIDE DEF e
    <3>2. <<e>> \in Seq(Name)
      BY <3>1
    <3> QED BY <3>2 DEF e
  <2>2. dir = Location \o top \o names => dir \in Seq(Name)
    <3> HIDE DEF top
    <3>1. Location \o top \in Seq(Name)
      BY <1>1, <2>1, ConcatProperties
    <3> QED BY <1>3, <3>1, ConcatProperties
  <2>3. dir = Location \o names => dir \in Seq(Name)
    BY <1>1, <1>3, ConcatProperties
  <2>4. r.dir # <<>> /\ dir = Up(Location) \o Tail(names) => dir \in Seq(Name)
    BY <1>4, <1>5, ConcatProperties
  <2> QED BY <1>1, <1>6, <2>2, <2>3, <2>4
<1> DEFINE path == FilePath(p, r)
<1>8. path = Append(dir, FileName(r)) \/ path = Up(dir) \/ path = dir
  BY DEF FilePath, In
<1> HIDE DEF dir, path
<1>9. /\ Append(dir, FileName(r)) \in Seq(Name) /\ Append(dir, FileName(r)) # <<>>
      /\ Up(Append(dir, FileName(r))) = dir
  <2> DEFINE name == FileName(r)
  <2>1. name \in Name
    BY <1>2
  <2> HIDE DEF name
  <2>2. Append(dir, name) \in Seq(Name) /\ Append(dir, name) # <<>>
    BY <1>7, <2>1
  <2> DEFINE t == Append(dir, name)
  <2>3. Front(t) = dir
    <3>1. t \in Seq(Name) /\ Len(t) = Len(dir) + 1 /\ Len(dir) \in Nat /\ \A k \in 1 .. Len(dir) : t[k] = dir[k]
      BY <1>7, <2>1
    <3> HIDE DEF t
    <3>2. Front(t) = SubSeq(t, 1, Len(dir))
      BY <3>1 DEF Front
    <3>3. SubSeq(t, 1, Len(dir)) = dir
      BY <1>7, <3>1, SeqEqual
    <3> QED BY <3>2, <3>3
  <2> QED BY <2>2, <2>3 DEF Up, name
<1>10. /\ Up(dir) \in Seq(Name) /\ Up(dir) \in Prefixes(dir) /\ dir \in Prefixes(dir)
       /\ Up(Up(dir)) \in Prefixes(Up(dir)) /\ Prefixes(Up(dir)) \subseteq Prefixes(dir)
  BY <1>7, UpIs, PrefixOrder
<1> QED BY <1>7, <1>8, <1>9, <1>10 DEF dir, path

(* Paths do not change while the options stay.                             *)
LEMMA SamePaths ==
  ASSUME opts' = opts
  PROVE  \A m : Path(m)' = Path(m) /\ DirOf(m)' = DirOf(m)
PROOF BY DEF Path, FilePath, FileName, DirOf, DirPath, In

(* What is there stays in order while nothing is written or taken.         *)
LEMMA SameStanding ==
  ASSUME Standing, UNCHANGED <<opts, holding, files, dirs>>, Taken' = Taken,
         \A k \in 1 .. Taken : k \in 1 .. Len(sent),
         \A k \in 1 .. Len(sent) : k \in 1 .. Len(sent') /\ sent'[k] = sent[k]
  PROVE  Standing'
PROOF
<1>1. \A m : Path(m)' = Path(m) /\ DirOf(m)' = DirOf(m)
  BY SamePaths
<1>2. Path(holding)' = Path(holding)
  BY <1>1
<1>3. Present' = Present
  BY <1>2 DEF Present, Writes, NoResult
<1>4. \A k \in 1 .. Taken : Path(sent[k])' = Path(sent[k])
  BY <1>1
<1>5. \A k \in 1 .. Taken' : Settled(Present, dirs, Path(sent[k]))'
  BY <1>3, <1>4 DEF Standing, Settled
<1>6. \A q \in dirs' \ {<<>>} : \E k \in 1 .. Len(sent') : q \in Prefixes(DirOf(sent[k])')
  <2> SUFFICES ASSUME NEW q \in dirs \ {<<>>} PROVE \E k \in 1 .. Len(sent') : q \in Prefixes(DirOf(sent[k])')
    OBVIOUS
  <2>1. PICK k \in 1 .. Len(sent) : q \in Prefixes(DirOf(sent[k]))
    BY DEF Standing
  <2>2. DirOf(sent[k])' = DirOf(sent[k]) /\ k \in 1 .. Len(sent')
    BY <1>1
  <2> QED BY <2>1, <2>2
<1>7. Tree(Present, dirs)'
  BY <1>3 DEF Standing, Tree
<1> QED BY <1>5, <1>6, <1>7 DEF Standing

(* The loop has taken no partition: nothing was sent or written.           *)
LEMMA InitIInv == Init => IInv
PROOF
<1> SUFFICES ASSUME Init PROVE IInv
  OBVIOUS
<1> USE DEF Init
<1>1. /\ Len(order) = 0 /\ Len(sent) = 0 /\ Len(results) = 0 /\ DOMAIN order = {}
      /\ order \in Seq(DOMAIN job) /\ sent \in Seq({}) /\ results \in Seq({})
  OBVIOUS
<1>2. RangeOf(order) = {} /\ RangeOf(sent) = {}
  BY <1>1 DEF RangeOf
<1>3. TypeOK
  BY <1>1 DEF TypeOK, IsInjective, NoResult
<1>4. Position /\ Ordered /\ AllSent
  BY <1>1, <1>2 DEF Position, Ordered, AllSent, Passed
<1>5. Queue /\ Hashed
  BY <1>1, <1>2 DEF Queue, Taken, NoResult, Hashed, HashOfOwnContent
<1>6. Files
  <2>1. DOMAIN files = {} /\ Written = 0 /\ Taken = 0 /\ dirs = {<<>>}
    BY <1>1 DEF Written, Taken, NoResult
  <2>2. Present = {}
    BY <2>1 DEF Present
  <2>3. Tree({}, {<<>>})
    <3>1. <<>> \in Seq(Name) /\ Len(<<>>) = 0
      OBVIOUS
    <3>2. \A x \in Prefixes(<<>>) : x = <<>>
      BY <3>1, PrefixOrder
    <3> QED BY <3>1, <3>2 DEF Tree
  <2> QED BY <2>1, <2>2, <2>3 DEF Files, Standing
<1> QED BY <1>3, <1>4, <1>5, <1>6 DEF IInv, Opened

(* The partition at hand does not change but by the loop.                  *)
LEMMA SamePart ==
  ASSUME UNCHANGED <<job, order>>
  PROVE  part' = part /\ records' = records
PROOF BY DEF part, records

(* The hashes stay true when nothing but the files that are sent is added. *)
LEMMA KeepsHashed ==
  ASSUME Hashed, UNCHANGED <<inputs, hashes>>, \A k \in 1 .. Len(sent) : k \in 1 .. Len(sent') /\ sent'[k] = sent[k]
  PROVE  Hashed'
PROOF
<1>1. job' = job /\ opts' = opts /\ hashes' = hashes
  BY DEF inputs
<1>2. \A rs : Told(rs)' <=> Told(rs)
  BY <1>1 DEF Told, FileName, Named
<1>3. \A h \in hashes' : h.part \in DOMAIN job' /\ h.idx \in 1 .. Len(job'[h.part].records)
  BY <1>1 DEF Hashed
<1>4. ASSUME opts.id, ~opts.recreate, NEW h \in hashes, ~job[h.part].records[h.idx].folder, Told(job[h.part].records)
      PROVE  \E k \in 1 .. Len(sent') : sent'[k].part = h.part /\ sent'[k].idx = h.idx /\ h.of = sent'[k].content
  <2>1. PICK k \in 1 .. Len(sent) : sent[k].part = h.part /\ sent[k].idx = h.idx /\ h.of = sent[k].content
    BY <1>4 DEF Hashed, HashOfOwnContent
  <2>2. k \in 1 .. Len(sent') /\ sent'[k] = sent[k]
    OBVIOUS
  <2> QED BY <2>1, <2>2
<1>5. HashOfOwnContent'
  <2> SUFFICES ASSUME opts'.id, ~opts'.recreate, NEW h \in hashes', ~job'[h.part].records[h.idx].folder,
                      Told(job[h.part].records)'
               PROVE  \E k \in 1 .. Len(sent') : sent'[k].part = h.part /\ sent'[k].idx = h.idx /\ h.of = sent'[k].content
    BY DEF HashOfOwnContent
  <2>1. Told(job[h.part].records)
    BY <1>1, <1>2
  <2> QED BY <1>1, <1>4, <2>1
<1> QED BY <1>3, <1>5 DEF Hashed

(* What an export location is, when neither the channel nor files change.  *)
LEMMA SameFiles ==
  ASSUME IInv, UNCHANGED <<inputs, order, results, sent, holding, files, dirs, hashes>>
  PROVE  Queue' /\ Files' /\ Hashed'
PROOF
<1>1. part' = part /\ Taken' = Taken /\ Written' = Written /\ job' = job /\ opts' = opts
  BY SamePart DEF inputs, Taken, Written
<1>2. sent' = sent /\ results' = results /\ holding' = holding /\ RangeOf(sent)' = RangeOf(sent)
  BY DEF RangeOf
<1>3. Queue'
  BY <1>1, <1>2 DEF IInv, Queue, NoResult
<1>4. Files'
  <2>1. files' = files /\ dirs' = dirs /\ (NoResult)' = NoResult
    BY DEF NoResult
  <2>2. Path(holding)' = Path(holding) /\ \A k : Path(sent[k])' = Path(sent[k])
    BY <1>1, <1>2, SamePaths
  <2>3. \A k \in 1 .. Taken : k \in 1 .. Len(sent)
    BY DEF IInv, Queue, Taken
  <2>4. Standing'
    BY <1>1, <1>2, <2>1, <2>3, SameStanding DEF IInv, Files
  <2> QED BY <1>1, <1>2, <2>1, <2>2, <2>4 DEF IInv, Files
<1>5. Hashed'
  BY <1>2, KeepsHashed DEF IInv
<1> QED BY <1>3, <1>4, <1>5

(* What was sent stays in order while the producer goes on.                *)
LEMMA SameOrder ==
  ASSUME IInv, UNCHANGED <<job, order, sent>>, rpos' \in Nat, rpos' >= rpos
  PROVE  Ordered'
PROOF
<1>1. part' = part /\ RangeOf(order)' = RangeOf(order) /\ job' = job /\ sent' = sent
  BY SamePart DEF RangeOf
<1>2. \A k \in 1 .. Len(sent) : OfTaken(sent[k])'
  <2> SUFFICES ASSUME NEW k \in 1 .. Len(sent) PROVE OfTaken(sent[k])'
    OBVIOUS
  <2>1. OfTaken(sent[k]) /\ sent[k].part \in RangeOf(order)
    BY DEF IInv, Ordered, OfTaken
  <2>2. sent[k].part \in DOMAIN job
    BY <2>1 DEF RangeOf, IInv, TypeOK
  <2>3. sent[k].part = part => sent[k].idx < rpos'
    BY <2>1, <2>2, JobType DEF OfTaken, IInv, TypeOK
  <2> QED BY <1>1, <2>1, <2>3 DEF OfTaken, NoResult
<1>3. \A k \in 1 .. Len(sent) : \A j \in 1 .. k - 1 : Before(sent[j], sent[k])'
  BY <1>1 DEF IInv, Ordered, Before
<1> QED BY <1>1, <1>2, <1>3 DEF Ordered

(* Every file that was passed stays sent when the producer does not go on. *)
LEMMA SamePassed ==
  ASSUME IInv, UNCHANGED <<job, order, sent, rpos>>
  PROVE  AllSent'
PROOF
<1>1. part' = part /\ RangeOf(order)' = RangeOf(order) /\ job' = job /\ sent' = sent
  BY SamePart DEF RangeOf
<1> QED BY <1>1 DEF IInv, AllSent, Passed

(* Steps that read a file change the buffer only.                          *)
LEMMA LocKeeps ==
  ASSUME IInv, Opened', UNCHANGED <<inputs, order, phase, workerVars, results, sent, holding, files, dirs, hashVars>>
  PROVE  IInv'
PROOF
<1>1. part' = part /\ records' = records /\ job' = job
  BY SamePart DEF inputs
<1>2. Queue' /\ Files' /\ Hashed'
  BY SameFiles DEF hashVars
<1>3. TypeOK' /\ Position'
  BY <1>1 DEF IInv, TypeOK, Position, workerVars, hashVars
<1>4. Ordered' /\ AllSent'
  BY <1>1, SameOrder, SamePassed DEF IInv, TypeOK, workerVars
<1> QED BY <1>1, <1>2, <1>3, <1>4 DEF IInv

(* Steps of the producer that send nothing: a folder is passed, or the     *)
(* process dies, or the channel is closed.                                 *)
LEMMA SkipFolderKeeps == IInv /\ SkipFolder => IInv'
PROOF
<1> SUFFICES ASSUME IInv, SkipFolder PROVE IInv'
  OBVIOUS
<1>1. part' = part /\ records' = records /\ job' = job /\ rpos' = rpos + 1
  BY SamePart DEF SkipFolder, inputs
<1>2. Queue' /\ Files' /\ Hashed'
  BY SameFiles DEF SkipFolder, hashVars
<1>3. TypeOK' /\ Position' /\ part \in DOMAIN job
  <2>1. phase = "export" /\ rpos \in Nat /\ order # <<>> /\ rpos <= Len(records)
    BY DEF IInv, TypeOK, Position, SkipFolder, Working
  <2>2. part \in DOMAIN job /\ Len(records) \in Nat
    BY <2>1, PartInOrder, JobType DEF IInv, records
  <2> QED BY <1>1, <2>1, <2>2 DEF IInv, TypeOK, Position, SkipFolder, hashVars, RangeOf
<1>4. Ordered'
  BY <1>1, SameOrder DEF IInv, TypeOK, SkipFolder
<1>5. AllSent'
  <2>1. job[part].records[rpos].folder
    BY DEF SkipFolder, records
  <2>2. \A i : i \in 1 .. Len(job[part].records) /\ i < rpos + 1 => i < rpos \/ i = rpos
    BY JobType, <1>3 DEF IInv, TypeOK
  <2> QED BY <1>1, <2>1, <2>2 DEF IInv, AllSent, Passed, SkipFolder, RangeOf
<1>9. Opened'
  BY <1>1, <1>3 DEF IInv, Opened, SkipFolder, TypeOK, Position, workerVars
<1> QED BY <1>1, <1>2, <1>3, <1>4, <1>9, <1>5 DEF IInv

LEMMA LocatePanicsKeeps == IInv /\ LocatePanics => IInv'
PROOF
<1> SUFFICES ASSUME IInv, LocatePanics PROVE IInv'
  OBVIOUS
<1>1. part' = part /\ records' = records /\ job' = job /\ phase = "export" /\ phase' = "panic"
  BY SamePart DEF LocatePanics, inputs, AtRun, AtGroup, Locating, Working
<1>2. Queue' /\ Files' /\ Hashed'
  BY SameFiles DEF LocatePanics, hashVars
<1>3. TypeOK' /\ Position'
  BY <1>1 DEF IInv, TypeOK, Position, LocatePanics, workerVars, hashVars, RangeOf
<1>4. Ordered' /\ AllSent'
  BY <1>1, SameOrder, SamePassed DEF IInv, TypeOK, inputs, LocatePanics, workerVars
<1>9. Opened'
  BY <1>1, <1>3 DEF IInv, Opened, LocatePanics, TypeOK, Position, workerVars
<1> QED BY <1>1, <1>2, <1>3, <1>4, <1>9 DEF IInv

LEMMA CloseResultsKeeps == IInv /\ CloseResults => IInv'
PROOF
<1> SUFFICES ASSUME IInv, CloseResults PROVE IInv'
  OBVIOUS
<1>1. part' = part /\ records' = records /\ job' = job
  BY SamePart DEF CloseResults, inputs
<1>2. Queue' /\ Files' /\ Hashed'
  BY SameFiles DEF CloseResults, hashVars
<1>3. TypeOK' /\ Position'
  BY <1>1 DEF IInv, TypeOK, Position, CloseResults, hashVars, RangeOf
<1>4. Ordered' /\ AllSent'
  BY <1>1, SameOrder, SamePassed DEF IInv, TypeOK, inputs, CloseResults
<1>9. Opened'
  BY <1>1, <1>3 DEF IInv, Opened, CloseResults, TypeOK, Position, workerVars
<1> QED BY <1>1, <1>2, <1>3, <1>4, <1>9 DEF IInv

(* A file is sent: it is the last one in every order.                      *)
LEMMA SendFileKeeps == IInv /\ SendFile => IInv'
PROOF
<1> SUFFICES ASSUME IInv, SendFile PROVE IInv'
  OBVIOUS
<1> DEFINE m == [part |-> part, idx |-> rpos, rec |-> records[rpos],
                 content |-> SubSeq(loc.buf, 1, records[rpos].lsize)]
<1>1. /\ part' = part /\ records' = records /\ job' = job /\ opts' = opts /\ rpos' = rpos + 1
      /\ sent' = Append(sent, m) /\ results' = Append(results, m)
      /\ UNCHANGED <<order, phase, closed, holding, files, dirs, hpos, hashes>>
  BY SamePart DEF SendFile, inputs, hashVars
<1>2. phase = "export" /\ order # <<>> /\ rpos \in Nat /\ rpos >= 1 /\ rpos <= Len(records) /\ Len(results) < Len(records)
  BY DEF IInv, TypeOK, Position, SendFile, Working
<1>3. part \in DOMAIN job /\ part \in RangeOf(order) /\ Len(records) \in Nat
  BY <1>2, PartInOrder, JobType DEF IInv, records
<1>4. m.part = part /\ m.idx = rpos /\ m.rec = job[part].records[rpos] /\ m # NoResult
  <2>1. "part" \in DOMAIN m /\ "part" \notin 1 .. 0 /\ DOMAIN NoResult = 1 .. 0
    BY DEF NoResult
  <2>2. m # NoResult
    BY <2>1
  <2> QED BY <2>2 DEF records
<1>5. ~m.rec.folder
  BY <1>2, <1>4 DEF SendFile, Opened, records, IInv
<1> HIDE DEF m
<1>6. /\ Len(sent) \in Nat /\ Len(sent') = Len(sent) + 1 /\ sent'[Len(sent) + 1] = m
      /\ \A k \in 1 .. Len(sent) : sent'[k] = sent[k]
      /\ RangeOf(sent') = RangeOf(sent) \cup {m} /\ sent' \in Seq(RangeOf(sent'))
  <2>1. sent \in Seq(RangeOf(sent))
    BY DEF IInv, Queue
  <2>2. /\ Append(sent, m) \in Seq(RangeOf(sent) \cup {m}) /\ Len(sent) \in Nat
        /\ Len(Append(sent, m)) = Len(sent) + 1 /\ Append(sent, m)[Len(sent) + 1] = m
        /\ \A k \in 1 .. Len(sent) : Append(sent, m)[k] = sent[k]
    BY <2>1, AppendFacts
  <2>3. RangeOf(Append(sent, m)) = RangeOf(sent) \cup {m}
    BY <2>2 DEF RangeOf
  <2> QED BY <1>1, <2>2, <2>3
<1>7. /\ Len(results) \in Nat /\ Len(results') = Len(results) + 1 /\ results'[Len(results) + 1] = m
      /\ \A k \in 1 .. Len(results) : results'[k] = results[k]
      /\ results' \in Seq(RangeOf(sent'))
  <2>1. results \in Seq(RangeOf(sent))
    BY DEF IInv, Queue
  <2>2. /\ Append(results, m) \in Seq(RangeOf(sent) \cup {m}) /\ Len(results) \in Nat
        /\ Len(Append(results, m)) = Len(results) + 1 /\ Append(results, m)[Len(results) + 1] = m
        /\ \A k \in 1 .. Len(results) : Append(results, m)[k] = results[k]
    BY <2>1, AppendFacts
  <2> QED BY <1>1, <1>6, <2>2
<1>8. Taken' = Taken /\ Taken \in Nat /\ Taken <= Len(sent) /\ Written' = Written /\ Written <= Taken
  BY <1>1, <1>6, <1>7 DEF Taken, Written, IInv, Queue
<1>9. TypeOK' /\ Position' /\ Opened'
  BY <1>1, <1>2, <1>3, <1>7 DEF IInv, TypeOK, Position, Opened, RangeOf, SendFile, NoFile
<1>10. Ordered'
  <2>1. \A q : OfTaken(q) => OfTaken(q)'
    BY <1>1, <1>2, <1>3, JobType DEF OfTaken, IInv, RangeOf, NoResult
  <2>2. \A q, r : Before(q, r)' <=> Before(q, r)
    BY <1>1 DEF Before
  <2>3. \A q : q = m => OfTaken(q)'
    <3>1. m.part \in RangeOf(order)' /\ m.idx \in 1 .. Len(job'[m.part].records)
      BY <1>1, <1>2, <1>3, <1>4, <1>5 DEF RangeOf, records
    <3>2. m.rec = job'[m.part].records[m.idx] /\ ~m.rec.folder /\ m # (NoResult)'
      BY <1>1, <1>2, <1>3, <1>4, <1>5 DEF NoResult, records
    <3>3. m.part = part' => m.idx < rpos'
      BY <1>1, <1>2, <1>3, <1>4, <1>5
    <3> QED BY <3>1, <3>2, <3>3 DEF OfTaken
  <2>4. \A k \in 1 .. Len(sent) : OfTaken(sent[k]) /\ Before(sent[k], m) /\ \A j \in 1 .. k - 1 : Before(sent[j], sent[k])
    BY <1>4 DEF IInv, Ordered, OfTaken, Before
  <2>5. \A k \in 1 .. Len(sent') : OfTaken(sent[k])' /\ \A j \in 1 .. k - 1 : Before(sent[j], sent[k])'
    <3> SUFFICES ASSUME NEW k \in 1 .. Len(sent')
                 PROVE  OfTaken(sent[k])' /\ \A j \in 1 .. k - 1 : Before(sent[j], sent[k])'
      OBVIOUS
    <3>1. CASE k \in 1 .. Len(sent)
      BY <3>1, <1>1, <1>6, <2>1, <2>4 DEF OfTaken, Before
    <3>2. CASE k = Len(sent) + 1
      BY <3>2, <1>1, <1>6, <2>3, <2>4 DEF OfTaken, Before
    <3> QED BY <1>6, <3>1, <3>2
  <2> QED BY <2>5 DEF Ordered
<1>11. AllSent'
  <2> SUFFICES ASSUME NEW p \in DOMAIN job, NEW i \in 1 .. Len(job[p].records), p \in RangeOf(order),
                      p = part => i < rpos + 1, ~job[p].records[i].folder
               PROVE  \E k \in 1 .. Len(sent') : sent'[k].part = p /\ sent'[k].idx = i
    <3>1. RangeOf(order)' = RangeOf(order)
      BY <1>1 DEF RangeOf
    <3>2. \A p, i : Passed(p, i)' <=> p \in RangeOf(order) /\ (p = part => i < rpos + 1)
      BY <1>1, <3>1 DEF Passed
    <3> QED BY <1>1, <3>2 DEF AllSent
  <2>1. CASE p = part /\ i = rpos
    BY <2>1, <1>4, <1>6
  <2>2. CASE p = part => i < rpos
    BY <2>2, <1>6 DEF IInv, AllSent, Passed
  <2> QED BY <1>2, <2>1, <2>2
<1>12. Queue'
  <2>1. \A k \in 1 .. Len(results') : results'[k] = sent'[Taken + k] /\ results'[k].part = part
    <3> SUFFICES ASSUME NEW k \in 1 .. Len(results')
                 PROVE  results'[k] = sent'[Taken + k] /\ results'[k].part = part
      OBVIOUS
    <3>1. CASE k \in 1 .. Len(results)
      <4>1. results[k] = sent[Taken + k] /\ results[k].part = part /\ Taken + k \in 1 .. Len(sent)
        BY <3>1, <1>6, <1>7 DEF IInv, Queue, Taken
      <4> QED BY <3>1, <4>1, <1>6, <1>7
    <3>2. CASE k = Len(results) + 1
      <4>1. Taken + k = Len(sent) + 1
        BY <3>2, <1>6, <1>7 DEF Taken
      <4> QED BY <3>2, <4>1, <1>4, <1>6, <1>7
    <3> QED BY <1>7, <3>1, <3>2
  <2>2. Len(results') <= Len(sent')
    BY <1>6, <1>7 DEF IInv, Queue
  <2>3. holding # NoResult => Taken >= 1 /\ holding = sent'[Taken] /\ holding.part = part
    BY <1>6, <1>8 DEF IInv, Queue
  <2>4. RangeOf(sent)' = RangeOf(sent')
    BY DEF RangeOf
  <2> QED BY <1>1, <1>6, <1>7, <1>8, <2>1, <2>2, <2>3, <2>4 DEF Queue, NoResult
<1>13. Files'
  <2>1. \A k \in 1 .. Written : k \in 1 .. Len(sent) /\ sent'[k] = sent[k] /\ Path(sent[k])' = Path(sent[k])
    <3> SUFFICES ASSUME NEW k \in 1 .. Written
                 PROVE  k \in 1 .. Len(sent) /\ sent'[k] = sent[k] /\ Path(sent[k])' = Path(sent[k])
      OBVIOUS
    <3>1. k \in 1 .. Len(sent) /\ sent'[k] = sent[k]
      BY <1>6, <1>8 DEF Written
    <3> QED BY <1>1, <3>1, SamePaths
  <2>2. Path(holding)' = Path(holding) /\ files' = files /\ holding' = holding /\ Written' = Written
    BY <1>1, <1>8, SamePaths
  <2>3. \A k \in 1 .. Written : \A j \in k + 1 .. Written : j \in 1 .. Written
    BY <1>8 DEF Written
  <2>4. \A k \in 1 .. Taken : k \in 1 .. Len(sent)
    BY <1>6, <1>8
  <2>5. \A k \in 1 .. Len(sent) : k \in 1 .. Len(sent') /\ sent'[k] = sent[k]
    BY <1>6
  <2>6. Standing'
    BY <1>1, <1>8, <2>4, <2>5, SameStanding DEF IInv, Files
  <2> QED BY <2>1, <2>2, <2>3, <2>6 DEF IInv, Files, NoResult
<1>14. Hashed'
  <2>1. UNCHANGED <<inputs, hashes>>
    BY <1>1 DEF inputs
  <2>2. \A k \in 1 .. Len(sent) : k \in 1 .. Len(sent') /\ sent'[k] = sent[k]
    BY <1>6
  <2> QED BY <2>1, <2>2, KeepsHashed DEF IInv
<1> QED BY <1>1, <1>9, <1>10, <1>11, <1>12, <1>13, <1>14 DEF IInv

(* The consumer takes a result and makes room for the file.                *)
LEMMA RemoveOldKeeps == IInv /\ RemoveOld => IInv'
PROOF
<1> SUFFICES ASSUME IInv, RemoveOld PROVE IInv'
  OBVIOUS
<1>1. /\ part' = part /\ records' = records /\ job' = job /\ opts' = opts
      /\ holding = NoResult /\ results # <<>> /\ holding' = Head(results) /\ results' = Tail(results)
      /\ phase = "export" /\ UNCHANGED <<order, phase, rpos, closed, loc, sent, hpos, hashes>>
  BY SamePart DEF RemoveOld, inputs, workerVars, hashVars
<1>2. /\ results' \in Seq(RangeOf(sent)) /\ Len(results) \in Nat \ {0} /\ Len(results') = Len(results) - 1
      /\ holding' = results[1]
      /\ \A k \in 1 .. Len(results) - 1 : results'[k] = results[k + 1]
  BY <1>1, TailFacts DEF IInv, Queue
<1>3. /\ Len(sent) \in Nat /\ Taken \in Nat /\ Taken' = Taken + 1 /\ Taken' <= Len(sent)
      /\ Written = Taken
  BY <1>1, <1>2 DEF IInv, Queue, Taken, Written
<1>4. /\ holding' = sent[Taken + 1] /\ holding'.part = part /\ holding' # NoResult /\ Taken + 1 \in 1 .. Len(sent)
  <2>1. holding' = sent[Taken + 1] /\ holding'.part = part /\ Taken + 1 \in 1 .. Len(sent)
    BY <1>2, <1>3 DEF IInv, Queue
  <2> QED BY <2>1 DEF IInv, Ordered, OfTaken
<1>5. Written' = Taken
  BY <1>3, <1>4 DEF Written, NoResult
<1>6. TypeOK' /\ Position' /\ Opened' /\ Ordered' /\ AllSent'
  BY <1>1, <1>2, SameOrder, SamePassed DEF IInv, TypeOK, Position, Opened, RangeOf, NoFile
<1>7. Queue'
  <2>1. \A k \in 1 .. Len(results') : results'[k] = sent[Taken' + k] /\ results'[k].part = part
    <3> SUFFICES ASSUME NEW k \in 1 .. Len(results')
                 PROVE  results'[k] = sent[Taken' + k] /\ results'[k].part = part
      OBVIOUS
    <3>1. k + 1 \in 1 .. Len(results) /\ results'[k] = results[k + 1] /\ Taken' + k = Taken + (k + 1)
      BY <1>2, <1>3
    <3> QED BY <3>1 DEF IInv, Queue
  <2>2. RangeOf(sent)' = RangeOf(sent)
    BY <1>1 DEF RangeOf
  <2>3. Len(results') <= Len(sent)
    BY <1>2, <1>3 DEF IInv, Queue
  <2> QED BY <1>1, <1>2, <1>3, <1>4, <2>1, <2>2, <2>3 DEF IInv, Queue, NoResult
<1>8. Files'
  <2> DEFINE r == Head(results).rec
             path == FilePath(part, r)
             dir == DirPath(part, r)
  <2>1. files' = [q \in DOMAIN files \ {path} |-> files[q]] /\ dirs' = Removed(MkdirAll(dir), path)
    BY DEF RemoveOld
  <2>2. Path(sent[Taken + 1]) = path /\ DirOf(sent[Taken + 1]) = dir
    BY <1>1, <1>4 DEF Path, DirOf
  <2>3. \A k : Path(sent[k])' = Path(sent[k]) /\ DirOf(sent[k])' = DirOf(sent[k])
    BY <1>1, SamePaths
  <2>4. Path(holding)' = path
    <3>1. Path(holding)' = Path(holding') /\ Path(holding') = path
      BY <1>1, <1>4, <2>2 DEF Path, FilePath, FileName, DirPath, In
    <3> QED BY <3>1
  <2>5. \A q \in DOMAIN files : \E k \in 1 .. Taken : Path(sent[k]) = q /\ files[q] = sent[k].content
                                                    /\ \A j \in k + 1 .. Taken : Path(sent[j]) # q
    BY <1>3 DEF IInv, Files
  <2>10. dir \in Seq(Name) /\ path \in Seq(Name) /\ Up(path) \in Prefixes(dir)
    <3>1. OfTaken(sent[Taken + 1]) /\ part \in RangeOf(order)
      BY <1>4 DEF IInv, Ordered, OfTaken
    <3>2. part \in DOMAIN job /\ part \in Nat
      <4>1. part \in DOMAIN job
        BY <3>1, PartInOrder DEF IInv, RangeOf
      <4> QED BY <4>1, ExportAssumption DEF IInv
    <3>3. r \in Record
      <4>1. r = job[part].records[sent[Taken + 1].idx] /\ sent[Taken + 1].idx \in 1 .. Len(job[part].records)
        BY <1>1, <1>4, <3>1 DEF OfTaken
      <4> QED BY <3>2, <4>1, JobType DEF IInv
    <3> HIDE DEF r
    <3> QED BY <3>2, <3>3, PathTyped
  <2> HIDE DEF path, dir, r
  <2>6. DOMAIN files' = DOMAIN files \ {path} /\ \A q \in DOMAIN files' : files'[q] = files[q]
    BY <2>1
  <2>7. holding' # (NoResult)' /\ sent' = sent /\ Path(holding)' = path
    BY <1>1, <1>4, <2>4 DEF NoResult
  <2> DEFINE F == DOMAIN files
             P == Rewritten(F, dirs', path)
  <2>11. Present = F /\ Present' = P
    BY <1>1, <2>6, <2>7 DEF Present, Writes, Rewritten
  <2>12. dirs' = Emptied(F, Made(F, dirs, dir), path)
    BY <2>1 DEF MkdirAll, Removed, Emptied, Made
  <2>13. Tree(F, dirs) /\ (\A k \in 1 .. Taken : Settled(F, dirs, Path(sent[k])))
         /\ \A q \in dirs \ {<<>>} : \E k \in 1 .. Len(sent) : q \in Prefixes(DirOf(sent[k]))
    BY <2>11 DEF IInv, Files, Standing
  <2> HIDE DEF F
  <2>14. /\ Tree(P, dirs') /\ Settled(P, dirs', path) /\ dirs' \subseteq dirs \cup Prefixes(dir)
         /\ \A x : Settled(F, dirs, x) => Settled(P, dirs', x)
    BY <2>10, <2>12, <2>13, Cleared
  <2> HIDE DEF P
  <2>15. \A k \in 1 .. Taken' : Settled(P, dirs', Path(sent[k]))
    <3>1. \A k \in 1 .. Taken' : k \in 1 .. Taken \/ k = Taken + 1
      BY <1>3
    <3> QED BY <2>2, <2>13, <2>14, <3>1
  <2>16. \A q \in dirs' \ {<<>>} : \E k \in 1 .. Len(sent) : q \in Prefixes(DirOf(sent[k]))
    BY <1>4, <2>2, <2>13, <2>14
  <2>17. Standing'
    BY <2>3, <2>7, <2>11, <2>14, <2>15, <2>16 DEF Standing, Tree, Settled
  <2>9. \A q \in DOMAIN files' :
          q # path /\ \E k \in 1 .. Taken : Path(sent[k]) = q /\ files'[q] = sent[k].content
                                            /\ \A j \in k + 1 .. Taken : Path(sent[j]) # q
    BY <2>5, <2>6
  <2> QED BY <1>5, <2>3, <2>7, <2>9, <2>17 DEF Files
<1>9. Hashed'
  <2>1. UNCHANGED <<inputs, hashes>> /\ sent' = sent
    BY <1>1 DEF inputs
  <2> QED BY <2>1, KeepsHashed DEF IInv
<1> QED BY <1>1, <1>6, <1>7, <1>8, <1>9 DEF IInv

(* The file is written: it is the last one written at its path.            *)
LEMMA WriteFileKeeps == IInv /\ WriteFile => IInv'
PROOF
<1> SUFFICES ASSUME IInv, WriteFile PROVE IInv'
  OBVIOUS
<1>1. /\ part' = part /\ records' = records /\ job' = job /\ opts' = opts
      /\ holding # NoResult /\ holding' = NoResult /\ phase = "export"
      /\ UNCHANGED <<order, phase, rpos, closed, loc, results, sent, hpos, hashes>>
  BY SamePart DEF WriteFile, inputs, workerVars, hashVars
<1>2. /\ Len(sent) \in Nat /\ Len(results) \in Nat /\ Taken \in Nat /\ Taken >= 1 /\ Taken <= Len(sent)
      /\ Taken' = Taken /\ Written = Taken - 1 /\ Written' = Taken
      /\ holding = sent[Taken] /\ holding.part = part
  BY <1>1 DEF IInv, Queue, Taken, Written, NoResult
<1>3. TypeOK' /\ Position' /\ Opened' /\ Ordered' /\ AllSent'
  BY <1>1, SameOrder, SamePassed DEF IInv, TypeOK, Position, Opened, RangeOf, NoFile, NoResult
<1>4. Queue'
  <2>1. RangeOf(sent)' = RangeOf(sent)
    BY <1>1 DEF RangeOf
  <2> QED BY <1>1, <1>2, <2>1 DEF IInv, Queue, NoResult
<1>5. Files'
  <2> DEFINE path == Path(holding)
             kept == {q \in {path} : Writes(dirs, q)}
  <2>1. /\ path \notin DOMAIN files
        /\ \A q \in DOMAIN files : \E k \in 1 .. Taken - 1 : /\ Path(sent[k]) = q /\ files[q] = sent[k].content
                                                           /\ \A j \in k + 1 .. Taken - 1 : Path(sent[j]) # q
    BY <1>1, <1>2 DEF IInv, Files
  <2>2. path = FilePath(part, holding.rec)
    BY <1>2 DEF Path
  <2>3. \A k : Path(sent[k])' = Path(sent[k]) /\ DirOf(sent[k])' = DirOf(sent[k])
    BY <1>1, SamePaths
  <2>4. Path(sent[Taken]) = path /\ holding.content = sent[Taken].content
    BY <1>2
  <2>5. Present = DOMAIN files \cup kept
    BY <1>1 DEF Present
  <2> HIDE DEF path
  <2>6. /\ DOMAIN files' = DOMAIN files \cup kept /\ (\A q \in kept : files'[q] = holding.content)
        /\ (\A q \in DOMAIN files : files'[q] = files[q]) /\ dirs' = dirs
    <3>1. CASE path \in dirs \/ Up(path) \notin dirs
      BY <2>2, <3>1 DEF WriteFile, Writes
    <3>2. CASE path \notin dirs /\ Up(path) \in dirs
      <4>1. files' = [q \in DOMAIN files \cup {path} |-> IF q # path THEN files[q] ELSE holding.content]
        BY <2>1, <2>2, <3>2 DEF WriteFile
      <4>2. kept = {path}
        BY <3>2 DEF Writes
      <4> QED BY <2>1, <4>1, <4>2 DEF WriteFile
    <3> QED BY <3>1, <3>2
  <2> HIDE DEF kept
  <2>7. ASSUME NEW q \in DOMAIN files'
        PROVE  \E k \in 1 .. Taken : /\ Path(sent[k]) = q /\ files'[q] = sent[k].content
                                    /\ \A j \in k + 1 .. Taken : Path(sent[j]) # q
    <3>1. CASE q = path
      <4>1. Taken \in 1 .. Taken /\ Taken + 1 .. Taken = {}
        BY <1>2
      <4>2. files'[q] = sent[Taken].content
        BY <3>1, <2>1, <2>4, <2>6
      <4> QED BY <3>1, <4>1, <4>2, <2>4
    <3>2. CASE q # path
      <4>1. q \in DOMAIN files /\ files'[q] = files[q]
        BY <3>2, <2>6 DEF kept
      <4>2. PICK k \in 1 .. Taken - 1 : /\ Path(sent[k]) = q /\ files[q] = sent[k].content
                                       /\ \A j \in k + 1 .. Taken - 1 : Path(sent[j]) # q
        BY <4>1, <2>1
      <4>3. k \in 1 .. Taken /\ \A j \in k + 1 .. Taken : j \in k + 1 .. Taken - 1 \/ j = Taken
        BY <1>2
      <4> QED BY <3>2, <4>1, <4>2, <4>3, <2>4
    <3> QED BY <3>1, <3>2
  <2>8. Written' = Taken /\ sent' = sent /\ (holding = NoResult)'
    BY <1>1, <1>2 DEF NoResult
  <2>9. Standing'
    <3>1. Present' = Present
      BY <2>5, <2>6, <2>8 DEF Present
    <3> QED BY <1>2, <2>3, <2>6, <2>8, <3>1 DEF IInv, Files, Standing, Tree, Settled
  <2>10. \A q \in DOMAIN files' : \E k \in 1 .. Written' : /\ Path(sent[k])' = q /\ files'[q] = sent'[k].content
                                                       /\ \A j \in k + 1 .. Written' : Path(sent[j])' # q
    BY <2>3, <2>7, <2>8
  <2> QED BY <2>8, <2>9, <2>10 DEF Files
<1>6. Hashed'
  BY <1>1 DEF IInv, Hashed, HashOfOwnContent, Told, FileName, Named
<1> QED BY <1>1, <1>3, <1>4, <1>5, <1>6 DEF IInv

(* When the consumer has nothing left, all that was sent is written.       *)
LEMMA AllWritten ==
  ASSUME IInv, results = <<>>, holding = NoResult
  PROVE  /\ Written = Len(sent) /\ Len(sent) \in Nat /\ Tree(DOMAIN files, dirs)
         /\ \A k \in 1 .. Len(sent) : Settled(DOMAIN files, dirs, Path(sent[k]))
PROOF
<1>1. Len(sent) \in Nat /\ Len(results) = 0
  BY DEF IInv, Queue
<1>2. Written = Len(sent) /\ Taken = Len(sent)
  BY <1>1 DEF Written, Taken
<1>3. Present = DOMAIN files
  BY DEF Present
<1> QED BY <1>1, <1>2, <1>3 DEF IInv, Files, Standing

(* Steps between exports: the partition at hand is done with.              *)
LEMMA ExportWaitKeeps == IInv /\ ExportWait => IInv'
PROOF
<1> SUFFICES ASSUME IInv, ExportWait PROVE IInv'
  OBVIOUS
<1>1. /\ part' = part /\ records' = records /\ job' = job
      /\ phase = "export" /\ closed /\ phase' \in {"loop", "hash"} /\ hpos' = 1
      /\ UNCHANGED <<order, rpos, closed, loc, results, sent, holding>>
  BY SamePart DEF ExportWait, inputs, workerVars
<1>2. Queue' /\ Files' /\ Hashed'
  BY SameFiles DEF ExportWait
<1>3. TypeOK' /\ Position' /\ Opened'
  <2>1. order # <<>> /\ rpos > Len(records) /\ results = <<>> /\ holding = NoResult
    BY <1>1 DEF IInv, Position, ExportWait
  <2>2. Len(records) \in Nat /\ rpos \in Nat
    BY <2>1, PartInOrder, JobType DEF IInv, TypeOK, records
  <2>3. loc = NoFile
    BY <2>1, <2>2 DEF IInv, Opened
  <2> QED BY <1>1, <2>1, <2>2, <2>3 DEF IInv, TypeOK, Position, Opened, RangeOf, NoFile, NoResult
<1>4. Ordered' /\ AllSent'
  BY <1>1, SameOrder, SamePassed DEF IInv, TypeOK
<1> QED BY <1>1, <1>2, <1>3, <1>4 DEF IInv

LEMMA HashDoneKeeps == IInv /\ HashDone => IInv'
PROOF
<1> SUFFICES ASSUME IInv, HashDone PROVE IInv'
  OBVIOUS
<1>1. /\ part' = part /\ records' = records /\ job' = job /\ phase = "hash" /\ phase' = "loop"
      /\ UNCHANGED <<order, rpos, closed, loc, results, sent, holding, hpos>>
  BY SamePart DEF HashDone, inputs, workerVars, hashVars
<1>2. Queue' /\ Files' /\ Hashed'
  BY SameFiles DEF HashDone, hashVars
<1>3. TypeOK' /\ Position' /\ Opened'
  BY <1>1 DEF IInv, TypeOK, Position, Opened, RangeOf, NoFile, NoResult
<1>4. Ordered' /\ AllSent'
  BY <1>1, SameOrder, SamePassed DEF IInv, TypeOK
<1> QED BY <1>1, <1>2, <1>3, <1>4 DEF IInv

LEMMA LoopDoneKeeps == IInv /\ LoopDone => IInv'
PROOF
<1> SUFFICES ASSUME IInv, LoopDone PROVE IInv'
  OBVIOUS
<1>1. /\ part' = part /\ records' = records /\ job' = job /\ phase = "loop" /\ phase' = "done"
      /\ UNCHANGED <<order, rpos, closed, loc, results, sent, holding, hpos>>
  BY SamePart DEF LoopDone, inputs, workerVars, hashVars
<1>2. Queue' /\ Files' /\ Hashed'
  BY SameFiles DEF LoopDone, hashVars
<1>3. DOMAIN job = RangeOf(order)
  BY DEF LoopDone, Range, RangeOf, IInv, TypeOK
<1>4. TypeOK' /\ Position' /\ Opened'
  BY <1>1, <1>3 DEF IInv, TypeOK, Position, Opened, RangeOf, NoFile, NoResult
<1>5. Ordered' /\ AllSent'
  BY <1>1, SameOrder, SamePassed DEF IInv, TypeOK
<1> QED BY <1>1, <1>2, <1>4, <1>5 DEF IInv

(* The next partition: nothing of it was sent, and those before are done.  *)
LEMMA ExportRecordsKeeps == IInv /\ ExportRecords => IInv'
PROOF
<1> SUFFICES ASSUME IInv, ExportRecords PROVE IInv'
  OBVIOUS
<1>1. PICK p \in DOMAIN job \ Range(order) :
        order' = Append(order, p) /\ phase' = IF job[p].records = <<>> THEN "loop" ELSE "export"
  BY DEF ExportRecords
<1>2. /\ job' = job /\ opts' = opts /\ phase = "loop" /\ rpos' = 1 /\ closed' = FALSE
      /\ UNCHANGED <<loc, results, sent, holding, files, dirs, hpos, hashes>>
      /\ results = <<>> /\ holding = NoResult /\ loc = NoFile
  BY DEF ExportRecords, inputs, hashVars, IInv, TypeOK, Opened
<1>3. p \in DOMAIN job /\ p \notin RangeOf(order) /\ order \in Seq(DOMAIN job) /\ IsInjective(order)
  BY DEF IInv, TypeOK, Range, RangeOf
<1>4. /\ order' \in Seq(DOMAIN job) /\ Len(order) \in Nat /\ Len(order') = Len(order) + 1
      /\ order'[Len(order) + 1] = p /\ order' # <<>> /\ \A k \in 1 .. Len(order) : order'[k] = order[k]
  BY <1>1, <1>3, AppendProperties
<1>5. part' = p
  BY <1>4 DEF part, Last
<1>6. RangeOf(order') = RangeOf(order) \cup {p}
  BY <1>4 DEF RangeOf
<1>7. IsInjective(order')
  BY <1>3, <1>4 DEF IsInjective, RangeOf
<1>8. records' = job[p].records /\ job[p].records \in Seq(Record) /\ Len(job[p].records) \in Nat
  BY <1>2, <1>3, <1>5, JobType DEF records, IInv
<1>9. TypeOK' /\ Position' /\ Opened'
  <2>1. /\ Len(results) = 0 /\ hpos \in Nat /\ hpos >= 1 /\ phase' \in {"loop", "export"}
        /\ phase' = "loop" => Len(records') = 0
    <3>1. Len(results) = 0 /\ hpos \in Nat /\ hpos >= 1
      BY <1>2 DEF IInv, TypeOK, Position
    <3>2. phase' \in {"loop", "export"} /\ (phase' = "loop" => job[p].records = <<>>)
      BY <1>1
    <3> QED BY <1>8, <3>1, <3>2
  <2>2. TypeOK'
    <3>1. order' \in Seq(DOMAIN job') /\ IsInjective(order)'
      BY <1>2, <1>4, <1>7 DEF IsInjective
    <3>2. closed' \in BOOLEAN /\ results' = <<>> /\ holding' = NoResult /\ rpos' = 1 /\ hpos' = hpos
      BY <1>2
    <3>3. Len(results') <= Len(records')
      BY <1>8, <2>1, <3>2
    <3> QED BY <2>1, <3>1, <3>2, <3>3 DEF TypeOK, NoResult
  <2>3. Position' /\ Opened'
    BY <1>2, <1>4, <1>8, <2>1 DEF Position, Opened, NoFile
  <2> QED BY <2>2, <2>3
<1>10. Ordered'
  <2>1. \A k \in 1 .. Len(sent) : sent[k].part \in RangeOf(order) /\ sent[k].part # p
    BY <1>3 DEF IInv, Ordered, OfTaken
  <2>2. RangeOf(order)' = RangeOf(order) \cup {p}
    BY <1>6 DEF RangeOf
  <2> QED BY <1>2, <1>5, <2>1, <2>2 DEF IInv, Ordered, OfTaken, Before, NoResult
<1>11. AllSent'
  <2>1. RangeOf(order)' = RangeOf(order) \cup {p}
    BY <1>6 DEF RangeOf
  <2>2. \A q \in DOMAIN job : \A i \in 1 .. Len(job[q].records) : Passed(q, i)' => Passed(q, i)
    <3> SUFFICES ASSUME NEW q \in DOMAIN job, NEW i \in 1 .. Len(job[q].records), Passed(q, i)' PROVE Passed(q, i)
      OBVIOUS
    <3>1. q \in RangeOf(order)
      BY <1>2, <1>5, <2>1 DEF Passed
    <3>2. order # <<>>
      BY <3>1, <1>4 DEF RangeOf
    <3>3. rpos > Len(records) /\ rpos \in Nat
      BY <3>2, <1>2 DEF IInv, Position, TypeOK
    <3> QED BY <3>1, <3>3, JobType DEF Passed, records, IInv
  <2> QED BY <1>2, <2>2 DEF IInv, AllSent
<1>12. Queue' /\ Files' /\ Hashed'
  <2>1. Taken' = Taken /\ Written' = Written /\ RangeOf(sent)' = RangeOf(sent) /\ Len(results) = 0
    BY <1>2 DEF Taken, Written, RangeOf, NoResult
  <2>2. Queue'
    BY <1>2, <2>1 DEF IInv, Queue, NoResult
  <2>3. Files'
    <3>1. Path(holding)' = Path(holding) /\ \A k : Path(sent[k])' = Path(sent[k])
      BY <1>2, SamePaths
    <3>2. \A k \in 1 .. Taken : k \in 1 .. Len(sent)
      BY DEF IInv, Queue, Taken
    <3>3. Standing'
      BY <1>2, <2>1, <3>2, SameStanding DEF IInv, Files
    <3> QED BY <1>2, <2>1, <3>1, <3>3 DEF IInv, Files, NoResult
  <2>4. Hashed'
    <3>1. UNCHANGED <<inputs, hashes>> /\ sent' = sent
      BY <1>2 DEF inputs
    <3> QED BY <3>1, KeepsHashed DEF IInv
  <2> QED BY <2>2, <2>3, <2>4
<1> QED BY <1>2, <1>9, <1>10, <1>11, <1>12 DEF IInv

(* A path of the partition at hand that names a record of a number and name*)
(* of its own was last written with that record: whatever was written there*)
(* later would be of the same partition, and have its number and name.     *)
LEMMA HashedIsSent ==
  ASSUME IInv, phase = "hash", hpos \in 1 .. Len(records), HashPath(records[hpos]) \in DOMAIN files,
         opts.id, ~opts.recreate, ~records[hpos].folder, Told(records)
  PROVE  \E k \in 1 .. Len(sent) : /\ sent[k].part = part /\ sent[k].idx = hpos
                                  /\ files[HashPath(records[hpos])] = sent[k].content
PROOF
<1> DEFINE path == HashPath(records[hpos])
<1>1. /\ results = <<>> /\ holding = NoResult /\ order # <<>>
      /\ part \in RangeOf(order) /\ part \in DOMAIN job /\ rpos > Len(records) /\ rpos \in Nat /\ Len(records) \in Nat
  BY PartInOrder, JobType DEF IInv, TypeOK, Position, records
<1>2. Written = Len(sent) /\ Len(sent) \in Nat
  BY <1>1, AllWritten
<1>3. PICK k \in 1 .. Len(sent) : /\ Path(sent[k]) = path /\ files[path] = sent[k].content
                                  /\ \A j \in k + 1 .. Len(sent) : Path(sent[j]) # path
  BY <1>2 DEF IInv, Files
<1>4. PICK l \in 1 .. Len(sent) : sent[l].part = part /\ sent[l].idx = hpos
  <2>1. hpos \in 1 .. Len(job[part].records) /\ hpos < rpos /\ ~job[part].records[hpos].folder
    BY <1>1 DEF records
  <2> QED BY <1>1, <2>1 DEF IInv, AllSent, Passed
<1>5. Path(sent[l]) = path
  <2>1. sent[l].rec = records[hpos]
    BY <1>4 DEF IInv, Ordered, OfTaken, records
  <2> QED BY <2>1 DEF Path, FilePath, DirPath, HashPath
<1>6. l <= k
  BY <1>2, <1>3, <1>5
<1>7. sent[k].part = part
  BY <1>2, <1>4, <1>6 DEF IInv, Ordered, Before
<1>8. /\ sent[k].idx \in 1 .. Len(records) /\ sent[k].rec = records[sent[k].idx] /\ ~records[sent[k].idx].folder
  BY <1>7 DEF IInv, Ordered, OfTaken, records
<1>9. FileName(records[sent[k].idx]) = FileName(records[hpos])
  <2> DEFINE a == FileName(records[sent[k].idx])
             b == FileName(records[hpos])
  <2>1. Append(Location, a) = Append(Location, b)
    BY <1>3, <1>8 DEF Path, FilePath, DirPath, HashPath, In
  <2>2. Location \in Seq(Name)
    BY ExportAssumption
  <2> HIDE DEF a, b
  <2>3. Append(Location, a)[Len(Location) + 1] = a /\ Append(Location, b)[Len(Location) + 1] = b
    BY <2>2, AppendFacts
  <2>4. a = b
    BY <2>1, <2>3
  <2> QED BY <2>4 DEF a, b
<1>10. sent[k].idx = hpos
  BY <1>8, <1>9 DEF Told
<1> QED BY <1>3, <1>7, <1>10

LEMMA HashFileKeeps == IInv /\ HashFile => IInv'
PROOF
<1> SUFFICES ASSUME IInv, HashFile PROVE IInv'
  OBVIOUS
<1>1. /\ part' = part /\ records' = records /\ job' = job /\ opts' = opts
      /\ phase = "hash" /\ hpos <= Len(records) /\ phase' \in {"hash", "loop"} /\ hpos' = hpos + 1
      /\ UNCHANGED <<order, rpos, closed, loc, results, sent, holding, files, dirs>>
  BY SamePart DEF HashFile, inputs, workerVars
<1>2. /\ hpos \in 1 .. Len(records) /\ part \in DOMAIN job /\ hpos \in Nat
  <2>1. order # <<>> /\ hpos \in Nat /\ hpos >= 1
    BY <1>1 DEF IInv, Position, TypeOK
  <2>2. part \in DOMAIN job /\ Len(records) \in Nat
    BY <2>1, PartInOrder, JobType DEF IInv, records
  <2> QED BY <1>1, <2>1, <2>2
<1>3. TypeOK' /\ Position' /\ Opened'
  BY <1>1, <1>2 DEF IInv, TypeOK, Position, Opened, RangeOf, NoFile, NoResult
<1>4. Ordered' /\ AllSent'
  BY <1>1, SameOrder, SamePassed DEF IInv, TypeOK
<1>5. Queue' /\ Files'
  <2>1. Taken' = Taken /\ Written' = Written /\ RangeOf(sent)' = RangeOf(sent)
    BY <1>1 DEF Taken, Written, RangeOf, NoResult
  <2>2. Path(holding)' = Path(holding) /\ \A k : Path(sent[k])' = Path(sent[k])
    BY <1>1, SamePaths
  <2>3. Queue'
    BY <1>1, <2>1 DEF IInv, Queue, NoResult
  <2>4. \A k \in 1 .. Taken : k \in 1 .. Len(sent)
    BY DEF IInv, Queue, Taken
  <2>5. Standing'
    BY <1>1, <2>1, <2>4, SameStanding DEF IInv, Files
  <2>6. Files'
    BY <1>1, <2>1, <2>2, <2>5 DEF IInv, Files, NoResult
  <2> QED BY <2>3, <2>6
<1>6. Hashed'
  <2> DEFINE new == [part |-> part, idx |-> hpos, of |-> files[HashPath(records[hpos])]]
  <2>1. \/ hashes' = hashes
        \/ HashPath(records[hpos]) \in DOMAIN files /\ hashes' = hashes \cup {new}
    BY DEF HashFile
  <2>2. ASSUME opts.id, ~opts.recreate, HashPath(records[hpos]) \in DOMAIN files,
               ~job[new.part].records[new.idx].folder, Told(job[new.part].records)
        PROVE  \E k \in 1 .. Len(sent) : sent[k].part = new.part /\ sent[k].idx = new.idx /\ new.of = sent[k].content
    BY <2>2, <1>1, <1>2, HashedIsSent DEF records
  <2>3. new.part \in DOMAIN job /\ new.idx \in 1 .. Len(job[new.part].records)
    BY <1>2 DEF records
  <2> HIDE DEF new
  <2>4. \A rs : Told(rs)' = Told(rs)
    BY <1>1 DEF Told, FileName, Named
  <2>5. HashOfOwnContent'
    <3> SUFFICES ASSUME opts.id, ~opts.recreate, NEW h \in hashes', ~job[h.part].records[h.idx].folder,
                        Told(job[h.part].records)
                 PROVE  \E k \in 1 .. Len(sent) : sent[k].part = h.part /\ sent[k].idx = h.idx /\ h.of = sent[k].content
      BY <1>1, <2>4 DEF HashOfOwnContent
    <3>1. CASE h \in hashes
      BY <3>1 DEF IInv, Hashed, HashOfOwnContent
    <3>2. CASE h \notin hashes
      BY <3>2, <2>1, <2>2
    <3> QED BY <3>1, <3>2
  <2> QED BY <1>1, <2>1, <2>3, <2>5 DEF IInv, Hashed
<1> QED BY <1>1, <1>3, <1>4, <1>5, <1>6 DEF IInv
-----------------------------------------------------------------------------
LEMMA NextIInv == IInv /\ [Next]_vars => IInv'
PROOF
<1> SUFFICES ASSUME IInv, [Next]_vars PROVE IInv'
  OBVIOUS
<1>1. CASE ExportRecords
  BY <1>1, ExportRecordsKeeps
<1>2. CASE Worker
  <2>1. CASE SkipFolder
    BY <2>1, SkipFolderKeeps
  <2>2. CASE OpenFile
    <3>1. UNCHANGED <<inputs, order, phase, workerVars, results, sent, holding, files, dirs, hashVars>>
      BY <2>2 DEF OpenFile
    <3>2. Opened'
      BY <2>2, <3>1, SamePart DEF OpenFile, Opened, Working, inputs, workerVars
    <3> QED BY <3>1, <3>2, LocKeeps
  <2>3. CASE LocateResident \/ LocateRun \/ LocateGroup \/ LocateEnd
    <3>1. Locating
      BY <2>3 DEF LocateResident, LocateRun, LocateGroup, LocateEnd, AtRun, AtGroup
    <3>2. UNCHANGED <<inputs, order, phase, workerVars, results, sent, holding, files, dirs, hashVars>>
      BY <2>3 DEF LocateResident, LocateRun, LocateGroup, LocateEnd
    <3>3. Opened'
      BY <3>1, <3>2, SamePart DEF Locating, Working, IInv, Opened, inputs, workerVars
    <3> QED BY <3>2, <3>3, LocKeeps
  <2>4. CASE LocatePanics
    BY <2>4, LocatePanicsKeeps
  <2>5. CASE SendFile
    BY <2>5, SendFileKeeps
  <2>6. CASE CloseResults
    BY <2>6, CloseResultsKeeps
  <2> QED BY <1>2, <2>1, <2>2, <2>3, <2>4, <2>5, <2>6 DEF Worker, LocateData
<1>3. CASE RemoveOld
  BY <1>3, RemoveOldKeeps
<1>4. CASE WriteFile
  BY <1>4, WriteFileKeeps
<1>5. CASE ExportWait
  BY <1>5, ExportWaitKeeps
<1>6. CASE HashFile
  BY <1>6, HashFileKeeps
<1>7. CASE HashDone
  BY <1>7, HashDoneKeeps
<1>8. CASE LoopDone
  BY <1>8, LoopDoneKeeps
<1>9. CASE UNCHANGED vars
  <2>1. UNCHANGED <<inputs, order, phase, workerVars, results, sent, holding, files, dirs, hashVars>> /\ loc' = loc
    BY <1>9 DEF vars
  <2>2. Opened'
    BY <2>1, SamePart DEF IInv, Opened, inputs, workerVars
  <2> QED BY <2>1, <2>2, LocKeeps
<1> QED BY <1>1, <1>2, <1>3, <1>4, <1>5, <1>6, <1>7, <1>8, <1>9 DEF Next, ExportData, HashFiles, Returned

LEMMA InvariantHolds == Spec => []IInv
PROOF BY InitIInv, NextIInv, PTL DEF Spec

(* The state of the export is well formed: of the partitions each is taken *)
(* once, the channel never holds more than the records of the partition at *)
(* hand, and between exports it is empty (ExportRecords, Worker).          *)
THEOREM TypeCorrect == Spec => []TypeOK
PROOF
<1>1. IInv => TypeOK
  BY DEF IInv
<1> QED BY InvariantHolds, <1>1, PTL

(* A file under the export location is one file of the image, never two    *)
(* behind each other (CreateFile, WriteFile).                              *)
THEOREM FilesAreWhole == Spec => []FilesWhole
PROOF
<1>1. IInv => FilesWhole
  <2> SUFFICES ASSUME IInv PROVE FilesWhole
    OBVIOUS
  <2>1. Len(sent) \in Nat /\ Len(results) \in Nat /\ Written <= Len(sent) /\ Written \in Int
    BY DEF IInv, Queue, Written, Taken
  <2>2. \A k \in 1 .. Written : k \in 1 .. Len(sent)
    BY <2>1
  <2> QED BY <2>2 DEF IInv, Files, FilesWhole
<1> QED BY InvariantHolds, <1>1, PTL

(* When the loop over the partitions ends, every file was sent once and is *)
(* there, the last of those that share a path, but for paths with a        *)
(* directory in their place or a file in that of a directory above, and no *)
(* directory is there but for a file's sake (Worker, ExportData).          *)
THEOREM ExportIsComplete == Spec => []ExportComplete
PROOF
<1>1. IInv => ExportComplete
  <2> SUFFICES ASSUME IInv, phase = "done" PROVE ExportComplete
    BY DEF ExportComplete
  <2>1. results = <<>> /\ holding = NoResult /\ DOMAIN job = RangeOf(order)
    BY DEF IInv, TypeOK, Position
  <2>2. /\ Written = Len(sent) /\ Len(sent) \in Nat /\ Tree(DOMAIN files, dirs)
        /\ \A k \in 1 .. Len(sent) : Settled(DOMAIN files, dirs, Path(sent[k]))
    BY <2>1, AllWritten
  <2>3. \A p \in DOMAIN job : \A i \in 1 .. Len(job[p].records) : Passed(p, i)
    <3> SUFFICES ASSUME NEW p \in DOMAIN job, NEW i \in 1 .. Len(job[p].records) PROVE Passed(p, i)
      OBVIOUS
    <3>1. p \in RangeOf(order) /\ order # <<>>
      BY <2>1 DEF RangeOf, IInv, TypeOK
    <3>2. rpos > Len(records) /\ rpos \in Nat
      BY <3>1 DEF IInv, Position, TypeOK
    <3> QED BY <3>1, <3>2, JobType DEF Passed, records, IInv
  <2>4. ASSUME NEW p \in DOMAIN job, NEW i \in 1 .. Len(job[p].records)
        PROVE  ~job[p].records[i].folder <=> \E k \in 1 .. Len(sent) : sent[k].part = p /\ sent[k].idx = i
    <3>1. ~job[p].records[i].folder => \E k \in 1 .. Len(sent) : sent[k].part = p /\ sent[k].idx = i
      BY <2>3 DEF IInv, AllSent
    <3>2. ASSUME NEW k \in 1 .. Len(sent), sent[k].part = p, sent[k].idx = i PROVE ~job[p].records[i].folder
      <4>1. OfTaken(sent[k])
        BY DEF IInv, Ordered
      <4> QED BY <3>2, <4>1 DEF OfTaken
    <3> QED BY <3>1, <3>2
  <2>5. \A k \in 1 .. Len(sent) : /\ sent[k].rec = job[sent[k].part].records[sent[k].idx]
                                 /\ \A j \in 1 .. k - 1 : sent[j].part = sent[k].part => sent[j].idx < sent[k].idx
    BY DEF IInv, Ordered, OfTaken, Before
  <2>6. ASSUME NEW path \in DOMAIN files
        PROVE  /\ \E k \in 1 .. Len(sent) : Path(sent[k]) = path
               /\ files[path] = LastSent(path).content
    <3> DEFINE Final(k) == Path(sent[k]) = path /\ \A j \in k + 1 .. Len(sent) : Path(sent[j]) # path
    <3>1. PICK k \in 1 .. Len(sent) : Final(k) /\ files[path] = sent[k].content
      BY <2>2 DEF IInv, Files
    <3>2. \A j \in 1 .. Len(sent) : Final(j) => j = k
      BY <2>2, <3>1
    <3>3. (CHOOSE j \in 1 .. Len(sent) : Final(j)) = k
      BY <3>1, <3>2
    <3> QED BY <3>1, <3>3 DEF LastSent
  <2>7. \A q \in DOMAIN files : ~InTheWay(q)
    <3> SUFFICES ASSUME NEW q \in DOMAIN files PROVE ~InTheWay(q)
      OBVIOUS
    <3>1. q \notin dirs /\ \A f \in Prefixes(q) \ {q} : f \notin DOMAIN files
      BY <2>2 DEF Tree
    <3> QED BY <3>1 DEF InTheWay
  <2>8. ASSUME NEW q, ~InTheWay(q), Settled(DOMAIN files, dirs, q) PROVE q \in DOMAIN files
    BY <2>2, <2>8 DEF InTheWay, Settled, Tree
  <2>9. DOMAIN files = {q \in {Path(sent[k]) : k \in 1 .. Len(sent)} : ~InTheWay(q)}
    BY <2>2, <2>6, <2>7, <2>8
  <2>10. \A q \in dirs \ {<<>>} : \E k \in 1 .. Len(sent) : q \in Prefixes(DirPath(sent[k].part, sent[k].rec))
    BY DEF IInv, Files, Standing, DirOf
  <2> QED BY <2>4, <2>5, <2>6, <2>9, <2>10 DEF ExportComplete
<1> QED BY InvariantHolds, <1>1, PTL

(* What is hashed as a file of the image is what was sent for that file    *)
(* (HashFiles after wg.Wait, before the next partition).                   *)
THEOREM HashesAreOfOwnContent == Spec => []HashOfOwnContent
PROOF
<1>1. IInv => HashOfOwnContent
  BY DEF IInv, Hashed
<1> QED BY InvariantHolds, <1>1, PTL
-----------------------------------------------------------------------------
(* Numbers.                                                                *)

LEMMA Distributes == \A a, b, c \in Int : (a + b) * c = a * c + b * c
PROOF OBVIOUS

LEMMA TimesGrows == \A a, b \in Int : \A c \in Nat : a <= b => a * c <= b * c
PROOF
<1> SUFFICES ASSUME NEW a \in Int, NEW b \in Int, NEW c \in Nat, a <= b PROVE a * c <= b * c
  OBVIOUS
<1>1. (b - a) * c >= 0
  <2> DEFINE d == b - a
  <2>1. d \in Nat
    OBVIOUS
  <2> HIDE DEF d
  <2>2. d * c \in Nat
    BY <2>1
  <2> QED BY <2>2 DEF d
<1>2. (b - a) * c = b * c - a * c
  OBVIOUS
<1> QED BY <1>1, <1>2

(* A quotient.                                                             *)
LEMMA Quotient ==
  \A n \in Nat, c \in Nat \ {0} :
    n \div c \in Nat /\ (n \div c) * c <= n /\ n < (n \div c) * c + c
PROOF OBVIOUS

LEMMA BufferSizeHolds ==
  ASSUME NEW r \in Record
  PROVE  BufferSize(r) \in Nat /\ r.lsize \in Nat /\ r.lsize <= BufferSize(r)
PROOF
<1> DEFINE n == r.lsize + Sector - 1
           q == n \div Sector
<1>1. Sector \in Nat \ {0} /\ r.lsize \in Nat
  BY ExportAssumption DEF Record
<1>2. n \in Nat
  BY <1>1
<1> HIDE DEF n
<1>3. q \in Nat /\ n < q * Sector + Sector
  BY <1>1, <1>2, Quotient
<1>4. BufferSize(r) = q * Sector
  BY DEF BufferSize, q, n
<1> HIDE DEF q
<1>5. q * Sector \in Nat
  BY <1>1, <1>3
<1> QED BY <1>1, <1>3, <1>4, <1>5 DEF n

(* Numbers that start at or below u and end above it pass u in one step.   *)
LEMMA Passes ==
  ASSUME NEW N \in Nat, NEW s, \A k \in 0 .. N : s[k] \in Int, NEW u \in Int, s[0] <= u, u < s[N]
  PROVE  \E k \in 1 .. N : s[k - 1] <= u /\ u < s[k]
PROOF
<1> SUFFICES ASSUME \A k \in 1 .. N : ~(s[k - 1] <= u /\ u < s[k]) PROVE FALSE
  OBVIOUS
<1> DEFINE I == {k \in 0 .. N : s[k] <= u}
<1>1. 0 \in I
  OBVIOUS
<1>2. ASSUME NEW n \in 0 .. N - 1, n \in I PROVE n + 1 \in I
  <2>1. n + 1 \in 1 .. N /\ (n + 1) - 1 = n /\ n + 1 \in 0 .. N
    OBVIOUS
  <2>2. ~(s[n] <= u /\ u < s[n + 1])
    BY <2>1
  <2> QED BY <1>2, <2>1, <2>2
<1>3. 0 .. N \subseteq I
  <2> HIDE DEF I
  <2> QED BY <1>1, <1>2, BoundedInduction
<1>4. N \in 0 .. N
  OBVIOUS
<1> QED BY <1>3, <1>4

(* Numbers that never fall pass u in one step at most.                     *)
LEMMA PassesOnce ==
  ASSUME NEW N \in Nat, NEW s, \A k \in 0 .. N : s[k] \in Int,
         \A j, k \in 0 .. N : j <= k => s[j] <= s[k],
         NEW u \in Int, NEW a \in 1 .. N, NEW b \in 1 .. N,
         s[a - 1] <= u, u < s[a], s[b - 1] <= u, u < s[b]
  PROVE  a = b
PROOF
<1>1. a \in 0 .. N /\ a - 1 \in 0 .. N /\ b \in 0 .. N /\ b - 1 \in 0 .. N
  OBVIOUS
<1>2. ASSUME a < b PROVE FALSE
  <2>1. s[a] <= s[b - 1]
    BY <1>1, <1>2
  <2> QED BY <1>1, <2>1
<1>3. ASSUME b < a PROVE FALSE
  <2>1. s[b] <= s[a - 1]
    BY <1>1, <1>3
  <2> QED BY <1>1, <2>1
<1> QED BY <1>2, <1>3

(* copy changes the units it is given and no others, and not the length.   *)
CopyOf(t, dst, at, src) ==
  /\ Len(t) = Len(dst)
  /\ \A u \in 0 .. Len(dst) - 1 :
       t[u + 1] = IF at <= u /\ u < at + Len(src) THEN src[u - at + 1] ELSE dst[u + 1]

LEMMA Copied ==
  ASSUME NEW S, NEW dst \in Seq(S), NEW src \in Seq(S), NEW at \in 0 .. Len(dst)
  PROVE  CopyAt(dst, at, src) \in Seq(S) /\ CopyOf(CopyAt(dst, at, src), dst, at, src)
PROOF
<1> DEFINE n == IF Len(src) < Len(dst) - at THEN Len(src) ELSE Len(dst) - at
           L == Len(dst)
           a == SubSeq(dst, 1, at)
           b == SubSeq(src, 1, n)
           c == SubSeq(dst, at + n + 1, L)
<1>1. /\ L \in Nat /\ Len(src) \in Nat /\ n \in Nat /\ n <= Len(src) /\ at + n <= L /\ at \in Nat
      /\ (at + n < L => n = Len(src))
      /\ \A i \in 1 .. L : dst[i] \in S
      /\ \A i \in 1 .. Len(src) : src[i] \in S
  OBVIOUS
<1> HIDE DEF n, L
<1>2. a \in Seq(S) /\ Len(a) = at /\ \A i \in 1 .. at : a[i] = dst[i]
  <2>1. \A i \in 1 .. at : dst[i] \in S
    BY <1>1
  <2>2. 1 <= at \/ at = 0
    BY <1>1
  <2> QED BY <1>1, <2>1, <2>2, SubSeqProperties
<1>3. b \in Seq(S) /\ Len(b) = n /\ \A i \in 1 .. n : b[i] = src[i]
  <2>1. \A i \in 1 .. n : src[i] \in S
    BY <1>1
  <2>2. 1 <= n \/ n = 0
    BY <1>1
  <2> QED BY <1>1, <2>1, <2>2, SubSeqProperties
<1>4. c \in Seq(S) /\ Len(c) = L - at - n /\ \A i \in 1 .. L - at - n : c[i] = dst[at + n + i]
  <2> DEFINE m == at + n + 1
  <2>1. m \in Int /\ L \in Int /\ (m <= L \/ m = L + 1) /\ L - m + 1 = L - at - n
        /\ \A i \in 1 .. L - at - n : m + i - 1 = at + n + i
    BY <1>1
  <2>2. \A i \in m .. L : dst[i] \in S
    BY <1>1
  <2>3. /\ SubSeq(dst, m, L) \in Seq(S)
        /\ Len(SubSeq(dst, m, L)) = IF m <= L THEN L - m + 1 ELSE 0
        /\ \A i \in 1 .. L - m + 1 : SubSeq(dst, m, L)[i] = dst[m + i - 1]
    <3> HIDE DEF m
    <3> QED BY <2>1, <2>2, SubSeqProperties
  <2> QED BY <1>1, <2>1, <2>3
<1>5. CopyAt(dst, at, src) = a \o b \o c
  BY DEF CopyAt, a, b, c, n, L
<1> HIDE DEF a, b, c
<1>6. /\ a \o b \in Seq(S) /\ Len(a \o b) = at + n
      /\ \A i \in 1 .. at + n : (a \o b)[i] = IF i <= at THEN a[i] ELSE b[i - at]
  BY <1>2, <1>3, ConcatProperties
<1> DEFINE ab == a \o b
<1> HIDE DEF ab
<1>7. /\ ab \o c \in Seq(S) /\ Len(ab \o c) = at + n + (L - at - n)
      /\ \A i \in 1 .. at + n + (L - at - n) : (ab \o c)[i] = IF i <= at + n THEN ab[i] ELSE c[i - (at + n)]
  <2>1. /\ ab \o c \in Seq(S) /\ Len(ab \o c) = Len(ab) + Len(c)
        /\ \A i \in 1 .. Len(ab) + Len(c) : (ab \o c)[i] = IF i <= Len(ab) THEN ab[i] ELSE c[i - Len(ab)]
    BY <1>4, <1>6, ConcatProperties DEF ab
  <2>2. Len(ab) = at + n /\ Len(c) = L - at - n
    BY <1>4, <1>6 DEF ab
  <2> QED BY <2>1, <2>2
<1> DEFINE t == ab \o c
<1>8. CopyAt(dst, at, src) = t
  BY <1>5 DEF ab
<1> HIDE DEF t
<1>9. t \in Seq(S) /\ Len(t) = L
  BY <1>1, <1>7 DEF t
<1>10. ASSUME NEW u \in 0 .. L - 1
       PROVE  t[u + 1] = IF at <= u /\ u < at + Len(src) THEN src[u - at + 1] ELSE dst[u + 1]
  <2>1. u + 1 \in 1 .. at + n + (L - at - n)
    BY <1>1
  <2>2. t[u + 1] = IF u + 1 <= at + n THEN ab[u + 1] ELSE c[(u + 1) - (at + n)]
    BY <1>7, <2>1 DEF t
  <2>3. CASE u < at
    <3>1. u + 1 \in 1 .. at + n /\ u + 1 \in 1 .. at /\ u + 1 <= at /\ u + 1 <= at + n
      BY <1>1, <2>3
    <3>2. ab[u + 1] = a[u + 1] /\ a[u + 1] = dst[u + 1]
      BY <1>2, <1>6, <3>1 DEF ab
    <3> QED BY <1>1, <2>2, <2>3, <3>1, <3>2
  <2>4. CASE at <= u /\ u < at + n
    <3>1. u + 1 \in 1 .. at + n /\ ~(u + 1 <= at) /\ u + 1 <= at + n /\ (u + 1) - at \in 1 .. n
          /\ (u + 1) - at = u - at + 1 /\ u < at + Len(src)
      BY <1>1, <2>4
    <3>2. ab[u + 1] = b[(u + 1) - at]
      BY <1>6, <3>1 DEF ab
    <3>3. b[(u + 1) - at] = src[(u + 1) - at]
      BY <1>3, <3>1
    <3> QED BY <2>2, <2>4, <3>1, <3>2, <3>3
  <2>5. CASE at + n <= u
    <3>1. (u + 1) - (at + n) \in 1 .. L - at - n /\ at + n + ((u + 1) - (at + n)) = u + 1
          /\ ~(u + 1 <= at + n) /\ ~(u < at + Len(src))
      BY <1>1, <2>5
    <3>2. c[(u + 1) - (at + n)] = dst[u + 1]
      BY <1>4, <3>1
    <3> QED BY <2>2, <3>1, <3>2
  <2> QED BY <1>1, <2>3, <2>4, <2>5
<1> QED BY <1>8, <1>9, <1>10 DEF L, CopyOf
-----------------------------------------------------------------------------
(* BTRFS extents by file offset.                                           *)

Kept(items) == {k \in DOMAIN items : \A j \in k + 1 .. Len(items) : items[j].at # items[k].at}
Below(items, k) == {j \in Kept(items) : items[j].at < items[k].at}

(* The items that are kept, p gives the number of each, lie by file offset.*)
Sorted(xs, items, p) ==
  /\ p \in [1 .. Len(xs) -> DOMAIN items] /\ Len(xs) \in Nat
  /\ xs = [i \in 1 .. Len(xs) |-> items[p[i]]]
  /\ \A i, j \in 1 .. Len(xs) : i < j => xs[i].at < xs[j].at
  /\ (\A k, j \in DOMAIN items : k # j => items[k].at # items[j].at) =>
       \A k \in DOMAIN items : \E i \in 1 .. Len(xs) : p[i] = k

LEMMA SortedItems ==
  ASSUME NEW items \in Seq(Item)
  PROVE  \E p : Sorted(ByFileOffset(items), items, p)
PROOF
<1> DEFINE K == Kept(items)
           N == Cardinality(K)
           rank == [k \in K |-> Cardinality(Below(items, k))]
           p == [i \in 1 .. N |-> CHOOSE k \in K : Cardinality(Below(items, k)) = i - 1]
           xs == ByFileOffset(items)
<1>1. Len(items) \in Nat /\ DOMAIN items = 1 .. Len(items) /\ \A k \in DOMAIN items : items[k].at \in Nat
  <2>1. \A k \in DOMAIN items : items[k] \in Item
    OBVIOUS
  <2> QED BY <2>1 DEF Item
<1>2. K \subseteq DOMAIN items
  BY DEF Kept
<1>3. IsFiniteSet(K) /\ N \in Nat
  <2> HIDE DEF K
  <2>1. IsFiniteSet(1 .. Len(items)) /\ K \in SUBSET (1 .. Len(items))
    BY <1>1, <1>2, FS_Interval
  <2>2. IsFiniteSet(K)
    BY <2>1, FS_Subset
  <2> QED BY <2>2, FS_CardinalityType
<1>4. ASSUME NEW k \in K
      PROVE  /\ Below(items, k) \in SUBSET K /\ k \notin Below(items, k) /\ IsFiniteSet(Below(items, k))
             /\ Cardinality(Below(items, k)) \in 0 .. N - 1
  <2> DEFINE T == Below(items, k)
  <2>1. T \in SUBSET K /\ k \notin T
    BY <1>1, <1>2 DEF Below
  <2> HIDE DEF T, K
  <2>2. IsFiniteSet(T) /\ Cardinality(T) <= Cardinality(K) /\ (Cardinality(T) = Cardinality(K) => T = K)
    BY <1>3, <2>1, FS_Subset
  <2>3. T # K /\ Cardinality(T) \in Nat
    BY <1>4, <2>1, <2>2, FS_CardinalityType
  <2> QED BY <1>3, <2>1, <2>2, <2>3 DEF T
<1>5. ASSUME NEW k \in K, NEW l \in K, items[k].at < items[l].at
      PROVE  Cardinality(Below(items, k)) < Cardinality(Below(items, l))
  <2> DEFINE S == Below(items, l)
             T == Below(items, k)
  <2>1. T \in SUBSET S /\ k \in S /\ k \notin T
    BY <1>1, <1>2, <1>5 DEF Below
  <2>2. IsFiniteSet(S) /\ Cardinality(S) \in Nat /\ IsFiniteSet(T) /\ Cardinality(T) \in Nat
    BY <1>3, <1>4
  <2> HIDE DEF S, T
  <2>3. Cardinality(T) <= Cardinality(S) /\ (Cardinality(T) = Cardinality(S) => T = S)
    BY <2>1, <2>2, FS_Subset
  <2> QED BY <2>1, <2>2, <2>3 DEF S, T
<1>6. ASSUME NEW k \in K, NEW l \in K, k # l PROVE items[k].at < items[l].at \/ items[l].at < items[k].at
  <2>1. k \in 1 .. Len(items) /\ l \in 1 .. Len(items)
    BY <1>1, <1>2
  <2>2. k < l \/ l < k
    BY <1>6, <2>1
  <2>3. items[k].at # items[l].at
    BY <1>1, <2>1, <2>2 DEF Kept
  <2> QED BY <1>1, <2>1, <2>3
<1>7. rank \in Injection(K, 0 .. N - 1)
  <2>1. rank \in [K -> 0 .. N - 1]
    BY <1>4
  <2>2. ASSUME NEW k \in K, NEW l \in K, rank[k] = rank[l] PROVE k = l
    <3>1. Cardinality(Below(items, k)) = Cardinality(Below(items, l)) /\ Cardinality(Below(items, k)) \in Int
      BY <1>4, <2>2
    <3> QED BY <1>5, <1>6, <3>1
  <2> HIDE DEF rank
  <2>3. \A k, l \in K : rank[k] = rank[l] => k = l
    BY <2>2
  <2> QED BY <2>1, <2>3 DEF Injection, IsInjective
<1>8. \A n \in 0 .. N - 1 : \E k \in K : rank[k] = n
  <2> HIDE DEF rank, K
  <2> DEFINE D == 0 .. N - 1
  <2>1. IsFiniteSet(D) /\ Cardinality(D) = N
    <3>1. N - 1 \in Int /\ (0 > N - 1 => N = 0)
      BY <1>3
    <3> QED BY <1>3, <3>1, FS_Interval
  <2>2. rank \in Surjection(K, D)
    <3> HIDE DEF D
    <3> QED BY <1>7, <2>1, FS_Injection DEF D
  <2> QED BY <2>2 DEF Surjection
<1>9. \A i \in 1 .. N : p[i] \in K /\ Cardinality(Below(items, p[i])) = i - 1
  <2> SUFFICES ASSUME NEW i \in 1 .. N PROVE p[i] \in K /\ Cardinality(Below(items, p[i])) = i - 1
    OBVIOUS
  <2>1. i - 1 \in 0 .. N - 1
    BY <1>3
  <2>2. \E k \in K : Cardinality(Below(items, k)) = i - 1
    BY <1>8, <2>1
  <2> HIDE DEF K
  <2> QED BY <2>2
<1>10. xs = [i \in 1 .. N |-> items[p[i]]]
  <2> SUFFICES xs = [i \in 1 .. N |-> items[CHOOSE k \in K : Cardinality(Below(items, k)) = i - 1]]
    OBVIOUS
  <2> QED BY DEF ByFileOffset, Kept, Below
<1>11. Len(xs) = N
  <2> HIDE DEF xs, N, p
  <2> QED BY <1>3, <1>10
<1>12. p \in [1 .. N -> DOMAIN items]
  <2>1. \A i \in 1 .. N : p[i] \in DOMAIN items
    BY <1>2, <1>9
  <2>2. p = [i \in 1 .. N |-> p[i]]
    OBVIOUS
  <2> HIDE DEF p, N
  <2> QED BY <2>1, <2>2
<1> HIDE DEF p, xs
<1>13. ASSUME NEW i \in 1 .. N, NEW j \in 1 .. N, i < j PROVE xs[i].at < xs[j].at
  <2>1. p[i] \in K /\ p[j] \in K /\ Cardinality(Below(items, p[i])) = i - 1 /\ Cardinality(Below(items, p[j])) = j - 1
    BY <1>9
  <2>2. xs[i] = items[p[i]] /\ xs[j] = items[p[j]]
    BY <1>10
  <2>3. p[i] # p[j]
    BY <1>3, <1>13, <2>1
  <2>4. ~(items[p[j]].at < items[p[i]].at)
    <3> SUFFICES ASSUME items[p[j]].at < items[p[i]].at PROVE FALSE
      OBVIOUS
    <3>1. Cardinality(Below(items, p[j])) < Cardinality(Below(items, p[i]))
      BY <1>5, <2>1
    <3> QED BY <1>3, <1>13, <2>1, <3>1
  <2> QED BY <1>6, <2>1, <2>2, <2>3, <2>4
<1>14. ASSUME \A k, j \in DOMAIN items : k # j => items[k].at # items[j].at, NEW k \in DOMAIN items
       PROVE  \E i \in 1 .. N : p[i] = k
  <2>1. k \in K
    <3>1. \A j \in k + 1 .. Len(items) : j \in DOMAIN items /\ j # k
      BY <1>1
    <3> QED BY <1>14, <3>1 DEF Kept
  <2> DEFINE i == Cardinality(Below(items, k)) + 1
  <2>2. i \in 1 .. N /\ Cardinality(Below(items, k)) = i - 1
    BY <1>3, <1>4, <2>1
  <2>3. p[i] \in K /\ Cardinality(Below(items, p[i])) = Cardinality(Below(items, k))
    <3> HIDE DEF i
    <3> QED BY <1>9, <2>2
  <2>4. p[i] = k
    <3> HIDE DEF i
    <3>1. Cardinality(Below(items, k)) \in Int
      BY <1>4, <2>1
    <3> QED BY <1>5, <1>6, <2>1, <2>3, <3>1
  <2> HIDE DEF i
  <2> QED BY <2>2, <2>4
<1>15. Sorted(xs, items, p)
  <2> HIDE DEF N, K
  <2> QED BY <1>3, <1>10, <1>11, <1>12, <1>13, <1>14 DEF Sorted
<1> QED BY <1>15 DEF xs
-----------------------------------------------------------------------------
(* The groups of extents.                                                  *)

(* The groups g are the first n extents, cut after every one that the next *)
(* is not joined to: group j ends at c[j].                                 *)
IsCut(xs, n, g, c) ==
  /\ c[0] = 0 /\ c[Len(g)] = n /\ \A j \in 0 .. Len(g) : c[j] \in 0 .. n
  /\ \A j \in 1 .. Len(g) :
       /\ c[j - 1] < c[j] /\ Len(g[j]) = c[j] - c[j - 1]
       /\ \A i \in 1 .. Len(g[j]) : g[j][i] = xs[c[j - 1] + i]
       /\ \A k \in c[j - 1] + 2 .. c[j] : Joined(xs[k - 1], xs[k])
  /\ \A j \in 1 .. Len(g) - 1 : ~Joined(xs[c[j]], xs[c[j] + 1])

LEMMA WithType ==
  ASSUME NEW g \in Seq(Seq(Item)), NEW x \in Item
  PROVE  With(g, x) \in Seq(Seq(Item))
PROOF
<1> DEFINE S == Seq(Item)
<1>1. CASE g # <<>> /\ Joined(Last(Last(g)), x)
  <2>1. Len(g) \in 1 .. Len(g) /\ g[Len(g)] \in S
    BY <1>1
  <2>2. Append(g[Len(g)], x) \in S
    BY <2>1
  <2> HIDE DEF S
  <2>3. [g EXCEPT ![Len(g)] = Append(g[Len(g)], x)] \in Seq(S)
    BY <2>1, <2>2, ExceptSeq DEF S
  <2> QED BY <1>1, <2>3 DEF With, S
<1>2. CASE ~(g # <<>> /\ Joined(Last(Last(g)), x))
  <2>1. <<x>> \in S
    OBVIOUS
  <2> HIDE DEF S
  <2>2. Append(g, <<x>>) \in Seq(S)
    BY <2>1, AppendProperties DEF S
  <2> QED BY <1>2, <2>2 DEF With, S
<1> QED BY <1>1, <1>2

LEMMA CutStep ==
  ASSUME NEW xs \in Seq(Item), NEW n \in 0 .. Len(xs) - 1, NEW g \in Seq(Seq(Item)), NEW c, IsCut(xs, n, g, c)
  PROVE  \E d : IsCut(xs, n + 1, With(g, xs[n + 1]), d)
PROOF
<1> DEFINE m == Len(g)
           x == xs[n + 1]
           h == With(g, x)
           S == Seq(Item)
<1>1. /\ m \in Nat /\ n \in Nat /\ c[0] = 0 /\ c[m] = n /\ \A j \in 0 .. m : c[j] \in 0 .. n
      /\ \A j \in 1 .. m : /\ c[j - 1] < c[j] /\ Len(g[j]) = c[j] - c[j - 1]
                           /\ \A i \in 1 .. Len(g[j]) : g[j][i] = xs[c[j - 1] + i]
                           /\ \A k \in c[j - 1] + 2 .. c[j] : Joined(xs[k - 1], xs[k])
      /\ \A j \in 1 .. m - 1 : ~Joined(xs[c[j]], xs[c[j] + 1])
      /\ \A j \in 1 .. m : g[j] \in S
  BY DEF IsCut
<1>2. n + 1 \in 1 .. Len(xs) /\ x \in Item
  OBVIOUS
<1>3. ASSUME m # 0
      PROVE  Last(Last(g)) = xs[n]
  <2>1. m \in 1 .. m /\ m - 1 \in 0 .. m
    BY <1>1, <1>3
  <2>2. c[m - 1] < n /\ c[m - 1] \in 0 .. n /\ Len(g[m]) = n - c[m - 1]
    BY <1>1, <2>1
  <2>3. Len(g[m]) \in 1 .. Len(g[m]) /\ c[m - 1] + Len(g[m]) = n
    BY <2>2
  <2>4. g[m][Len(g[m])] = xs[c[m - 1] + Len(g[m])]
    BY <1>1, <2>1, <2>3
  <2> QED BY <2>3, <2>4 DEF Last
<1>4. g # <<>> <=> m # 0
  OBVIOUS
<1>5. CASE m # 0 /\ Joined(xs[n], x)
  <2> DEFINE d == [j \in 0 .. m |-> IF j = m THEN n + 1 ELSE c[j]]
             t == Append(g[m], x)
  <2> DEFINE q == c[m - 1]
             l == Len(g[m])
  <2>1. /\ m \in 1 .. m /\ m - 1 \in 0 .. m - 1 /\ q \in 0 .. n /\ l \in Nat \ {0} /\ n = q + l
        /\ g[m] \in S /\ c[m - 1] = q
    <3>1. m \in 1 .. m /\ m - 1 \in 0 .. m
      BY <1>1, <1>5
    <3>2. q < n /\ q \in 0 .. n /\ l = n - q
      BY <1>1, <3>1
    <3> QED BY <1>1, <3>1, <3>2
  <2>10. (\A i \in 1 .. l : g[m][i] = xs[q + i]) /\ \A k \in q + 2 .. n : Joined(xs[k - 1], xs[k])
    BY <1>1, <2>1
  <2>2. h = [g EXCEPT ![m] = t]
    BY <1>3, <1>4, <1>5 DEF With
  <2>3. /\ t \in S /\ Len(t) = l + 1 /\ t[l + 1] = x
        /\ \A i \in 1 .. l : t[i] = g[m][i]
    BY <1>2, <2>1, AppendProperties
  <2> HIDE DEF q, l
  <2> HIDE DEF S, t, h
  <2>4. Len(h) = m /\ h[m] = t /\ \A j \in 1 .. m - 1 : h[j] = g[j]
    <3>1. g \in Seq(S) /\ m \in 1 .. Len(g) /\ t \in S /\ m \in Nat
      BY <1>1, <2>1, <2>3 DEF S
    <3>2. Len(h) = m /\ h[m] = t /\ \A j \in 1 .. Len(g) : j # m => h[j] = g[j]
      BY <2>2, <3>1, ExceptSeq
    <3>3. \A j \in 1 .. m - 1 : j \in 1 .. Len(g) /\ j # m
      BY <3>1
    <3> QED BY <3>2, <3>3
  <2>5. /\ \A j \in 0 .. m - 1 : d[j] = c[j] /\ j # m /\ j \in 0 .. m
        /\ d[m] = n + 1
    BY <1>1
  <2> HIDE DEF d
  <2>6. d[0] = 0 /\ d[m] = n + 1 /\ \A j \in 0 .. m : d[j] \in 0 .. n + 1
    <3>1. 0 \in 0 .. m - 1
      BY <2>1
    <3>2. ASSUME NEW j \in 0 .. m PROVE d[j] \in 0 .. n + 1
      <4>1. CASE j \in 0 .. m - 1
        <5>1. d[j] = c[j] /\ j \in 0 .. m
          BY <2>5, <4>1
        <5>2. c[j] \in 0 .. n /\ n \in Nat
          BY <1>1, <5>1
        <5> QED BY <5>1, <5>2
      <4>2. CASE j = m
        <5>1. n \in Nat /\ d[m] = n + 1
          BY <1>1, <2>5
        <5> QED BY <4>2, <5>1
      <4>3. j \in 0 .. m - 1 \/ j = m
        <5>1. m \in Nat
          BY <1>1
        <5> QED BY <5>1
      <4> QED BY <4>1, <4>2, <4>3
    <3> QED BY <1>1, <2>5, <3>1, <3>2
  <2>7. ASSUME NEW j \in 1 .. m
        PROVE  /\ d[j - 1] < d[j] /\ Len(h[j]) = d[j] - d[j - 1]
               /\ \A i \in 1 .. Len(h[j]) : h[j][i] = xs[d[j - 1] + i]
               /\ \A k \in d[j - 1] + 2 .. d[j] : Joined(xs[k - 1], xs[k])
    <3>1. CASE j # m
      <4>1. j \in 1 .. m - 1 /\ j \in 0 .. m - 1 /\ j - 1 \in 0 .. m - 1
        BY <1>1, <3>1
      <4>2. h[j] = g[j] /\ d[j] = c[j] /\ d[j - 1] = c[j - 1]
        BY <2>4, <2>5, <4>1
      <4>3. j \in 1 .. Len(g)
        BY <4>1
      <4>4. /\ c[j - 1] < c[j] /\ Len(g[j]) = c[j] - c[j - 1]
            /\ \A i \in 1 .. Len(g[j]) : g[j][i] = xs[c[j - 1] + i]
            /\ \A k \in c[j - 1] + 2 .. c[j] : Joined(xs[k - 1], xs[k])
        BY <1>1, <4>3
      <4> QED BY <4>2, <4>4
    <3>2. CASE j = m
      <4>1. h[j] = t /\ d[j] = n + 1 /\ d[j - 1] = q
        BY <2>1, <2>4, <2>5, <3>2
      <4>2. ASSUME NEW i \in 1 .. l + 1 PROVE t[i] = xs[q + i]
        <5>1. CASE i \in 1 .. l
          BY <2>3, <2>10, <5>1
        <5>2. CASE i = l + 1
          <6>1. q + i = n + 1
            BY <2>1, <5>2
          <6> QED BY <2>3, <5>2, <6>1
        <5> QED BY <2>1, <5>1, <5>2
      <4>3. ASSUME NEW k \in q + 2 .. n + 1 PROVE Joined(xs[k - 1], xs[k])
        <5>1. CASE k \in q + 2 .. n
          BY <2>10, <5>1
        <5>2. CASE k = n + 1
          <6>1. k - 1 = n
            BY <5>2
          <6> QED BY <1>5, <5>2, <6>1
        <5> QED BY <1>1, <2>1, <5>1, <5>2
      <4>4. q < n + 1 /\ l + 1 = (n + 1) - q
        BY <2>1
      <4> QED BY <2>3, <4>1, <4>2, <4>3, <4>4
    <3> QED BY <3>1, <3>2
  <2>8. ASSUME NEW j \in 1 .. m - 1 PROVE ~Joined(xs[d[j]], xs[d[j] + 1])
    <3>1. j \in 0 .. m - 1
      BY <1>1
    <3> QED BY <1>1, <2>5, <3>1
  <2>9. IsCut(xs, n + 1, h, d)
    BY <2>4, <2>6, <2>7, <2>8 DEF IsCut
  <2> QED BY <2>9 DEF h
<1>6. CASE ~(m # 0 /\ Joined(xs[n], x))
  <2> DEFINE d == [j \in 0 .. m + 1 |-> IF j = m + 1 THEN n + 1 ELSE c[j]]
             t == <<x>>
  <2>1. h = Append(g, t)
    <3>1. ~(g # <<>> /\ Joined(Last(Last(g)), x))
      BY <1>3, <1>4, <1>6
    <3> QED BY <3>1 DEF With
  <2>2. t \in S /\ Len(t) = 1 /\ t[1] = x
    BY <1>2
  <2> HIDE DEF S, t, h
  <2>3. Len(h) = m + 1 /\ h[m + 1] = t /\ \A j \in 1 .. m : h[j] = g[j]
    BY <2>1, <2>2, AppendProperties DEF S
  <2>4. /\ \A j \in 0 .. m : d[j] = c[j]
        /\ d[m + 1] = n + 1
    BY <1>1
  <2> HIDE DEF d
  <2>5. d[0] = 0 /\ \A j \in 0 .. m + 1 : d[j] \in 0 .. n + 1
    <3>1. 0 \in 0 .. m
      BY <1>1
    <3>2. ASSUME NEW j \in 0 .. m + 1 PROVE d[j] \in 0 .. n + 1
      <4>1. CASE j \in 0 .. m
        <5>1. c[j] \in 0 .. n /\ n \in Nat
          BY <1>1, <4>1
        <5> QED BY <2>4, <4>1, <5>1
      <4>2. CASE j = m + 1
        BY <1>1, <2>4, <4>2
      <4> QED BY <1>1, <4>1, <4>2
    <3> QED BY <1>1, <2>4, <3>1, <3>2
  <2>6. ASSUME NEW j \in 1 .. m + 1
        PROVE  /\ d[j - 1] < d[j] /\ Len(h[j]) = d[j] - d[j - 1]
               /\ \A i \in 1 .. Len(h[j]) : h[j][i] = xs[d[j - 1] + i]
               /\ \A k \in d[j - 1] + 2 .. d[j] : Joined(xs[k - 1], xs[k])
    <3>1. CASE j # m + 1
      <4>1. j \in 1 .. m /\ j \in 0 .. m /\ j - 1 \in 0 .. m
        BY <1>1, <3>1
      <4>2. h[j] = g[j] /\ d[j] = c[j] /\ d[j - 1] = c[j - 1]
        BY <2>3, <2>4, <4>1
      <4> QED BY <1>1, <4>1, <4>2
    <3>2. CASE j = m + 1
      <4>1. h[j] = t /\ d[j] = n + 1 /\ d[j - 1] = n
        <5>1. j - 1 = m /\ m \in 0 .. m
          BY <1>1, <3>2
        <5> QED BY <1>1, <2>3, <2>4, <3>2, <5>1
      <4>2. \A i \in 1 .. 1 : t[i] = xs[n + i]
        BY <2>2
      <4>3. n + 2 .. n + 1 = {} /\ n < n + 1 /\ (n + 1) - n = 1
        BY <1>1
      <4>4. /\ Len(h[j]) = 1 /\ d[j] - d[j - 1] = 1 /\ d[j - 1] < d[j] /\ d[j - 1] + 2 .. d[j] = {}
            /\ \A i \in 1 .. 1 : h[j][i] = xs[d[j - 1] + i]
        BY <2>2, <4>1, <4>2, <4>3
      <4> QED BY <4>4
    <3> QED BY <3>1, <3>2
  <2>7. ASSUME NEW j \in 1 .. m PROVE ~Joined(xs[d[j]], xs[d[j] + 1])
    <3>1. CASE j # m
      <4>1. j \in 1 .. m - 1 /\ j \in 0 .. m
        BY <1>1, <3>1
      <4> QED BY <1>1, <2>4, <4>1
    <3>2. CASE j = m
      <4>1. j \in 0 .. m /\ m # 0
        BY <1>1, <3>2
      <4>2. d[j] = n
        BY <1>1, <2>4, <3>2, <4>1
      <4> QED BY <1>6, <4>1, <4>2
    <3> QED BY <3>1, <3>2
  <2>8. IsCut(xs, n + 1, h, d)
    <3>1. Len(h) - 1 = m
      BY <1>1, <2>3
    <3> QED BY <2>3, <2>4, <2>5, <2>6, <2>7, <3>1 DEF IsCut
  <2> QED BY <2>8 DEF h
<1> QED BY <1>5, <1>6

LEMMA Grouped ==
  ASSUME NEW items \in Seq(Item), ByFileOffset(items) \in Seq(Item)
  PROVE  /\ GroupedExtents(items) \in Seq(Seq(Item))
         /\ \E c : IsCut(ByFileOffset(items), Len(ByFileOffset(items)), GroupedExtents(items), c)
PROOF
<1> DEFINE xs == ByFileOffset(items)
           N == Len(xs)
           V == Seq(Seq(Item))
           base == <<>>
           step == [n \in 1 .. N |-> [g \in V |-> With(g, xs[n])]]
           Is(s) == s = [n \in 0 .. N |-> IF n = 0 THEN <<>> ELSE With(s[n - 1], xs[n])]
<1>1. N \in Nat /\ \A n \in 1 .. N : xs[n] \in Item
  OBVIOUS
<1>2. step \in StepFunctions(N, V)
  <2>1. \A n \in 1 .. N : [g \in V |-> With(g, xs[n])] \in [V -> V]
    <3> SUFFICES ASSUME NEW n \in 1 .. N PROVE [g \in V |-> With(g, xs[n])] \in [V -> V]
      OBVIOUS
    <3>1. \A g \in V : With(g, xs[n]) \in V
      BY <1>1, WithType
    <3> HIDE DEF V, xs
    <3> QED BY <3>1
  <2> HIDE DEF V, N, xs
  <2> QED BY <2>1 DEF StepFunctions
<1>3. base \in V
  BY EmptySeq
<1>4. \E s : Solution(N, V, base, step, s)
  <2> HIDE DEF N, V, base, step
  <2> QED BY <1>1, <1>2, <1>3, Recursion
<1>5. PICK s : Solution(N, V, base, step, s)
  BY <1>4
<1>6. s \in [0 .. N -> V] /\ s[0] = <<>> /\ \A n \in 1 .. N : s[n] = step[n][s[n - 1]]
  BY <1>5 DEF Solution
<1>7. \A n \in 1 .. N : s[n] = With(s[n - 1], xs[n])
  <2> SUFFICES ASSUME NEW n \in 1 .. N PROVE s[n] = With(s[n - 1], xs[n])
    OBVIOUS
  <2>1. s[n - 1] \in V
    <3> HIDE DEF V, N
    <3> QED BY <1>1, <1>6
  <2>2. step[n][s[n - 1]] = With(s[n - 1], xs[n])
    <3> HIDE DEF V, N, xs
    <3> QED BY <2>1
  <2> QED BY <1>6, <2>2
<1>8. Is(s)
  <2> HIDE DEF V, xs, step, N
  <2> QED BY <1>1, <1>6, <1>7
<1> DEFINE groups == CHOOSE q : Is(q)
<1>9. Is(groups)
  <2> HIDE DEF Is
  <2> QED BY <1>8
<1>10. GroupedExtents(items) = groups[N]
  BY DEF GroupedExtents
<1> HIDE DEF groups
<1>11. groups[0] = <<>> /\ \A n \in 1 .. N : groups[n] = With(groups[n - 1], xs[n])
  <2> HIDE DEF xs, N
  <2> QED BY <1>1, <1>9
<1> DEFINE I == {n \in 0 .. N : groups[n] \in V /\ \E c : IsCut(xs, n, groups[n], c)}
<1>12. 0 \in I
  <2> DEFINE c == [j \in 0 .. 0 |-> 0]
  <2>1. Len(<<>>) = 0 /\ c[0] = 0 /\ 1 .. 0 = {} /\ 1 .. 0 - 1 = {} /\ 0 .. 0 = {0}
    OBVIOUS
  <2> HIDE DEF c
  <2>2. IsCut(xs, 0, <<>>, c)
    BY <2>1 DEF IsCut
  <2>3. groups[0] \in V
    BY <1>3, <1>11
  <2>4. \E e : IsCut(xs, 0, groups[0], e)
    BY <1>11, <2>2
  <2>5. 0 \in 0 .. N
    BY <1>1
  <2> HIDE DEF xs, N, V
  <2> QED BY <2>3, <2>4, <2>5
<1>13. ASSUME NEW n \in 0 .. N - 1, n \in I PROVE n + 1 \in I
  <2>1. n + 1 \in 1 .. N /\ (n + 1) - 1 = n /\ n + 1 \in 0 .. N
    BY <1>1
  <2>2. groups[n + 1] = With(groups[n], xs[n + 1])
    BY <1>11, <2>1
  <2>3. groups[n] \in V
    BY <1>13
  <2>4. PICK c : IsCut(xs, n, groups[n], c)
    BY <1>13
  <2>5. \E d : IsCut(xs, n + 1, With(groups[n], xs[n + 1]), d)
    BY <2>3, <2>4, CutStep
  <2>6. With(groups[n], xs[n + 1]) \in V
    BY <1>1, <2>1, <2>3, WithType
  <2> HIDE DEF xs, N, V
  <2> QED BY <2>1, <2>2, <2>5, <2>6
<1>14. 0 .. N \subseteq I
  <2> HIDE DEF I, N
  <2> QED BY <1>1, <1>12, <1>13, BoundedInduction
<1>15. N \in 0 .. N
  BY <1>1
<1> HIDE DEF xs, N, V
<1> QED BY <1>10, <1>14, <1>15 DEF xs, N, V
-----------------------------------------------------------------------------
(* Lengths, and the sums of a part of a sequence.                          *)

LEMMA LengthsType ==
  /\ \A g \in Seq(Run) : Lengths(g) \in Seq(Nat) /\ Len(Lengths(g)) = Len(g) /\ \A i \in 1 .. Len(g) : Lengths(g)[i] = g[i].len
  /\ \A g \in Seq(Item) : Lengths(g) \in Seq(Nat) /\ Len(Lengths(g)) = Len(g) /\ \A i \in 1 .. Len(g) : Lengths(g)[i] = g[i].len
PROOF
<1>1. ASSUME NEW g \in Seq(Run)
      PROVE  Lengths(g) \in Seq(Nat) /\ Len(Lengths(g)) = Len(g) /\ \A i \in 1 .. Len(g) : Lengths(g)[i] = g[i].len
  <2>1. Len(g) \in Nat /\ DOMAIN g = 1 .. Len(g) /\ \A i \in 1 .. Len(g) : g[i] \in Run
    OBVIOUS
  <2>2. \A i \in 1 .. Len(g) : g[i].len \in Nat
    BY <2>1 DEF Run
  <2> QED BY <2>1, <2>2 DEF Lengths
<1>2. ASSUME NEW g \in Seq(Item)
      PROVE  Lengths(g) \in Seq(Nat) /\ Len(Lengths(g)) = Len(g) /\ \A i \in 1 .. Len(g) : Lengths(g)[i] = g[i].len
  <2>1. Len(g) \in Nat /\ DOMAIN g = 1 .. Len(g) /\ \A i \in 1 .. Len(g) : g[i] \in Item
    OBVIOUS
  <2>2. \A i \in 1 .. Len(g) : g[i].len \in Nat
    BY <2>1 DEF Item
  <2> QED BY <2>1, <2>2 DEF Lengths
<1> QED BY <1>1, <1>2

LEMMA SumsOfPart ==
  ASSUME NEW f \in Seq(Nat), NEW g \in Seq(Nat), NEW a \in Nat, a + Len(g) <= Len(f),
         \A i \in 1 .. Len(g) : g[i] = f[a + i]
  PROVE  Sums(g)[Len(g)] = Sums(f)[a + Len(g)] - Sums(f)[a]
PROOF
<1> DEFINE s == Sums(f)
           t == Sums(g)
           N == Len(g)
           M == Len(f)
<1>1. N \in Nat /\ M \in Nat /\ a + N <= M /\ f \in Seq(Int) /\ g \in Seq(Int)
      /\ \A k \in 1 .. M : f[k] \in Nat
  OBVIOUS
<1>2. /\ t[0] = 0 /\ \A k \in 1 .. N : t[k] = t[k - 1] + f[a + k]
  BY <1>1, SumsAre
<1>3. /\ \A k \in 0 .. M : s[k] \in Nat
      /\ \A k \in 1 .. M : s[k] = s[k - 1] + f[k]
  <2>1. \A k \in 1 .. M : s[k] = s[k - 1] + f[k]
    BY <1>1, SumsAre
  <2>2. \A k \in 0 .. M : s[k] \in Nat
    BY SumsGrow
  <2> QED BY <2>1, <2>2
<1> HIDE DEF s, t, N, M
<1> DEFINE I == {k \in 0 .. N : t[k] = s[a + k] - s[a]}
<1>4. 0 \in I
  BY <1>1, <1>2, <1>3
<1>5. ASSUME NEW n \in 0 .. N - 1, n \in I PROVE n + 1 \in I
  <2>1. n + 1 \in 1 .. N /\ (n + 1) - 1 = n /\ n + 1 \in 0 .. N /\ a + (n + 1) \in 1 .. M
        /\ (a + (n + 1)) - 1 = a + n /\ a + n \in 0 .. M /\ a \in 0 .. M
    BY <1>1
  <2>2. t[n + 1] = t[n] + f[a + (n + 1)]
    BY <1>2, <2>1
  <2>3. s[a + (n + 1)] = s[a + n] + f[a + (n + 1)] /\ s[a + n] \in Nat /\ s[a] \in Nat /\ f[a + (n + 1)] \in Nat
    BY <1>1, <1>3, <2>1
  <2>4. t[n] = s[a + n] - s[a]
    BY <1>5
  <2>5. t[n + 1] = s[a + (n + 1)] - s[a]
    <3> DEFINE z == s[a + (n + 1)]
               y == f[a + (n + 1)]
    <3> HIDE DEF z, y
    <3>1. t[n + 1] = (s[a + n] - s[a]) + y /\ z = s[a + n] + y /\ s[a + n] \in Nat /\ s[a] \in Nat /\ y \in Nat
      BY <2>2, <2>3, <2>4 DEF z, y
    <3>2. t[n + 1] = z - s[a]
      BY <3>1
    <3> QED BY <3>2 DEF z
  <2> QED BY <2>1, <2>5
<1>6. 0 .. N \subseteq I
  <2> HIDE DEF I
  <2> QED BY <1>1, <1>4, <1>5, BoundedInduction
<1>7. N \in 0 .. N
  BY <1>1
<1>8. t[N] = s[a + N] - s[a]
  BY <1>6, <1>7
<1> QED BY <1>8 DEF s, t, N

(* A group is as long as the extents between its ends.                     *)
LEMMA GroupLength ==
  ASSUME NEW xs \in Seq(Item), NEW g \in Seq(Seq(Item)), NEW c, IsCut(xs, Len(xs), g, c), NEW j \in 1 .. Len(g)
  PROVE  /\ c[j - 1] \in 0 .. Len(xs) /\ c[j] \in 0 .. Len(xs) /\ c[j - 1] < c[j]
         /\ GroupLen(g[j]) = SumLen(xs, c[j]) - SumLen(xs, c[j - 1])
         /\ SumLen(xs, c[j]) \in Nat /\ SumLen(xs, c[j - 1]) \in Nat /\ GroupLen(g[j]) \in Nat
         /\ g[j][1] = xs[c[j - 1] + 1] /\ c[j - 1] + 1 \in 1 .. Len(xs)
PROOF
<1> DEFINE a == c[j - 1]
           n == Len(g[j])
           p == g[j]
           e == c[j]
           N == Len(xs)
<1>1. /\ N \in Nat /\ Len(g) \in Nat /\ j \in 0 .. Len(g) /\ j - 1 \in 0 .. Len(g) /\ p \in Seq(Item)
  OBVIOUS
<1>2. /\ a \in 0 .. N /\ e \in 0 .. N /\ a < e /\ n = e - a
      /\ \A i \in 1 .. n : p[i] = xs[a + i]
  BY <1>1 DEF IsCut
<1> HIDE DEF a, p, e, N, n
<1>3. n \in Nat /\ a + n = e /\ n >= 1
  BY <1>1, <1>2
<1>4. /\ Lengths(xs) \in Seq(Nat) /\ Len(Lengths(xs)) = N /\ \A i \in 1 .. N : Lengths(xs)[i] = xs[i].len
      /\ Lengths(p) \in Seq(Nat) /\ Len(Lengths(p)) = n /\ \A i \in 1 .. n : Lengths(p)[i] = p[i].len
  BY <1>1, LengthsType DEF n, p, N
<1>5. \A i \in 1 .. n : Lengths(p)[i] = Lengths(xs)[a + i]
  <2> SUFFICES ASSUME NEW i \in 1 .. n PROVE Lengths(p)[i] = Lengths(xs)[a + i]
    OBVIOUS
  <2>1. a + i \in 1 .. N
    BY <1>1, <1>2, <1>3
  <2> QED BY <1>2, <1>4, <2>1
<1>6. Sums(Lengths(p))[n] = Sums(Lengths(xs))[a + n] - Sums(Lengths(xs))[a]
  <2> DEFINE F == Lengths(xs)
             G == Lengths(p)
  <2>1. F \in Seq(Nat) /\ G \in Seq(Nat) /\ Len(G) = n /\ a \in Nat /\ a + Len(G) <= Len(F)
        /\ \A i \in 1 .. Len(G) : G[i] = F[a + i]
    BY <1>1, <1>2, <1>3, <1>4, <1>5
  <2> HIDE DEF F, G
  <2>2. Sums(G)[Len(G)] = Sums(F)[a + Len(G)] - Sums(F)[a]
    BY <2>1, SumsOfPart
  <2> QED BY <2>1, <2>2 DEF F, G
<1>7. GroupLen(p) = SumLen(xs, e) - SumLen(xs, a)
  BY <1>3, <1>6 DEF GroupLen, SumLen, n, p
<1>8. SumLen(xs, e) \in Nat /\ SumLen(xs, a) \in Nat /\ SumLen(xs, a) <= SumLen(xs, e)
  <2> DEFINE F == Lengths(xs)
  <2>1. F \in Seq(Nat) /\ a \in 0 .. Len(F) /\ e \in 0 .. Len(F) /\ a <= e
    BY <1>1, <1>2, <1>4
  <2> HIDE DEF F
  <2>2. Sums(F)[a] \in Nat /\ Sums(F)[e] \in Nat /\ Sums(F)[a] <= Sums(F)[e]
    BY <2>1, SumsGrow
  <2>3. SumLen(xs, a) = Sums(F)[a] /\ SumLen(xs, e) = Sums(F)[e]
    BY DEF SumLen, F
  <2> QED BY <2>2, <2>3
<1>9. p[1] = xs[a + 1] /\ a + 1 \in 1 .. N
  <2>1. 1 \in 1 .. n /\ a + 1 \in 1 .. N
    BY <1>1, <1>2
  <2>2. \A i \in 1 .. n : p[i] = xs[a + i]
    BY <1>2
  <2>3. p[1] = xs[a + 1]
    BY <2>1, <2>2, Zenon
  <2> QED BY <2>1, <2>3
<1> QED BY <1>2, <1>7, <1>8, <1>9 DEF a, p, e, N

(* The sums of lengths of runs or extents.                                 *)
LEMMA SumLenGrows ==
  ASSUME NEW g, g \in Seq(Run) \/ g \in Seq(Item)
  PROVE  /\ Len(g) \in Nat /\ SumLen(g, 0) = 0
         /\ \A k \in 0 .. Len(g) : SumLen(g, k) \in Nat
         /\ \A k \in 1 .. Len(g) : g[k].len \in Nat /\ SumLen(g, k) = SumLen(g, k - 1) + g[k].len
         /\ \A j, k \in 0 .. Len(g) : j <= k => SumLen(g, j) <= SumLen(g, k)
PROOF
<1> DEFINE F == Lengths(g)
<1>1. F \in Seq(Nat) /\ F \in Seq(Int) /\ Len(F) = Len(g) /\ Len(g) \in Nat /\ \A i \in 1 .. Len(g) : F[i] = g[i].len
  <2>1. F \in Seq(Nat) /\ Len(F) = Len(g) /\ \A i \in 1 .. Len(g) : F[i] = g[i].len
    BY LengthsType
  <2> HIDE DEF F
  <2>2. F \in Seq(Int) /\ Len(F) \in Nat
    BY <2>1
  <2> QED BY <2>1, <2>2
<1> HIDE DEF F
<1>2. /\ Sums(F)[0] = 0
      /\ \A k \in 0 .. Len(g) : Sums(F)[k] \in Nat
      /\ \A k \in 1 .. Len(g) : F[k] \in Nat /\ Sums(F)[k] = Sums(F)[k - 1] + F[k]
      /\ \A j, k \in 0 .. Len(g) : j <= k => Sums(F)[j] <= Sums(F)[k]
  <2>1. Sums(F)[0] = 0 /\ \A k \in 1 .. Len(F) : Sums(F)[k] = Sums(F)[k - 1] + F[k]
    BY <1>1, SumsAre
  <2>2. /\ \A k \in 0 .. Len(F) : Sums(F)[k] \in Nat
        /\ \A j, k \in 0 .. Len(F) : j <= k => Sums(F)[j] <= Sums(F)[k]
    BY <1>1, SumsGrow
  <2>3. \A k \in 1 .. Len(F) : F[k] \in Nat
    BY <1>1
  <2> QED BY <1>1, <2>1, <2>2, <2>3
<1>3. \A k : SumLen(g, k) = Sums(F)[k]
  BY DEF SumLen, F
<1> QED BY <1>1, <1>2, <1>3

(* The records of a job, and the units before each of their attributes.    *)
LEMMA RecordType ==
  ASSUME NEW r \in Record, Kinds(r)
  PROVE  /\ r.data \in DataAttr /\ r.data.items \in Seq(Item) /\ r.lsize \in Nat
         /\ Extents(r) \in Seq(DataAttr) /\ Len(Extents(r)) \in Nat \ {0}
         /\ \A k \in 1 .. Len(Extents(r)) : /\ Extents(r)[k].runs \in Seq(Run) /\ Extents(r)[k].bytes \in Seq(Int)
                                            /\ Extents(r)[k].kind \in {"none", "resident", "runs", "extents"}
         /\ r.data.kind # "extents" => r.data.items = <<>> /\ \A k \in 1 .. Len(Extents(r)) : Extents(r)[k].kind # "extents"
         /\ r.data.kind = "extents" => r.linked = <<>> /\ Len(Extents(r)) = 1 /\ Extents(r)[1] = r.data
PROOF
<1>1. r.data \in DataAttr /\ r.linked \in Seq(DataAttr) /\ r.lsize \in Nat
  BY DEF Record
<1>2. <<r.data>> \in Seq(DataAttr) /\ Len(<<r.data>>) = 1 /\ <<r.data>>[1] = r.data /\ Len(r.linked) \in Nat
      /\ DOMAIN r.linked = 1 .. Len(r.linked) /\ (r.linked # <<>> => Len(r.linked) # 0)
  BY <1>1
<1>3. Extents(r) \in Seq(DataAttr) /\ Len(Extents(r)) \in Nat \ {0}
  BY <1>1, <1>2 DEF Extents
<1>4. \A d \in DataAttr : /\ d.runs \in Seq(Run) /\ d.bytes \in Seq(Int) /\ d.items \in Seq(Item)
                          /\ d.kind \in {"none", "resident", "runs", "extents"}
  BY DEF DataAttr
<1>5. \A k \in 1 .. Len(Extents(r)) : Extents(r)[k] \in DataAttr
  BY <1>3
<1>6. ASSUME r.data.kind # "extents"
      PROVE  r.data.items = <<>> /\ \A k \in 1 .. Len(Extents(r)) : Extents(r)[k].kind # "extents"
  BY <1>2, <1>6 DEF Kinds, Extents
<1>7. ASSUME r.data.kind = "extents"
      PROVE  r.linked = <<>> /\ Len(Extents(r)) = 1 /\ Extents(r)[1] = r.data
  BY <1>2, <1>7 DEF Kinds, Extents
<1> QED BY <1>1, <1>3, <1>4, <1>5, <1>6, <1>7

LEMMA UnitsGrow ==
  ASSUME NEW r \in Record, Kinds(r)
  PROVE  /\ UnitsBefore(r, 0) = 0
         /\ \A k \in 0 .. Len(Extents(r)) : UnitsBefore(r, k) \in Nat
         /\ \A k \in 1 .. Len(Extents(r)) : /\ UnitsBefore(r, k) = UnitsBefore(r, k - 1) + Units(Extents(r)[k])
                                            /\ Units(Extents(r)[k]) \in Nat
         /\ \A j, k \in 0 .. Len(Extents(r)) : j <= k => UnitsBefore(r, j) <= UnitsBefore(r, k)
PROOF
<1> DEFINE E == Extents(r)
           F == [j \in DOMAIN E |-> Units(E[j])]
<1>1. Len(E) \in Nat /\ DOMAIN E = 1 .. Len(E) /\ \A k \in 1 .. Len(E) : E[k].runs \in Seq(Run)
  BY RecordType
<1>2. ASSUME NEW k \in 1 .. Len(E) PROVE Units(E[k]) \in Nat
  <2> DEFINE g == E[k].runs
  <2>1. g \in Seq(Run)
    BY <1>1
  <2> HIDE DEF g
  <2>2. Len(g) \in 0 .. Len(g) /\ SumLen(g, Len(g)) \in Nat
    BY <2>1, SumLenGrows
  <2>3. SumLen(g, Len(g)) * Cluster \in Nat
    BY <2>2, ExportAssumption
  <2> QED BY <2>3 DEF Units, g
<1>3. F \in Seq(Nat) /\ Len(F) = Len(E) /\ \A k \in 1 .. Len(E) : F[k] = Units(E[k])
  <2> HIDE DEF E
  <2> QED BY <1>1, <1>2
<1>4. \A k : UnitsBefore(r, k) = Sums(F)[k]
  BY DEF UnitsBefore
<1> HIDE DEF F, E
<1>5. F \in Seq(Int) /\ \A k \in 1 .. Len(E) : F[k] \in Nat
  BY <1>1, <1>3
<1>6. /\ Sums(F)[0] = 0
      /\ \A k \in 0 .. Len(E) : Sums(F)[k] \in Nat
      /\ \A j, k \in 0 .. Len(E) : j <= k => Sums(F)[j] <= Sums(F)[k]
  BY <1>3, <1>5, SumsAre, SumsGrow
<1>7. \A k \in 1 .. Len(E) : Sums(F)[k] = Sums(F)[k - 1] + F[k]
  BY <1>3, <1>5, SumsAre
<1> QED BY <1>3, <1>4, <1>5, <1>6, <1>7 DEF E
-----------------------------------------------------------------------------
(* The file that is being read.                                            *)

record == records[rpos]
volume == job[part]

Place == [ext : Nat \ {0}, run : Nat \ {0}, off : Int, start : Nat, read : Nat, buf : Seq(Int), groups : Seq(Seq(Item))]

Reading(l, r) ==
  /\ l \in Place /\ l.groups = GroupedExtents(r.data.items)
  /\ Len(l.buf) = BufferSize(r) /\ l.ext <= Len(Extents(r)) + 1 /\ (l.ext = 1 => l.start = 0)

Reached(l) == l.start + l.read

(* Of an NTFS file: the units of the run lists before the run at hand.     *)
AtRuns(l, r) == l.ext <= Len(Extents(r)) /\ Extents(r)[l.ext].kind = "runs"

Through(l, r) ==
  UnitsBefore(r, l.ext - 1)
    + (IF AtRuns(l, r) THEN SumLen(Extents(r)[l.ext].runs, l.run - 1) * Cluster ELSE 0)

(* A file without a run that starts where the one before it did.           *)
NoZeroOffset(r) ==
  \A k \in 1 .. Len(Extents(r)) : \A i \in 1 .. Len(Extents(r)[k].runs) : Extents(r)[k].runs[i].off # 0

RunsBound(l, r) ==
  /\ AtRuns(l, r) => l.run <= Len(Extents(r)[l.ext].runs) + 1
  /\ Reached(l) <= Through(l, r)
  /\ NoZeroOffset(r) => Reached(l) <= BufferSize(r)

(* Of a BTRFS file: its extents, where its groups end, and the units before*)
(* an extent when they follow each other.                                  *)
OfExtents(r) == r.data.kind = "extents"
InOrder(r) == ByFileOffset(r.data.items)
Cut(r)  == CHOOSE c : IsCut(InOrder(r), Len(InOrder(r)), GroupedExtents(r.data.items), c)
Until(r, k) == SumLen(InOrder(r), k)

GroupsBound(l, r) ==
  /\ l.ext = 1 => l.run <= Len(l.groups) + 1 /\ l.read = Until(r, Cut(r)[l.run - 1])
  /\ l.ext > 1 => ~HasOther(l.groups)

Bound(l, r) == Reading(l, r) /\ IF OfExtents(r) THEN GroupsBound(l, r) ELSE RunsBound(l, r)

Bounded == loc # NoFile => Bound(loc, record)

(* What a run puts into the buffer.                                        *)
RunUnit(v, runs, i, w) ==
  IF runs[i].off = 0 THEN Zero
  ELSE IF v.cbc /\ w > 0 /\ w % Sector = 0 THEN Noise
  ELSE v.offset + SumOff(runs, i) * Cluster + w

UnitOf(r, k, i, w) == UnitsBefore(r, k - 1) + SumLen(Extents(r)[k].runs, i - 1) * Cluster + w

RunsRead(l, v, r) ==
  Regular(v, r) =>
    /\ AtRuns(l, r) => l.off = v.offset + SumOff(Extents(r)[l.ext].runs, l.run - 1) * Cluster
    /\ Reached(l) = Through(l, r) \/ BufferSize(r) <= Reached(l)
    /\ \A k \in 1 .. Len(Extents(r)) : \A i \in 1 .. Len(Extents(r)[k].runs) :
         \A w \in 0 .. Extents(r)[k].runs[i].len * Cluster - 1 :
           UnitOf(r, k, i, w) < Reached(l) /\ UnitOf(r, k, i, w) < BufferSize(r) =>
             l.buf[UnitOf(r, k, i, w) + 1] = RunUnit(v, Extents(r)[k].runs, i, w)

(* What a group puts there.                                                *)
GroupUnit(v, r, j, u) ==
  LET x == InOrder(r)[Cut(r)[j - 1] + 1]
  IN  IF x.addr = 0 THEN Zero ELSE Placed(v, x) + u - Until(r, Cut(r)[j - 1])

ExtentsRead(l, v, r) ==
  OfExtents(r) /\ ~v.cbc /\ Sound(v, r.data.items) =>
    /\ l.ext = 1 => l.off <= DiskSize
    /\ l.ext > 1 => Reached(l) = Until(r, Len(InOrder(r)))
    /\ \A j \in 1 .. Len(l.groups) : \A u \in Until(r, Cut(r)[j - 1]) .. Until(r, Cut(r)[j]) - 1 :
         u < Reached(l) /\ u < BufferSize(r) => l.buf[u + 1] = GroupUnit(v, r, j, u)
    /\ \A u \in 0 .. BufferSize(r) - 1 : u >= Reached(l) => l.buf[u + 1] = Zero

ContentRead == loc # NoFile => RunsRead(loc, volume, record) /\ ExtentsRead(loc, volume, record)
-----------------------------------------------------------------------------
LEMMA AtHand ==
  ASSUME IInv, order # <<>>, rpos <= Len(records)
  PROVE  /\ record \in Record /\ Kinds(record) /\ volume \in Volume /\ volume.offset % Sector = 0
         /\ volume.offset \in Nat /\ records \in Seq(Record) /\ rpos \in 1 .. Len(records)
PROOF
<1>1. part \in DOMAIN job /\ job \in Jobs /\ rpos \in Nat /\ rpos >= 1
  BY PartInOrder DEF IInv, TypeOK, Position
<1>2. volume \in Volume /\ volume.offset % Sector = 0 /\ \A n \in DOMAIN volume.records : Kinds(volume.records[n])
  BY <1>1, ExportAssumption DEF volume
<1>3. records = volume.records
  BY DEF records, volume
<1>4. records \in Seq(Record) /\ volume.offset \in Nat
  BY <1>2, <1>3 DEF Volume
<1>5. rpos \in 1 .. Len(records) /\ DOMAIN records = 1 .. Len(records) /\ record \in Record
  BY <1>1, <1>4 DEF record
<1> QED BY <1>2, <1>3, <1>4, <1>5 DEF record

LEMMA CutIs ==
  ASSUME NEW r \in Record, Kinds(r)
  PROVE  /\ InOrder(r) \in Seq(Item) /\ GroupedExtents(r.data.items) \in Seq(Seq(Item))
         /\ IsCut(InOrder(r), Len(InOrder(r)), GroupedExtents(r.data.items), Cut(r))
         /\ \E p : Sorted(InOrder(r), r.data.items, p)
PROOF
<1> DEFINE items == r.data.items
           xs == ByFileOffset(items)
<1>1. items \in Seq(Item)
  BY RecordType
<1> HIDE DEF items
<1>2. PICK p : Sorted(xs, items, p)
  BY <1>1, SortedItems
<1> HIDE DEF xs
<1>3. xs \in Seq(Item)
  <2>1. /\ Len(xs) \in Nat /\ xs = [i \in 1 .. Len(xs) |-> items[p[i]]]
        /\ p \in [1 .. Len(xs) -> DOMAIN items]
    BY <1>2 DEF Sorted
  <2>2. \A i \in 1 .. Len(xs) : items[p[i]] \in Item
    BY <1>1, <2>1
  <2> DEFINE N == Len(xs)
  <2> HIDE DEF N
  <2>3. [i \in 1 .. N |-> items[p[i]]] \in Seq(Item)
    BY <2>1, <2>2 DEF N
  <2> QED BY <2>1, <2>3 DEF N
<1>4. GroupedExtents(items) \in Seq(Seq(Item)) /\ \E c : IsCut(xs, Len(xs), GroupedExtents(items), c)
  BY <1>1, <1>3, Grouped DEF xs
<1>5. InOrder(r) = xs
  BY DEF InOrder, xs, items
<1>6. IsCut(InOrder(r), Len(InOrder(r)), GroupedExtents(r.data.items), Cut(r))
  BY <1>4, <1>5 DEF Cut, items
<1> QED BY <1>2, <1>3, <1>4, <1>5, <1>6 DEF items

(* The place after an attribute.                                           *)
LEMMA NextExtentIs ==
  ASSUME loc \in Place, NEW got \in Nat, volume.offset \in Nat
  PROVE  /\ NextExtent(got) \in Place
         /\ NextExtent(got).ext = loc.ext + 1 /\ NextExtent(got).run = 1 /\ NextExtent(got).off = volume.offset
         /\ NextExtent(got).start = loc.start + got /\ NextExtent(got).read = 0
         /\ NextExtent(got).buf = loc.buf /\ NextExtent(got).groups = loc.groups
PROOF
<1> DEFINE e == loc.ext + 1
           o == volume.offset
           n == loc.start + got
           B == Seq(Int)
           G == Seq(Seq(Item))
<1>1. e \in Nat \ {0} /\ n \in Nat /\ o \in Int
  BY DEF Place
<1>2. loc \in [ext : Nat \ {0}, run : Nat \ {0}, off : Int, start : Nat, read : Nat, buf : B, groups : G]
  BY DEF Place
<1>3. NextExtent(got) = [loc EXCEPT !.ext = e, !.run = 1, !.off = o, !.start = n, !.read = 0]
  BY DEF NextExtent, volume
<1> HIDE DEF e, n, o, B, G
<1>4. NextExtent(got) = [ext |-> e, run |-> 1, off |-> o, start |-> n, read |-> 0,
                         buf |-> loc.buf, groups |-> loc.groups]
  BY <1>2, <1>3
<1>5. loc.buf \in B /\ loc.groups \in G
  BY <1>2
<1>6. NextExtent(got) \in [ext : Nat \ {0}, run : Nat \ {0}, off : Int, start : Nat, read : Nat, buf : B, groups : G]
  BY <1>1, <1>4, <1>5
<1> QED BY <1>4, <1>6 DEF e, n, o, B, G, Place

(* What is read.                                                           *)
LEMMA ReadFileIs ==
  ASSUME NEW o \in Int, NEW n \in Nat, o <= DiskSize
  PROVE  /\ ReadFile(o, n) \in Seq(Int) /\ Len(ReadFile(o, n)) <= n
         /\ o >= 0 /\ o + n <= DiskSize =>
              /\ Len(ReadFile(o, n)) = n
              /\ \A i \in 1 .. n : ReadFile(o, n)[i] = IF volume.cbc THEN Deciphered(o, i) ELSE o + i - 1
PROOF
<1> DEFINE got == IF o + n <= DiskSize THEN n ELSE IF opts.shortReads THEN DiskSize - o ELSE 0
           unit(i) == IF job[part].cbc THEN Deciphered(o, i) ELSE o + i - 1
           s == [i \in 1 .. got |-> unit(i)]
<1>1. DiskSize \in Nat /\ got \in Nat /\ got <= n
  BY ExportAssumption
<1>2. \A i \in 1 .. got : unit(i) \in Int
  <2> SUFFICES ASSUME NEW i \in 1 .. got PROVE unit(i) \in Int
    OBVIOUS
  <2>1. i \in Int
    BY <1>1
  <2>2. Deciphered(o, i) \in Int
    <3>1. Noise \in Int /\ o + i - 1 \in Int
      BY <2>1 DEF Noise
    <3> QED BY <3>1 DEF Deciphered
  <2> QED BY <2>1, <2>2
<1>3. ReadFile(o, n) = IF o < 0 THEN <<>> ELSE s
  BY DEF ReadFile
<1> HIDE DEF got, unit
<1>4. s \in Seq(Int) /\ Len(s) = got /\ \A i \in 1 .. got : s[i] = unit(i)
  BY <1>1, <1>2
<1>5. <<>> \in Seq(Int) /\ Len(<<>>) = 0
  OBVIOUS
<1> HIDE DEF s
<1>6. ReadFile(o, n) \in Seq(Int) /\ Len(ReadFile(o, n)) <= n
  BY <1>1, <1>3, <1>4, <1>5
<1>7. ASSUME o >= 0, o + n <= DiskSize
      PROVE  /\ Len(ReadFile(o, n)) = n
             /\ \A i \in 1 .. n : ReadFile(o, n)[i] = IF volume.cbc THEN Deciphered(o, i) ELSE o + i - 1
  <2>1. got = n /\ ReadFile(o, n) = s
    BY <1>3, <1>7 DEF got
  <2> QED BY <1>4, <2>1 DEF unit, volume
<1> QED BY <1>6, <1>7

LEMMA ZerosAre ==
  \A n \in Nat : Zeros(n) \in Seq(Int) /\ Len(Zeros(n)) = n /\ \A i \in 1 .. n : Zeros(n)[i] = Zero
PROOF BY DEF Zeros, Zero

LEMMA WhileLocating ==
  ASSUME IInv, Bounded, Locating
  PROVE  /\ loc # NoFile /\ order # <<>> /\ rpos <= Len(records) /\ phase = "export"
         /\ record \in Record /\ Kinds(record) /\ volume \in Volume /\ volume.offset \in Nat /\ volume.offset % Sector = 0
         /\ Bound(loc, record) /\ loc \in Place /\ loc.start <= BufferSize(record)
         /\ loc.ext \in 1 .. Len(Extents(record)) /\ extent = Extents(record)[loc.ext]
         /\ extent \in DataAttr /\ extent.runs \in Seq(Run) /\ extent.bytes \in Seq(Int)
         /\ room = BufferSize(record) - Reached(loc) /\ BufferSize(record) \in Nat /\ Reached(loc) \in Nat
         /\ OfExtents(record) => loc.ext = 1 /\ extent.kind = "extents"
         /\ ~OfExtents(record) => extent.kind # "extents"
PROOF
<1>1. loc # NoFile /\ order # <<>> /\ rpos <= Len(records) /\ phase = "export"
  BY DEF Locating, Working, IInv, Position
<1>2. record \in Record /\ Kinds(record) /\ volume \in Volume /\ volume.offset \in Nat /\ volume.offset % Sector = 0
  BY <1>1, AtHand
<1>3. Bound(loc, record) /\ loc \in Place /\ Len(loc.buf) = BufferSize(record)
  BY <1>1 DEF Bounded, Bound, Reading
<1>4. BufferSize(record) \in Nat
  BY <1>2, BufferSizeHolds
<1>5. loc.ext \in Nat \ {0} /\ loc.start \in Nat /\ loc.read \in Nat
  BY <1>3 DEF Place
<1>6. Reached(loc) \in Nat /\ room = BufferSize(record) - Reached(loc)
  BY <1>3, <1>4, <1>5 DEF Reached, room
<1>7. /\ Extents(record) \in Seq(DataAttr) /\ Len(Extents(record)) \in Nat
      /\ \A k \in 1 .. Len(Extents(record)) : /\ Extents(record)[k].runs \in Seq(Run)
                                              /\ Extents(record)[k].bytes \in Seq(Int)
      /\ OfExtents(record) => Len(Extents(record)) = 1 /\ Extents(record)[1] = record.data
      /\ ~OfExtents(record) => \A k \in 1 .. Len(Extents(record)) : Extents(record)[k].kind # "extents"
  BY <1>2, RecordType DEF OfExtents
<1>8. ~(loc.ext > Len(Extents(record))) /\ extent = Extents(record)[loc.ext]
  BY DEF Locating, AllRead, record, extent
<1>9. loc.ext \in 1 .. Len(Extents(record))
  BY <1>5, <1>7, <1>8
<1>10. extent \in DataAttr
  BY <1>7, <1>8, <1>9
<1>12. loc.start <= BufferSize(record)
  <2>1. record.lsize \in Nat /\ record.lsize <= BufferSize(record)
    BY <1>2, BufferSizeHolds
  <2>2. CASE record.linked # <<>>
    <3>1. ~(loc.start >= record.lsize)
      BY <2>2 DEF Locating, AllRead, record
    <3> QED BY <1>4, <1>5, <2>1, <3>1
  <2>3. CASE record.linked = <<>>
    <3>1. Len(Extents(record)) = 1
      BY <2>3 DEF Extents
    <3>2. loc.ext = 1
      BY <1>9, <3>1
    <3>3. loc.start = 0
      BY <1>3, <3>2 DEF Bound, Reading
    <3> QED BY <1>4, <3>3
  <2> QED BY <2>2, <2>3
<1>11. OfExtents(record) => loc.ext = 1 /\ extent.kind = "extents"
  <2> SUFFICES ASSUME OfExtents(record) PROVE loc.ext = 1 /\ extent.kind = "extents"
    OBVIOUS
  <2>3. Len(Extents(record)) = 1 /\ Extents(record)[1] = record.data
    BY <1>7
  <2>1. loc.ext = 1
    BY <1>9, <2>3
  <2>2. extent = record.data
    BY <1>8, <2>1, <2>3
  <2> QED BY <2>1, <2>2 DEF OfExtents
<1> QED BY <1>1, <1>2, <1>3, <1>4, <1>6, <1>7, <1>8, <1>9, <1>10, <1>11, <1>12

LEMMA WhileAtRun ==
  ASSUME IInv, Bounded, AtRun
  PROVE  /\ ~OfExtents(record) /\ AtRuns(loc, record) /\ loc.run \in 1 .. Len(extent.runs)
         /\ extent.runs[loc.run] \in Run /\ extent.runs[loc.run].off \in Int /\ extent.runs[loc.run].len \in Nat
         /\ offset \in Int /\ offset <= DiskSize
         /\ extent.runs[loc.run].len * Cluster \in Nat
PROOF
<1>1. Locating /\ extent.kind = "runs" /\ loc.run <= Len(extent.runs) /\ offset <= DiskSize
  BY DEF AtRun
<1>2. /\ loc \in Place /\ extent.runs \in Seq(Run) /\ extent = Extents(record)[loc.ext]
      /\ loc.ext \in 1 .. Len(Extents(record)) /\ record \in Record /\ Kinds(record)
      /\ (OfExtents(record) => extent.kind = "extents")
  BY <1>1, WhileLocating
<1>3. loc.run \in 1 .. Len(extent.runs) /\ loc.off \in Int
  <2>1. loc.run \in Nat \ {0} /\ loc.off \in Int
    BY <1>2 DEF Place
  <2>2. Len(extent.runs) \in Nat
    BY <1>2
  <2> QED BY <1>1, <2>1, <2>2
<1>4. extent.runs[loc.run] \in Run
  BY <1>2, <1>3
<1>5. extent.runs[loc.run].off \in Int /\ extent.runs[loc.run].len \in Nat
  BY <1>4 DEF Run
<1>6. Cluster \in Nat
  BY ExportAssumption
<1>7. extent.runs[loc.run].off * Cluster \in Int /\ extent.runs[loc.run].len * Cluster \in Nat
  BY <1>5, <1>6
<1>8. offset \in Int
  BY <1>3, <1>7 DEF offset
<1>9. AtRuns(loc, record)
  <2>1. Len(Extents(record)) \in Nat
    BY <1>2, RecordType
  <2> QED BY <1>1, <1>2, <2>1 DEF AtRuns
<1> QED BY <1>1, <1>2, <1>3, <1>4, <1>5, <1>7, <1>8, <1>9

LEMMA RunDataIs ==
  ASSUME IInv, Bounded, AtRun, room >= 0 \/ extent.runs[loc.run].len = 0
  PROVE  /\ RunData \in Seq(Int) /\ Len(RunData) \in Nat /\ Len(RunData) <= extent.runs[loc.run].len * Cluster
         /\ extent.runs[loc.run].off # 0 => Len(RunData) = 0 \/ Len(RunData) <= room
PROOF
<1> DEFINE len == extent.runs[loc.run].len
           off == extent.runs[loc.run].off
           c == len * Cluster
           n == IF c > room THEN room ELSE c
<1>1. len \in Nat /\ off \in Int /\ c \in Nat /\ offset \in Int /\ offset <= DiskSize
  BY WhileAtRun
<1>2. room \in Int
  <2>1. room = BufferSize(record) - Reached(loc) /\ BufferSize(record) \in Nat /\ Reached(loc) \in Nat
    BY WhileLocating DEF AtRun
  <2> QED BY <2>1
<1>3. RunData = CASE len = 0 -> <<>>
                  [] len > 0 /\ off = 0 -> Zeros(c)
                  [] OTHER -> ReadFile(offset, n)
  BY DEF RunData
<1> HIDE DEF len, off, c
<1>4. CASE len = 0
  <2>1. RunData = <<>>
    BY <1>3, <1>4
  <2>2. <<>> \in Seq(Int) /\ Len(<<>>) = 0
    OBVIOUS
  <2>3. RunData \in Seq(Int) /\ Len(RunData) = 0
    BY <2>1, <2>2
  <2> QED BY <1>1, <2>3 DEF len, off, c
<1>5. CASE len > 0 /\ off = 0
  <2>1. RunData = Zeros(c)
    BY <1>3, <1>5
  <2>2. RunData \in Seq(Int) /\ Len(RunData) = c
    BY <1>1, <2>1, ZerosAre
  <2> QED BY <1>1, <1>5, <2>2 DEF len, off, c
<1>6. CASE len > 0 /\ off # 0
  <2>1. RunData = ReadFile(offset, n)
    BY <1>1, <1>3, <1>6
  <2>2. n \in Nat /\ n <= c /\ n <= room
    <3>1. room >= 0
      BY <1>1, <1>6 DEF len
    <3> QED BY <1>1, <1>2, <3>1
  <2> HIDE DEF n
  <2>3. RunData \in Seq(Int) /\ Len(RunData) <= n
    BY <1>1, <2>1, <2>2, ReadFileIs
  <2>4. Len(RunData) \in Nat
    BY <2>3
  <2> QED BY <1>1, <1>2, <2>2, <2>3, <2>4 DEF len, off, c
<1> QED BY <1>1, <1>4, <1>5, <1>6

(* Before a run there are no more units than before the attribute's end.   *)
LEMMA RunBefore ==
  ASSUME NEW r \in Record, Kinds(r), NEW k \in 1 .. Len(Extents(r)), NEW i \in 0 .. Len(Extents(r)[k].runs)
  PROVE  /\ SumLen(Extents(r)[k].runs, i) * Cluster \in Nat
         /\ UnitsBefore(r, k - 1) + SumLen(Extents(r)[k].runs, i) * Cluster <= UnitsBefore(r, k)
         /\ UnitsBefore(r, k - 1) \in Nat /\ UnitsBefore(r, k) \in Nat
         /\ i > 0 => /\ Extents(r)[k].runs[i].len * Cluster \in Nat
                     /\ SumLen(Extents(r)[k].runs, i) * Cluster
                          = SumLen(Extents(r)[k].runs, i - 1) * Cluster + Extents(r)[k].runs[i].len * Cluster
PROOF
<1> DEFINE g == Extents(r)[k].runs
           n == Len(g)
<1>1. g \in Seq(Run) /\ Len(Extents(r)) \in Nat
  BY RecordType
<1>2. Cluster \in Nat
  BY ExportAssumption
<1>3. /\ UnitsBefore(r, k) = UnitsBefore(r, k - 1) + SumLen(g, n) * Cluster
      /\ UnitsBefore(r, k) \in Nat /\ UnitsBefore(r, k - 1) \in Nat
  <2>1. k \in 0 .. Len(Extents(r)) /\ k - 1 \in 0 .. Len(Extents(r))
    BY <1>1
  <2> QED BY <2>1, UnitsGrow DEF Units
<1> HIDE DEF g
<1>4. n \in Nat /\ SumLen(g, i) \in Nat /\ SumLen(g, n) \in Nat /\ SumLen(g, i) <= SumLen(g, n)
  <2>1. Len(g) \in Nat /\ (\A j \in 0 .. Len(g) : SumLen(g, j) \in Nat)
        /\ \A j, l \in 0 .. Len(g) : j <= l => SumLen(g, j) <= SumLen(g, l)
    BY <1>1, SumLenGrows
  <2>2. i \in 0 .. Len(g) /\ Len(g) \in 0 .. Len(g) /\ i <= Len(g)
    BY <2>1 DEF g
  <2> QED BY <2>1, <2>2
<1> HIDE DEF n
<1>5. SumLen(g, i) * Cluster \in Nat /\ SumLen(g, n) * Cluster \in Nat /\ SumLen(g, i) * Cluster <= SumLen(g, n) * Cluster
  BY <1>2, <1>4, TimesGrows
<1>6. ASSUME i > 0
      PROVE  g[i].len * Cluster \in Nat /\ SumLen(g, i) * Cluster = SumLen(g, i - 1) * Cluster + g[i].len * Cluster
  <2>1. i \in 1 .. Len(g) /\ i - 1 \in 0 .. Len(g)
    BY <1>4, <1>6 DEF g, n
  <2>2. g[i].len \in Nat /\ SumLen(g, i) = SumLen(g, i - 1) + g[i].len /\ SumLen(g, i - 1) \in Nat
    BY <1>1, <2>1, SumLenGrows
  <2>3. (SumLen(g, i - 1) + g[i].len) * Cluster = SumLen(g, i - 1) * Cluster + g[i].len * Cluster
    BY <1>2, <2>2, Distributes
  <2>4. g[i].len * Cluster \in Nat
    BY <1>2, <2>2
  <2> QED BY <2>2, <2>3, <2>4
<1> QED BY <1>3, <1>5, <1>6 DEF g

(* A file that is opened.                                                  *)
LEMMA OpenIs ==
  ASSUME IInv, OpenFile
  PROVE  /\ record \in Record /\ Kinds(record) /\ volume \in Volume /\ volume.offset \in Nat /\ volume.offset % Sector = 0
         /\ Reading(loc', record) /\ BufferSize(record) \in Nat
         /\ loc'.ext = 1 /\ loc'.run = 1 /\ loc'.off = volume.offset /\ loc'.start = 0 /\ loc'.read = 0
         /\ loc'.buf = Zeros(BufferSize(record)) /\ Reached(loc') = 0
PROOF
<1>1. order # <<>> /\ rpos <= Len(records)
  BY DEF OpenFile, Working, IInv, Position
<1>2. record \in Record /\ Kinds(record) /\ volume \in Volume /\ volume.offset \in Nat /\ volume.offset % Sector = 0
  BY <1>1, AtHand
<1> DEFINE B == BufferSize(record)
           G == GroupedExtents(record.data.items)
           Q == Seq(Seq(Item))
           z == Zeros(B)
           o == volume.offset
<1>3. B \in Nat /\ z \in Seq(Int) /\ Len(z) = B /\ G \in Q /\ o \in Int
  BY <1>2, BufferSizeHolds, ZerosAre, CutIs
<1>4. loc' = [ext |-> 1, run |-> 1, off |-> o, start |-> 0, read |-> 0, buf |-> z, groups |-> G]
  BY DEF OpenFile, record, volume
<1>5. Len(Extents(record)) \in Nat
  BY <1>2, RecordType
<1> HIDE DEF B, G, Q, z, o
<1>6. loc' \in [ext : Nat \ {0}, run : Nat \ {0}, off : Int, start : Nat, read : Nat, buf : Seq(Int), groups : Q]
  BY <1>3, <1>4
<1>7. /\ loc'.ext = 1 /\ loc'.run = 1 /\ loc'.off = o /\ loc'.start = 0 /\ loc'.read = 0
      /\ loc'.buf = z /\ loc'.groups = G
  BY <1>4
<1>8. Reading(loc', record)
  <2>1. loc' \in Place
    BY <1>6 DEF Place, Q
  <2>2. loc'.groups = GroupedExtents(record.data.items) /\ Len(loc'.buf) = BufferSize(record)
    BY <1>3, <1>7 DEF G, B
  <2>3. loc'.ext <= Len(Extents(record)) + 1 /\ loc'.start = 0
    BY <1>5, <1>7
  <2> QED BY <2>1, <2>2, <2>3 DEF Reading
<1>9. Reached(loc') = 0
  BY <1>7 DEF Reached
<1> QED BY <1>2, <1>3, <1>7, <1>8, <1>9 DEF B, z, o

(* At the first run of an attribute.                                       *)
LEMMA ThroughFirst ==
  ASSUME NEW r \in Record, Kinds(r), NEW l, l.ext \in 1 .. Len(Extents(r)) + 1, l.run = 1
  PROVE  /\ Through(l, r) = UnitsBefore(r, l.ext - 1) /\ UnitsBefore(r, l.ext - 1) \in Nat
         /\ AtRuns(l, r) => l.run <= Len(Extents(r)[l.ext].runs) + 1
PROOF
<1> DEFINE g == Extents(r)[l.ext].runs
<1>1. Len(Extents(r)) \in Nat /\ \A j \in 1 .. Len(Extents(r)) : Extents(r)[j].runs \in Seq(Run)
  BY RecordType
<1>2. UnitsBefore(r, l.ext - 1) \in Nat
  <2>1. l.ext - 1 \in 0 .. Len(Extents(r))
    BY <1>1
  <2> QED BY <2>1, UnitsGrow
<1>3. ASSUME AtRuns(l, r) PROVE SumLen(g, 0) * Cluster = 0 /\ Len(g) \in Nat
  <2>1. l.ext \in 1 .. Len(Extents(r))
    BY <1>1, <1>3 DEF AtRuns
  <2>2. g \in Seq(Run)
    BY <1>1, <2>1
  <2>3. SumLen(g, 0) = 0 /\ Len(g) \in Nat
    BY <2>2, SumLenGrows
  <2> QED BY <2>3, ExportAssumption
<1>4. l.run - 1 = 0
  OBVIOUS
<1>5. Through(l, r) = UnitsBefore(r, l.ext - 1) + IF AtRuns(l, r) THEN SumLen(g, 0) * Cluster ELSE 0
  BY <1>4 DEF Through
<1> HIDE DEF g
<1>6. Through(l, r) = UnitsBefore(r, l.ext - 1)
  BY <1>2, <1>3, <1>5
<1>7. AtRuns(l, r) => l.run <= Len(g) + 1
  BY <1>3
<1> QED BY <1>2, <1>6, <1>7 DEF g

LEMMA OpenBound ==
  ASSUME IInv, OpenFile
  PROVE  Bound(loc', record)
PROOF
<1>1. /\ record \in Record /\ Kinds(record) /\ Reading(loc', record) /\ BufferSize(record) \in Nat
      /\ loc'.ext = 1 /\ loc'.run = 1 /\ loc'.start = 0 /\ loc'.read = 0 /\ Reached(loc') = 0
  BY OpenIs
<1> DEFINE r == record
<1> HIDE DEF r
<1>2. r \in Record /\ Kinds(r)
  BY <1>1 DEF r
<1>3. loc'.ext \in 1 .. Len(Extents(r)) + 1
  BY <1>1, <1>2, RecordType
<1>4. RunsBound(loc', r)
  <2>1. Through(loc', r) = UnitsBefore(r, 0) /\ (AtRuns(loc', r) => loc'.run <= Len(Extents(r)[loc'.ext].runs) + 1)
    <3>1. loc'.ext - 1 = 0
      BY <1>1
    <3> QED BY <1>1, <1>2, <1>3, <3>1, ThroughFirst
  <2>2. UnitsBefore(r, 0) = 0
    BY <1>2, UnitsGrow
  <2> QED BY <1>1, <2>1, <2>2 DEF RunsBound, r
<1>5. GroupsBound(loc', r)
  <2>1. InOrder(r) \in Seq(Item) /\ GroupedExtents(r.data.items) \in Seq(Seq(Item)) /\ Cut(r)[0] = 0
    BY <1>2, CutIs DEF IsCut
  <2>2. Until(r, 0) = 0
    BY <2>1, SumLenGrows DEF Until
  <2>3. loc'.groups = GroupedExtents(r.data.items)
    BY <1>1 DEF Reading, r
  <2>4. Len(loc'.groups) \in Nat
    BY <2>1, <2>3
  <2>5. loc'.run - 1 = 0 /\ loc'.run <= Len(loc'.groups) + 1 /\ ~(loc'.ext > 1)
    BY <1>1, <2>4
  <2> QED BY <1>1, <2>1, <2>2, <2>5 DEF GroupsBound
<1> QED BY <1>1, <1>4, <1>5 DEF Bound, r

(* An attribute that is left.                                              *)
LEMMA LeaveExtent ==
  ASSUME IInv, Bounded, Locating, NEW got \in {0, loc.read},
         loc'.ext = loc.ext + 1, loc'.run = 1, loc'.start = loc.start + got, loc'.read = 0,
         loc'.groups = loc.groups, loc' \in Place, Len(loc'.buf) = BufferSize(record),
         OfExtents(record) => ~HasOther(loc.groups)
  PROVE  Bound(loc', record)
PROOF
<1> DEFINE r == record
           k == loc.ext
<1> HIDE DEF r
<1>1. /\ r \in Record /\ Kinds(r) /\ Bound(loc, r) /\ loc \in Place /\ k \in 1 .. Len(Extents(r))
      /\ BufferSize(r) \in Nat /\ Reached(loc) \in Nat
  BY WhileLocating DEF r
<1>2. /\ Len(Extents(r)) \in Nat \ {0} /\ \A j \in 1 .. Len(Extents(r)) : Extents(r)[j].runs \in Seq(Run)
  BY <1>1, RecordType
<1>3. Reading(loc', r)
  <2>1. loc'.ext <= Len(Extents(r)) + 1 /\ loc'.ext # 1
    BY <1>1, <1>2
  <2> QED BY <1>1, <2>1 DEF Reading, Bound, r
<1>4. CASE OfExtents(r)
  <2>1. loc'.ext > 1 /\ loc'.ext # 1
    BY <1>1, <1>2
  <2>2. ~HasOther(loc'.groups)
    BY <1>4 DEF r
  <2>3. GroupsBound(loc', r)
    BY <2>1, <2>2 DEF GroupsBound
  <2> QED BY <1>3, <1>4, <2>3 DEF Bound, r
<1>5. CASE ~OfExtents(r)
  <2>1. RunsBound(loc, r)
    BY <1>1, <1>5 DEF Bound
  <2>2. Reached(loc') <= Reached(loc) /\ Reached(loc') \in Nat
    <3>1. loc.start \in Nat /\ loc.read \in Nat
      BY <1>1 DEF Place
    <3> QED BY <3>1 DEF Reached
  <2>3. Through(loc, r) <= UnitsBefore(r, k) /\ UnitsBefore(r, k) \in Nat /\ Through(loc, r) \in Nat
    <3> DEFINE g == Extents(r)[k].runs
               a == SumLen(g, loc.run - 1) * Cluster
    <3>1. UnitsBefore(r, k - 1) <= UnitsBefore(r, k) /\ UnitsBefore(r, k - 1) \in Nat /\ UnitsBefore(r, k) \in Nat
      <4>1. k - 1 \in 0 .. Len(Extents(r)) /\ k \in 0 .. Len(Extents(r)) /\ k - 1 <= k
        BY <1>1, <1>2
      <4> QED BY <1>1, <4>1, UnitsGrow
    <3>2. ASSUME AtRuns(loc, r)
          PROVE  a \in Nat /\ UnitsBefore(r, k - 1) + a <= UnitsBefore(r, k)
      <4>1. loc.run - 1 \in 0 .. Len(g)
        <5>1. loc.run \in Nat \ {0}
          BY <1>1 DEF Place
        <5>2. Len(g) \in Nat
          BY <1>1, <1>2
        <5>3. loc.run <= Len(g) + 1
          BY <2>1, <3>2 DEF RunsBound
        <5> QED BY <5>1, <5>2, <5>3
      <4> QED BY <1>1, <4>1, RunBefore
    <3>3. Through(loc, r) = UnitsBefore(r, k - 1) + IF AtRuns(loc, r) THEN a ELSE 0
      BY DEF Through
    <3> HIDE DEF a, k
    <3> QED BY <3>1, <3>2, <3>3
  <2>4. /\ Through(loc', r) = UnitsBefore(r, k)
        /\ AtRuns(loc', r) => loc'.run <= Len(Extents(r)[loc'.ext].runs) + 1
    <3>1. loc'.ext = k + 1 /\ loc'.run = 1
      OBVIOUS
    <3>2. k + 1 \in 1 .. Len(Extents(r)) + 1 /\ (k + 1) - 1 = k
      <4> DEFINE n == Len(Extents(r))
      <4>1. k \in 1 .. n /\ n \in Nat
        BY <1>1, <1>2
      <4> HIDE DEF k, n
      <4> QED BY <4>1 DEF n
    <3> QED BY <1>1, <3>1, <3>2, ThroughFirst
  <2>5. AtRuns(loc', r) => loc'.run <= Len(Extents(r)[loc'.ext].runs) + 1
    BY <2>4
  <2>6. Reached(loc') <= Through(loc', r)
    <3>1. Reached(loc) <= Through(loc, r)
      BY <2>1 DEF RunsBound
    <3> QED BY <1>1, <2>2, <2>3, <2>4, <3>1
  <2>7. NoZeroOffset(r) => Reached(loc') <= BufferSize(r)
    <3>1. NoZeroOffset(r) => Reached(loc) <= BufferSize(r)
      BY <2>1 DEF RunsBound
    <3> QED BY <1>1, <2>2, <3>1
  <2>8. RunsBound(loc', r)
    BY <2>5, <2>6, <2>7 DEF RunsBound
  <2> QED BY <1>3, <1>5, <2>8 DEF Bound, r
<1> QED BY <1>4, <1>5 DEF r

(* A run is read.                                                          *)
LEMMA RunIs ==
  ASSUME IInv, Bounded, LocateRun
  PROVE  /\ AtRun /\ (room >= 0 \/ extent.runs[loc.run].len = 0)
         /\ RunData \in Seq(Int) /\ Len(RunData) \in Nat /\ Len(RunData) <= extent.runs[loc.run].len * Cluster
         /\ extent.runs[loc.run].off # 0 => Len(RunData) = 0 \/ Len(RunData) <= room
         /\ Reading(loc', record)
         /\ loc'.ext = loc.ext /\ loc'.run = loc.run + 1 /\ loc'.off = offset /\ loc'.start = loc.start
         /\ loc'.read = loc.read + Len(RunData) /\ loc'.groups = loc.groups
         /\ Reached(loc') = Reached(loc) + Len(RunData)
         /\ loc'.buf = IF room >= 0 THEN CopyAt(loc.buf, Reached(loc), RunData) ELSE loc.buf
PROOF
<1>1. AtRun /\ (room >= 0 \/ extent.runs[loc.run].len = 0)
  BY DEF LocateRun
<1>2. /\ RunData \in Seq(Int) /\ Len(RunData) \in Nat /\ Len(RunData) <= extent.runs[loc.run].len * Cluster
      /\ extent.runs[loc.run].off # 0 => Len(RunData) = 0 \/ Len(RunData) <= room
  BY <1>1, RunDataIs
<1>3. /\ loc \in Place /\ Bound(loc, record) /\ offset \in Int /\ BufferSize(record) \in Nat
      /\ room = BufferSize(record) - Reached(loc) /\ Reached(loc) \in Nat
  BY <1>1, WhileLocating, WhileAtRun DEF AtRun
<1> DEFINE n == loc.run + 1
           d == loc.read + Len(RunData)
           Q == Seq(Seq(Item))
           b == IF room >= 0 THEN CopyAt(loc.buf, Reached(loc), RunData) ELSE loc.buf
           o == offset
<1>4. loc \in [ext : Nat \ {0}, run : Nat \ {0}, off : Int, start : Nat, read : Nat, buf : Seq(Int), groups : Q]
  BY <1>3 DEF Place
<1>5. loc' = [loc EXCEPT !.run = n, !.off = o, !.read = d, !.buf = b]
  BY DEF LocateRun, Reached
<1>6. n \in Nat \ {0} /\ d \in Nat /\ o \in Int
  <2>1. loc.run \in Nat /\ loc.read \in Nat
    BY <1>4
  <2>2. Len(RunData) \in Nat
    BY <1>2
  <2> QED BY <1>3, <2>1, <2>2
<1>7. b \in Seq(Int) /\ Len(b) = BufferSize(record)
  <2>1. loc.buf \in Seq(Int) /\ Len(loc.buf) = BufferSize(record)
    BY <1>3, <1>4 DEF Bound, Reading
  <2>2. ASSUME room >= 0 PROVE Reached(loc) \in 0 .. Len(loc.buf)
    BY <1>3, <2>1, <2>2
  <2>3. ASSUME room >= 0
        PROVE CopyAt(loc.buf, Reached(loc), RunData) \in Seq(Int)
              /\ Len(CopyAt(loc.buf, Reached(loc), RunData)) = Len(loc.buf)
    BY <1>2, <2>1, <2>2, <2>3, Copied DEF CopyOf
  <2> QED BY <2>1, <2>3
<1> HIDE DEF n, d, b, o, Q
<1>8. loc' = [ext |-> loc.ext, run |-> n, off |-> o, start |-> loc.start, read |-> d, buf |-> b, groups |-> loc.groups]
  BY <1>4, <1>5
<1>9. loc.ext \in Nat \ {0} /\ loc.start \in Nat /\ loc.read \in Nat /\ loc.groups \in Q
  BY <1>4
<1>10. loc' \in [ext : Nat \ {0}, run : Nat \ {0}, off : Int, start : Nat, read : Nat, buf : Seq(Int), groups : Q]
  BY <1>6, <1>7, <1>8, <1>9
<1>11. /\ loc'.ext = loc.ext /\ loc'.run = n /\ loc'.off = o /\ loc'.start = loc.start
       /\ loc'.read = d /\ loc'.groups = loc.groups /\ loc'.buf = b
  BY <1>8
<1>12. Reached(loc') = Reached(loc) + Len(RunData)
  BY <1>2, <1>9, <1>11 DEF Reached, d
<1>13. Reading(loc', record)
  <2>1. loc' \in Place
    BY <1>10 DEF Place, Q
  <2> QED BY <1>3, <1>7, <1>11, <2>1 DEF Reading, Bound
<1> QED BY <1>1, <1>2, <1>11, <1>12, <1>13 DEF n, d, b, o

LEMMA RunBound ==
  ASSUME IInv, Bounded, LocateRun
  PROVE  Bound(loc', record)
PROOF
<1> DEFINE r == record
           k == loc.ext
           i == loc.run
           g == Extents(r)[k].runs
           n == Len(RunData)
           c == g[i].len * Cluster
           a == SumLen(g, i - 1) * Cluster
           U == UnitsBefore(r, k - 1)
<1> HIDE DEF r
<1>1. /\ AtRun /\ (room >= 0 \/ extent.runs[i].len = 0) /\ Reading(loc', r)
      /\ loc'.ext = k /\ loc'.run = i + 1 /\ Reached(loc') = Reached(loc) + n /\ n \in Nat
      /\ n <= extent.runs[i].len * Cluster
      /\ (extent.runs[i].off # 0 => n = 0 \/ n <= room)
  BY RunIs DEF r
<1>2. /\ r \in Record /\ Kinds(r) /\ Bound(loc, r) /\ k \in 1 .. Len(Extents(r)) /\ extent = Extents(r)[k]
      /\ room = BufferSize(r) - Reached(loc) /\ BufferSize(r) \in Nat /\ Reached(loc) \in Nat
  BY <1>1, WhileLocating DEF AtRun, r
<1>3. ~OfExtents(r) /\ AtRuns(loc, r) /\ i \in 1 .. Len(g) /\ c \in Nat /\ g[i].len \in Nat
  BY <1>1, <1>2, WhileAtRun DEF r
<1>4. RunsBound(loc, r)
  BY <1>2, <1>3 DEF Bound
<1>5. /\ U \in Nat /\ a \in Nat /\ SumLen(g, i) * Cluster = a + c
  <2>1. i \in 0 .. Len(g) /\ i > 0 /\ i - 1 \in 0 .. Len(g)
    BY <1>3
  <2>2. U \in Nat /\ SumLen(g, i) * Cluster = a + c
    BY <1>2, <2>1, RunBefore
  <2>3. a \in Nat
    BY <1>2, <2>1, RunBefore
  <2> QED BY <2>2, <2>3
<1>6. AtRuns(loc', r) /\ Extents(r)[loc'.ext].runs = g
  BY <1>1, <1>3 DEF AtRuns
<1>7. Through(loc, r) = U + a
  BY <1>3 DEF Through
<1>8. Through(loc', r) = U + (a + c)
  <2>1. loc'.ext - 1 = k - 1 /\ loc'.run - 1 = i
    BY <1>1, <1>3
  <2>2. Through(loc', r) = U + SumLen(g, i) * Cluster
    BY <1>6, <2>1 DEF Through
  <2> QED BY <1>5, <2>2
<1>9. loc'.run <= Len(g) + 1
  BY <1>1, <1>3
<1>10. Reached(loc) <= Through(loc, r) /\ (NoZeroOffset(r) => Reached(loc) <= BufferSize(r))
  BY <1>4 DEF RunsBound
<1>11. n <= c
  BY <1>1, <1>2
<1>12. NoZeroOffset(r) => extent.runs[i].off # 0
  BY <1>2, <1>3 DEF NoZeroOffset
<1> HIDE DEF c, a, U, n
<1>13. Reached(loc') <= Through(loc', r)
  BY <1>1, <1>2, <1>3, <1>5, <1>7, <1>8, <1>10, <1>11
<1>14. NoZeroOffset(r) => Reached(loc') <= BufferSize(r)
  BY <1>1, <1>2, <1>10, <1>12
<1>15. RunsBound(loc', r)
  BY <1>6, <1>9, <1>13, <1>14 DEF RunsBound
<1> QED BY <1>1, <1>3, <1>15 DEF Bound, r

LEMMA WhileAtGroup ==
  ASSUME IInv, Bounded, AtGroup
  PROVE  /\ OfExtents(record) /\ loc.ext = 1 /\ loc.start = 0 /\ loc.run \in 1 .. Len(loc.groups)
         /\ loc.groups = GroupedExtents(record.data.items) /\ loc.groups \in Seq(Seq(Item))
         /\ loc.read = Until(record, Cut(record)[loc.run - 1])
         /\ group \in Seq(Item) /\ group[1] \in Item /\ group[1] = InOrder(record)[Cut(record)[loc.run - 1] + 1]
         /\ GroupLen(group) \in Nat
         /\ Until(record, Cut(record)[loc.run]) = loc.read + GroupLen(group)
         /\ ~HasOther(loc.groups)
PROOF
<1>1. Locating /\ extent.kind = "extents" /\ ~HasOther(loc.groups) /\ loc.run <= Len(loc.groups)
  BY DEF AtGroup
<1>2. OfExtents(record) /\ loc.ext = 1 /\ record \in Record /\ Kinds(record) /\ Bound(loc, record) /\ loc \in Place
  BY <1>1, WhileLocating
<1>3. loc.start = 0 /\ loc.read = Until(record, Cut(record)[loc.run - 1]) /\ loc.groups = GroupedExtents(record.data.items)
  BY <1>2 DEF Bound, GroupsBound, Reading
<1> DEFINE xs == InOrder(record)
           g == loc.groups
           c == Cut(record)
           j == loc.run
<1>4. xs \in Seq(Item) /\ g \in Seq(Seq(Item)) /\ IsCut(xs, Len(xs), g, c)
  BY <1>2, <1>3, CutIs
<1>5. j \in 1 .. Len(g)
  <2>1. j \in Nat \ {0} /\ Len(g) \in Nat
    BY <1>2, <1>4 DEF Place
  <2> QED BY <1>1, <2>1
<1>6. group = g[j]
  BY DEF group
<1> HIDE DEF xs, g, c, j
<1>7. /\ GroupLen(g[j]) = SumLen(xs, c[j]) - SumLen(xs, c[j - 1])
      /\ SumLen(xs, c[j]) \in Nat /\ SumLen(xs, c[j - 1]) \in Nat /\ GroupLen(g[j]) \in Nat
      /\ g[j][1] = xs[c[j - 1] + 1] /\ c[j - 1] + 1 \in 1 .. Len(xs)
  BY <1>4, <1>5, GroupLength
<1>8. xs[c[j - 1] + 1] \in Item /\ g[j] \in Seq(Item)
  <2>1. c[j - 1] + 1 \in 1 .. Len(xs) /\ xs \in Seq(Item)
    BY <1>4, <1>7
  <2>2. g \in Seq(Seq(Item))
    BY <1>4
  <2> QED BY <1>5, <2>1, <2>2
<1>9. SumLen(xs, c[j]) = SumLen(xs, c[j - 1]) + GroupLen(g[j])
  BY <1>7
<1>10. loc.read = SumLen(xs, c[j - 1]) /\ Until(record, Cut(record)[loc.run]) = SumLen(xs, c[j])
  BY <1>3 DEF Until, xs, c, j
<1>11. /\ GroupLen(group) \in Nat /\ Until(record, Cut(record)[loc.run]) = loc.read + GroupLen(group)
       /\ group \in Seq(Item) /\ group[1] \in Item
  BY <1>6, <1>7, <1>8, <1>9, <1>10
<1>12. group[1] = InOrder(record)[Cut(record)[loc.run - 1] + 1]
  BY <1>6, <1>7 DEF xs, c, j
<1> QED BY <1>1, <1>2, <1>3, <1>4, <1>5, <1>11, <1>12 DEF g, j

LEMMA OffsetsType ==
  ASSUME IInv, Bounded, AtGroup
  PROVE  VolumeOffsets \subseteq Int
PROOF
<1>1. group[1] \in Item /\ volume \in Volume /\ loc.off \in Int
  BY WhileAtGroup, WhileLocating DEF AtGroup, Place
<1>2. group[1].addr \in Nat /\ volume.offset \in Nat /\ volume.chunks \subseteq Chunk
  BY <1>1 DEF Item, Volume
<1>3. \A c \in volume.chunks : volume.offset + c.stripe + group[1].addr - c.key \in Int
  BY <1>2 DEF Chunk
<1>4. ChunksOf(volume, group[1]) \subseteq volume.chunks
  BY DEF ChunksOf
<1> DEFINE in == ChunksOf(volume, group[1])
<1>5. VolumeOffsets = IF in = {} THEN {loc.off} ELSE {volume.offset + c.stripe + group[1].addr - c.key : c \in in}
  BY DEF VolumeOffsets, volume
<1> HIDE DEF in
<1> QED BY <1>1, <1>3, <1>4, <1>5 DEF in

GroupData(v) == IF group[1].addr = 0 THEN Zeros(GroupLen(group)) ELSE ReadFile(v + group[1].off, GroupLen(group))

(* A group that is read.                                                   *)
ReadsGroup(v) ==
  /\ v + group[1].off <= DiskSize /\ (room >= 0 \/ GroupLen(group) = 0)
  /\ loc' = [loc EXCEPT !.run = @ + 1, !.off = v, !.read = @ + GroupLen(group),
                        !.buf = IF GroupLen(group) > 0 THEN CopyAt(@, loc.read, GroupData(v)) ELSE @]

LEMMA GroupIs ==
  ASSUME IInv, Bounded, AtGroup, NEW v \in VolumeOffsets, ReadsGroup(v)
  PROVE  /\ Reading(loc', record)
         /\ loc'.ext = loc.ext /\ loc'.run = loc.run + 1 /\ loc'.off = v /\ loc'.start = loc.start
         /\ loc'.read = loc.read + GroupLen(group) /\ loc'.groups = loc.groups
         /\ loc'.buf = IF GroupLen(group) > 0 THEN CopyAt(loc.buf, loc.read, GroupData(v)) ELSE loc.buf
         /\ GroupData(v) \in Seq(Int) /\ loc.read \in Nat
         /\ GroupLen(group) > 0 => loc.read \in 0 .. Len(loc.buf)
PROOF
<1>1. /\ loc \in Place /\ Bound(loc, record) /\ BufferSize(record) \in Nat
      /\ room = BufferSize(record) - Reached(loc) /\ Reached(loc) \in Nat
  BY WhileLocating DEF AtGroup
<1>2. /\ GroupLen(group) \in Nat /\ group[1] \in Item /\ loc.start = 0
  BY WhileAtGroup
<1>3. v \in Int /\ group[1].off \in Nat
  BY <1>2, OffsetsType DEF Item
<1>4. GroupData(v) \in Seq(Int)
  <2>1. v + group[1].off \in Int
    BY <1>3
  <2> DEFINE o == v + group[1].off
             m == GroupLen(group)
  <2>2. ReadFile(o, m) \in Seq(Int)
    <3> HIDE DEF o, m
    <3>1. o \in Int /\ m \in Nat /\ o <= DiskSize
      BY <1>2, <2>1 DEF o, m, ReadsGroup
    <3> QED BY <3>1, ReadFileIs
  <2> QED BY <1>2, <2>2, ZerosAre DEF GroupData
<1> DEFINE n == loc.run + 1
           d == loc.read + GroupLen(group)
           Q == Seq(Seq(Item))
           b == IF GroupLen(group) > 0 THEN CopyAt(loc.buf, loc.read, GroupData(v)) ELSE loc.buf
<1>5. loc \in [ext : Nat \ {0}, run : Nat \ {0}, off : Int, start : Nat, read : Nat, buf : Seq(Int), groups : Q]
  BY <1>1 DEF Place
<1>6. loc' = [loc EXCEPT !.run = n, !.off = v, !.read = d, !.buf = b]
  BY DEF ReadsGroup
<1>7. n \in Nat \ {0} /\ d \in Nat /\ loc.read \in Nat
  <2>1. loc.run \in Nat /\ loc.read \in Nat
    BY <1>5
  <2> QED BY <1>2, <2>1
<1>8. loc.buf \in Seq(Int) /\ Len(loc.buf) = BufferSize(record)
  BY <1>1, <1>5 DEF Bound, Reading
<1>9. ASSUME GroupLen(group) > 0 PROVE loc.read \in 0 .. Len(loc.buf)
  <2>1. room >= 0
    BY <1>2, <1>9 DEF ReadsGroup
  <2>2. Reached(loc) = loc.read
    BY <1>2, <1>7 DEF Reached
  <2> QED BY <1>1, <1>7, <1>8, <2>1, <2>2
<1>10. b \in Seq(Int) /\ Len(b) = BufferSize(record)
  <2>1. ASSUME GroupLen(group) > 0
        PROVE CopyAt(loc.buf, loc.read, GroupData(v)) \in Seq(Int)
              /\ Len(CopyAt(loc.buf, loc.read, GroupData(v))) = Len(loc.buf)
    BY <1>4, <1>8, <1>9, <2>1, Copied DEF CopyOf
  <2> QED BY <1>8, <2>1
<1> HIDE DEF n, d, b, Q
<1>11. loc' = [ext |-> loc.ext, run |-> n, off |-> v, start |-> loc.start, read |-> d, buf |-> b, groups |-> loc.groups]
  BY <1>5, <1>6
<1>12. loc.ext \in Nat \ {0} /\ loc.start \in Nat /\ loc.groups \in Q
  BY <1>5
<1>13. loc' \in [ext : Nat \ {0}, run : Nat \ {0}, off : Int, start : Nat, read : Nat, buf : Seq(Int), groups : Q]
  BY <1>3, <1>7, <1>10, <1>11, <1>12
<1>14. /\ loc'.ext = loc.ext /\ loc'.run = n /\ loc'.off = v /\ loc'.start = loc.start
       /\ loc'.read = d /\ loc'.groups = loc.groups /\ loc'.buf = b
  BY <1>11
<1>15. Reading(loc', record)
  <2>1. loc' \in Place
    BY <1>13 DEF Place, Q
  <2> QED BY <1>1, <1>10, <1>14, <2>1 DEF Reading, Bound
<1> QED BY <1>4, <1>7, <1>9, <1>14, <1>15 DEF n, d, b

LEMMA GroupBound ==
  ASSUME IInv, Bounded, LocateGroup
  PROVE  Bound(loc', record)
PROOF
<1>1. AtGroup
  BY DEF LocateGroup
<1>2. PICK v \in VolumeOffsets :
        \/ v + group[1].off > DiskSize /\ loc' = NextExtent(loc.read)
        \/ ReadsGroup(v)
  BY DEF LocateGroup, GroupData, ReadsGroup
<1>3. /\ OfExtents(record) /\ loc.ext = 1 /\ loc.start = 0 /\ loc.run \in 1 .. Len(loc.groups)
      /\ Until(record, Cut(record)[loc.run]) = loc.read + GroupLen(group) /\ ~HasOther(loc.groups)
  BY <1>1, WhileAtGroup
<1>4. loc \in Place /\ Locating /\ volume.offset \in Nat /\ Bound(loc, record)
  BY <1>1, WhileLocating DEF AtGroup
<1>5. CASE loc' = NextExtent(loc.read)
  <2>1. loc.read \in Nat /\ Len(loc.buf) = BufferSize(record)
    BY <1>4 DEF Place, Bound, Reading
  <2>2. /\ loc' \in Place /\ loc'.ext = loc.ext + 1 /\ loc'.run = 1 /\ loc'.start = loc.start + loc.read
        /\ loc'.read = 0 /\ loc'.buf = loc.buf /\ loc'.groups = loc.groups
    BY <1>4, <1>5, <2>1, NextExtentIs
  <2> QED BY <1>3, <1>4, <2>1, <2>2, LeaveExtent
<1>6. CASE ReadsGroup(v)
  <2>1. /\ Reading(loc', record)
        /\ loc'.ext = loc.ext /\ loc'.run = loc.run + 1 /\ loc'.start = loc.start
        /\ loc'.read = loc.read + GroupLen(group) /\ loc'.groups = loc.groups
    BY <1>1, <1>2, <1>6, GroupIs
  <2>2. loc'.run - 1 = loc.run /\ loc'.run <= Len(loc'.groups) + 1 /\ ~(loc'.ext > 1)
    <3>1. Len(loc.groups) \in Nat
      BY <1>4 DEF Place
    <3> QED BY <1>3, <2>1, <3>1
  <2>3. GroupsBound(loc', record)
    BY <1>3, <2>1, <2>2 DEF GroupsBound
  <2> QED BY <1>3, <2>1, <2>3 DEF Bound
<1> QED BY <1>2, <1>5, <1>6

LEMMA ResidentBound ==
  ASSUME IInv, Bounded, LocateResident
  PROVE  Bound(loc', record) /\ extent.kind = "resident"
PROOF
<1>1. Locating /\ extent.kind = "resident"
      /\ loc' = [NextExtent(0) EXCEPT !.buf = CopyAt(@, loc.start, GetResidentData(extent))]
  BY DEF LocateResident
<1>2. /\ loc \in Place /\ volume.offset \in Nat /\ Bound(loc, record) /\ extent.bytes \in Seq(Int)
      /\ (OfExtents(record) => extent.kind = "extents")
  BY <1>1, WhileLocating
<1> DEFINE m == NextExtent(0)
           src == GetResidentData(extent)
           b == CopyAt(loc.buf, loc.start, src)
           Q == Seq(Seq(Item))
<1>3. /\ m \in Place /\ m.ext = loc.ext + 1 /\ m.run = 1 /\ m.start = loc.start + 0 /\ m.read = 0
      /\ m.buf = loc.buf /\ m.groups = loc.groups
  BY <1>2, NextExtentIs
<1>4. src = <<>>
  <2>1. GetResidentData(extent) = CopyAt(<<>>, 0, extent.bytes)
    BY DEF GetResidentData
  <2> DEFINE e == <<>>
             t == CopyAt(e, 0, extent.bytes)
  <2>2. e \in Seq(Int) /\ Len(e) = 0 /\ 0 \in 0 .. Len(e)
    OBVIOUS
  <2>5. extent.bytes \in Seq(Int)
    BY <1>2
  <2> HIDE DEF e
  <2>6. t \in Seq(Int) /\ CopyOf(t, e, 0, extent.bytes)
    BY <2>2, <2>5, Copied
  <2>3. t \in Seq(Int) /\ Len(t) = 0
    BY <2>2, <2>6 DEF CopyOf
  <2> HIDE DEF t
  <2>4. t = <<>>
    BY <2>3
  <2> QED BY <2>1, <2>4 DEF t, e
<1> HIDE DEF src
<1>5. /\ loc.buf \in Seq(Int) /\ Len(loc.buf) = BufferSize(record) /\ loc.start \in Nat /\ loc.ext \in Nat
      /\ loc.groups \in Q /\ loc.start <= BufferSize(record) /\ BufferSize(record) \in Nat
  BY <1>1, <1>2, WhileLocating DEF Place, Bound, Reading
<1>6. b \in Seq(Int) /\ Len(b) = BufferSize(record) /\ \A u \in 0 .. BufferSize(record) - 1 : b[u + 1] = loc.buf[u + 1]
  <2>1. src \in Seq(Int) /\ Len(src) = 0
    BY <1>4
  <2>2. loc.start \in 0 .. Len(loc.buf)
    BY <1>2, <1>5
  <2> DEFINE p == loc.buf
             s == loc.start
  <2>5. p \in Seq(Int) /\ s \in 0 .. Len(p)
    BY <1>5, <2>2
  <2> HIDE DEF p, s
  <2>6. CopyAt(p, s, src) \in Seq(Int) /\ CopyOf(CopyAt(p, s, src), p, s, src)
    BY <2>1, <2>5, Copied
  <2>3. /\ b \in Seq(Int) /\ Len(b) = Len(loc.buf)
        /\ \A u \in 0 .. Len(loc.buf) - 1 :
             b[u + 1] = IF loc.start <= u /\ u < loc.start + Len(src) THEN src[u - loc.start + 1] ELSE loc.buf[u + 1]
    BY <2>6 DEF p, s, CopyOf
  <2>4. \A u \in 0 .. Len(loc.buf) - 1 : ~(loc.start <= u /\ u < loc.start + Len(src))
    BY <1>5, <2>1
  <2> QED BY <1>5, <2>3, <2>4
<1> HIDE DEF b
<1>7. loc' = [m EXCEPT !.buf = b]
  BY <1>1, <1>3 DEF b, src
<1> HIDE DEF m
<1>8. m \in [ext : Nat \ {0}, run : Nat \ {0}, off : Int, start : Nat, read : Nat, buf : Seq(Int), groups : Q]
  BY <1>3 DEF Place
<1> HIDE DEF Q
<1>9. loc' = [ext |-> m.ext, run |-> m.run, off |-> m.off, start |-> m.start, read |-> m.read, buf |-> b, groups |-> m.groups]
  BY <1>7, <1>8
<1>10. loc' \in [ext : Nat \ {0}, run : Nat \ {0}, off : Int, start : Nat, read : Nat, buf : Seq(Int), groups : Q]
  BY <1>6, <1>8, <1>9
<1>11. /\ loc'.ext = loc.ext + 1 /\ loc'.run = 1 /\ loc'.start = loc.start + 0 /\ loc'.read = 0
       /\ loc'.groups = loc.groups /\ loc'.buf = b
  BY <1>3, <1>9
<1>12. loc' \in Place
  BY <1>10 DEF Place, Q
<1>13. ~OfExtents(record)
  BY <1>1, <1>2
<1>14. Bound(loc', record)
  BY <1>1, <1>6, <1>11, <1>12, <1>13, LeaveExtent
<1> QED BY <1>1, <1>14

LEMMA EndBound ==
  ASSUME IInv, Bounded, LocateEnd
  PROVE  Bound(loc', record)
PROOF
<1>1. Locating /\ loc' = NextExtent(loc.read)
  BY DEF LocateEnd
<1>2. loc \in Place /\ volume.offset \in Nat /\ Bound(loc, record) /\ (OfExtents(record) => extent.kind = "extents")
  BY <1>1, WhileLocating
<1>3. loc.read \in Nat /\ Len(loc.buf) = BufferSize(record)
  BY <1>2 DEF Place, Bound, Reading
<1>4. /\ loc' \in Place /\ loc'.ext = loc.ext + 1 /\ loc'.run = 1 /\ loc'.start = loc.start + loc.read
      /\ loc'.read = 0 /\ loc'.buf = loc.buf /\ loc'.groups = loc.groups
  BY <1>1, <1>2, <1>3, NextExtentIs
<1>5. OfExtents(record) => ~HasOther(loc.groups)
  BY <1>2 DEF LocateEnd
<1> QED BY <1>1, <1>3, <1>4, <1>5, LeaveExtent

(* A file without extents has no groups.                                   *)
LEMMA NoGroups ==
  ASSUME NEW r \in Record, Kinds(r), ~OfExtents(r)
  PROVE  ~HasOther(GroupedExtents(r.data.items))
PROOF
<1> DEFINE xs == InOrder(r)
           g == GroupedExtents(r.data.items)
           c == Cut(r)
<1>1. r.data.items = <<>>
  BY RecordType DEF OfExtents
<1>2. xs \in Seq(Item) /\ g \in Seq(Seq(Item)) /\ IsCut(xs, Len(xs), g, c) /\ \E p : Sorted(xs, r.data.items, p)
  BY CutIs
<1>3. PICK p : Sorted(xs, r.data.items, p)
  BY <1>2
<1> HIDE DEF xs, g, c
<1>4. Len(xs) = 0
  <2>1. p \in [1 .. Len(xs) -> {}] /\ Len(xs) \in Nat
    BY <1>1, <1>3 DEF Sorted
  <2>2. ~(1 \in 1 .. Len(xs))
    BY <2>1
  <2> QED BY <2>1, <2>2
<1>5. Len(g) = 0
  <2>1. Len(g) \in Nat
    BY <1>2
  <2> SUFFICES ASSUME Len(g) # 0 PROVE FALSE
    BY <2>1
  <2>2. 1 \in 1 .. Len(g) /\ 1 \in 0 .. Len(g) /\ 0 \in 0 .. Len(g) /\ 1 - 1 = 0
    BY <2>1
  <2>3. c[1] \in 0 .. 0 /\ c[0] \in 0 .. 0 /\ c[0] < c[1]
    BY <1>2, <1>4, <2>2 DEF IsCut
  <2> QED BY <2>3
<1>6. DOMAIN g = {}
  BY <1>2, <1>5
<1> QED BY <1>6 DEF HasOther, Range, g

(* The producer panics only where the property says.                       *)
LEMMA PanicsOnOverrun ==
  ASSUME IInv, Bounded, LocatePanics
  PROVE  LET r == record
         IN  \/ /\ UnitsBefore(r, Len(Extents(r))) > BufferSize(r)
                /\ \E k \in 1 .. Len(Extents(r)) : \E i \in 1 .. Len(Extents(r)[k].runs) : Extents(r)[k].runs[i].off = 0
             \/ GroupLen(ByFileOffset(r.data.items)) > BufferSize(r)
             \/ HasOther(loc.groups)
PROOF
<1> DEFINE r == record
<1> HIDE DEF r
<1>1. CASE AtRun /\ room < 0 /\ extent.runs[loc.run].len > 0
  <2> DEFINE k == loc.ext
             i == loc.run
             g == Extents(r)[k].runs
             U == UnitsBefore(r, k - 1)
             a == SumLen(g, i - 1) * Cluster
  <2>1. /\ r \in Record /\ Kinds(r) /\ Bound(loc, r) /\ k \in 1 .. Len(Extents(r)) /\ extent = Extents(r)[k]
        /\ room = BufferSize(r) - Reached(loc) /\ BufferSize(r) \in Nat /\ Reached(loc) \in Nat
    BY <1>1, WhileLocating DEF AtRun, r
  <2>2. ~OfExtents(r) /\ AtRuns(loc, r) /\ i \in 1 .. Len(g)
    BY <1>1, <2>1, WhileAtRun DEF r
  <2>3. Len(Extents(r)) \in Nat
    BY <2>1, RecordType
  <2>4. U + a <= UnitsBefore(r, k) /\ U \in Nat /\ a \in Nat /\ UnitsBefore(r, k) \in Nat
    <3>1. i - 1 \in 0 .. Len(g)
      BY <2>2
    <3> QED BY <2>1, <3>1, RunBefore
  <2>5. UnitsBefore(r, k) <= UnitsBefore(r, Len(Extents(r))) /\ UnitsBefore(r, Len(Extents(r))) \in Nat
    <3>1. k \in 0 .. Len(Extents(r)) /\ Len(Extents(r)) \in 0 .. Len(Extents(r)) /\ k <= Len(Extents(r))
      BY <2>1, <2>3
    <3> QED BY <2>1, <3>1, UnitsGrow
  <2>6. Reached(loc) <= U + a /\ (NoZeroOffset(r) => Reached(loc) <= BufferSize(r))
    BY <2>1, <2>2 DEF Bound, RunsBound, Through
  <2>7. BufferSize(r) < Reached(loc)
    BY <1>1, <2>1
  <2> HIDE DEF U, a
  <2>8. UnitsBefore(r, Len(Extents(r))) > BufferSize(r)
    BY <2>1, <2>4, <2>5, <2>6, <2>7
  <2>9. ~NoZeroOffset(r)
    BY <2>1, <2>6, <2>7
  <2> QED BY <2>8, <2>9 DEF NoZeroOffset, r
<1>2. CASE AtGroup /\ room < 0
  <2>1. /\ r \in Record /\ Kinds(r) /\ Bound(loc, r) /\ loc \in Place
        /\ room = BufferSize(r) - Reached(loc) /\ BufferSize(r) \in Nat /\ Reached(loc) \in Nat
    BY <1>2, WhileLocating DEF AtGroup, r
  <2>2. /\ loc.start = 0 /\ loc.run \in 1 .. Len(loc.groups) /\ loc.groups = GroupedExtents(r.data.items)
        /\ loc.read = Until(r, Cut(r)[loc.run - 1])
    BY <1>2, WhileAtGroup DEF r
  <2> DEFINE xs == InOrder(r)
             c == Cut(r)
             j == loc.run
             g == loc.groups
  <2>3. xs \in Seq(Item) /\ g \in Seq(Seq(Item)) /\ IsCut(xs, Len(xs), g, c)
    BY <2>1, <2>2, CutIs
  <2>4. j \in 1 .. Len(g)
    BY <2>2
  <2>5. Reached(loc) = SumLen(xs, c[j - 1])
    BY <2>2, <2>1 DEF Reached, Until, Place
  <2>6. GroupLen(ByFileOffset(r.data.items)) = SumLen(xs, Len(xs))
    BY DEF GroupLen, SumLen, xs, InOrder
  <2> HIDE DEF xs, c, j, g
  <2>7. c[j - 1] \in 0 .. Len(xs)
    BY <2>3, <2>4, GroupLength
  <2>8. SumLen(xs, c[j - 1]) <= SumLen(xs, Len(xs)) /\ SumLen(xs, Len(xs)) \in Nat /\ SumLen(xs, c[j - 1]) \in Nat
    <3>1. Len(xs) \in Nat /\ Len(xs) \in 0 .. Len(xs) /\ c[j - 1] <= Len(xs)
      BY <2>3, <2>7
    <3> QED BY <2>3, <2>7, <3>1, SumLenGrows
  <2>9. GroupLen(ByFileOffset(r.data.items)) > BufferSize(r)
    BY <1>2, <2>1, <2>5, <2>6, <2>8
  <2> QED BY <2>9 DEF r
<1> QED BY <1>1, <1>2 DEF LocatePanics

(* What is sent has no inline and no compressed extents.                   *)
LEMMA SendsNoOther ==
  ASSUME IInv, Bounded, SendFile
  PROVE  ~HasOther(GroupedExtents(record.data.items))
PROOF
<1>1. order # <<>> /\ rpos <= Len(records) /\ loc # NoFile /\ AllRead
  BY DEF SendFile, Working, IInv, Position
<1>2. record \in Record /\ Kinds(record) /\ Bound(loc, record)
  BY <1>1, AtHand DEF Bounded
<1>3. CASE OfExtents(record)
  <2>1. record.linked = <<>> /\ Len(Extents(record)) = 1
    BY <1>2, <1>3, RecordType DEF OfExtents
  <2>2. loc.ext > 1
    BY <1>1, <2>1 DEF AllRead, record
  <2> QED BY <1>2, <1>3, <2>2 DEF Bound, GroupsBound, Reading
<1>4. CASE ~OfExtents(record)
  BY <1>2, <1>4, NoGroups
<1> QED BY <1>3, <1>4
-----------------------------------------------------------------------------
LEMMA SameBounded ==
  ASSUME Bounded, UNCHANGED <<job, order, rpos, loc>>
  PROVE  Bounded'
PROOF
<1>1. record' = record /\ loc' = loc
  BY SamePart DEF record
<1>2. (NoFile)' = NoFile
  BY DEF NoFile
<1> QED BY <1>1, <1>2 DEF Bounded

LEMMA NowBounded ==
  ASSUME Bound(loc', record), UNCHANGED <<job, order, rpos>>
  PROVE  Bounded'
PROOF
<1>1. record' = record
  BY SamePart DEF record
<1> QED BY <1>1 DEF Bounded

LEMMA NoFileBounded ==
  ASSUME loc' = NoFile
  PROVE  Bounded'
PROOF BY DEF Bounded, NoFile

NotSent == UNCHANGED sent /\ (phase' = "panic" => phase = "panic" /\ UNCHANGED vars)

LEMMA SamePanic ==
  ASSUME PanicOnlyOnOverrun, NotSent
  PROVE  PanicOnlyOnOverrun'
PROOF
<1>1. CASE phase' = "panic"
  <2>1. UNCHANGED vars
    BY <1>1 DEF NotSent
  <2>2. records' = records /\ rpos' = rpos /\ loc' = loc /\ sent' = sent /\ phase' = phase
    BY <2>1, SamePart DEF vars, inputs, workerVars
  <2> QED BY <2>2 DEF PanicOnlyOnOverrun
<1>2. CASE phase' # "panic"
  BY <1>2 DEF PanicOnlyOnOverrun, NotSent
<1> QED BY <1>1, <1>2

PInv == IInv /\ Bounded /\ PanicOnlyOnOverrun

LEMMA NextBounded ==
  ASSUME IInv, Bounded, [Next]_vars
  PROVE  Bounded'
PROOF
<1>1. CASE ExportRecords
  <2>1. loc = NoFile
    BY <1>1 DEF IInv, Opened, ExportRecords
  <2>2. loc' = NoFile
    BY <1>1, <2>1 DEF ExportRecords
  <2> QED BY <2>2, NoFileBounded
<1>2. CASE SkipFolder
  <2>1. loc = NoFile
    BY <1>2 DEF IInv, Opened, SkipFolder
  <2>2. loc' = NoFile
    BY <1>2, <2>1 DEF SkipFolder
  <2> QED BY <2>2, NoFileBounded
<1>3. CASE OpenFile
  <2>1. UNCHANGED <<job, order, rpos>>
    BY <1>3 DEF OpenFile, inputs, workerVars
  <2> QED BY <1>3, <2>1, OpenBound, NowBounded
<1>4. CASE LocateResident \/ LocateRun \/ LocateGroup \/ LocateEnd
  <2>1. UNCHANGED <<job, order, rpos>>
    BY <1>4 DEF LocateResident, LocateRun, LocateGroup, LocateEnd, inputs, workerVars
  <2>2. Bound(loc', record)
    BY <1>4, ResidentBound, RunBound, GroupBound, EndBound
  <2> QED BY <2>1, <2>2, NowBounded
<1>5. CASE SendFile
  <2>1. loc' = NoFile
    BY <1>5 DEF SendFile
  <2> QED BY <2>1, NoFileBounded
<1>6. CASE LocatePanics \/ CloseResults \/ RemoveOld \/ WriteFile \/ ExportWait \/ HashFiles \/ LoopDone \/ UNCHANGED vars
  <2>1. UNCHANGED <<job, order, rpos, loc>>
    BY <1>6 DEF LocatePanics, CloseResults, RemoveOld, WriteFile, ExportWait, HashFiles, HashFile, HashDone, LoopDone, vars,
       inputs, workerVars
  <2> QED BY <2>1, SameBounded
<1> QED BY <1>1, <1>2, <1>3, <1>4, <1>5, <1>6 DEF Next, Worker, LocateData, ExportData, Returned

LEMMA NextPanic ==
  ASSUME IInv, Bounded, PanicOnlyOnOverrun, [Next]_vars
  PROVE  PanicOnlyOnOverrun'
PROOF
<1>1. CASE ExportRecords
  BY <1>1, SamePanic DEF ExportRecords, NotSent
<1>2. CASE SkipFolder \/ OpenFile \/ LocateResident \/ LocateRun \/ LocateGroup \/ LocateEnd \/ CloseResults
  <2>1. phase = "export" /\ phase' = phase /\ sent' = sent
    BY <1>2 DEF SkipFolder, OpenFile, LocateResident, LocateRun, LocateGroup, LocateEnd, CloseResults,
                AtRun, AtGroup, Locating, Working
  <2> QED BY <2>1, SamePanic DEF NotSent
<1>3. CASE LocatePanics
  <2>1. sent' = sent /\ loc' = loc /\ records' = records /\ rpos' = rpos
    BY <1>3, SamePart DEF LocatePanics, inputs, workerVars
  <2>2. LET r == record
        IN  \/ /\ UnitsBefore(r, Len(Extents(r))) > BufferSize(r)
               /\ \E k \in 1 .. Len(Extents(r)) : \E i \in 1 .. Len(Extents(r)[k].runs) : Extents(r)[k].runs[i].off = 0
            \/ GroupLen(ByFileOffset(r.data.items)) > BufferSize(r)
            \/ HasOther(loc.groups)
    BY <1>3, PanicsOnOverrun
  <2> QED BY <2>1, <2>2 DEF PanicOnlyOnOverrun, record
<1>4. CASE SendFile
  <2> DEFINE m == [part |-> part, idx |-> rpos, rec |-> records[rpos], content |-> SubSeq(loc.buf, 1, records[rpos].lsize)]
  <2>1. sent' = Append(sent, m) /\ phase' = phase /\ phase = "export" /\ m.rec = record
    BY <1>4 DEF SendFile, Working, record
  <2>2. ~HasOther(GroupedExtents(m.rec.data.items))
    BY <1>4, <2>1, SendsNoOther
  <2> HIDE DEF m
  <2>3. sent \in Seq(RangeOf(sent))
    BY DEF IInv, Queue
  <2>4. /\ Len(sent) \in Nat /\ Len(sent') = Len(sent) + 1 /\ sent'[Len(sent) + 1] = m
        /\ \A k \in 1 .. Len(sent) : sent'[k] = sent[k]
    BY <2>1, <2>3, AppendFacts
  <2>5. ASSUME NEW k \in 1 .. Len(sent') PROVE ~HasOther(GroupedExtents(sent'[k].rec.data.items))
    <3>1. k \in 1 .. Len(sent) \/ k = Len(sent) + 1
      BY <2>4
    <3> QED BY <2>2, <2>4, <3>1 DEF PanicOnlyOnOverrun
  <2> QED BY <2>1, <2>5 DEF PanicOnlyOnOverrun
<1>5. CASE RemoveOld \/ WriteFile \/ ExportWait \/ HashFiles \/ LoopDone
  <2>1. sent' = sent /\ phase' # "panic"
    BY <1>5 DEF RemoveOld, WriteFile, ExportWait, HashFiles, HashFile, HashDone, LoopDone
  <2> QED BY <2>1, SamePanic DEF NotSent
<1>6. CASE UNCHANGED vars
  <2>1. sent' = sent /\ phase' = phase
    BY <1>6 DEF vars
  <2> QED BY <1>6, <2>1, SamePanic DEF NotSent
<1> QED BY <1>1, <1>2, <1>3, <1>4, <1>5, <1>6 DEF Next, Worker, LocateData, ExportData, Returned

LEMMA ReadingHolds == Spec => []PInv
PROOF
<1>1. Init => PInv
  <2> SUFFICES ASSUME Init PROVE PInv
    OBVIOUS
  <2>1. Bounded /\ PanicOnlyOnOverrun
    BY DEF Init, Bounded, PanicOnlyOnOverrun
  <2> QED BY <2>1, InitIInv DEF PInv
<1>2. PInv /\ [Next]_vars => PInv'
  BY NextIInv, NextBounded, NextPanic DEF PInv
<1> QED BY <1>1, <1>2, PTL DEF Spec

(* The process dies of a file only when it has a hole and its runs reach   *)
(* past its logical size, or its extents do, or one of them is inline or   *)
(* compressed; a file with such an extent is never exported (LocateData).  *)
THEOREM PanicsOnlyOnOverrun == Spec => []PanicOnlyOnOverrun
PROOF
<1>1. PInv => PanicOnlyOnOverrun
  BY DEF PInv
<1> QED BY ReadingHolds, <1>1, PTL
-----------------------------------------------------------------------------
(* NTFS files whose run lists lie on the disk.                             *)

LEMMA Rest == \A n \in Int, s \in Nat \ {0} : n - (n \div s) * s = n % s
PROOF OBVIOUS

LEMMA Remainder ==
  ASSUME NEW n \in Int, NEW s \in Nat \ {0}
  PROVE  \E q \in Int : \E m \in 0 .. s - 1 : m = n % s /\ n = s * q + m
PROOF
<1>1. s \in Int /\ s > 0
  OBVIOUS
<1> DEFINE q == n \div s
           m == n % s
<1>2. q \in Int
  BY <1>1
<1>3. m \in 0 .. s - 1
  BY <1>1
<1>4. n - q * s = m
  BY Rest
<1>5. m = n % s
  OBVIOUS
<1> HIDE DEF q, m
<1>6. n = s * q + m
  BY <1>2, <1>3, <1>4
<1> QED BY <1>2, <1>3, <1>5, <1>6

LEMMA OneRemainder ==
  ASSUME NEW s \in Nat \ {0}, NEW a \in Int, NEW c \in Int, NEW b \in 0 .. s - 1, NEW d \in 0 .. s - 1,
         s * a + b = s * c + d
  PROVE  b = d
PROOF
<1>1. ASSUME NEW x \in Int, NEW y \in Int, x < y PROVE s * x + s <= s * y
  <2>1. (x + 1) * s <= y * s
    BY <1>1, TimesGrows
  <2>2. (x + 1) * s = s * x + s /\ y * s = s * y
    OBVIOUS
  <2> QED BY <2>1, <2>2
<1>2. s * a \in Int /\ s * c \in Int
  OBVIOUS
<1>3. ~(a < c)
  <2> SUFFICES ASSUME a < c PROVE FALSE
    OBVIOUS
  <2>1. s * a + s <= s * c
    BY <1>1
  <2> DEFINE x == s * a
             y == s * c
  <2>2. x \in Int /\ y \in Int /\ x + s <= y /\ x + b = y + d
    BY <1>2, <2>1
  <2> HIDE DEF x, y
  <2> QED BY <2>2
<1>4. ~(c < a)
  <2> SUFFICES ASSUME c < a PROVE FALSE
    OBVIOUS
  <2>1. s * c + s <= s * a
    BY <1>1
  <2> DEFINE x == s * a
             y == s * c
  <2>2. x \in Int /\ y \in Int /\ y + s <= x /\ x + b = y + d
    BY <1>2, <2>1
  <2> HIDE DEF x, y
  <2> QED BY <2>2
<1>5. a = c
  BY <1>3, <1>4
<1> DEFINE x == s * a
<1>6. x \in Int /\ x + b = x + d
  BY <1>2, <1>5
<1> HIDE DEF x
<1> QED BY <1>6

LEMMA SameRemainder ==
  ASSUME NEW s \in Nat \ {0}, NEW o \in Int, o % s = 0, NEW w \in Int
  PROVE  (o + w) % s = w % s
PROOF
<1>1. o + w \in Int
  OBVIOUS
<1>2. PICK q \in Int : \E m \in 0 .. s - 1 : m = o % s /\ o = s * q + m
  BY Remainder
<1>3. PICK p \in Int : \E m \in 0 .. s - 1 : m = w % s /\ w = s * p + m
  BY Remainder
<1>4. PICK b \in 0 .. s - 1 : b = w % s /\ w = s * p + b
  BY <1>3
<1> DEFINE sum == o + w
<1>5. sum \in Int
  BY <1>1
<1> HIDE DEF sum
<1>6. PICK t \in Int : \E m \in 0 .. s - 1 : m = sum % s /\ sum = s * t + m
  BY <1>5, Remainder
<1>7. PICK d \in 0 .. s - 1 : d = sum % s /\ sum = s * t + d
  BY <1>6
<1>8. s * (q + p) = s * q + s * p /\ s * q \in Int /\ s * p \in Int
  <2>1. s * (q + p) = (q + p) * s /\ s * q = q * s /\ s * p = p * s
    OBVIOUS
  <2>2. (q + p) * s = q * s + p * s
    BY Distributes
  <2> QED BY <2>1, <2>2
<1>9. s * (q + p) + b = s * t + d
  <2>1. o = s * q
    <3> DEFINE x == s * q
    <3>1. x \in Int /\ o = x + 0
      BY <1>2, <1>8
    <3> HIDE DEF x
    <3>2. o = x
      BY <3>1
    <3> QED BY <3>2 DEF x
  <2> DEFINE x == s * q
             y == s * p
             z == s * (q + p)
             c == s * t
  <2>2. c \in Int
    OBVIOUS
  <2>3. x \in Int /\ y \in Int /\ z = x + y /\ o = x /\ w = y + b /\ sum = c + d
    BY <1>4, <1>7, <1>8, <2>1
  <2> HIDE DEF x, y, z, c
  <2>4. z + b = c + d
    BY <2>2, <2>3 DEF sum
  <2> QED BY <2>4 DEF z, c
<1>10. q + p \in Int
  OBVIOUS
<1>11. b = d
  <2> DEFINE a == q + p
  <2>1. a \in Int /\ s * a + b = s * t + d
    BY <1>9, <1>10
  <2> HIDE DEF a
  <2> QED BY <2>1, OneRemainder
<1> QED BY <1>4, <1>7, <1>11 DEF sum

(* Relative offsets add up.                                                *)
LEMMA SumOffIs ==
  ASSUME NEW g \in Seq(Run)
  PROVE  /\ SumOff(g, 0) = 0 /\ \A k \in 0 .. Len(g) : SumOff(g, k) \in Int
         /\ \A k \in 1 .. Len(g) : SumOff(g, k) = SumOff(g, k - 1) + g[k].off /\ g[k].off \in Int
PROOF
<1> DEFINE F == [j \in DOMAIN g |-> g[j].off]
<1>1. Len(g) \in Nat /\ DOMAIN g = 1 .. Len(g) /\ \A k \in 1 .. Len(g) : g[k] \in Run
  OBVIOUS
<1>2. \A k \in 1 .. Len(g) : g[k].off \in Int
  BY <1>1 DEF Run
<1>3. F \in Seq(Int) /\ Len(F) = Len(g) /\ \A k \in 1 .. Len(g) : F[k] = g[k].off
  BY <1>1, <1>2
<1>4. \A k : SumOff(g, k) = Sums(F)[k]
  BY DEF SumOff
<1> HIDE DEF F
<1>5. /\ Sums(F)[0] = 0 /\ \A k \in 0 .. Len(F) : Sums(F)[k] \in Int
      /\ \A k \in 1 .. Len(F) : Sums(F)[k] = Sums(F)[k - 1] + F[k]
  BY <1>3, SumsAre
<1> QED BY <1>2, <1>3, <1>4, <1>5

(* Where the runs of a regular file lie.                                   *)
RunAt(v, r, k, i) == v.offset + SumOff(Extents(r)[k].runs, i) * Cluster

LEMMA RegularIs ==
  ASSUME NEW r \in Record, Kinds(r), NEW v, v.offset \in Nat, v.offset % Sector = 0, Regular(v, r)
  PROVE  /\ ~OfExtents(r) /\ \A k \in 1 .. Len(Extents(r)) : Extents(r)[k].kind = "runs"
         /\ UnitsBefore(r, Len(Extents(r))) >= r.lsize
         /\ \A k \in 1 .. Len(Extents(r)) : \A i \in 1 .. Len(Extents(r)[k].runs) :
              /\ RunAt(v, r, k, i) \in Int /\ RunAt(v, r, k, i) % Sector = 0
              /\ 0 <= RunAt(v, r, k, i) /\ RunAt(v, r, k, i) + Extents(r)[k].runs[i].len * Cluster <= DiskSize
              /\ (v.cbc => v.offset <= RunAt(v, r, k, i))
              /\ RunAt(v, r, k, i) = RunAt(v, r, k, i - 1) + Extents(r)[k].runs[i].off * Cluster
         /\ \A k \in 1 .. Len(Extents(r)) : RunAt(v, r, k, 0) = v.offset
PROOF
<1>1. /\ Len(Extents(r)) \in Nat \ {0} /\ \A k \in 1 .. Len(Extents(r)) : Extents(r)[k].runs \in Seq(Run)
      /\ OfExtents(r) => Extents(r)[1] = r.data
  BY RecordType DEF OfExtents
<1>2. \A k \in 1 .. Len(Extents(r)) : Extents(r)[k].kind = "runs"
  BY DEF Regular
<1>3. ~OfExtents(r)
  <2>1. 1 \in 1 .. Len(Extents(r))
    BY <1>1
  <2> QED BY <1>1, <1>2, <2>1 DEF OfExtents
<1>4. ASSUME NEW k \in 1 .. Len(Extents(r)), NEW i \in 1 .. Len(Extents(r)[k].runs)
      PROVE  /\ RunAt(v, r, k, i) \in Int /\ RunAt(v, r, k, i) % Sector = 0
             /\ 0 <= RunAt(v, r, k, i) /\ RunAt(v, r, k, i) + Extents(r)[k].runs[i].len * Cluster <= DiskSize
             /\ (v.cbc => v.offset <= RunAt(v, r, k, i))
             /\ RunAt(v, r, k, i) = RunAt(v, r, k, i - 1) + Extents(r)[k].runs[i].off * Cluster
  <2> DEFINE g == Extents(r)[k].runs
             a == SumOff(g, i)
             b == SumOff(g, i - 1)
             f == g[i].off
  <2>1. g \in Seq(Run) /\ Len(g) \in Nat
    BY <1>1
  <2>2. a = b + f /\ a \in Int /\ b \in Int /\ f \in Int
    <3>1. i \in 0 .. Len(g) /\ i - 1 \in 0 .. Len(g) /\ i \in 1 .. Len(g)
      BY <2>1
    <3> HIDE DEF g
    <3> QED BY <2>1, <3>1, SumOffIs
  <2>3. 0 <= v.offset + a * Cluster /\ v.offset + a * Cluster + g[i].len * Cluster <= DiskSize
        /\ (v.cbc => v.offset <= v.offset + a * Cluster)
    BY DEF Regular
  <2> HIDE DEF a, b, f
  <2>4. a * Cluster = b * Cluster + f * Cluster /\ a * Cluster \in Int /\ b * Cluster \in Int /\ f * Cluster \in Int
    <3>1. Cluster \in Nat \ {0} /\ Cluster \in Int
      BY ExportAssumption
    <3>2. (b + f) * Cluster = b * Cluster + f * Cluster
      BY <2>2, <3>1, Distributes
    <3> QED BY <2>2, <3>1, <3>2
  <2>5. RunAt(v, r, k, i) = v.offset + a * Cluster /\ RunAt(v, r, k, i - 1) = v.offset + b * Cluster
    BY DEF RunAt, a, b
  <2>6. (v.offset + a * Cluster) % Sector = 0
    <3>1. (a * Cluster) % Sector = 0
      <4>1. Sector \in Nat \ {0} /\ Cluster \in Int /\ Cluster % Sector = 0
        <5>1. Sector \in Nat \ {0} /\ Cluster \in Nat /\ Cluster % Sector = 0
          BY ExportAssumption
        <5> QED BY <5>1
      <4>2. PICK q \in Int : \E m \in 0 .. Sector - 1 : m = Cluster % Sector /\ Cluster = Sector * q + m
        BY <4>1, Remainder
      <4> DEFINE y == a * Cluster
      <4>3. y \in Int
        BY <2>4
      <4> HIDE DEF y
      <4>8. PICK n \in Int : \E m \in 0 .. Sector - 1 : m = y % Sector /\ y = Sector * n + m
        BY <4>1, <4>3, Remainder
      <4>9. PICK m \in 0 .. Sector - 1 : m = y % Sector /\ y = Sector * n + m
        BY <4>8
      <4>10. Cluster = Sector * q
        BY <4>1, <4>2
      <4>4. y = Sector * (a * q) + 0 /\ a * q \in Int
        <5>1. a * (Sector * q) = Sector * (a * q) /\ a * q \in Int
          BY <2>2, <4>1
        <5>2. y = a * (Sector * q)
          BY <4>10 DEF y
        <5>3. Sector * (a * q) \in Int
          BY <4>1, <5>1
        <5> QED BY <5>1, <5>2, <5>3
      <4>5. Sector * n + m = Sector * (a * q) + 0
        BY <4>9, <4>4
      <4>6. 0 \in 0 .. Sector - 1
        BY <4>1
      <4>7. m = 0
        <5> DEFINE z == a * q
        <5>1. z \in Int /\ Sector * n + m = Sector * z + 0
          BY <4>4, <4>5
        <5> HIDE DEF z
        <5> QED BY <4>1, <4>6, <5>1, OneRemainder
      <4> QED BY <4>7, <4>9 DEF y
    <3> DEFINE w == a * Cluster
    <3>2. w \in Int /\ w % Sector = 0 /\ Sector \in Nat \ {0} /\ v.offset \in Int
      BY <2>4, <3>1, ExportAssumption
    <3> HIDE DEF w
    <3>3. (v.offset + w) % Sector = w % Sector
      BY <3>2, SameRemainder
    <3> QED BY <3>2, <3>3 DEF w
  <2> DEFINE A == a * Cluster
             B == b * Cluster
             C == f * Cluster
  <2>7. v.offset + A \in Int /\ v.offset + A = (v.offset + B) + C
    <3>1. A = B + C /\ A \in Int /\ B \in Int /\ C \in Int
      BY <2>4
    <3> HIDE DEF A, B, C
    <3> QED BY <3>1
  <2> QED BY <2>3, <2>5, <2>6, <2>7 DEF f
<1>5. ASSUME NEW k \in 1 .. Len(Extents(r)) PROVE RunAt(v, r, k, 0) = v.offset
  <2> DEFINE g == Extents(r)[k].runs
  <2>1. g \in Seq(Run)
    BY <1>1
  <2> HIDE DEF g
  <2>2. SumOff(g, 0) = 0
    BY <2>1, SumOffIs
  <2>3. v.offset + 0 * Cluster = v.offset
    BY ExportAssumption
  <2> QED BY <2>2, <2>3 DEF RunAt, g
<1>6. UnitsBefore(r, Len(Extents(r))) >= r.lsize
  BY DEF Regular
<1> QED BY <1>2, <1>3, <1>4, <1>5, <1>6

LEMMA UnitBounds ==
  ASSUME NEW r \in Record, Kinds(r), NEW k \in 1 .. Len(Extents(r)), NEW i \in 1 .. Len(Extents(r)[k].runs),
         NEW w \in 0 .. Extents(r)[k].runs[i].len * Cluster - 1
  PROVE  /\ UnitOf(r, k, i, w) \in Nat /\ UnitsBefore(r, k - 1) \in Nat
         /\ UnitsBefore(r, k - 1) <= UnitOf(r, k, i, w) /\ UnitOf(r, k, i, w) < UnitsBefore(r, k)
         /\ SumLen(Extents(r)[k].runs, i - 1) * Cluster <= UnitOf(r, k, i, w) - UnitsBefore(r, k - 1)
         /\ UnitOf(r, k, i, w) - UnitsBefore(r, k - 1) < SumLen(Extents(r)[k].runs, i) * Cluster
PROOF
<1> DEFINE g == Extents(r)[k].runs
           U == UnitsBefore(r, k - 1)
           V == UnitsBefore(r, k)
           a == SumLen(g, i - 1) * Cluster
           b == SumLen(g, i) * Cluster
           c == g[i].len * Cluster
<1>1. g \in Seq(Run)
  BY RecordType
<1>2. i \in 0 .. Len(g) /\ i > 0 /\ i - 1 \in 0 .. Len(g)
  <2>1. Len(g) \in Nat
    BY <1>1
  <2> QED BY <2>1
<1>3. /\ b \in Nat /\ U + b <= V /\ U \in Nat /\ V \in Nat /\ c \in Nat /\ b = a + c
  BY <1>2, RunBefore
<1>4. a \in Nat
  BY <1>2, RunBefore
<1>5. UnitOf(r, k, i, w) = U + a + w
  BY DEF UnitOf
<1>6. w \in Nat /\ w < c
  <2>1. w \in 0 .. c - 1 /\ c \in Nat
    BY <1>3
  <2> HIDE DEF c
  <2> QED BY <2>1
<1> HIDE DEF U, V, a, b, c, g
<1>7. /\ U + a + w \in Nat /\ U <= U + a + w /\ U + a + w < V /\ a <= (U + a + w) - U /\ (U + a + w) - U < b
  BY <1>3, <1>4, <1>6
<1> QED BY <1>3, <1>5, <1>7 DEF U, V, a, b, c, g

(* No unit is of two runs.                                                 *)
InRun(r, k, i, w) ==
  /\ k \in 1 .. Len(Extents(r)) /\ i \in 1 .. Len(Extents(r)[k].runs)
  /\ w \in 0 .. Extents(r)[k].runs[i].len * Cluster - 1

LEMMA UniqueUnit ==
  ASSUME NEW r \in Record, Kinds(r), NEW k, NEW i, NEW w, InRun(r, k, i, w), NEW j, NEW h, NEW x, InRun(r, j, h, x),
         UnitOf(r, k, i, w) = UnitOf(r, j, h, x)
  PROVE  k = j /\ i = h /\ w = x
PROOF
<1>0. /\ k \in 1 .. Len(Extents(r)) /\ i \in 1 .. Len(Extents(r)[k].runs)
      /\ w \in 0 .. Extents(r)[k].runs[i].len * Cluster - 1
      /\ j \in 1 .. Len(Extents(r)) /\ h \in 1 .. Len(Extents(r)[j].runs)
      /\ x \in 0 .. Extents(r)[j].runs[h].len * Cluster - 1
  BY DEF InRun
<1> DEFINE u == UnitOf(r, k, i, w)
           N == Len(Extents(r))
<1>1. N \in Nat /\ Extents(r)[k].runs \in Seq(Run)
  BY <1>0, RecordType
<1>2. k = j
  <2> DEFINE s == [n \in 0 .. N |-> UnitsBefore(r, n)]
  <2>1. \A n \in 0 .. N : s[n] \in Int
    BY UnitsGrow
  <2>2. \A m, n \in 0 .. N : m <= n => s[m] <= s[n]
    BY UnitsGrow
  <2>3. k - 1 \in 0 .. N /\ k \in 0 .. N /\ j - 1 \in 0 .. N /\ j \in 0 .. N
    BY <1>0, <1>1
  <2>4. u \in Nat /\ s[k - 1] <= u /\ u < s[k]
    BY <1>0, <2>3, UnitBounds
  <2>5. s[j - 1] <= u /\ u < s[j]
    BY <1>0, <2>3, UnitBounds
  <2>6. k \in 1 .. N /\ j \in 1 .. N /\ u \in Int
    BY <1>0, <2>4
  <2> HIDE DEF s, u, N
  <2> QED BY <1>1, <2>1, <2>2, <2>4, <2>5, <2>6, PassesOnce
<1>3. i = h
  <2> DEFINE g == Extents(r)[k].runs
             M == Len(g)
             s == [n \in 0 .. M |-> SumLen(g, n) * Cluster]
             t == u - UnitsBefore(r, k - 1)
  <2>1. M \in Nat /\ Cluster \in Nat
    BY <1>1, ExportAssumption
  <2>2. \A m \in 0 .. M : SumLen(g, m) \in Nat
    <3> HIDE DEF g
    <3> QED BY <1>1, SumLenGrows DEF g
  <2>3. \A m, n \in 0 .. M : m <= n => SumLen(g, m) <= SumLen(g, n)
    <3> HIDE DEF g
    <3> QED BY <1>1, SumLenGrows DEF g
  <2>4. \A m \in 0 .. M : s[m] \in Int
    BY <2>1, <2>2
  <2>5. ASSUME NEW m \in 0 .. M, NEW n \in 0 .. M, m <= n PROVE s[m] <= s[n]
    <3>1. SumLen(g, m) <= SumLen(g, n) /\ SumLen(g, m) \in Int /\ SumLen(g, n) \in Int
      BY <2>2, <2>3, <2>5
    <3> QED BY <2>1, <3>1, TimesGrows
  <2>6. i - 1 \in 0 .. M /\ i \in 0 .. M /\ h \in 1 .. M /\ h - 1 \in 0 .. M /\ h \in 0 .. M
    BY <1>0, <1>2, <2>1
  <2>7. t \in Int /\ s[i - 1] <= t /\ t < s[i]
    <3>1. u \in Nat /\ UnitsBefore(r, k - 1) \in Nat /\ SumLen(g, i - 1) * Cluster <= t /\ t < SumLen(g, i) * Cluster
      BY <1>0, UnitBounds
    <3>2. s[i - 1] = SumLen(g, i - 1) * Cluster /\ s[i] = SumLen(g, i) * Cluster
      BY <2>6
    <3>3. t \in Int
      BY <3>1
    <3> QED BY <3>1, <3>2, <3>3
  <2>8. s[h - 1] <= t /\ t < s[h]
    BY <1>0, <1>2, <2>6, UnitBounds
  <2> HIDE DEF s, t, M, u, g
  <2>9. i \in 1 .. M
    BY <1>0 DEF M, g
  <2> QED BY <2>1, <2>4, <2>5, <2>6, <2>7, <2>8, <2>9, PassesOnce
<1>4. w = x
  <2> DEFINE a == UnitsBefore(r, k - 1)
             b == SumLen(Extents(r)[k].runs, i - 1) * Cluster
  <2>1. u = a + b + w /\ u = a + b + x
    BY <1>2, <1>3 DEF UnitOf
  <2>2. a \in Int /\ b \in Int
    <3>1. i - 1 \in 0 .. Len(Extents(r)[k].runs)
      BY <1>0, <1>1
    <3>2. b \in Nat
      BY <1>0, <3>1, RunBefore
    <3>3. a \in Nat
      BY <1>0, UnitBounds
    <3> QED BY <3>2, <3>3
  <2>3. w \in Int /\ x \in Int
    BY <1>0
  <2> HIDE DEF a, b, u
  <2> QED BY <2>1, <2>2, <2>3
<1> QED BY <1>2, <1>3, <1>4

(* What a run of a regular file puts into the buffer.                      *)
LEMMA RunDataExact ==
  ASSUME IInv, Bounded, AtRun, room >= 0 \/ extent.runs[loc.run].len = 0,
         Regular(volume, record), loc.off = RunAt(volume, record, loc.ext, loc.run - 1)
  PROVE  /\ offset = RunAt(volume, record, loc.ext, loc.run)
         /\ \/ Len(RunData) = extent.runs[loc.run].len * Cluster
            \/ Len(RunData) = room
         /\ \A w \in 0 .. Len(RunData) - 1 : RunData[w + 1] = RunUnit(volume, extent.runs, loc.run, w)
PROOF
<1> DEFINE len == extent.runs[loc.run].len
           off == extent.runs[loc.run].off
           c == len * Cluster
           n == IF c > room THEN room ELSE c
           o == RunAt(volume, record, loc.ext, loc.run)
<1>1. /\ len \in Nat /\ off \in Int /\ c \in Nat /\ offset \in Int /\ offset <= DiskSize
      /\ loc.run \in 1 .. Len(extent.runs)
  BY WhileAtRun
<1>2. room \in Int
  <2>1. room = BufferSize(record) - Reached(loc) /\ BufferSize(record) \in Nat /\ Reached(loc) \in Nat
    BY WhileLocating DEF AtRun
  <2> QED BY <2>1
<1>3. RunData = CASE len = 0 -> <<>>
                  [] len > 0 /\ off = 0 -> Zeros(c)
                  [] OTHER -> ReadFile(offset, n)
  BY DEF RunData
<1>4. /\ record \in Record /\ Kinds(record) /\ volume.offset \in Nat /\ volume.offset % Sector = 0
      /\ loc.ext \in 1 .. Len(Extents(record)) /\ extent = Extents(record)[loc.ext]
  BY WhileLocating DEF AtRun
<1>5. /\ o \in Int /\ o % Sector = 0 /\ 0 <= o /\ o + c <= DiskSize /\ (volume.cbc => volume.offset <= o)
      /\ o = loc.off + off * Cluster
  <2>1. /\ o \in Int /\ o % Sector = 0 /\ 0 <= o
        /\ o + Extents(record)[loc.ext].runs[loc.run].len * Cluster <= DiskSize /\ (volume.cbc => volume.offset <= o)
        /\ o = RunAt(volume, record, loc.ext, loc.run - 1) + Extents(record)[loc.ext].runs[loc.run].off * Cluster
    <3>1. loc.run \in 1 .. Len(Extents(record)[loc.ext].runs)
      BY <1>1, <1>4
    <3> QED BY <1>4, <3>1, RegularIs
  <2> QED BY <1>4, <2>1
<1>6. offset = o
  BY <1>5 DEF offset
<1>7. o = volume.offset + SumOff(extent.runs, loc.run) * Cluster
  BY <1>4 DEF RunAt
<1>8. \A w : RunUnit(volume, extent.runs, loc.run, w) =
               IF off = 0 THEN Zero ELSE IF volume.cbc /\ w > 0 /\ w % Sector = 0 THEN Noise ELSE o + w
  BY <1>7 DEF RunUnit
<1> HIDE DEF len, off, c, o
<1>9. CASE len = 0
  <2>1. RunData = <<>>
    BY <1>3, <1>9
  <2>2. Len(RunData) = 0
    BY <2>1
  <2>3. c = 0
    BY <1>9, ExportAssumption DEF c
  <2> QED BY <1>6, <2>2, <2>3 DEF c, len, o
<1>10. CASE len > 0 /\ off = 0
  <2>1. RunData = Zeros(c)
    BY <1>3, <1>10
  <2>2. Len(RunData) = c /\ \A i \in 1 .. c : RunData[i] = Zero
    BY <1>1, <2>1, ZerosAre
  <2>3. ASSUME NEW w \in 0 .. Len(RunData) - 1 PROVE RunData[w + 1] = RunUnit(volume, extent.runs, loc.run, w)
    <3>1. w + 1 \in 1 .. c
      BY <1>1, <2>2
    <3> QED BY <1>8, <1>10, <2>2, <3>1
  <2> QED BY <1>6, <2>2, <2>3 DEF c, len, o
<1>11. CASE len > 0 /\ off # 0
  <2>1. RunData = ReadFile(o, n)
    BY <1>1, <1>3, <1>6, <1>11
  <2>2. n \in Nat /\ n <= c /\ (n = c \/ n = room)
    <3>1. room >= 0
      BY <1>1, <1>11 DEF len
    <3> QED BY <1>1, <1>2, <3>1
  <2> HIDE DEF n
  <2>3. o + n <= DiskSize /\ o <= DiskSize
    BY <1>1, <1>5, <1>6, <2>2, ExportAssumption
  <2>4. Len(RunData) = n /\ \A i \in 1 .. n : RunData[i] = IF volume.cbc THEN Deciphered(o, i) ELSE o + i - 1
    BY <1>5, <2>1, <2>2, <2>3, ReadFileIs
  <2>5. ASSUME NEW w \in 0 .. Len(RunData) - 1 PROVE RunData[w + 1] = RunUnit(volume, extent.runs, loc.run, w)
    <3>1. w + 1 \in 1 .. n /\ w \in Int /\ w >= 0 /\ o + (w + 1) - 1 = o + w
      BY <1>5, <2>2, <2>4
    <3>2. RunData[w + 1] = IF volume.cbc THEN Deciphered(o, w + 1) ELSE o + w
      BY <2>4, <3>1
    <3>3. ASSUME volume.cbc
          PROVE  Deciphered(o, w + 1) = IF w > 0 /\ w % Sector = 0 THEN Noise ELSE o + w
      <4> DEFINE m == (o + w) % Sector
                 l == w % Sector
      <4>1. m = l
        <5>1. Sector \in Nat \ {0}
          BY ExportAssumption
        <5> QED BY <1>5, <3>1, <5>1, SameRemainder
      <4>2. ~(o < volume.offset)
        BY <1>4, <1>5, <3>3
      <4>3. Deciphered(o, w + 1) = IF (m = 0) # (w + 1 = 1) THEN Noise ELSE o + w
        BY <3>1, <4>2 DEF Deciphered, volume
      <4>4. w = 0 => l = 0
        BY ExportAssumption
      <4> HIDE DEF m, l
      <4>5. ((m = 0) # (w + 1 = 1)) <=> (w > 0 /\ l = 0)
        BY <3>1, <4>1, <4>4
      <4>6. Deciphered(o, w + 1) = IF w > 0 /\ l = 0 THEN Noise ELSE o + w
        BY <4>3, <4>5
      <4> QED BY <4>6 DEF l
    <3>4. RunUnit(volume, extent.runs, loc.run, w) =
            IF volume.cbc /\ w > 0 /\ w % Sector = 0 THEN Noise ELSE o + w
      BY <1>8, <1>11
    <3> QED BY <3>2, <3>3, <3>4
  <2> QED BY <1>6, <2>2, <2>4, <2>5 DEF c, len, o
<1> QED BY <1>1, <1>9, <1>10, <1>11

LEMMA OpenRuns ==
  ASSUME IInv, OpenFile
  PROVE  RunsRead(loc', volume, record)
PROOF
<1> DEFINE r == record
           v == volume
           l == loc'
<1>1. /\ r \in Record /\ Kinds(r) /\ v.offset \in Nat /\ v.offset % Sector = 0
      /\ l.ext = 1 /\ l.run = 1 /\ l.off = v.offset /\ Reached(l) = 0
  BY OpenIs
<1> HIDE DEF r, v, l
<1> SUFFICES ASSUME Regular(v, r) PROVE RunsRead(l, v, r)
  BY DEF RunsRead, r, v, l
<1>2. Len(Extents(r)) \in Nat \ {0}
  BY <1>1, RecordType
<1>3. 1 \in 1 .. Len(Extents(r)) /\ l.ext \in 1 .. Len(Extents(r)) + 1 /\ l.ext - 1 = 0 /\ l.run - 1 = 0
  BY <1>1, <1>2
<1>4. l.off = v.offset + SumOff(Extents(r)[l.ext].runs, l.run - 1) * Cluster
  <2>1. RunAt(v, r, 1, 0) = v.offset
    BY <1>1, <1>3, RegularIs
  <2> QED BY <1>1, <1>3, <2>1 DEF RunAt
<1>5. Reached(l) = Through(l, r)
  <2>1. UnitsBefore(r, 0) = 0
    BY <1>1, UnitsGrow
  <2>2. Through(l, r) = UnitsBefore(r, l.ext - 1)
    BY <1>1, <1>3, ThroughFirst
  <2> QED BY <1>1, <1>3, <2>1, <2>2
<1>6. ASSUME NEW k \in 1 .. Len(Extents(r)), NEW i \in 1 .. Len(Extents(r)[k].runs),
             NEW w \in 0 .. Extents(r)[k].runs[i].len * Cluster - 1, UnitOf(r, k, i, w) < Reached(l)
      PROVE  FALSE
  <2>1. UnitOf(r, k, i, w) \in Nat
    BY <1>1, UnitBounds
  <2> QED BY <1>1, <1>6, <2>1
<1> QED BY <1>4, <1>5, <1>6 DEF RunsRead

(* Of a regular file there are only run lists, and their ends are reached. *)
LEMMA RegularAt ==
  ASSUME IInv, Bounded, Locating, Regular(volume, record)
  PROVE  /\ AtRuns(loc, record) /\ extent.kind = "runs" /\ ~OfExtents(record)
         /\ extent = Extents(record)[loc.ext] /\ loc.ext \in 1 .. Len(Extents(record))
         /\ extent.runs \in Seq(Run) /\ loc.run \in 1 .. Len(extent.runs) + 1
         /\ Through(loc, record) = UnitsBefore(record, loc.ext - 1) + SumLen(extent.runs, loc.run - 1) * Cluster
PROOF
<1>1. /\ record \in Record /\ Kinds(record) /\ volume.offset \in Nat /\ volume.offset % Sector = 0
      /\ Bound(loc, record) /\ loc \in Place
      /\ loc.ext \in 1 .. Len(Extents(record)) /\ extent = Extents(record)[loc.ext] /\ extent.runs \in Seq(Run)
  BY WhileLocating
<1>2. ~OfExtents(record) /\ Extents(record)[loc.ext].kind = "runs"
  BY <1>1, RegularIs
<1>3. AtRuns(loc, record)
  <2>1. Len(Extents(record)) \in Nat
    BY <1>1, RecordType
  <2> QED BY <1>1, <1>2, <2>1 DEF AtRuns
<1>4. loc.run \in 1 .. Len(extent.runs) + 1
  <2>1. RunsBound(loc, record)
    BY <1>1, <1>2 DEF Bound
  <2>2. loc.run <= Len(extent.runs) + 1
    BY <1>1, <1>3, <2>1 DEF RunsBound
  <2>3. loc.run \in Nat \ {0} /\ Len(extent.runs) \in Nat
    BY <1>1 DEF Place
  <2> QED BY <2>2, <2>3
<1>5. Through(loc, record) = UnitsBefore(record, loc.ext - 1) + SumLen(extent.runs, loc.run - 1) * Cluster
  BY <1>1, <1>3 DEF Through
<1> QED BY <1>1, <1>2, <1>3, <1>4, <1>5

LEMMA EndRuns ==
  ASSUME IInv, Bounded, ContentRead, LocateEnd
  PROVE  RunsRead(loc', volume, record)
PROOF
<1> DEFINE r == record
           v == volume
           l == loc'
           k == loc.ext
           g == extent.runs
<1> SUFFICES ASSUME Regular(v, r) PROVE RunsRead(l, v, r)
  BY DEF RunsRead
<1>1. Locating
  BY DEF LocateEnd
<1>2. /\ loc # NoFile /\ record \in Record /\ Kinds(record) /\ volume.offset \in Nat /\ volume.offset % Sector = 0
      /\ loc \in Place /\ Reached(loc) \in Nat
  BY <1>1, WhileLocating
<1>3. /\ extent.kind = "runs" /\ extent = Extents(record)[loc.ext] /\ loc.ext \in 1 .. Len(Extents(record))
      /\ extent.runs \in Seq(Run) /\ loc.run \in 1 .. Len(extent.runs) + 1 /\ AtRuns(loc, record)
      /\ Through(loc, record) = UnitsBefore(record, loc.ext - 1) + SumLen(extent.runs, loc.run - 1) * Cluster
  BY <1>1, RegularAt
<1>4. RunsRead(loc, v, r)
  BY <1>2 DEF ContentRead
<1>5. loc.off = v.offset + SumOff(extent.runs, loc.run - 1) * Cluster
  BY <1>3, <1>4 DEF RunsRead
<1>6. loc.run = Len(extent.runs) + 1
  <2> SUFFICES ASSUME loc.run # Len(extent.runs) + 1 PROVE FALSE
    OBVIOUS
  <2>1. loc.run \in 1 .. Len(extent.runs) /\ ~(loc.run > Len(extent.runs))
    <3> DEFINE n == Len(extent.runs)
               i == loc.run
    <3>1. n \in Nat /\ i \in 1 .. n + 1 /\ i # n + 1
      BY <1>3
    <3> HIDE DEF n, i
    <3>2. i \in 1 .. n /\ ~(i > n)
      BY <3>1
    <3> QED BY <3>2 DEF n, i
  <2>2. offset > DiskSize
    BY <1>3, <2>1 DEF LocateEnd
  <2> DEFINE o == RunAt(v, r, k, loc.run)
             c == Extents(r)[k].runs[loc.run].len * Cluster
  <2>3. o \in Int /\ o + c <= DiskSize /\ o = RunAt(v, r, k, loc.run - 1) + Extents(r)[k].runs[loc.run].off * Cluster
    BY <1>2, <1>3, <2>1, RegularIs
  <2>4. offset = o
    BY <1>3, <1>5, <2>3 DEF offset, RunAt
  <2>5. c \in Nat
    <3>1. loc.run \in 0 .. Len(extent.runs) /\ loc.run > 0
      BY <2>1
    <3> QED BY <1>2, <1>3, <3>1, RunBefore
  <2>6. DiskSize \in Nat /\ o \in Int /\ o + c <= DiskSize
    BY <2>3, ExportAssumption
  <2> HIDE DEF o, c
  <2> QED BY <2>2, <2>4, <2>5, <2>6
<1>7. /\ l = NextExtent(loc.read)
  BY DEF LocateEnd
<1>8. loc.read \in Nat /\ loc.start \in Nat
  BY <1>2 DEF Place
<1>9. /\ l.ext = loc.ext + 1 /\ l.run = 1 /\ l.off = volume.offset /\ l.start = loc.start + loc.read /\ l.read = 0
      /\ l.buf = loc.buf
  BY <1>2, <1>7, <1>8, NextExtentIs
<1>10. Reached(l) = Reached(loc)
  BY <1>8, <1>9 DEF Reached
<1>11. Through(l, r) = Through(loc, r)
  <2>1. Len(Extents(r)) \in Nat
    BY <1>2, RecordType
  <2>2. loc.ext \in 0 .. Len(Extents(r)) /\ loc.ext \in 1 .. Len(Extents(r))
    BY <1>3, <2>1
  <2>3. Through(l, r) = UnitsBefore(r, loc.ext)
    <3>1. loc.ext + 1 \in 1 .. Len(Extents(r)) + 1 /\ (loc.ext + 1) - 1 = loc.ext
      BY <2>1, <2>2
    <3> QED BY <1>2, <1>9, <3>1, ThroughFirst
  <2>4. UnitsBefore(r, loc.ext) = UnitsBefore(r, loc.ext - 1) + SumLen(extent.runs, Len(extent.runs)) * Cluster
    BY <1>2, <1>3, <2>2, UnitsGrow DEF Units
  <2>5. loc.run - 1 = Len(extent.runs)
    <3>1. Len(extent.runs) \in Nat
      BY <1>3
    <3> QED BY <1>6, <3>1
  <2> QED BY <1>3, <2>3, <2>4, <2>5
<1>12. ASSUME AtRuns(l, r)
       PROVE  l.off = v.offset + SumOff(Extents(r)[l.ext].runs, l.run - 1) * Cluster
  <2>1. l.ext \in 1 .. Len(Extents(r))
    <3>1. Len(Extents(r)) \in Nat
      BY <1>2, RecordType
    <3>2. loc.ext + 1 <= Len(Extents(r)) /\ loc.ext + 1 \in Nat /\ loc.ext + 1 >= 1
      BY <1>3, <1>9, <1>12, <3>1 DEF AtRuns
    <3> QED BY <1>9, <3>1, <3>2
  <2>2. RunAt(v, r, l.ext, 0) = v.offset
    BY <1>2, <2>1, RegularIs
  <2>3. l.run - 1 = 0
    BY <1>9
  <2> QED BY <1>9, <2>2, <2>3 DEF RunAt
<1> HIDE DEF r, v, l
<1> QED BY <1>4, <1>9, <1>10, <1>11, <1>12 DEF RunsRead

LEMMA RunRuns ==
  ASSUME IInv, Bounded, ContentRead, LocateRun
  PROVE  RunsRead(loc', volume, record)
PROOF
<1> DEFINE r == record
           v == volume
           l == loc'
           k == loc.ext
           i == loc.run
           R == Reached(loc)
           B == BufferSize(record)
           n == Len(RunData)
           c == extent.runs[loc.run].len * Cluster
           T == Through(loc, record)
<1> SUFFICES ASSUME Regular(v, r) PROVE RunsRead(l, v, r)
  BY DEF RunsRead
<1>1. /\ AtRun /\ (room >= 0 \/ extent.runs[loc.run].len = 0) /\ Locating
      /\ RunData \in Seq(Int) /\ n \in Nat /\ n <= c
      /\ l.ext = k /\ l.run = i + 1 /\ l.off = offset
      /\ Reached(l) = R + n
      /\ l.buf = IF room >= 0 THEN CopyAt(loc.buf, R, RunData) ELSE loc.buf
  BY RunIs DEF AtRun
<1>2. /\ loc # NoFile /\ r \in Record /\ Kinds(r) /\ v.offset \in Nat /\ v.offset % Sector = 0 /\ loc \in Place
      /\ Bound(loc, r) /\ R \in Nat /\ B \in Nat /\ room = B - R /\ Len(loc.buf) = B
  <2>1. /\ loc # NoFile /\ r \in Record /\ Kinds(r) /\ v.offset \in Nat /\ v.offset % Sector = 0 /\ loc \in Place
        /\ Bound(loc, r) /\ R \in Nat /\ B \in Nat /\ room = B - R
    BY <1>1, WhileLocating
  <2> QED BY <2>1 DEF Bound, Reading
<1>3. /\ extent = Extents(r)[k] /\ k \in 1 .. Len(Extents(r)) /\ AtRuns(loc, r) /\ i \in 1 .. Len(Extents(r)[k].runs)
      /\ extent.runs[i].len \in Nat /\ extent.runs[i].off \in Int /\ c \in Nat
  BY <1>1, RegularAt, WhileAtRun
<1>4. RunsRead(loc, v, r)
  BY <1>2 DEF ContentRead
<1>5. loc.off = RunAt(v, r, k, i - 1) /\ (R = T \/ B <= R)
  BY <1>3, <1>4 DEF RunsRead, RunAt
<1>6. /\ offset = RunAt(v, r, k, i) /\ (n = c \/ n = room)
      /\ \A w \in 0 .. n - 1 : RunData[w + 1] = RunUnit(v, extent.runs, i, w)
  BY <1>1, <1>5, RunDataExact
<1>7. /\ T = UnitsBefore(r, k - 1) + SumLen(extent.runs, i - 1) * Cluster
      /\ Through(l, r) = T + c /\ T \in Nat /\ AtRuns(l, r)
  <2>1. T = UnitsBefore(r, k - 1) + SumLen(extent.runs, i - 1) * Cluster
    BY <1>1, RegularAt
  <2>2. AtRuns(l, r)
    BY <1>1, <1>3 DEF AtRuns
  <2>3. Through(l, r) = UnitsBefore(r, k - 1) + SumLen(extent.runs, i) * Cluster
    <3>1. l.run - 1 = i
      BY <1>1, <1>3
    <3> QED BY <1>1, <1>3, <2>2, <3>1 DEF Through
  <2> DEFINE U == UnitsBefore(r, k - 1)
             a == SumLen(extent.runs, i - 1) * Cluster
             b == SumLen(extent.runs, i) * Cluster
  <2>4. i \in 0 .. Len(Extents(r)[k].runs) /\ i > 0 /\ i - 1 \in 0 .. Len(Extents(r)[k].runs)
    BY <1>3
  <2>5. U \in Nat /\ b = a + c
    BY <1>2, <1>3, <2>4, RunBefore
  <2>6. a \in Nat
    BY <1>2, <1>3, <2>4, RunBefore
  <2> HIDE DEF U, a, b, c
  <2>7. T = U + a /\ Through(l, r) = U + b
    BY <2>1, <2>3 DEF U, a, b
  <2> DEFINE Y == Through(l, r)
  <2>8. c \in Nat
    BY <1>3 DEF c
  <2>9. Y = T + c /\ T \in Nat
    <3> HIDE DEF T, Y
    <3> QED BY <2>5, <2>6, <2>7, <2>8 DEF Y
  <2> HIDE DEF T
  <2> QED BY <2>1, <2>2, <2>9 DEF c
<1>8. Reached(l) = Through(l, r) \/ B <= Reached(l)
  <2> DEFINE S == Reached(l)
             Q == Through(l, r)
             m == room
  <2>1. S = R + n /\ Q = T + c /\ R \in Nat /\ B \in Nat /\ n \in Nat /\ c \in Nat /\ m = B - R
    BY <1>1, <1>2, <1>3, <1>7
  <2>2. (R = T \/ B <= R) /\ (n = c \/ n = m)
    BY <1>5, <1>6
  <2>4. T \in Nat
    BY <1>7
  <2> HIDE DEF c, T, R, B, n, S, Q, m
  <2>3. S = Q \/ B <= S
    BY <2>1, <2>2, <2>4
  <2> QED BY <2>3 DEF S, Q
<1>9. l.off = v.offset + SumOff(Extents(r)[l.ext].runs, l.run - 1) * Cluster
  <2>1. l.run - 1 = i
    BY <1>1, <1>3
  <2> QED BY <1>1, <1>6, <2>1 DEF RunAt
<1>10. ASSUME NEW j \in 1 .. Len(Extents(r)), NEW h \in 1 .. Len(Extents(r)[j].runs),
              NEW w \in 0 .. Extents(r)[j].runs[h].len * Cluster - 1,
              UnitOf(r, j, h, w) < Reached(l), UnitOf(r, j, h, w) < B
       PROVE  l.buf[UnitOf(r, j, h, w) + 1] = RunUnit(v, Extents(r)[j].runs, h, w)
  <2> DEFINE u == UnitOf(r, j, h, w)
  <2>1. u \in Nat
    BY <1>2, UnitBounds
  <2>2. ASSUME u < R PROVE loc.buf[u + 1] = RunUnit(v, Extents(r)[j].runs, h, w)
    BY <1>4, <1>10, <2>2 DEF RunsRead
  <2>3. CASE room < 0
    <3>1. u < R
      BY <1>2, <1>10, <2>1, <2>3
    <3>2. l.buf = loc.buf
      BY <1>1, <1>2, <2>3
    <3> QED BY <2>2, <3>1, <3>2
  <2>4. CASE room >= 0
    <3>1. R \in 0 .. Len(loc.buf) /\ loc.buf \in Seq(Int)
      BY <1>2, <2>4 DEF Place
    <3>2. CopyOf(l.buf, loc.buf, R, RunData)
      BY <1>1, <2>4, <3>1, Copied
    <3>3. u \in 0 .. Len(loc.buf) - 1
      BY <1>2, <1>10, <2>1
    <3>4. l.buf[u + 1] = IF R <= u /\ u < R + n THEN RunData[u - R + 1] ELSE loc.buf[u + 1]
      BY <3>2, <3>3 DEF CopyOf
    <3>5. CASE u < R
      <4>1. ~(R <= u)
        BY <1>2, <2>1, <3>5
      <4> QED BY <2>2, <3>4, <3>5, <4>1
    <3>6. CASE R <= u
      <4>1. R = T /\ u < R + n
        <5>1. ~(B <= R)
          BY <1>2, <1>10, <2>1, <3>6
        <5> QED BY <1>1, <1>5, <1>10, <5>1
      <4> DEFINE x == u - R
      <4>2. x \in 0 .. c - 1 /\ x \in 0 .. n - 1
        <5>1. u \in Nat /\ R \in Nat /\ n \in Nat /\ c \in Nat /\ n <= c /\ R <= u /\ u < R + n
          BY <1>1, <1>2, <1>3, <2>1, <3>6, <4>1
        <5> HIDE DEF u, R, c, n
        <5> QED BY <5>1
      <4>3. UnitOf(r, k, i, x) = u
        <5>1. UnitOf(r, k, i, x) = T + x
          BY <1>3, <1>7 DEF UnitOf
        <5> HIDE DEF u, R, T
        <5> QED BY <1>2, <2>1, <4>1, <5>1 DEF x
      <4>4. x \in 0 .. Extents(r)[k].runs[i].len * Cluster - 1
        BY <1>3, <4>2
      <4>5. j = k /\ h = i /\ w = x
        <5>1. UnitOf(r, j, h, w) = UnitOf(r, k, i, x) /\ r \in Record /\ Kinds(r)
          BY <1>2, <4>3
        <5>2. InRun(r, j, h, w) /\ InRun(r, k, i, x)
          BY <1>3, <1>10, <4>4 DEF InRun
        <5> HIDE DEF x, u, r, k, i
        <5> QED BY <5>1, <5>2, UniqueUnit
      <4>6. RunData[x + 1] = RunUnit(v, extent.runs, i, x)
        BY <1>6, <4>2
      <4> QED BY <1>3, <3>4, <3>6, <4>1, <4>5, <4>6
    <3> QED BY <1>2, <2>1, <3>5, <3>6
  <2> QED BY <1>2, <2>3, <2>4
<1> HIDE DEF l, v, r
<1> QED BY <1>8, <1>9, <1>10 DEF RunsRead, B, r, l, v

LEMMA RunOfIs ==
  ASSUME NEW r \in Record, Kinds(r), NEW u \in Nat, u < UnitsBefore(r, Len(Extents(r)))
  PROVE  \E k, i, w : /\ InRun(r, k, i, w) /\ UnitOf(r, k, i, w) = u
                      /\ RunOf(r, u) = [runs |-> Extents(r)[k].runs, idx |-> i, unit |-> w]
PROOF
<1> DEFINE N == Len(Extents(r))
           Has(j) == UnitsBefore(r, j - 1) <= u /\ u < UnitsBefore(r, j)
           k == CHOOSE j \in 1 .. N : Has(j)
           g == Extents(r)[k].runs
           x == u - UnitsBefore(r, k - 1)
           q == x \div Cluster
           Holds(j) == SumLen(g, j - 1) <= q /\ q < SumLen(g, j)
           i == CHOOSE j \in 1 .. Len(g) : Holds(j)
           w == x - SumLen(g, i - 1) * Cluster
<1>1. N \in Nat
  BY RecordType
<1>2. k \in 1 .. N /\ Has(k)
  <2> DEFINE s == [j \in 0 .. N |-> UnitsBefore(r, j)]
  <2>1. (\A j \in 0 .. N : s[j] \in Int) /\ s[0] <= u /\ u < s[N]
    <3>1. 0 \in 0 .. N /\ N \in 0 .. N
      BY <1>1
    <3> QED BY <3>1, UnitsGrow
  <2> HIDE DEF s, N
  <2>2. \E j \in 1 .. N : s[j - 1] <= u /\ u < s[j]
    <3>1. u \in Int /\ N \in Nat
      BY <1>1
    <3> QED BY <2>1, <3>1, Passes
  <2>3. PICK j \in 1 .. N : s[j - 1] <= u /\ u < s[j]
    BY <2>2
  <2>4. Has(j)
    <3>1. j - 1 \in 0 .. N /\ j \in 0 .. N
      BY <1>1, <2>3
    <3> QED BY <2>3, <3>1 DEF s
  <2> HIDE DEF Has
  <2> QED BY <2>3, <2>4
<1>3. g \in Seq(Run) /\ UnitsBefore(r, k - 1) \in Nat /\ UnitsBefore(r, k) = UnitsBefore(r, k - 1) + SumLen(g, Len(g)) * Cluster
  <2>1. k - 1 \in 0 .. N
    BY <1>1, <1>2
  <2> HIDE DEF k
  <2>2. k \in 1 .. Len(Extents(r)) /\ k - 1 \in 0 .. Len(Extents(r))
    BY <1>2, <2>1
  <2>3. g \in Seq(Run)
    BY <2>2, RecordType
  <2>4. UnitsBefore(r, k - 1) \in Nat
    BY <2>2, UnitsGrow
  <2>5. UnitsBefore(r, k) = UnitsBefore(r, k - 1) + Units(Extents(r)[k])
    BY <2>2, UnitsGrow
  <2> QED BY <2>3, <2>4, <2>5 DEF Units
<1>4. Cluster \in Nat \ {0}
  BY ExportAssumption
<1> HIDE DEF k
<1>5. x \in Nat /\ x < SumLen(g, Len(g)) * Cluster
  <2> DEFINE a == UnitsBefore(r, k - 1)
             b == SumLen(g, Len(g)) * Cluster
  <2>1. a <= u /\ u < a + b /\ a \in Nat
    BY <1>2, <1>3
  <2>2. b \in Int
    <3>1. Len(g) \in 0 .. Len(g)
      BY <1>3
    <3> HIDE DEF g
    <3>2. SumLen(g, Len(g)) \in Nat
      BY <1>3, <3>1, SumLenGrows
    <3> QED BY <1>4, <3>2
  <2> HIDE DEF a, b
  <2>3. u - a \in Nat /\ u - a < b
    BY <2>1, <2>2
  <2> QED BY <2>3 DEF a, b
<1> HIDE DEF x, g
<1>6. q \in Nat /\ q * Cluster <= x /\ x < q * Cluster + Cluster
  BY <1>4, <1>5, Quotient
<1> HIDE DEF q
<1>7. /\ Len(g) \in Nat /\ SumLen(g, 0) = 0
      /\ \A j \in 0 .. Len(g) : SumLen(g, j) \in Nat
      /\ \A j \in 1 .. Len(g) : g[j].len \in Nat /\ SumLen(g, j) = SumLen(g, j - 1) + g[j].len
  BY <1>3, SumLenGrows
<1>8. q < SumLen(g, Len(g))
  <2> DEFINE m == SumLen(g, Len(g))
  <2>1. m \in Nat
    <3>1. Len(g) \in 0 .. Len(g)
      BY <1>7
    <3> QED BY <1>7, <3>1
  <2> HIDE DEF m
  <2>2. ASSUME m <= q PROVE m * Cluster <= q * Cluster
    BY <1>4, <1>6, <2>1, <2>2, TimesGrows
  <2>3. m * Cluster \in Int /\ q * Cluster \in Int
    BY <1>4, <1>6, <2>1
  <2>4. x < m * Cluster
    BY <1>5 DEF m
  <2>5. ~(m <= q)
    BY <1>5, <1>6, <2>2, <2>3, <2>4
  <2> QED BY <1>6, <2>1, <2>5 DEF m
<1>9. i \in 1 .. Len(g) /\ Holds(i)
  <2> DEFINE M == Len(g)
             s == [j \in 0 .. M |-> SumLen(g, j)]
  <2>1. (\A j \in 0 .. M : s[j] \in Int) /\ s[0] <= q /\ q < s[M] /\ M \in Nat /\ q \in Int
    <3>1. 0 \in 0 .. M /\ M \in 0 .. M
      BY <1>7
    <3> QED BY <1>6, <1>7, <1>8, <3>1
  <2> HIDE DEF s
  <2>2. \E j \in 1 .. M : s[j - 1] <= q /\ q < s[j]
    <3> HIDE DEF M
    <3> QED BY <2>1, Passes
  <2>3. PICK j \in 1 .. M : s[j - 1] <= q /\ q < s[j]
    BY <2>2
  <2>4. Holds(j)
    <3>1. j - 1 \in 0 .. M /\ j \in 0 .. M
      BY <1>7, <2>3
    <3> QED BY <2>3, <3>1 DEF s
  <2> HIDE DEF Holds
  <2> QED BY <2>3, <2>4
<1>10. RunOf(r, u) = [runs |-> g, idx |-> i, unit |-> w]
  BY DEF RunOf, k, g, x, q
<1> HIDE DEF i
<1>11. InRun(r, k, i, w) /\ UnitOf(r, k, i, w) = u
  <2> DEFINE S == SumLen(g, i - 1)
             T == SumLen(g, i)
             n == g[i].len
  <2>1. S \in Nat /\ T \in Nat /\ n \in Nat /\ T = S + n /\ S <= q /\ q + 1 <= T
    <3>1. i - 1 \in 0 .. Len(g) /\ i \in 0 .. Len(g) /\ i \in 1 .. Len(g)
      BY <1>7, <1>9
    <3>2. S \in Nat /\ T \in Nat /\ n \in Nat /\ T = S + n
      BY <1>7, <3>1
    <3> HIDE DEF S, T, n
    <3>3. S <= q /\ q < T
      BY <1>9 DEF S, T
    <3> QED BY <1>6, <3>2, <3>3
  <2> HIDE DEF S, T, n
  <2>2. S * Cluster <= q * Cluster /\ (q + 1) * Cluster <= T * Cluster
    <3>1. q + 1 \in Nat
      BY <1>6
    <3> QED BY <1>4, <1>6, <2>1, <3>1, TimesGrows
  <2>3. (q + 1) * Cluster = q * Cluster + Cluster /\ T * Cluster = S * Cluster + n * Cluster
        /\ S * Cluster \in Int /\ q * Cluster \in Int /\ n * Cluster \in Int /\ Cluster \in Int
    <3>1. (q + 1) * Cluster = q * Cluster + 1 * Cluster
      BY <1>4, <1>6, Distributes
    <3>2. T * Cluster = S * Cluster + n * Cluster
      BY <1>4, <2>1, Distributes
    <3> QED BY <1>4, <1>6, <2>1, <3>1, <3>2
  <2>4. w = x - S * Cluster
    BY DEF S
  <2> DEFINE sc == S * Cluster
             qc == q * Cluster
             nc == n * Cluster
             tc == T * Cluster
             qd == (q + 1) * Cluster
  <2>5. /\ sc \in Int /\ qc \in Int /\ nc \in Int /\ Cluster \in Int /\ x \in Int /\ sc <= qc /\ qd <= tc
        /\ qd = qc + Cluster /\ tc = sc + nc /\ w = x - sc /\ qc <= x /\ x < qc + Cluster
    BY <1>5, <1>6, <2>2, <2>3, <2>4
  <2> HIDE DEF sc, qc, nc, tc, qd
  <2>6. w \in 0 .. nc - 1 /\ sc + w = x
    <3> HIDE DEF w
    <3> QED BY <2>5
  <2>7. InRun(r, k, i, w)
    <3>1. nc = Extents(r)[k].runs[i].len * Cluster
      BY DEF nc, n, g
    <3>2. i \in 1 .. Len(Extents(r)[k].runs)
      BY <1>9 DEF g
    <3> HIDE DEF w
    <3> QED BY <1>2, <2>6, <3>1, <3>2 DEF InRun
  <2>8. UnitOf(r, k, i, w) = u
    <3> DEFINE U == UnitsBefore(r, k - 1)
    <3>1. U \in Nat /\ x = u - U
      BY <1>3 DEF x
    <3>2. UnitOf(r, k, i, w) = U + sc + w
      BY DEF UnitOf, sc, S, g
    <3> HIDE DEF U, w
    <3> QED BY <2>5, <2>6, <3>1, <3>2
  <2> QED BY <2>7, <2>8
<1> QED BY <1>10, <1>11 DEF g

(* The content that is sent.                                               *)
LEMMA SentContent ==
  ASSUME IInv, Bounded, Working, loc # NoFile
  PROVE  /\ record \in Record /\ Kinds(record) /\ volume \in Volume /\ volume.offset \in Nat /\ volume.offset % Sector = 0
         /\ Bound(loc, record) /\ loc \in Place
         /\ record.lsize \in Nat /\ BufferSize(record) \in Nat /\ record.lsize <= BufferSize(record)
         /\ Len(SubSeq(loc.buf, 1, record.lsize)) = record.lsize
         /\ \A u \in 0 .. record.lsize - 1 : SubSeq(loc.buf, 1, record.lsize)[u + 1] = loc.buf[u + 1]
PROOF
<1>1. order # <<>> /\ rpos <= Len(records)
  BY DEF Working, IInv, Position
<1>2. record \in Record /\ Kinds(record) /\ volume \in Volume /\ volume.offset \in Nat /\ volume.offset % Sector = 0
  BY <1>1, AtHand
<1>3. Bound(loc, record) /\ loc \in Place /\ Len(loc.buf) = BufferSize(record)
  BY DEF Bounded, Bound, Reading
<1>4. record.lsize \in Nat /\ BufferSize(record) \in Nat /\ record.lsize <= BufferSize(record)
  BY <1>2, BufferSizeHolds
<1>5. loc.buf \in Seq(Int)
  BY <1>3 DEF Place
<1> DEFINE n == record.lsize
           b == loc.buf
<1> HIDE DEF n, b
<1>6. b \in Seq(Int) /\ n \in Nat /\ n <= Len(b)
  BY <1>3, <1>4, <1>5 DEF n, b
<1>7. Len(SubSeq(b, 1, n)) = n /\ \A i \in 1 .. n : SubSeq(b, 1, n)[i] = b[i]
  <2>1. \A i \in 1 .. n : b[i] \in Int
    BY <1>6
  <2>2. 1 <= n \/ n = 0
    BY <1>6
  <2> QED BY <1>6, <2>1, <2>2, SubSeqProperties
<1>8. \A u \in 0 .. n - 1 : SubSeq(b, 1, n)[u + 1] = b[u + 1]
  <2>1. \A u \in 0 .. n - 1 : u + 1 \in 1 .. n
    BY <1>6
  <2> QED BY <1>7, <2>1
<1> QED BY <1>2, <1>3, <1>4, <1>7, <1>8 DEF n, b

LEMMA RunsSent ==
  ASSUME IInv, Bounded, ContentRead, SendFile
  PROVE  RunsTrue(volume, record, SubSeq(loc.buf, 1, record.lsize))
PROOF
<1> DEFINE r == record
           v == volume
           t == SubSeq(loc.buf, 1, record.lsize)
           B == BufferSize(r)
<1> SUFFICES ASSUME Regular(v, r) PROVE RunsTrue(v, r, t)
  BY DEF RunsTrue
<1>1. Working /\ loc # NoFile /\ AllRead
  BY DEF SendFile
<1>2. /\ r \in Record /\ Kinds(r) /\ v.offset \in Nat /\ v.offset % Sector = 0 /\ Bound(loc, r) /\ loc \in Place
      /\ r.lsize \in Nat /\ B \in Nat /\ r.lsize <= B
      /\ \A u \in 0 .. r.lsize - 1 : t[u + 1] = loc.buf[u + 1]
  BY <1>1, SentContent
<1> HIDE DEF t
<1>3. RunsRead(loc, v, r)
  BY <1>1 DEF ContentRead
<1> HIDE DEF r, v, B
<1>4. UnitsBefore(r, Len(Extents(r))) >= r.lsize /\ UnitsBefore(r, Len(Extents(r))) \in Nat /\ Len(Extents(r)) \in Nat
  <2>1. Len(Extents(r)) \in Nat
    BY <1>2, RecordType
  <2>2. Len(Extents(r)) \in 0 .. Len(Extents(r))
    BY <2>1
  <2>3. UnitsBefore(r, Len(Extents(r))) \in Nat
    BY <1>2, <2>2, UnitsGrow
  <2> QED BY <1>2, <2>1, <2>3, RegularIs
<1>5. Reached(loc) >= r.lsize
  <2>1. loc.start \in Nat /\ loc.read \in Nat /\ loc.ext \in Nat \ {0}
    BY <1>2 DEF Place
  <2>2. CASE loc.ext > Len(Extents(r))
    <3>1. loc.ext = Len(Extents(r)) + 1
      <4>1. loc.ext <= Len(Extents(r)) + 1
        BY <1>2 DEF Bound, Reading
      <4> QED BY <1>4, <2>1, <2>2, <4>1
    <3>2. ~AtRuns(loc, r) /\ loc.ext - 1 = Len(Extents(r))
      BY <1>4, <2>1, <2>2, <3>1 DEF AtRuns
    <3>3. Through(loc, r) = UnitsBefore(r, Len(Extents(r)))
      BY <1>4, <3>2 DEF Through
    <3>4. Reached(loc) = Through(loc, r) \/ B <= Reached(loc)
      BY <1>3 DEF RunsRead, B
    <3>5. Reached(loc) \in Nat
      BY <2>1 DEF Reached
    <3> QED BY <1>2, <1>4, <3>3, <3>4, <3>5
  <2>3. CASE loc.start >= r.lsize
    BY <1>2, <2>1, <2>3 DEF Reached
  <2> QED BY <1>1, <2>2, <2>3 DEF AllRead, r, record
<1>6. ASSUME NEW u \in 0 .. r.lsize - 1
      PROVE  t[u + 1] = FileUnit(r, v.offset, u) <=> ~Misread(v, r, u)
  <2>1. u \in Nat /\ u < r.lsize
    BY <1>2
  <2>2. u < UnitsBefore(r, Len(Extents(r)))
    BY <1>2, <1>4, <2>1
  <2>3. PICK k, i, w : /\ InRun(r, k, i, w) /\ UnitOf(r, k, i, w) = u
                       /\ RunOf(r, u) = [runs |-> Extents(r)[k].runs, idx |-> i, unit |-> w]
    BY <1>2, <2>1, <2>2, RunOfIs
  <2>4. /\ k \in 1 .. Len(Extents(r)) /\ i \in 1 .. Len(Extents(r)[k].runs)
        /\ w \in 0 .. Extents(r)[k].runs[i].len * Cluster - 1
    BY <2>3 DEF InRun
  <2> DEFINE g == Extents(r)[k].runs
  <2>5. t[u + 1] = RunUnit(v, g, i, w)
    <3>1. Reached(loc) \in Nat
      <4>1. loc.start \in Nat /\ loc.read \in Nat
        BY <1>2 DEF Place
      <4> QED BY <4>1 DEF Reached
    <3>2. UnitOf(r, k, i, w) < Reached(loc) /\ UnitOf(r, k, i, w) < BufferSize(r)
      BY <1>2, <1>5, <2>1, <2>3, <3>1 DEF B
    <3>3. loc.buf[UnitOf(r, k, i, w) + 1] = RunUnit(v, g, i, w)
      BY <1>3, <2>4, <3>2 DEF RunsRead
    <3> QED BY <1>2, <2>3, <3>3
  <2>6. /\ RunOf(r, u).runs = g /\ RunOf(r, u).idx = i /\ RunOf(r, u).unit = w
    BY <2>3
  <2> DEFINE o == v.offset + SumOff(g, i) * Cluster
             off == g[i].off
  <2>7. FileUnit(r, v.offset, u) = IF g[i].hole THEN Zero ELSE o + w
    BY <2>6 DEF FileUnit
  <2>8. Misread(v, r, u) <=> ~g[i].hole /\ (off = 0 \/ (v.cbc /\ w > 0 /\ w % Sector = 0))
    BY <2>6 DEF Misread
  <2>9. RunUnit(v, g, i, w) = IF off = 0 THEN Zero ELSE IF v.cbc /\ w > 0 /\ w % Sector = 0 THEN Noise ELSE o + w
    BY DEF RunUnit
  <2>10. g[i].hole => off = 0
    <3>1. g \in Seq(Run)
      BY <1>2, <2>4, RecordType
    <3>2. g[i] \in Run
      BY <2>4, <3>1
    <3> QED BY <3>2 DEF Run
  <2>11. o \in Int /\ 0 <= o /\ w \in Int /\ 0 <= w
    <3>1. o = RunAt(v, r, k, i)
      BY DEF RunAt
    <3>2. RunAt(v, r, k, i) \in Int /\ 0 <= RunAt(v, r, k, i)
      BY <1>2, <2>4, RegularIs
    <3>3. w \in Int /\ 0 <= w
      BY <2>4
    <3> QED BY <3>1, <3>2, <3>3
  <2> DEFINE noise == v.cbc /\ w > 0 /\ w % Sector = 0
             hole == g[i].hole
             y == o + w
             a == t[u + 1]
             f == FileUnit(r, v.offset, u)
             m == Misread(v, r, u)
  <2>12. /\ f = IF hole THEN Zero ELSE y
         /\ a = IF off = 0 THEN Zero ELSE IF noise THEN Noise ELSE y
         /\ (m <=> ~hole /\ (off = 0 \/ noise)) /\ (hole => off = 0)
    BY <2>5, <2>7, <2>8, <2>9, <2>10
  <2>13. y # Zero /\ y # Noise
    <3> HIDE DEF o
    <3> QED BY <2>11 DEF Zero, Noise
  <2> HIDE DEF noise, hole, y, a, f, m, off
  <2>14. a = f <=> ~m
    BY <2>12, <2>13
  <2> QED BY <2>14 DEF a, f, m
<1>7. \A u \in 0 .. r.lsize - 1 : t[u + 1] = FileUnit(r, v.offset, u) <=> ~Misread(v, r, u)
  BY <1>6
<1> QED BY <1>7 DEF RunsTrue
-----------------------------------------------------------------------------
(* BTRFS files of sound extents.                                           *)

SoundAt(v, x) ==
  /\ x \in Item /\ x.len > 0 /\ (x.addr = 0 => x.off = 0)
  /\ x.addr # 0 => /\ Placed(v, x) \in Nat
                   /\ \E c \in v.chunks : ChunksOf(v, x) = {c} /\ Placed(v, x) = v.offset + c.stripe + x.addr - c.key + x.off
  /\ x.addr = 0 => \A c \in ChunksOf(v, x) : v.offset + c.stripe - c.key <= DiskSize

Apart(xs) == \A k, m \in 1 .. Len(xs) : k < m => xs[k].at + xs[k].len <= xs[m].at
HolesAlone(xs) == \A k, m \in 1 .. Len(xs) : xs[k].addr = 0 => ~Joined(xs[k], xs[m])

Holds(x, u) == x.at <= u /\ u < x.at + x.len

SoundIn(v, xs) == (\A k \in 1 .. Len(xs) : SoundAt(v, xs[k])) /\ Apart(xs) /\ HolesAlone(xs)

LEMMA SoundItem ==
  ASSUME NEW v \in Volume, NEW items \in Seq(Item), Sound(v, items), NEW k \in DOMAIN items
  PROVE  SoundAt(v, items[k])
PROOF
<1> DEFINE x == items[k]
<1>1. x \in Item
  OBVIOUS
<1>2. /\ x.len > 0 /\ (x.addr = 0 => x.off = 0)
      /\ x.addr # 0 => \E c \in v.chunks : ChunksOf(v, x) = {c}
      /\ x.addr = 0 => \A c \in ChunksOf(v, x) : v.offset + c.stripe - c.key <= DiskSize
  BY DEF Sound
<1> HIDE DEF x
<1>3. x.addr \in Nat /\ x.off \in Nat
  BY <1>1 DEF Item
<1>4. ASSUME x.addr # 0
      PROVE  /\ Placed(v, x) \in Nat
             /\ \E c \in v.chunks : ChunksOf(v, x) = {c} /\ Placed(v, x) = v.offset + c.stripe + x.addr - c.key + x.off
  <2>1. PICK c \in v.chunks : ChunksOf(v, x) = {c}
    BY <1>2, <1>4
  <2>2. (CHOOSE d \in ChunksOf(v, x) : TRUE) = c
    BY <2>1
  <2>3. Placed(v, x) = v.offset + c.stripe + x.addr - c.key + x.off
    BY <2>2 DEF Placed
  <2>4. c.key <= x.addr
    BY <2>1 DEF ChunksOf
  <2>5. v.offset \in Nat /\ c \in Chunk
    BY DEF Volume
  <2>6. c.stripe \in Nat /\ c.key \in Nat
    BY <2>5 DEF Chunk
  <2>7. Placed(v, x) \in Nat
    BY <1>3, <2>3, <2>4, <2>5, <2>6
  <2> QED BY <2>1, <2>3, <2>7
<1>5. SoundAt(v, x)
  BY <1>1, <1>2, <1>4 DEF SoundAt
<1> QED BY <1>5 DEF x

LEMMA JoinedIs == \A x, y : Joined(x, y) <=> Continues(x, y)
PROOF
BY DEF Joined, Continues

(* The extents by file offset are the items, and lie apart.                *)
LEMMA SoundItems ==
  ASSUME NEW v \in Volume, NEW items \in Seq(Item), Sound(v, items), NEW xs \in Seq(Item), NEW p, Sorted(xs, items, p)
  PROVE  /\ SoundIn(v, xs)
         /\ \A k \in DOMAIN items : \E i \in 1 .. Len(xs) : xs[i] = items[k]
         /\ \A i \in 1 .. Len(xs) : \E k \in DOMAIN items : xs[i] = items[k]
PROOF
<1>1. /\ p \in [1 .. Len(xs) -> DOMAIN items] /\ Len(xs) \in Nat
      /\ \A i \in 1 .. Len(xs) : xs[i] = items[p[i]] /\ p[i] \in DOMAIN items
      /\ \A i, j \in 1 .. Len(xs) : i < j => xs[i].at < xs[j].at
      /\ (\A k, j \in DOMAIN items : k # j => items[k].at # items[j].at) =>
           \A k \in DOMAIN items : \E i \in 1 .. Len(xs) : p[i] = k
  BY DEF Sorted
<1>2. \A k \in DOMAIN items : SoundAt(v, items[k])
  BY SoundItem
<1>3. \A i \in 1 .. Len(xs) : SoundAt(v, xs[i])
  BY <1>1, <1>2
<1>4. \A k \in DOMAIN items : items[k].at \in Nat /\ items[k].len \in Nat /\ items[k].len > 0
  <2>1. ASSUME NEW k \in DOMAIN items PROVE items[k].at \in Nat /\ items[k].len \in Nat /\ items[k].len > 0
    <3>1. items[k] \in Item /\ items[k].len > 0
      BY <1>2 DEF SoundAt
    <3> QED BY <3>1 DEF Item
  <2> QED BY <2>1
<1>5. \A k, j \in DOMAIN items :
        k # j => items[k].at + items[k].len <= items[j].at \/ items[j].at + items[j].len <= items[k].at
  BY DEF Sound
<1>6. \A k, j \in DOMAIN items : k # j => items[k].at # items[j].at
  <2> SUFFICES ASSUME NEW k \in DOMAIN items, NEW j \in DOMAIN items, k # j, items[k].at = items[j].at PROVE FALSE
    OBVIOUS
  <2> DEFINE a == items[k].at
             m == items[k].len
             n == items[j].len
  <2>1. a \in Nat /\ m \in Nat /\ m > 0 /\ n \in Nat /\ n > 0
    BY <1>4
  <2>2. a + m <= a \/ a + n <= a
    BY <1>5
  <2> HIDE DEF a, m, n
  <2> QED BY <2>1, <2>2
<1>7. Apart(xs)
  <2> SUFFICES ASSUME NEW k \in 1 .. Len(xs), NEW m \in 1 .. Len(xs), k < m
               PROVE  xs[k].at + xs[k].len <= xs[m].at
    BY DEF Apart
  <2>1. xs[k].at < xs[m].at /\ xs[k] = items[p[k]] /\ xs[m] = items[p[m]] /\ p[k] \in DOMAIN items /\ p[m] \in DOMAIN items
    BY <1>1
  <2>2. xs[k].at \in Nat /\ xs[k].len \in Nat /\ xs[m].at \in Nat /\ xs[m].len \in Nat
    BY <1>4, <2>1
  <2>3. p[k] # p[m]
    BY <2>1, <2>2
  <2>4. xs[k].at + xs[k].len <= xs[m].at \/ xs[m].at + xs[m].len <= xs[k].at
    BY <1>5, <2>1, <2>3
  <2> DEFINE a == xs[k].at
             b == xs[m].at
             d == xs[k].len
             e == xs[m].len
  <2>5. a \in Nat /\ b \in Nat /\ d \in Nat /\ e \in Nat /\ a < b /\ (a + d <= b \/ b + e <= a)
    BY <2>1, <2>2, <2>4
  <2> HIDE DEF a, b, d, e
  <2>6. a + d <= b
    BY <2>5
  <2> QED BY <2>6 DEF a, b, d
<1>8. HolesAlone(xs)
  <2>1. \A k, j \in DOMAIN items : items[k].addr = 0 => ~Joined(items[k], items[j])
    <3>1. \A k, j \in DOMAIN items : items[k].addr = 0 => ~Continues(items[k], items[j])
      BY DEF Sound
    <3> QED BY <3>1, JoinedIs
  <2> QED BY <1>1, <2>1 DEF HolesAlone
<1>9. \A k \in DOMAIN items : \E i \in 1 .. Len(xs) : xs[i] = items[k]
  BY <1>1, <1>6
<1> QED BY <1>1, <1>3, <1>7, <1>8, <1>9 DEF SoundIn

(* Extents that lie apart do not begin before the sum of those before.     *)
LEMMA SumsBelow ==
  ASSUME NEW v, NEW xs \in Seq(Item), SoundIn(v, xs), NEW k \in 1 .. Len(xs)
  PROVE  SumLen(xs, k - 1) <= xs[k].at
PROOF
<1> DEFINE N == Len(xs)
           I == {n \in 0 .. N - 1 : SumLen(xs, n) <= xs[n + 1].at}
<1>1. /\ N \in Nat /\ SumLen(xs, 0) = 0 /\ (\A n \in 0 .. N : SumLen(xs, n) \in Nat)
      /\ \A n \in 1 .. N : SumLen(xs, n) = SumLen(xs, n - 1) + xs[n].len
  BY SumLenGrows
<1>2. \A n \in 1 .. N : xs[n].at \in Nat /\ xs[n].len \in Nat
  <2>1. \A n \in 1 .. N : xs[n] \in Item
    OBVIOUS
  <2> QED BY <2>1 DEF Item
<1>3. 0 \in I
  <2>1. 1 \in 1 .. N /\ 0 \in 0 .. N - 1 /\ 0 + 1 = 1
    BY <1>1
  <2> QED BY <1>1, <1>2, <2>1
<1>4. ASSUME NEW n \in 0 .. (N - 1) - 1, n \in I PROVE n + 1 \in I
  <2>1. /\ n + 1 \in 1 .. N /\ n + 2 \in 1 .. N /\ (n + 1) - 1 = n /\ (n + 1) + 1 = n + 2 /\ n + 1 \in 0 .. N - 1
        /\ n + 1 < n + 2 /\ n \in 0 .. N
    BY <1>1
  <2>2. SumLen(xs, n + 1) = SumLen(xs, n) + xs[n + 1].len
    BY <1>1, <2>1
  <2>3. xs[n + 1].at + xs[n + 1].len <= xs[n + 2].at
    BY <2>1 DEF SoundIn, Apart
  <2>4. SumLen(xs, n) <= xs[n + 1].at
    BY <1>4
  <2>5. SumLen(xs, n + 1) <= xs[n + 2].at
    <3> DEFINE a == SumLen(xs, n)
               b == xs[n + 1].at
               c == xs[n + 1].len
               d == xs[n + 2].at
    <3>1. a \in Nat /\ b \in Nat /\ c \in Nat /\ d \in Nat
      BY <1>1, <1>2, <2>1
    <3>2. a <= b /\ b + c <= d
      BY <2>3, <2>4
    <3> HIDE DEF a, b, c, d
    <3>3. a + c <= d
      BY <3>1, <3>2
    <3> QED BY <2>2, <3>3 DEF a, c, d
  <2> QED BY <2>1, <2>5
<1>5. 0 .. N - 1 \subseteq I
  <2> DEFINE M == N - 1
  <2>1. M \in Nat
    BY <1>1
  <2>2. 0 \in I /\ \A n \in 0 .. M - 1 : n \in I => n + 1 \in I
    BY <1>3, <1>4
  <2> HIDE DEF I, M
  <2>3. 0 .. M \subseteq I
    BY <2>1, <2>2, BoundedInduction
  <2> QED BY <2>3 DEF M
<1>6. k - 1 \in 0 .. N - 1 /\ (k - 1) + 1 = k
  BY <1>1
<1> QED BY <1>5, <1>6

(* The unit of a file that an extent holds, and one that none holds.       *)
LEMMA UnitHeld ==
  ASSUME NEW v \in Volume, NEW items \in Seq(Item), Sound(v, items), NEW u \in Nat
  PROVE  /\ \A k \in DOMAIN items : Holds(items[k], u) =>
              ExtentUnit(v, items, u) = IF items[k].addr = 0 \/ items[k].form = "prealloc" THEN Zero
                                        ELSE Placed(v, items[k]) + u - items[k].at
         /\ (\A k \in DOMAIN items : ~Holds(items[k], u)) => ExtentUnit(v, items, u) = Zero
PROOF
<1> DEFINE ks == {k \in DOMAIN items : items[k].at <= u /\ u < items[k].at + items[k].len}
           x == items[CHOOSE k \in ks : TRUE]
<1>1. ExtentUnit(v, items, u) = IF ks = {} THEN Zero
                                ELSE IF x.addr = 0 \/ x.form = "prealloc" THEN Zero ELSE Placed(v, x) + u - x.at
  BY DEF ExtentUnit
<1>2. \A k : k \in ks <=> k \in DOMAIN items /\ Holds(items[k], u)
  BY DEF Holds
<1>3. ASSUME NEW k \in ks, NEW j \in ks PROVE k = j
  <2> SUFFICES ASSUME k # j PROVE FALSE
    OBVIOUS
  <2>1. items[k].at + items[k].len <= items[j].at \/ items[j].at + items[j].len <= items[k].at
    BY DEF Sound
  <2>2. items[k] \in Item /\ items[j] \in Item
    OBVIOUS
  <2>3. items[k].at \in Nat /\ items[j].at \in Nat /\ items[k].len \in Nat /\ items[j].len \in Nat
    BY <2>2 DEF Item
  <2>4. items[k].at <= u /\ u < items[k].at + items[k].len /\ items[j].at <= u /\ u < items[j].at + items[j].len
    OBVIOUS
  <2> QED BY <2>1, <2>3, <2>4
<1> HIDE DEF ks
<1>4. ASSUME NEW k \in DOMAIN items, Holds(items[k], u) PROVE x = items[k] /\ ks # {}
  <2>1. k \in ks
    BY <1>2, <1>4
  <2>2. (CHOOSE j \in ks : TRUE) \in ks
    BY <2>1
  <2> QED BY <1>3, <2>1, <2>2
<1>5. (\A k \in DOMAIN items : ~Holds(items[k], u)) => ks = {}
  BY <1>2
<1> HIDE DEF x
<1> QED BY <1>1, <1>4, <1>5

(* Numbers none of which is below the one before it never fall.            *)
LEMMA Rising ==
  ASSUME NEW N \in Nat, NEW s, \A k \in 0 .. N : s[k] \in Int, \A k \in 1 .. N : s[k - 1] <= s[k]
  PROVE  \A j, k \in 0 .. N : j <= k => s[j] <= s[k]
PROOF
<1> DEFINE I == {k \in 0 .. N : \A j \in 0 .. k : s[j] <= s[k]}
<1>1. 0 \in I
  OBVIOUS
<1>2. ASSUME NEW n \in 0 .. N - 1, n \in I PROVE n + 1 \in I
  <2>1. n + 1 \in 1 .. N /\ n + 1 \in 0 .. N /\ (n + 1) - 1 = n /\ n \in 0 .. N
    OBVIOUS
  <2>2. s[n] <= s[n + 1] /\ s[n] \in Int /\ s[n + 1] \in Int
    BY <2>1
  <2>3. ASSUME NEW j \in 0 .. n + 1 PROVE s[j] <= s[n + 1]
    <3>1. CASE j = n + 1
      BY <2>2, <3>1
    <3>2. CASE j # n + 1
      <4>1. j \in 0 .. n /\ j \in 0 .. N
        BY <3>2
      <4>2. s[j] <= s[n] /\ s[j] \in Int
        BY <1>2, <4>1
      <4> QED BY <2>2, <4>2
    <3> QED BY <3>1, <3>2
  <2> QED BY <2>1, <2>3
<1>3. 0 .. N \subseteq I
  <2> HIDE DEF I
  <2> QED BY <1>1, <1>2, BoundedInduction
<1> QED BY <1>3

(* Where the groups of a file end.                                         *)
LEMMA GroupsAre ==
  ASSUME NEW r \in Record, Kinds(r), NEW M, M = Len(GroupedExtents(r.data.items))
  PROVE  /\ M \in Nat /\ Len(InOrder(r)) \in Nat /\ Until(r, Cut(r)[0]) = 0 /\ Cut(r)[0] = 0
         /\ Cut(r)[M] = Len(InOrder(r))
         /\ \A j \in 0 .. M : Until(r, Cut(r)[j]) \in Nat /\ Cut(r)[j] \in 0 .. Len(InOrder(r))
         /\ \A j, k \in 0 .. M : j <= k => Until(r, Cut(r)[j]) <= Until(r, Cut(r)[k])
         /\ \A j \in 1 .. M : Cut(r)[j - 1] < Cut(r)[j]
PROOF
<1> DEFINE xs == InOrder(r)
           G == GroupedExtents(r.data.items)
           c == Cut(r)
           N == Len(xs)
<1>1. xs \in Seq(Item) /\ G \in Seq(Seq(Item)) /\ IsCut(xs, N, G, c)
  BY CutIs
<1> HIDE DEF xs, G, c
<1>2. N \in Nat /\ M \in Nat /\ M = Len(G)
  BY <1>1 DEF G
<1> HIDE DEF N
<1>3. c[0] = 0 /\ c[M] = N /\ (\A j \in 0 .. M : c[j] \in 0 .. N) /\ \A j \in 1 .. M : c[j - 1] < c[j]
  BY <1>1, <1>2 DEF IsCut
<1>4. SumLen(xs, 0) = 0 /\ (\A k \in 0 .. N : SumLen(xs, k) \in Nat)
      /\ \A j, k \in 0 .. N : j <= k => SumLen(xs, j) <= SumLen(xs, k)
  BY <1>1, SumLenGrows DEF N
<1>5. \A j \in 0 .. M : SumLen(xs, c[j]) \in Nat
  BY <1>3, <1>4
<1>6. \A j, k \in 0 .. M : j <= k => SumLen(xs, c[j]) <= SumLen(xs, c[k])
  <2>1. \A j \in 0 .. M : c[j] \in Int
    BY <1>2, <1>3
  <2>2. ASSUME NEW j \in 1 .. M PROVE c[j - 1] <= c[j]
    <3>1. c[j - 1] < c[j]
      BY <1>3
    <3>2. j - 1 \in 0 .. M /\ j \in 0 .. M
      BY <1>2
    <3>3. c[j - 1] \in Int /\ c[j] \in Int
      BY <2>1, <3>2
    <3> QED BY <3>1, <3>3
  <2>3. \A j, k \in 0 .. M : j <= k => c[j] <= c[k]
    BY <1>2, <2>1, <2>2, Rising
  <2>4. ASSUME NEW j \in 0 .. M, NEW k \in 0 .. M, j <= k PROVE SumLen(xs, c[j]) <= SumLen(xs, c[k])
    <3>1. c[j] <= c[k] /\ c[j] \in 0 .. N /\ c[k] \in 0 .. N
      BY <1>3, <2>3, <2>4
    <3> QED BY <1>4, <3>1
  <2> QED BY <2>4
<1> QED BY <1>2, <1>3, <1>4, <1>5, <1>6 DEF Until, xs, c, N

(* The groups a unit is of.                                                *)
InGroup(r, j, u) == Until(r, Cut(r)[j - 1]) <= u /\ u < Until(r, Cut(r)[j])

LEMMA OneGroup ==
  ASSUME NEW r \in Record, Kinds(r), NEW M, M = Len(GroupedExtents(r.data.items)),
         NEW u \in Int, NEW j \in 1 .. M, NEW k \in 1 .. M, InGroup(r, j, u), InGroup(r, k, u)
  PROVE  j = k
PROOF
<1> DEFINE s == [i \in 0 .. M |-> Until(r, Cut(r)[i])]
<1>1. /\ M \in Nat /\ (\A i \in 0 .. M : s[i] \in Int)
      /\ \A i, l \in 0 .. M : i <= l => s[i] <= s[l]
  <2>1. /\ M \in Nat /\ (\A i \in 0 .. M : Until(r, Cut(r)[i]) \in Nat)
        /\ \A i, l \in 0 .. M : i <= l => Until(r, Cut(r)[i]) <= Until(r, Cut(r)[l])
    BY GroupsAre
  <2> QED BY <2>1
<1>2. j - 1 \in 0 .. M /\ j \in 0 .. M /\ k - 1 \in 0 .. M /\ k \in 0 .. M
  BY <1>1
<1>3. s[j - 1] <= u /\ u < s[j] /\ s[k - 1] <= u /\ u < s[k]
  BY <1>2 DEF InGroup
<1> HIDE DEF s
<1> QED BY <1>1, <1>3, PassesOnce

(* BTRFS files of sound extents, not behind a decrypting reader.           *)
Readable(v, r) == OfExtents(r) /\ ~v.cbc /\ Sound(v, r.data.items)

LEMMA SoundFile ==
  ASSUME NEW r \in Record, Kinds(r), NEW v \in Volume, Sound(v, r.data.items)
  PROVE  /\ InOrder(r) \in Seq(Item) /\ SoundIn(v, InOrder(r)) /\ r.data.items \in Seq(Item)
         /\ \A k \in DOMAIN r.data.items : \E i \in 1 .. Len(InOrder(r)) : InOrder(r)[i] = r.data.items[k]
         /\ \A i \in 1 .. Len(InOrder(r)) : \E k \in DOMAIN r.data.items : InOrder(r)[i] = r.data.items[k]
PROOF
<1>1. InOrder(r) \in Seq(Item) /\ \E p : Sorted(InOrder(r), r.data.items, p)
  BY CutIs
<1>2. r.data.items \in Seq(Item)
  BY RecordType
<1> DEFINE xs == InOrder(r)
           items == r.data.items
<1>3. xs \in Seq(Item) /\ items \in Seq(Item) /\ Sound(v, items)
  BY <1>1, <1>2
<1>4. PICK p : Sorted(xs, items, p)
  BY <1>1
<1> HIDE DEF xs, items
<1>5. /\ SoundIn(v, xs)
      /\ \A k \in DOMAIN items : \E i \in 1 .. Len(xs) : xs[i] = items[k]
      /\ \A i \in 1 .. Len(xs) : \E k \in DOMAIN items : xs[i] = items[k]
  BY <1>3, <1>4, SoundItems
<1> QED BY <1>3, <1>5 DEF xs, items

LEMMA OpenExtents ==
  ASSUME IInv, OpenFile
  PROVE  ExtentsRead(loc', volume, record)
PROOF
<1> DEFINE r == record
           v == volume
           l == loc'
           B == BufferSize(r)
<1>1. /\ r \in Record /\ Kinds(r) /\ v.offset \in Nat /\ Reading(l, r) /\ B \in Nat
      /\ l.ext = 1 /\ l.off = v.offset /\ Reached(l) = 0 /\ l.buf = Zeros(B)
  BY OpenIs
<1> HIDE DEF r, v, l, B
<1> SUFFICES ASSUME OfExtents(r), ~v.cbc, Sound(v, r.data.items) PROVE ExtentsRead(l, v, r)
  BY DEF ExtentsRead, r, v, l
<1>2. l.off <= DiskSize
  BY <1>1 DEF Sound
<1>3. ~(l.ext > 1)
  BY <1>1
<1>4. ASSUME NEW j \in 1 .. Len(l.groups), NEW u \in Until(r, Cut(r)[j - 1]) .. Until(r, Cut(r)[j]) - 1
      PROVE  ~(u < Reached(l))
  <2> DEFINE M == Len(GroupedExtents(r.data.items))
  <2>1. Len(l.groups) = M
    BY <1>1 DEF Reading
  <2>2. M \in Nat /\ \A i \in 0 .. M : Until(r, Cut(r)[i]) \in Nat
    <3> HIDE DEF M
    <3> QED BY <1>1, GroupsAre DEF M
  <2>3. j - 1 \in 0 .. M /\ j \in 0 .. M
    BY <2>1, <2>2
  <2>4. Until(r, Cut(r)[j - 1]) \in Nat /\ Until(r, Cut(r)[j]) \in Nat
    BY <2>2, <2>3
  <2>5. u >= 0
    BY <2>4
  <2> QED BY <1>1, <2>4, <2>5
<1>5. ASSUME NEW u \in 0 .. B - 1 PROVE l.buf[u + 1] = Zero
  <2>1. u + 1 \in 1 .. B
    BY <1>1
  <2> QED BY <1>1, <2>1, ZerosAre
<1> QED BY <1>2, <1>3, <1>4, <1>5 DEF ExtentsRead, B

LEMMA GroupPlace ==
  ASSUME IInv, Bounded, AtGroup, Readable(volume, record), loc.off <= DiskSize, NEW o \in VolumeOffsets
  PROVE  /\ o <= DiskSize /\ o + group[1].off <= DiskSize
         /\ Len(GroupData(o)) = GroupLen(group)
         /\ \A w \in 0 .. GroupLen(group) - 1 :
              GroupData(o)[w + 1] = GroupUnit(volume, record, loc.run, loc.read + w)
PROOF
<1> DEFINE r == record
           v == volume
           x == group[1]
           n == GroupLen(group)
           d == GroupData(o)
<1>1. /\ loc.run \in 1 .. Len(loc.groups) /\ loc.groups = GroupedExtents(r.data.items)
      /\ loc.read = Until(r, Cut(r)[loc.run - 1]) /\ group \in Seq(Item) /\ x \in Item
      /\ x = InOrder(r)[Cut(r)[loc.run - 1] + 1] /\ n \in Nat
  BY WhileAtGroup
<1>2. r \in Record /\ Kinds(r) /\ v \in Volume /\ v.offset \in Nat /\ loc \in Place
  BY WhileLocating DEF AtGroup
<1>3. ~v.cbc /\ Sound(v, r.data.items)
  BY DEF Readable
<1>4. SoundAt(v, x)
  <2> DEFINE M == Len(GroupedExtents(r.data.items))
             c == Cut(r)
             j == loc.run
  <2>1. Cut(r)[loc.run - 1] + 1 \in 1 .. Len(InOrder(r))
    <3>1. M \in Nat /\ j \in 1 .. M
      BY <1>1, <1>2, GroupsAre
    <3> HIDE DEF M, j
    <3>2. Len(InOrder(r)) \in Nat /\ (\A i \in 0 .. M : c[i] \in 0 .. Len(InOrder(r))) /\ \A i \in 1 .. M : c[i - 1] < c[i]
      BY <1>2, GroupsAre DEF M
    <3>3. j - 1 \in 0 .. M /\ j \in 0 .. M
      BY <3>1
    <3>4. c[j - 1] < c[j] /\ c[j - 1] \in 0 .. Len(InOrder(r)) /\ c[j] \in 0 .. Len(InOrder(r))
      BY <3>1, <3>2, <3>3
    <3> HIDE DEF c
    <3>5. c[j - 1] + 1 \in 1 .. Len(InOrder(r))
      BY <3>2, <3>4
    <3> QED BY <3>5 DEF c, j
  <2>2. SoundIn(v, InOrder(r))
    BY <1>2, <1>3, SoundFile
  <2> QED BY <1>1, <2>1, <2>2 DEF SoundIn
<1>5. x.addr # 0 => Placed(v, x) + n <= DiskSize
  <2>1. group \in Range(GroupedExtents(r.data.items))
    <3>1. group = loc.groups[loc.run] /\ loc.groups \in Seq(Seq(Item))
      BY <1>2 DEF group, Place
    <3>2. loc.run \in DOMAIN loc.groups
      BY <1>1, <3>1
    <3> QED BY <1>1, <3>1, <3>2 DEF Range
  <2>2. \A g \in Range(GroupedExtents(r.data.items)) : g[1].addr # 0 => Placed(v, g[1]) + GroupLen(g) <= DiskSize
    BY <1>3 DEF Sound
  <2> QED BY <2>1, <2>2
<1>6. VolumeOffsets = IF ChunksOf(v, x) = {} THEN {loc.off}
                      ELSE {v.offset + c.stripe + x.addr - c.key : c \in ChunksOf(v, x)}
  BY DEF VolumeOffsets, volume
<1>7. \A w : GroupUnit(v, r, loc.run, loc.read + w) = IF x.addr = 0 THEN Zero ELSE Placed(v, x) + (loc.read + w) - loc.read
  BY <1>1 DEF GroupUnit
<1>8. loc.read \in Nat
  BY <1>2 DEF Place
<1>9. DiskSize \in Nat
  BY ExportAssumption
<1>10. d = IF x.addr = 0 THEN Zeros(n) ELSE ReadFile(o + x.off, n)
  BY DEF GroupData
<1> HIDE DEF r, v, x, n, d
<1>11. CASE x.addr = 0
  <2>1. x.off = 0 /\ \A c \in ChunksOf(v, x) : v.offset + c.stripe - c.key <= DiskSize
    BY <1>4, <1>11 DEF SoundAt
  <2>2. o <= DiskSize
    <3>1. CASE ChunksOf(v, x) = {}
      BY <1>6, <3>1
    <3>2. CASE ChunksOf(v, x) # {}
      <4>1. PICK c \in ChunksOf(v, x) : o = v.offset + c.stripe + x.addr - c.key
        BY <1>6, <3>2
      <4>2. c.stripe \in Nat /\ c.key \in Nat
        <5>1. c \in Chunk
          BY <1>2 DEF ChunksOf, Volume
        <5> QED BY <5>1 DEF Chunk
      <4>3. o = v.offset + c.stripe - c.key
        BY <1>2, <1>11, <4>1, <4>2
      <4> QED BY <2>1, <4>3
    <3> QED BY <3>1, <3>2
  <2>3. o + x.off <= DiskSize
    <3>1. o \in Int
      BY OffsetsType
    <3> QED BY <2>1, <2>2, <3>1
  <2>4. Len(d) = n /\ \A i \in 1 .. n : d[i] = Zero
    BY <1>1, <1>10, <1>11, ZerosAre
  <2>5. ASSUME NEW w \in 0 .. n - 1 PROVE d[w + 1] = GroupUnit(v, r, loc.run, loc.read + w)
    <3>1. w + 1 \in 1 .. n
      BY <1>1
    <3> QED BY <1>7, <1>11, <2>4, <3>1
  <2> QED BY <2>2, <2>3, <2>4, <2>5 DEF r, v, x, n, d
<1>12. CASE x.addr # 0
  <2>1. PICK c \in v.chunks : ChunksOf(v, x) = {c} /\ Placed(v, x) = v.offset + c.stripe + x.addr - c.key + x.off
    BY <1>4, <1>12 DEF SoundAt
  <2>2. Placed(v, x) \in Nat /\ x.off \in Nat
    BY <1>1, <1>4, <1>12 DEF SoundAt, Item
  <2>3. o = v.offset + c.stripe + x.addr - c.key
    BY <1>6, <2>1
  <2>4. o \in Int /\ o + x.off = Placed(v, x)
    <3>1. o \in Int
      BY OffsetsType
    <3> QED BY <2>1, <2>3, <3>1
  <2> DEFINE y == Placed(v, x)
  <2>5. y \in Nat /\ y + n <= DiskSize /\ o + x.off = y
    BY <1>5, <1>12, <2>2, <2>4
  <2> HIDE DEF y
  <2>6. o <= DiskSize /\ o + x.off <= DiskSize /\ y <= DiskSize
    <3> DEFINE e == x.off
    <3>1. n \in Nat /\ e \in Nat /\ o \in Int /\ y \in Nat /\ DiskSize \in Nat /\ y + n <= DiskSize /\ o + e = y
      BY <1>1, <1>9, <2>2, <2>4, <2>5, ExportAssumption
    <3> HIDE DEF e, n
    <3>2. o <= DiskSize /\ o + e <= DiskSize /\ y <= DiskSize
      BY <3>1
    <3> QED BY <3>2 DEF e
  <2>7. Len(d) = n /\ \A i \in 1 .. n : d[i] = y + i - 1
    <3>1. d = ReadFile(y, n)
      BY <1>10, <1>12, <2>5
    <3>2. y \in Int /\ y >= 0
      BY <2>5
    <3>3. Len(d) = n /\ \A i \in 1 .. n : d[i] = IF volume.cbc THEN Deciphered(y, i) ELSE y + i - 1
      BY <1>1, <2>5, <2>6, <3>1, <3>2, ReadFileIs
    <3> QED BY <1>3, <3>3 DEF v
  <2>8. ASSUME NEW w \in 0 .. n - 1 PROVE d[w + 1] = GroupUnit(v, r, loc.run, loc.read + w)
    <3>1. w + 1 \in 1 .. n /\ w \in Int
      BY <1>1
    <3>2. d[w + 1] = y + (w + 1) - 1
      BY <2>7, <3>1
    <3>3. GroupUnit(v, r, loc.run, loc.read + w) = y + (loc.read + w) - loc.read
      BY <1>7, <1>12 DEF y
    <3>4. y + (w + 1) - 1 = y + (loc.read + w) - loc.read
      BY <1>8, <2>5, <3>1
    <3> QED BY <3>2, <3>3, <3>4
  <2> QED BY <2>6, <2>7, <2>8 DEF r, v, x, n, d
<1> QED BY <1>11, <1>12

LEMMA GroupExtents ==
  ASSUME IInv, Bounded, ContentRead, LocateGroup
  PROVE  ExtentsRead(loc', volume, record)
PROOF
<1> DEFINE r == record
           v == volume
           l == loc'
           B == BufferSize(record)
           n == GroupLen(group)
           R == loc.read
           k == loc.run
           buf == loc.buf
<1> SUFFICES ASSUME Readable(v, r) PROVE ExtentsRead(l, v, r)
  BY DEF ExtentsRead, Readable
<1>1. AtGroup /\ Locating
  BY DEF LocateGroup, AtGroup
<1>2. /\ loc # NoFile /\ r \in Record /\ Kinds(r) /\ loc \in Place /\ Bound(loc, r) /\ B \in Nat /\ Len(buf) = B
  <2>1. /\ loc # NoFile /\ r \in Record /\ Kinds(r) /\ loc \in Place /\ Bound(loc, r) /\ B \in Nat
    BY <1>1, WhileLocating
  <2> QED BY <2>1 DEF Bound, Reading
<1>3. /\ loc.ext = 1 /\ loc.start = 0 /\ k \in 1 .. Len(loc.groups)
      /\ loc.groups = GroupedExtents(r.data.items) /\ R = Until(r, Cut(r)[k - 1])
      /\ n \in Nat /\ Until(r, Cut(r)[k]) = R + n
  BY <1>1, WhileAtGroup
<1>4. ExtentsRead(loc, v, r)
  BY <1>2 DEF ContentRead
<1>5. /\ loc.off <= DiskSize
      /\ \A j \in 1 .. Len(loc.groups) : \A u \in Until(r, Cut(r)[j - 1]) .. Until(r, Cut(r)[j]) - 1 :
           u < Reached(loc) /\ u < BufferSize(r) => buf[u + 1] = GroupUnit(v, r, j, u)
      /\ \A u \in 0 .. BufferSize(r) - 1 : u >= Reached(loc) => buf[u + 1] = Zero
  BY <1>3, <1>4 DEF ExtentsRead, Readable
<1>6. PICK o \in VolumeOffsets :
        \/ o + group[1].off > DiskSize /\ loc' = NextExtent(loc.read)
        \/ ReadsGroup(o)
  BY DEF LocateGroup, GroupData, ReadsGroup
<1> DEFINE d == GroupData(o)
<1>7. /\ o <= DiskSize /\ o + group[1].off <= DiskSize /\ Len(d) = n
      /\ \A w \in 0 .. n - 1 : d[w + 1] = GroupUnit(v, r, k, R + w)
  BY <1>1, <1>5, GroupPlace
<1>8. ReadsGroup(o)
  <2>1. o \in Int /\ group[1].off \in Int
    BY <1>1, OffsetsType, WhileAtGroup DEF Item
  <2> QED BY <1>6, <1>7, <2>1, ExportAssumption
<1>9. /\ l.ext = loc.ext /\ l.off = o /\ l.start = loc.start /\ l.read = R + n /\ l.groups = loc.groups
      /\ l.buf = IF n > 0 THEN CopyAt(buf, R, d) ELSE buf
      /\ d \in Seq(Int) /\ R \in Nat /\ (n > 0 => R \in 0 .. Len(buf))
  BY <1>1, <1>8, GroupIs
<1>10. buf \in Seq(Int)
  BY <1>2 DEF Place
<1>11. Reached(loc) = R /\ Reached(l) = R + n
  BY <1>3, <1>9 DEF Reached
<1> HIDE DEF l, v, r, B, n, R, buf, d
<1>12. ASSUME NEW u \in 0 .. B - 1
       PROVE  l.buf[u + 1] = IF R <= u /\ u < R + n THEN d[u - R + 1] ELSE buf[u + 1]
  <2>1. CASE n > 0
    <3>1. CopyOf(l.buf, buf, R, d)
      BY <1>9, <1>10, <2>1, Copied
    <3>2. u \in 0 .. Len(buf) - 1
      BY <1>2
    <3> QED BY <1>7, <3>1, <3>2 DEF CopyOf
  <2>2. CASE ~(n > 0)
    <3>1. n = 0 /\ l.buf = buf /\ u \in Int
      BY <1>2, <1>3, <1>9, <2>2
    <3>2. ~(R <= u /\ u < R + n)
      BY <1>9, <3>1
    <3> QED BY <3>1, <3>2
  <2> QED BY <2>1, <2>2
<1>13. ASSUME NEW j \in 1 .. Len(l.groups), NEW u \in Until(r, Cut(r)[j - 1]) .. Until(r, Cut(r)[j]) - 1,
              u < R + n, u < B
       PROVE  l.buf[u + 1] = GroupUnit(v, r, j, u)
  <2> DEFINE M == Len(GroupedExtents(r.data.items))
  <2>1. M = Len(l.groups) /\ j \in 1 .. M /\ k \in 1 .. M
    BY <1>3, <1>9
  <2> HIDE DEF M
  <2>2. M \in Nat /\ \A i \in 0 .. M : Until(r, Cut(r)[i]) \in Nat
    BY <1>2, GroupsAre DEF M
  <2>3. Until(r, Cut(r)[j - 1]) \in Nat /\ Until(r, Cut(r)[j]) \in Nat
    <3>1. j - 1 \in 0 .. M /\ j \in 0 .. M
      BY <2>1, <2>2
    <3> QED BY <2>2, <3>1
  <2>4. u \in Nat /\ InGroup(r, j, u)
    BY <2>3 DEF InGroup
  <2>5. u \in 0 .. B - 1
    BY <1>2, <1>13, <2>4
  <2>6. l.buf[u + 1] = IF R <= u /\ u < R + n THEN d[u - R + 1] ELSE buf[u + 1]
    BY <1>12, <2>5
  <2>7. CASE u < R
    <3>1. ~(R <= u)
      BY <1>9, <2>4, <2>7
    <3>2. buf[u + 1] = GroupUnit(v, r, j, u)
      BY <1>5, <1>9, <1>11, <1>13, <2>7 DEF B, r
    <3> QED BY <2>6, <3>1, <3>2
  <2>8. CASE R <= u
    <3>1. InGroup(r, k, u)
      BY <1>3, <1>13, <2>8 DEF InGroup
    <3>2. j = k
      <4> DEFINE kk == k
      <4> HIDE DEF kk
      <4>1. InGroup(r, kk, u) /\ kk \in 1 .. M /\ u \in Int /\ r \in Record /\ Kinds(r)
        BY <1>2, <2>1, <2>4, <3>1 DEF kk
      <4>2. j = kk
        BY <2>1, <2>4, <4>1, OneGroup DEF M
      <4> QED BY <4>2 DEF kk
    <3>3. u - R \in 0 .. n - 1 /\ R + (u - R) = u
      <4>1. u \in Nat /\ R \in Nat /\ n \in Nat
        BY <1>3, <1>9, <2>4
      <4>2. R <= u /\ u < R + n
        BY <1>13, <2>8
      <4> QED BY <4>1, <4>2
    <3>4. d[u - R + 1] = GroupUnit(v, r, k, u)
      <4> DEFINE w == u - R
      <4>1. w \in 0 .. n - 1 /\ R + w = u
        BY <3>3
      <4> HIDE DEF w
      <4>2. d[w + 1] = GroupUnit(v, r, k, u)
        BY <1>7, <4>1
      <4> QED BY <4>2 DEF w
    <3> QED BY <1>13, <2>6, <2>8, <3>2, <3>4
  <2> QED BY <1>9, <2>4, <2>7, <2>8
<1>14. ASSUME NEW u \in 0 .. B - 1, u >= R + n PROVE l.buf[u + 1] = Zero
  <2>1. u \in Int /\ u >= R /\ ~(R <= u /\ u < R + n)
    BY <1>2, <1>3, <1>9, <1>14
  <2>2. buf[u + 1] = Zero
    BY <1>5, <1>11, <2>1 DEF B, r
  <2> QED BY <1>12, <2>1, <2>2
<1>15. ~(l.ext > 1)
  BY <1>3, <1>9
<1> QED BY <1>7, <1>9, <1>11, <1>13, <1>14, <1>15 DEF ExtentsRead, B, r

LEMMA EndExtents ==
  ASSUME IInv, Bounded, ContentRead, LocateEnd
  PROVE  ExtentsRead(loc', volume, record)
PROOF
<1> DEFINE r == record
           v == volume
           l == loc'
<1> SUFFICES ASSUME Readable(v, r) PROVE ExtentsRead(l, v, r)
  BY DEF ExtentsRead, Readable
<1>1. Locating /\ OfExtents(r)
  BY DEF LocateEnd, Readable
<1>2. /\ loc # NoFile /\ r \in Record /\ Kinds(r) /\ loc \in Place /\ Bound(loc, r) /\ volume.offset \in Nat
      /\ loc.ext = 1 /\ extent.kind = "extents"
  BY <1>1, WhileLocating
<1>3. loc.run > Len(loc.groups) /\ l = NextExtent(loc.read)
  BY <1>2 DEF LocateEnd
<1>4. /\ loc.start = 0 /\ loc.groups = GroupedExtents(r.data.items)
      /\ loc.run <= Len(loc.groups) + 1 /\ loc.read = Until(r, Cut(r)[loc.run - 1])
  BY <1>1, <1>2 DEF Bound, GroupsBound, Reading
<1>5. loc.read \in Nat /\ loc.run \in Nat /\ Len(loc.groups) \in Nat
  BY <1>2 DEF Place
<1>6. /\ l.ext = loc.ext + 1 /\ l.start = loc.start + loc.read /\ l.read = 0 /\ l.buf = loc.buf /\ l.groups = loc.groups
  BY <1>2, <1>3, <1>5, NextExtentIs
<1>7. Reached(l) = Reached(loc) /\ Reached(l) = loc.read
  BY <1>4, <1>5, <1>6 DEF Reached
<1>8. loc.read = Until(r, Len(InOrder(r)))
  <2> DEFINE M == Len(GroupedExtents(r.data.items))
  <2>1. loc.run - 1 = M
    BY <1>3, <1>4, <1>5
  <2> HIDE DEF M
  <2>2. Cut(r)[M] = Len(InOrder(r))
    BY <1>2, GroupsAre DEF M
  <2> QED BY <1>4, <2>1, <2>2
<1>9. ExtentsRead(loc, v, r)
  BY <1>2 DEF ContentRead
<1>10. l.ext > 1 /\ l.ext # 1
  BY <1>2, <1>6
<1> HIDE DEF l, v, r
<1> QED BY <1>6, <1>7, <1>8, <1>9, <1>10 DEF ExtentsRead

(* Awkward, extent by extent.                                              *)
AwkwardAt(v, xs, n, k) ==
  /\ SumLen(xs, k - 1) < n /\ xs[k].addr # 0
  /\ \/ xs[k].form = "prealloc"
     \/ xs[k].at # SumLen(xs, k - 1)
     \/ /\ k > 1 /\ Joined(xs[k - 1], xs[k])
        /\ Placed(v, xs[k]) # Placed(v, xs[k - 1]) + xs[k - 1].len

(* Extents a to k are joined, and a begins the group.                      *)
Chained(xs, k, a) == \A i \in a + 1 .. k : Joined(xs[i - 1], xs[i])
HeadOf(xs, k, a) == a \in 1 .. k /\ Chained(xs, k, a) /\ (k > 1 /\ Joined(xs[k - 1], xs[k]) => a < k)

(* The first n units of t are what the groups put there.                   *)
ReadAs(v, xs, n, t) ==
  /\ \A k \in 1 .. Len(xs) : \E a \in 1 .. k :
       /\ HeadOf(xs, k, a)
       /\ \A u \in SumLen(xs, k - 1) .. SumLen(xs, k) - 1 :
            u < n => t[u + 1] = IF xs[a].addr = 0 THEN Zero ELSE Placed(v, xs[a]) + u - SumLen(xs, a - 1)
  /\ \A u \in 0 .. n - 1 : u >= SumLen(xs, Len(xs)) => t[u + 1] = Zero

LEMMA ChainedAddr ==
  ASSUME NEW v, NEW xs \in Seq(Item), SoundIn(v, xs), NEW k \in 1 .. Len(xs), NEW a \in 1 .. k, Chained(xs, k, a)
  PROVE  /\ a # k => \A i \in a .. k : xs[i].addr # 0
         /\ xs[k].addr # 0 => \A i \in a .. k : xs[i].addr # 0
PROOF
<1>1. Len(xs) \in Nat
  OBVIOUS
<1>2. ASSUME NEW i \in a .. k, i # k PROVE xs[i].addr # 0
  <2>1. i + 1 \in a + 1 .. k /\ (i + 1) - 1 = i /\ i \in 1 .. Len(xs) /\ i + 1 \in 1 .. Len(xs)
    BY <1>1, <1>2
  <2>2. Joined(xs[i], xs[i + 1])
    <3> DEFINE m == i + 1
    <3>1. m \in a + 1 .. k /\ m - 1 = i
      BY <2>1
    <3> HIDE DEF m
    <3>2. Joined(xs[m - 1], xs[m])
      BY <3>1 DEF Chained
    <3> QED BY <3>1, <3>2 DEF m
  <2> QED BY <2>1, <2>2 DEF SoundIn, HolesAlone
<1>3. ASSUME a # k PROVE xs[k].addr # 0
  <2>1. k \in a + 1 .. k
    BY <1>1, <1>3
  <2>2. Joined(xs[k - 1], xs[k])
    BY <2>1 DEF Chained
  <2> QED BY <2>2 DEF Joined
<1> QED BY <1>2, <1>3

(* What is joined lies on the disk as it is read.                          *)
LEMMA Chain ==
  ASSUME NEW v, NEW xs \in Seq(Item), SoundIn(v, xs), NEW n \in Int,
         NEW k \in 1 .. Len(xs), NEW a \in 1 .. k, Chained(xs, k, a), xs[k].addr # 0, SumLen(xs, k - 1) < n,
         \A i \in 1 .. k : ~AwkwardAt(v, xs, n, i)
  PROVE  Placed(v, xs[k]) - SumLen(xs, k - 1) = Placed(v, xs[a]) - SumLen(xs, a - 1)
PROOF
<1> DEFINE P(i) == Placed(v, xs[i])
           S(i) == SumLen(xs, i)
           N == k - a
           I == {i \in 0 .. N : P(a + i) - S(a + i - 1) = P(a) - S(a - 1)}
<1>1. /\ Len(xs) \in Nat /\ (\A i \in 0 .. Len(xs) : S(i) \in Nat)
      /\ (\A i \in 1 .. Len(xs) : xs[i].len \in Nat /\ S(i) = S(i - 1) + xs[i].len)
      /\ \A i, j \in 0 .. Len(xs) : i <= j => S(i) <= S(j)
  BY SumLenGrows
<1>2. \A i \in a .. k : P(i) \in Nat
  <2>1. \A i \in a .. k : xs[i].addr # 0 /\ i \in 1 .. Len(xs)
    <3>1. \A i \in a .. k : xs[i].addr # 0
      BY ChainedAddr
    <3>2. \A i \in a .. k : i \in 1 .. Len(xs)
      BY <1>1
    <3> QED BY <3>1, <3>2
  <2> QED BY <2>1 DEF SoundIn, SoundAt
<1>3. N \in Nat /\ 0 \in I
  <2>1. N \in Nat /\ a + 0 = a
    BY <1>1
  <2> QED BY <2>1
<1>4. ASSUME NEW i \in 0 .. N - 1, i \in I PROVE i + 1 \in I
  <2> DEFINE m == a + i + 1
  <2>1. /\ m \in a + 1 .. k /\ m - 1 \in a .. k /\ m \in 1 .. Len(xs) /\ m - 1 \in 1 .. Len(xs) /\ m \in a .. k
        /\ m > 1 /\ a + i = m - 1 /\ a + (i + 1) = m /\ a + i - 1 = m - 2 /\ a + (i + 1) - 1 = m - 1
        /\ m - 1 \in 0 .. Len(xs) /\ k - 1 \in 0 .. Len(xs) /\ m - 1 <= k - 1 /\ m - 2 \in 0 .. Len(xs)
        /\ (m - 1) - 1 = m - 2 /\ i + 1 \in 0 .. N
    BY <1>1, <1>3
  <2> HIDE DEF m, N
  <2>2. Joined(xs[m - 1], xs[m])
    BY <2>1 DEF Chained
  <2>3. S(m - 1) < n
    <3>1. S(m - 1) <= S(k - 1) /\ S(m - 1) \in Nat /\ S(k - 1) \in Nat
      BY <1>1, <2>1
    <3> QED BY <3>1
  <2>4. xs[m].addr # 0 /\ m \in 1 .. k
    <3>1. m \in 1 .. k
      BY <1>1, <2>1
    <3> QED BY <2>2, <3>1 DEF Joined
  <2>5. P(m) = P(m - 1) + xs[m - 1].len
    BY <2>1, <2>2, <2>3, <2>4 DEF AwkwardAt
  <2>6. S(m - 1) = S(m - 2) + xs[m - 1].len /\ xs[m - 1].len \in Nat /\ S(m - 2) \in Nat
    <3> DEFINE j == m - 1
    <3>1. j \in 1 .. Len(xs) /\ j - 1 = m - 2
      BY <2>1
    <3> HIDE DEF j
    <3>2. S(j) = S(j - 1) + xs[j].len /\ xs[j].len \in Nat
      BY <1>1, <3>1
    <3>3. S(m - 2) \in Nat
      BY <1>1, <2>1
    <3> QED BY <3>1, <3>2, <3>3 DEF j
  <2>7. P(m - 1) - S(m - 2) = P(a) - S(a - 1)
    BY <1>4, <2>1
  <2>8. P(m - 1) \in Nat
    BY <1>2, <2>1
  <2> DEFINE p == P(m)
             q == P(m - 1)
             s == S(m - 1)
             w == S(m - 2)
             l == xs[m - 1].len
             z == P(a) - S(a - 1)
  <2>9. q \in Nat /\ w \in Nat /\ l \in Nat /\ p = q + l /\ s = w + l /\ q - w = z
    BY <2>5, <2>6, <2>7, <2>8
  <2> HIDE DEF p, q, s, w, l, z
  <2>10. p - s = z
    BY <2>9
  <2> HIDE DEF P, S
  <2>11. P(a + (i + 1)) - S(a + (i + 1) - 1) = P(a) - S(a - 1)
    BY <2>1, <2>10 DEF p, s, z
  <2> QED BY <2>1, <2>11
<1>5. 0 .. N \subseteq I
  <2> HIDE DEF I, N
  <2> QED BY <1>3, <1>4, BoundedInduction
<1>6. N \in 0 .. N /\ a + N = k
  BY <1>1, <1>3
<1>7. P(k) - S(a + N - 1) = P(a) - S(a - 1)
  BY <1>5, <1>6
<1>8. a + N - 1 = k - 1
  BY <1>1
<1> HIDE DEF P, S, N
<1>9. P(k) - S(k - 1) = P(a) - S(a - 1)
  BY <1>7, <1>8
<1> QED BY <1>9 DEF P, S

SameItems(xs, items) ==
  /\ \A k \in DOMAIN items : \E i \in 1 .. Len(xs) : xs[i] = items[k]
  /\ \A i \in 1 .. Len(xs) : \E k \in DOMAIN items : xs[i] = items[k]

LEMMA UnitAt ==
  ASSUME NEW v \in Volume, NEW items \in Seq(Item), Sound(v, items), NEW xs, SameItems(xs, items), NEW u \in Nat
  PROVE  /\ \A k \in 1 .. Len(xs) : Holds(xs[k], u) =>
              ExtentUnit(v, items, u) = IF xs[k].addr = 0 \/ xs[k].form = "prealloc" THEN Zero
                                        ELSE Placed(v, xs[k]) + u - xs[k].at
         /\ \/ ExtentUnit(v, items, u) = Zero
            \/ \E m \in 1 .. Len(xs) : Holds(xs[m], u) /\ xs[m].addr # 0 /\ xs[m].form # "prealloc"
PROOF
<1>1. /\ \A k \in DOMAIN items : Holds(items[k], u) =>
           ExtentUnit(v, items, u) = IF items[k].addr = 0 \/ items[k].form = "prealloc" THEN Zero
                                     ELSE Placed(v, items[k]) + u - items[k].at
      /\ (\A k \in DOMAIN items : ~Holds(items[k], u)) => ExtentUnit(v, items, u) = Zero
  BY UnitHeld
<1>2. ASSUME NEW k \in 1 .. Len(xs), Holds(xs[k], u)
      PROVE  ExtentUnit(v, items, u) = IF xs[k].addr = 0 \/ xs[k].form = "prealloc" THEN Zero
                                       ELSE Placed(v, xs[k]) + u - xs[k].at
  <2>1. PICK j \in DOMAIN items : xs[k] = items[j]
    BY DEF SameItems
  <2> QED BY <1>1, <1>2, <2>1
<1>3. ASSUME ExtentUnit(v, items, u) # Zero
      PROVE  \E m \in 1 .. Len(xs) : Holds(xs[m], u) /\ xs[m].addr # 0 /\ xs[m].form # "prealloc"
  <2>1. PICK j \in DOMAIN items : Holds(items[j], u)
    BY <1>1, <1>3
  <2>2. PICK m \in 1 .. Len(xs) : xs[m] = items[j]
    BY DEF SameItems
  <2>3. Holds(xs[m], u)
    BY <2>1, <2>2
  <2> QED BY <1>2, <1>3, <2>3
<1> QED BY <1>2, <1>3

(* An extent that holds a unit and is not awkward lies where it is read.   *)
LEMMA HeldThere ==
  ASSUME NEW v, NEW xs \in Seq(Item), SoundIn(v, xs), NEW n \in Int, NEW u \in Nat, u < n,
         NEW m \in 1 .. Len(xs), Holds(xs[m], u), xs[m].addr # 0, ~AwkwardAt(v, xs, n, m)
  PROVE  /\ SumLen(xs, m - 1) <= u /\ u < SumLen(xs, m)
         /\ xs[m].at = SumLen(xs, m - 1) /\ xs[m].form # "prealloc"
PROOF
<1> DEFINE s == SumLen(xs, m - 1)
           z == SumLen(xs, m)
           a == xs[m].at
           l == xs[m].len
<1>1. Len(xs) \in Nat /\ xs[m] \in Item
  OBVIOUS
<1>2. a \in Nat /\ l \in Nat
  BY <1>1 DEF Item
<1>3. s \in Nat /\ z = s + l
  <2>1. m - 1 \in 0 .. Len(xs)
    BY <1>1
  <2> QED BY <2>1, SumLenGrows
<1>4. s <= a
  BY SumsBelow
<1>5. a <= u /\ u < a + l
  BY DEF Holds
<1> HIDE DEF s, z, a, l
<1>6. s < n
  BY <1>2, <1>3, <1>4, <1>5
<1>7. a = s /\ xs[m].form # "prealloc"
  BY <1>6 DEF AwkwardAt, s, a
<1>8. s <= u /\ u < z
  BY <1>2, <1>3, <1>5, <1>7
<1> QED BY <1>7, <1>8 DEF s, z, a

LEMMA NoneAwkward ==
  ASSUME NEW v \in Volume, NEW items \in Seq(Item), Sound(v, items), NEW xs \in Seq(Item), SoundIn(v, xs),
         SameItems(xs, items), NEW n \in Nat, NEW t, ReadAs(v, xs, n, t),
         \A k \in 1 .. Len(xs) : ~AwkwardAt(v, xs, n, k), NEW u \in 0 .. n - 1
  PROVE  t[u + 1] = ExtentUnit(v, items, u)
PROOF
<1> DEFINE N == Len(xs)
           S(i) == SumLen(xs, i)
           e == ExtentUnit(v, items, u)
<1>1. u \in Nat /\ u < n /\ u \in Int
  OBVIOUS
<1>2. /\ N \in Nat /\ S(0) = 0 /\ (\A i \in 0 .. N : S(i) \in Nat)
      /\ (\A i \in 1 .. N : xs[i].len \in Nat /\ S(i) = S(i - 1) + xs[i].len)
      /\ \A i, j \in 0 .. N : i <= j => S(i) <= S(j)
  BY SumLenGrows
<1>3. /\ \A k \in 1 .. N : Holds(xs[k], u) =>
           e = IF xs[k].addr = 0 \/ xs[k].form = "prealloc" THEN Zero ELSE Placed(v, xs[k]) + u - xs[k].at
      /\ e = Zero \/ \E m \in 1 .. N : Holds(xs[m], u) /\ xs[m].addr # 0 /\ xs[m].form # "prealloc"
  BY <1>1, UnitAt
<1>4. \A m \in 1 .. N : Holds(xs[m], u) /\ xs[m].addr # 0 =>
        S(m - 1) <= u /\ u < S(m) /\ xs[m].at = S(m - 1) /\ xs[m].form # "prealloc"
  BY <1>1, HeldThere
<1> HIDE DEF e
<1>5. CASE u >= S(N)
  <2>1. t[u + 1] = Zero
    BY <1>5 DEF ReadAs
  <2>2. ASSUME NEW m \in 1 .. N, Holds(xs[m], u), xs[m].addr # 0 PROVE FALSE
    <3>1. u < S(m)
      BY <1>4, <2>2
    <3>2. m \in 0 .. N /\ N \in 0 .. N /\ m <= N
      BY <1>2
    <3>3. S(m) <= S(N) /\ S(m) \in Nat /\ S(N) \in Nat
      BY <1>2, <3>2
    <3> HIDE DEF S
    <3> QED BY <1>1, <1>5, <3>1, <3>3
  <2>3. e = Zero
    BY <1>3, <2>2
  <2> QED BY <2>1, <2>3 DEF e
<1>6. CASE u < S(N)
  <2> DEFINE s == [i \in 0 .. N |-> S(i)]
  <2>1. (\A i \in 0 .. N : s[i] \in Int) /\ (\A i, j \in 0 .. N : i <= j => s[i] <= s[j]) /\ s[0] <= u /\ u < s[N]
    <3>1. 0 \in 0 .. N /\ N \in 0 .. N
      BY <1>2
    <3> QED BY <1>1, <1>2, <1>6, <3>1
  <2>2. \A i \in 0 .. N : s[i] = S(i)
    OBVIOUS
  <2> HIDE DEF s
  <2>3. PICK k \in 1 .. N : s[k - 1] <= u /\ u < s[k]
    <3> HIDE DEF N, S
    <3> QED BY <1>1, <1>2, <2>1, Passes
  <2>4. k - 1 \in 0 .. N /\ k \in 0 .. N /\ k \in 1 .. Len(xs)
    BY <1>2
  <2>5. S(k - 1) <= u /\ u < S(k) /\ S(k) = S(k - 1) + xs[k].len /\ S(k - 1) \in Nat /\ S(k) \in Nat /\ xs[k].len \in Nat
    BY <1>2, <2>2, <2>3, <2>4
  <2>6. PICK a \in 1 .. k :
          /\ HeadOf(xs, k, a)
          /\ \A w \in SumLen(xs, k - 1) .. SumLen(xs, k) - 1 :
               w < n => t[w + 1] = IF xs[a].addr = 0 THEN Zero ELSE Placed(v, xs[a]) + w - SumLen(xs, a - 1)
    BY <2>4 DEF ReadAs
  <2>7. t[u + 1] = IF xs[a].addr = 0 THEN Zero ELSE Placed(v, xs[a]) + u - S(a - 1)
    <3>1. u \in S(k - 1) .. S(k) - 1
      BY <1>1, <2>5
    <3> QED BY <1>1, <2>6, <3>1
  <2>8. Chained(xs, k, a) /\ a \in 1 .. k
    BY <2>6 DEF HeadOf
  <2>9. CASE xs[k].addr # 0
    <3>1. S(k - 1) < n
      BY <1>1, <2>5
    <3>2. xs[k].at = S(k - 1) /\ xs[k].form # "prealloc"
      BY <2>4, <2>9, <3>1 DEF AwkwardAt
    <3>3. Holds(xs[k], u)
      BY <2>5, <3>2 DEF Holds
    <3>4. e = Placed(v, xs[k]) + u - S(k - 1)
      BY <1>3, <2>9, <3>2, <3>3
    <3>5. xs[a].addr # 0
      <4>1. \A i \in a .. k : xs[i].addr # 0
        BY <2>4, <2>8, <2>9, ChainedAddr
      <4>2. a \in a .. k
        BY <1>2, <2>8
      <4> QED BY <4>1, <4>2
    <3>6. Placed(v, xs[k]) - S(k - 1) = Placed(v, xs[a]) - S(a - 1)
      <4>1. \A i \in 1 .. k : ~AwkwardAt(v, xs, n, i)
        <5>1. \A i \in 1 .. k : i \in 1 .. Len(xs)
          BY <1>2
        <5> QED BY <5>1
      <4>2. n \in Int /\ SumLen(xs, k - 1) < n
        BY <3>1
      <4> QED BY <2>4, <2>8, <2>9, <4>1, <4>2, Chain
    <3>7. Placed(v, xs[k]) \in Nat /\ Placed(v, xs[a]) \in Nat /\ S(a - 1) \in Nat
      <4>1. a \in 1 .. Len(xs) /\ a - 1 \in 0 .. N
        BY <1>2, <2>8
      <4> QED BY <1>2, <2>4, <2>9, <3>5, <4>1 DEF SoundIn, SoundAt
    <3> DEFINE p == Placed(v, xs[k])
               q == Placed(v, xs[a])
               b == S(k - 1)
               c == S(a - 1)
    <3>8. p \in Nat /\ q \in Nat /\ b \in Nat /\ c \in Nat /\ p - b = q - c
      BY <2>5, <3>6, <3>7
    <3> HIDE DEF p, q, b, c
    <3>9. p + u - b = q + u - c
      BY <1>1, <3>8
    <3> QED BY <2>7, <3>4, <3>5, <3>9 DEF p, q, b, c, e
  <2>10. CASE xs[k].addr = 0
    <3>1. a = k
      BY <2>4, <2>8, <2>10, ChainedAddr
    <3>2. t[u + 1] = Zero
      BY <2>7, <2>10, <3>1
    <3>3. ASSUME NEW m \in 1 .. N, Holds(xs[m], u), xs[m].addr # 0 PROVE FALSE
      <4>1. S(m - 1) <= u /\ u < S(m)
        BY <1>4, <3>3
      <4>2. m - 1 \in 0 .. N /\ m \in 0 .. N
        BY <1>2
      <4>3. s[m - 1] <= u /\ u < s[m]
        BY <2>2, <4>1, <4>2
      <4>4. m = k
        <5> HIDE DEF N
        <5> QED BY <1>1, <1>2, <2>1, <2>3, <4>3, PassesOnce
      <4> QED BY <2>10, <3>3, <4>4
    <3>4. e = Zero
      BY <1>3, <3>3
    <3> QED BY <3>2, <3>4 DEF e
  <2> QED BY <2>9, <2>10
<1>7. u >= S(N) \/ u < S(N)
  <2>1. N \in 0 .. N
    BY <1>2
  <2>2. S(N) \in Nat
    BY <1>2, <2>1
  <2> QED BY <1>1, <2>2
<1> QED BY <1>5, <1>6, <1>7

(* The first awkward extent is exported wrongly.                           *)
LEMMA FirstAwkward ==
  ASSUME NEW v \in Volume, NEW items \in Seq(Item), Sound(v, items), NEW xs \in Seq(Item), SoundIn(v, xs),
         SameItems(xs, items), NEW n \in Nat, NEW t, ReadAs(v, xs, n, t),
         \A u \in 0 .. n - 1 : t[u + 1] = ExtentUnit(v, items, u),
         NEW q \in 1 .. Len(xs), \A i \in 1 .. q - 1 : ~AwkwardAt(v, xs, n, i)
  PROVE  ~AwkwardAt(v, xs, n, q)
PROOF
<1> SUFFICES ASSUME AwkwardAt(v, xs, n, q) PROVE FALSE
  OBVIOUS
<1> DEFINE N == Len(xs)
           S(i) == SumLen(xs, i)
           P(i) == Placed(v, xs[i])
           u == S(q - 1)
           e == ExtentUnit(v, items, u)
<1>1. /\ N \in Nat /\ S(0) = 0 /\ (\A i \in 0 .. N : S(i) \in Nat)
      /\ (\A i \in 1 .. N : xs[i].len \in Nat /\ S(i) = S(i - 1) + xs[i].len)
      /\ \A i, j \in 0 .. N : i <= j => S(i) <= S(j)
  BY SumLenGrows
<1>2. \A i \in 1 .. N : SoundAt(v, xs[i]) /\ xs[i].at \in Nat /\ xs[i].len \in Nat /\ xs[i].len > 0
  <2>1. ASSUME NEW i \in 1 .. N
        PROVE  SoundAt(v, xs[i]) /\ xs[i].at \in Nat /\ xs[i].len \in Nat /\ xs[i].len > 0
    <3>1. SoundAt(v, xs[i])
      BY DEF SoundIn
    <3> QED BY <3>1 DEF SoundAt, Item
  <2> QED BY <2>1
<1>3. /\ u < n /\ xs[q].addr # 0
      /\ \/ xs[q].form = "prealloc"
         \/ xs[q].at # u
         \/ q > 1 /\ Joined(xs[q - 1], xs[q]) /\ P(q) # P(q - 1) + xs[q - 1].len
  BY DEF AwkwardAt
<1>4. q - 1 \in 0 .. N /\ q \in 0 .. N /\ q \in 1 .. N
  BY <1>1
<1>5. u \in Nat /\ S(q) = u + xs[q].len /\ u \in 0 .. n - 1 /\ u \in S(q - 1) .. S(q) - 1
  <2>1. u \in Nat /\ S(q) = u + xs[q].len /\ xs[q].len \in Nat /\ xs[q].len > 0
    BY <1>1, <1>2, <1>4
  <2> QED BY <1>3, <2>1
<1>6. PICK a \in 1 .. q :
        /\ HeadOf(xs, q, a)
        /\ \A w \in SumLen(xs, q - 1) .. SumLen(xs, q) - 1 :
             w < n => t[w + 1] = IF xs[a].addr = 0 THEN Zero ELSE Placed(v, xs[a]) + w - SumLen(xs, a - 1)
  BY <1>4 DEF ReadAs
<1>7. Chained(xs, q, a) /\ a \in 1 .. q /\ (q > 1 /\ Joined(xs[q - 1], xs[q]) => a < q)
  BY <1>6 DEF HeadOf
<1>8. \A i \in a .. q : xs[i].addr # 0
  BY <1>3, <1>4, <1>7, ChainedAddr
<1>9. a \in a .. q /\ a \in 1 .. N /\ a - 1 \in 0 .. N /\ a - 1 <= q - 1
  BY <1>1, <1>7
<1>10. t[u + 1] = P(a) + u - S(a - 1) /\ P(a) \in Nat /\ S(a - 1) \in Nat /\ S(a - 1) <= u
  <2>1. xs[a].addr # 0
    BY <1>8, <1>9
  <2>2. P(a) \in Nat
    BY <1>2, <1>9, <2>1 DEF SoundAt
  <2>3. S(a - 1) \in Nat /\ S(a - 1) <= u
    BY <1>1, <1>4, <1>9
  <2>4. t[u + 1] = P(a) + u - S(a - 1)
    BY <1>3, <1>5, <1>6, <2>1
  <2> QED BY <2>2, <2>3, <2>4
<1>11. e = t[u + 1]
  BY <1>5
<1>12. /\ \A k \in 1 .. N : Holds(xs[k], u) =>
            e = IF xs[k].addr = 0 \/ xs[k].form = "prealloc" THEN Zero ELSE Placed(v, xs[k]) + u - xs[k].at
       /\ e = Zero \/ \E m \in 1 .. N : Holds(xs[m], u) /\ xs[m].addr # 0 /\ xs[m].form # "prealloc"
  BY <1>5, UnitAt
<1> HIDE DEF e
<1>13. e # Zero
  <2> DEFINE p == P(a)
             s == S(a - 1)
             w == u
  <2>1. p \in Nat /\ s \in Nat /\ w \in Nat /\ s <= w /\ e = p + w - s
    BY <1>5, <1>10, <1>11
  <2> HIDE DEF p, s, w
  <2> QED BY <2>1 DEF Zero
<1>14. PICK m \in 1 .. N : Holds(xs[m], u) /\ xs[m].addr # 0 /\ xs[m].form # "prealloc"
  BY <1>12, <1>13
<1>15. m = q
  <2>1. ASSUME m < q PROVE FALSE
    <3>1. ~AwkwardAt(v, xs, n, m)
      <4>1. m \in 1 .. q - 1
        BY <1>1, <2>1
      <4> QED BY <4>1
    <3>2. u < S(m)
      <4>1. u < n /\ n \in Int
        BY <1>3
      <4> HIDE DEF u
      <4> QED BY <1>5, <1>14, <3>1, <4>1, HeldThere
    <3>3. S(m) <= u /\ S(m) \in Nat
      <4>1. m \in 0 .. N /\ m <= q - 1
        BY <1>1, <1>4, <2>1
      <4> QED BY <1>1, <1>4, <4>1
    <3> DEFINE w == u
               s == S(m)
    <3>4. w \in Nat /\ s \in Nat /\ w < s /\ s <= w
      BY <1>5, <3>2, <3>3
    <3> HIDE DEF w, s
    <3> QED BY <3>4
  <2>2. ASSUME q < m PROVE FALSE
    <3>1. xs[q].at + xs[q].len <= xs[m].at
      BY <1>4, <1>14, <2>2 DEF SoundIn, Apart
    <3>2. u <= xs[q].at
      BY <1>4, SumsBelow
    <3>3. xs[m].at <= u
      BY <1>14 DEF Holds
    <3> DEFINE w == u
               x == xs[q].at
               l == xs[q].len
               y == xs[m].at
    <3>4. w \in Nat /\ x \in Nat /\ l \in Nat /\ l > 0 /\ y \in Nat /\ x + l <= y /\ w <= x /\ y <= w
      BY <1>2, <1>4, <1>5, <1>14, <3>1, <3>2, <3>3
    <3> HIDE DEF w, x, l, y
    <3> QED BY <3>4
  <2> QED BY <1>1, <1>4, <1>14, <2>1, <2>2
<1>16. xs[q].at = u
  <2>1. u <= xs[q].at
    BY <1>4, SumsBelow
  <2>2. xs[q].at <= u
    BY <1>14, <1>15 DEF Holds
  <2>3. xs[q].at \in Nat
    BY <1>2, <1>4
  <2> DEFINE w == u
  <2>4. w \in Nat /\ w <= xs[q].at /\ xs[q].at <= w
    BY <1>5, <2>1, <2>2
  <2> HIDE DEF w
  <2>5. xs[q].at = w
    BY <2>3, <2>4
  <2> QED BY <2>5 DEF w
<1>17. q > 1 /\ Joined(xs[q - 1], xs[q]) /\ P(q) # P(q - 1) + xs[q - 1].len
  BY <1>3, <1>14, <1>15, <1>16
<1>18. e = P(q)
  <2>1. e = P(q) + u - u
    BY <1>3, <1>12, <1>14, <1>15, <1>16
  <2>2. P(q) \in Nat
    BY <1>2, <1>3, <1>4 DEF SoundAt
  <2> DEFINE w == u
  <2>3. w \in Nat /\ e = P(q) + w - w
    BY <1>5, <2>1
  <2> HIDE DEF w, P
  <2> QED BY <2>2, <2>3
<1>19. P(q - 1) - S(q - 2) = P(a) - S(a - 1)
  <2> DEFINE k == q - 1
  <2>1. a \in 1 .. k /\ k \in 1 .. N /\ k - 1 = q - 2 /\ k \in a .. q
    BY <1>1, <1>4, <1>7, <1>17
  <2>2. Chained(xs, k, a)
    <3>1. \A i \in a + 1 .. k : i \in a + 1 .. q
      BY <1>1, <1>7
    <3> QED BY <1>7, <3>1 DEF Chained
  <2>3. xs[k].addr # 0
    BY <1>8, <2>1
  <2>4. S(q - 2) < n
    <3>1. q - 2 \in 0 .. N /\ q - 2 <= q - 1
      BY <1>1, <1>4, <1>17
    <3>2. S(q - 2) <= u /\ S(q - 2) \in Nat
      BY <1>1, <1>4, <3>1
    <3> DEFINE w == u
    <3>3. w \in Nat /\ S(q - 2) <= w /\ w < n
      BY <1>3, <1>5, <3>2
    <3> HIDE DEF w, S
    <3> QED BY <3>2, <3>3
  <2>5. \A i \in 1 .. k : ~AwkwardAt(v, xs, n, i)
    OBVIOUS
  <2>6. SumLen(xs, k - 1) < n /\ n \in Int
    BY <2>1, <2>4
  <2> HIDE DEF k
  <2>7. P(k) - S(k - 1) = P(a) - S(a - 1)
    BY <2>1, <2>2, <2>3, <2>5, <2>6, Chain
  <2>8. k = q - 1
    BY DEF k
  <2> QED BY <2>1, <2>7, <2>8
<1>20. u = S(q - 2) + xs[q - 1].len /\ S(q - 2) \in Nat /\ xs[q - 1].len \in Nat /\ P(q - 1) \in Nat
  <2> DEFINE k == q - 1
  <2>1. k \in 1 .. N /\ k - 1 = q - 2 /\ k - 1 \in 0 .. N /\ k \in a .. q
    BY <1>1, <1>4, <1>7, <1>17
  <2> HIDE DEF k
  <2>2. S(k) = S(k - 1) + xs[k].len /\ xs[k].len \in Nat /\ S(k - 1) \in Nat
    BY <1>1, <2>1
  <2>3. P(k) \in Nat
    BY <1>2, <1>8, <2>1 DEF SoundAt
  <2> QED BY <2>1, <2>2, <2>3 DEF k
<1> DEFINE p == P(q)
           r == P(q - 1)
           l == xs[q - 1].len
           s == S(q - 2)
           y == P(a)
           z == S(a - 1)
           w == u
<1>21. /\ e = p /\ r - s = y - z /\ w = s + l /\ e = y + w - z /\ p # r + l
       /\ r \in Nat /\ l \in Nat /\ s \in Nat /\ y \in Nat /\ z \in Nat /\ w \in Nat
  BY <1>5, <1>10, <1>11, <1>17, <1>18, <1>19, <1>20
<1> HIDE DEF p, r, l, s, y, z, w
<1> QED BY <1>21

LEMMA AllTrue ==
  ASSUME NEW v \in Volume, NEW items \in Seq(Item), Sound(v, items), NEW xs \in Seq(Item), SoundIn(v, xs),
         SameItems(xs, items), NEW n \in Nat, NEW t, ReadAs(v, xs, n, t),
         \A u \in 0 .. n - 1 : t[u + 1] = ExtentUnit(v, items, u)
  PROVE  \A k \in 1 .. Len(xs) : ~AwkwardAt(v, xs, n, k)
PROOF
<1> DEFINE N == Len(xs)
           I == {k \in 0 .. N : \A i \in 1 .. k : ~AwkwardAt(v, xs, n, i)}
<1>1. N \in Nat /\ 0 \in I
  OBVIOUS
<1>2. ASSUME NEW k \in 0 .. N - 1, k \in I PROVE k + 1 \in I
  <2>1. k + 1 \in 1 .. Len(xs) /\ (k + 1) - 1 = k /\ k + 1 \in 0 .. N
    BY <1>1
  <2> DEFINE q == k + 1
  <2>2. q \in 1 .. Len(xs) /\ \A i \in 1 .. q - 1 : ~AwkwardAt(v, xs, n, i)
    BY <1>2, <2>1
  <2> HIDE DEF q
  <2>3. ~AwkwardAt(v, xs, n, q)
    BY <2>2, FirstAwkward
  <2>4. \A i \in 1 .. k + 1 : i \in 1 .. k \/ i = k + 1
    BY <1>1
  <2> QED BY <1>2, <2>1, <2>3, <2>4 DEF q
<1>3. 0 .. N \subseteq I
  <2> HIDE DEF I, N
  <2> QED BY <1>1, <1>2, BoundedInduction
<1>4. N \in 0 .. N
  BY <1>1
<1> QED BY <1>3, <1>4

(* What the groups put there, extent by extent.                            *)
GroupsSent(v, r, n, t) ==
  /\ \A j \in 1 .. Len(GroupedExtents(r.data.items)) :
       \A u \in Until(r, Cut(r)[j - 1]) .. Until(r, Cut(r)[j]) - 1 : u < n => t[u + 1] = GroupUnit(v, r, j, u)
  /\ \A u \in 0 .. n - 1 : u >= Until(r, Len(InOrder(r))) => t[u + 1] = Zero

LEMMA ReadAsGroups ==
  ASSUME NEW r \in Record, Kinds(r), NEW v, NEW n \in Nat, NEW t, GroupsSent(v, r, n, t)
  PROVE  ReadAs(v, InOrder(r), n, t)
PROOF
<1> DEFINE xs == InOrder(r)
           G == GroupedExtents(r.data.items)
           c == Cut(r)
           N == Len(xs)
           M == Len(G)
<1>1. xs \in Seq(Item) /\ G \in Seq(Seq(Item)) /\ IsCut(xs, N, G, c)
  BY CutIs
<1>2. N \in Nat /\ M \in Nat
  BY <1>1
<1>3. c[0] = 0 /\ c[M] = N /\ (\A j \in 0 .. M : c[j] \in 0 .. N)
  BY <1>1 DEF IsCut
<1>4. /\ \A j \in 1 .. M : \A k \in c[j - 1] + 2 .. c[j] : Joined(xs[k - 1], xs[k])
      /\ \A j \in 1 .. M - 1 : ~Joined(xs[c[j]], xs[c[j] + 1])
  BY <1>1 DEF IsCut
<1>5. /\ \A k \in 0 .. N : SumLen(xs, k) \in Nat
      /\ \A j, k \in 0 .. N : j <= k => SumLen(xs, j) <= SumLen(xs, k)
  BY <1>1, SumLenGrows
<1>6. \A j \in 1 .. M : \A u \in SumLen(xs, c[j - 1]) .. SumLen(xs, c[j]) - 1 :
        u < n => t[u + 1] = IF xs[c[j - 1] + 1].addr = 0 THEN Zero
                            ELSE Placed(v, xs[c[j - 1] + 1]) + u - SumLen(xs, c[j - 1])
  BY DEF GroupsSent, GroupUnit, Until
<1>7. \A u \in 0 .. n - 1 : u >= SumLen(xs, N) => t[u + 1] = Zero
  BY DEF GroupsSent, Until
<1> HIDE DEF xs, G, c, N, M
<1>8. ASSUME NEW k \in 1 .. N
      PROVE  \E a \in 1 .. k :
               /\ HeadOf(xs, k, a)
               /\ \A u \in SumLen(xs, k - 1) .. SumLen(xs, k) - 1 :
                    u < n => t[u + 1] = IF xs[a].addr = 0 THEN Zero ELSE Placed(v, xs[a]) + u - SumLen(xs, a - 1)
  <2>1. \E j \in 1 .. M : c[j - 1] <= k - 1 /\ k - 1 < c[j]
    <3>1. (\A j \in 0 .. M : c[j] \in Int) /\ c[0] <= k - 1 /\ k - 1 < c[M] /\ k - 1 \in Int
      BY <1>2, <1>3
    <3> QED BY <1>2, <3>1, Passes
  <2>2. PICK j \in 1 .. M : c[j - 1] <= k - 1 /\ k - 1 < c[j]
    BY <2>1
  <2>3. j - 1 \in 0 .. M /\ j \in 0 .. M
    BY <1>2
  <2>4. c[j - 1] \in 0 .. N /\ c[j] \in 0 .. N
    BY <1>3, <2>3
  <2> DEFINE b == c[j - 1]
             a == b + 1
  <2>5. b \in 0 .. N /\ b <= k - 1
    BY <2>2, <2>4
  <2> HIDE DEF b
  <2>6. a \in 1 .. k /\ a - 1 = b
    BY <2>5
  <2>7. Chained(xs, k, a)
    <3> SUFFICES ASSUME NEW i \in a + 1 .. k PROVE Joined(xs[i - 1], xs[i])
      BY DEF Chained
    <3>1. i \in c[j - 1] + 2 .. c[j]
      BY <1>2, <2>2, <2>4, <2>5 DEF b
    <3> QED BY <1>4, <3>1
  <2>8. ASSUME k > 1, Joined(xs[k - 1], xs[k]) PROVE a < k
    <3> SUFFICES ASSUME a = k PROVE FALSE
      BY <2>6
    <3>1. b = k - 1 /\ b # 0
      BY <2>5, <2>8
    <3>2. j # 1
      <4>1. j = 1 => j - 1 = 0
        OBVIOUS
      <4> QED BY <1>3, <3>1, <4>1 DEF b
    <3> DEFINE i == j - 1
    <3>3. i \in 1 .. M - 1 /\ b = c[i]
      BY <1>2, <3>2 DEF b
    <3> HIDE DEF i
    <3>4. ~Joined(xs[b], xs[b + 1])
      BY <1>4, <3>3
    <3>5. b + 1 = k
      BY <3>1
    <3> QED BY <2>8, <3>1, <3>4, <3>5
  <2>9. HeadOf(xs, k, a)
    BY <2>6, <2>7, <2>8 DEF HeadOf
  <2>10. ASSUME NEW u \in SumLen(xs, k - 1) .. SumLen(xs, k) - 1, u < n
         PROVE  t[u + 1] = IF xs[a].addr = 0 THEN Zero ELSE Placed(v, xs[a]) + u - SumLen(xs, a - 1)
    <3>1. k - 1 \in 0 .. N /\ k \in 0 .. N /\ k <= c[j]
      BY <1>2, <2>2, <2>4
    <3>2. SumLen(xs, b) <= SumLen(xs, k - 1) /\ SumLen(xs, k) <= SumLen(xs, c[j])
      BY <1>5, <2>4, <2>5, <3>1
    <3>3. SumLen(xs, b) \in Nat /\ SumLen(xs, k - 1) \in Nat /\ SumLen(xs, k) \in Nat /\ SumLen(xs, c[j]) \in Nat
      BY <1>5, <2>4, <2>5, <3>1
    <3>4. u \in SumLen(xs, b) .. SumLen(xs, c[j]) - 1
      BY <3>2, <3>3
    <3>5. t[u + 1] = IF xs[b + 1].addr = 0 THEN Zero ELSE Placed(v, xs[b + 1]) + u - SumLen(xs, b)
      BY <1>6, <2>10, <3>4 DEF b
    <3> QED BY <2>6, <3>5
  <2> QED BY <2>6, <2>9, <2>10
<1>9. \A u \in 0 .. n - 1 : u >= SumLen(xs, Len(xs)) => t[u + 1] = Zero
  BY <1>7 DEF N
<1>10. \A k \in 1 .. Len(xs) : \E a \in 1 .. k :
         /\ HeadOf(xs, k, a)
         /\ \A u \in SumLen(xs, k - 1) .. SumLen(xs, k) - 1 :
              u < n => t[u + 1] = IF xs[a].addr = 0 THEN Zero ELSE Placed(v, xs[a]) + u - SumLen(xs, a - 1)
  BY <1>8 DEF N
<1> QED BY <1>9, <1>10 DEF ReadAs, xs

LEMMA AwkwardIs ==
  ASSUME NEW r \in Record, Kinds(r), NEW v
  PROVE  Awkward(v, r) <=> \E k \in 1 .. Len(InOrder(r)) : AwkwardAt(v, InOrder(r), r.lsize, k)
PROOF
<1>1. DOMAIN InOrder(r) = 1 .. Len(InOrder(r))
  <2>1. InOrder(r) \in Seq(Item)
    BY CutIs
  <2> QED BY <2>1
<1>2. InOrder(r) = ByFileOffset(r.data.items)
  BY DEF InOrder
<1>3. Awkward(v, r) <=>
        \E k \in 1 .. Len(InOrder(r)) :
          /\ SumLen(InOrder(r), k - 1) < r.lsize /\ InOrder(r)[k].addr # 0
          /\ \/ InOrder(r)[k].form = "prealloc"
             \/ InOrder(r)[k].at # SumLen(InOrder(r), k - 1)
             \/ /\ k > 1 /\ Continues(InOrder(r)[k - 1], InOrder(r)[k])
                /\ Placed(v, InOrder(r)[k]) # Placed(v, InOrder(r)[k - 1]) + InOrder(r)[k - 1].len
  BY <1>1, <1>2 DEF Awkward
<1> QED BY <1>3, JoinedIs DEF AwkwardAt

(* The content of a BTRFS file that is sent.                               *)
LEMMA ExtentsSent ==
  ASSUME IInv, Bounded, ContentRead, SendFile
  PROVE  ExtentsTrue(volume, record, SubSeq(loc.buf, 1, record.lsize))
PROOF
<1> DEFINE r == record
           v == volume
           n == record.lsize
           t == SubSeq(loc.buf, 1, record.lsize)
           B == BufferSize(r)
           xs == InOrder(r)
           items == r.data.items
<1> SUFFICES ASSUME Readable(v, r) PROVE ExtentsTrue(v, r, t)
  BY DEF ExtentsTrue, Readable, OfExtents
<1>1. Working /\ loc # NoFile /\ AllRead
  BY DEF SendFile
<1>2. /\ r \in Record /\ Kinds(r) /\ v \in Volume /\ Bound(loc, r) /\ loc \in Place
      /\ n \in Nat /\ B \in Nat /\ n <= B
      /\ \A u \in 0 .. n - 1 : t[u + 1] = loc.buf[u + 1]
  BY <1>1, SentContent
<1> HIDE DEF t, n
<1>3. ExtentsRead(loc, v, r)
  BY <1>1 DEF ContentRead
<1>4. r.linked = <<>> /\ Len(Extents(r)) = 1
  BY <1>2, RecordType DEF Readable, OfExtents
<1>5. loc.ext > 1
  BY <1>1, <1>4 DEF AllRead, record
<1> HIDE DEF r, v, B
<1>6. loc.groups = GroupedExtents(items)
  BY <1>2 DEF Bound, Reading
<1>7. /\ Reached(loc) = Until(r, Len(xs))
      /\ \A j \in 1 .. Len(loc.groups) : \A u \in Until(r, Cut(r)[j - 1]) .. Until(r, Cut(r)[j]) - 1 :
           u < Reached(loc) /\ u < B => loc.buf[u + 1] = GroupUnit(v, r, j, u)
      /\ \A u \in 0 .. B - 1 : u >= Reached(loc) => loc.buf[u + 1] = Zero
  BY <1>3, <1>5 DEF ExtentsRead, Readable, B
<1>8. GroupsSent(v, r, n, t)
  <2> DEFINE M == Len(GroupedExtents(items))
  <2>1. /\ M \in Nat /\ Cut(r)[M] = Len(xs)
        /\ \A j \in 0 .. M : Until(r, Cut(r)[j]) \in Nat
        /\ \A j, k \in 0 .. M : j <= k => Until(r, Cut(r)[j]) <= Until(r, Cut(r)[k])
    BY <1>2, GroupsAre
  <2>2. ASSUME NEW j \in 1 .. M, NEW u \in Until(r, Cut(r)[j - 1]) .. Until(r, Cut(r)[j]) - 1, u < n
        PROVE  t[u + 1] = GroupUnit(v, r, j, u)
    <3>1. j - 1 \in 0 .. M /\ j \in 0 .. M /\ M \in 0 .. M /\ j <= M
      BY <2>1
    <3>2. Until(r, Cut(r)[j - 1]) \in Nat /\ Until(r, Cut(r)[j]) \in Nat /\ Until(r, Cut(r)[j]) <= Until(r, Cut(r)[M])
          /\ Until(r, Cut(r)[M]) \in Nat
      BY <2>1, <3>1
    <3>3. Until(r, Cut(r)[M]) = Reached(loc)
      BY <1>7, <2>1
    <3>4. u \in 0 .. n - 1 /\ u < Reached(loc) /\ u < B
      BY <1>2, <2>2, <3>2, <3>3
    <3>5. loc.buf[u + 1] = GroupUnit(v, r, j, u)
      BY <1>6, <1>7, <3>4
    <3> QED BY <1>2, <3>4, <3>5
  <2>3. ASSUME NEW u \in 0 .. n - 1, u >= Until(r, Len(xs)) PROVE t[u + 1] = Zero
    <3>1. u \in 0 .. B - 1
      BY <1>2
    <3> QED BY <1>2, <1>7, <2>3, <3>1
  <2> QED BY <2>2, <2>3 DEF GroupsSent
<1>9. ReadAs(v, xs, n, t)
  BY <1>2, <1>8, ReadAsGroups
<1>10. xs \in Seq(Item) /\ SoundIn(v, xs) /\ items \in Seq(Item) /\ SameItems(xs, items) /\ Sound(v, items)
  BY <1>2, SoundFile DEF Readable, SameItems
<1>11. Awkward(v, r) <=> \E k \in 1 .. Len(xs) : AwkwardAt(v, xs, n, k)
  <2>1. n = r.lsize
    BY DEF n, r
  <2>2. Awkward(v, r) <=> \E k \in 1 .. Len(InOrder(r)) : AwkwardAt(v, InOrder(r), r.lsize, k)
    BY <1>2, AwkwardIs
  <2> QED BY <2>1, <2>2
<1> HIDE DEF xs, items
<1>12. ASSUME \A k \in 1 .. Len(xs) : ~AwkwardAt(v, xs, n, k)
       PROVE  \A u \in 0 .. n - 1 : t[u + 1] = ExtentUnit(v, items, u)
  <2> SUFFICES ASSUME NEW u \in 0 .. n - 1 PROVE t[u + 1] = ExtentUnit(v, items, u)
    OBVIOUS
  <2> QED BY <1>2, <1>9, <1>10, <1>12, NoneAwkward
<1>13. (\A u \in 0 .. n - 1 : t[u + 1] = ExtentUnit(v, items, u)) => \A k \in 1 .. Len(xs) : ~AwkwardAt(v, xs, n, k)
  BY <1>2, <1>9, <1>10, AllTrue
<1>14. (\A u \in 0 .. n - 1 : t[u + 1] = ExtentUnit(v, items, u)) <=> ~Awkward(v, r)
  BY <1>11, <1>12, <1>13
<1> QED BY <1>14 DEF ExtentsTrue, items, n, r

LEMMA OtherRuns ==
  ASSUME IInv, Bounded, LocateResident \/ LocateGroup
  PROVE  RunsRead(loc', volume, record)
PROOF
<1> SUFFICES ASSUME Regular(volume, record) PROVE FALSE
  BY DEF RunsRead
<1>1. Locating /\ extent.kind # "runs"
  BY DEF LocateResident, LocateGroup, AtGroup
<1> QED BY <1>1, RegularAt

LEMMA OtherExtents ==
  ASSUME IInv, Bounded, LocateResident \/ LocateRun
  PROVE  ExtentsRead(loc', volume, record)
PROOF
<1> SUFFICES ASSUME OfExtents(record) PROVE FALSE
  BY DEF ExtentsRead
<1>1. Locating /\ extent.kind # "extents"
  BY DEF LocateResident, LocateRun, AtRun
<1> QED BY <1>1, WhileLocating
-----------------------------------------------------------------------------
LEMMA SameContent ==
  ASSUME ContentRead, UNCHANGED <<job, order, rpos, loc>>
  PROVE  ContentRead'
PROOF
<1>1. record' = record /\ volume' = volume /\ loc' = loc
  BY SamePart DEF record, volume
<1>2. (NoFile)' = NoFile
  BY DEF NoFile
<1> QED BY <1>1, <1>2 DEF ContentRead

LEMMA NowContent ==
  ASSUME RunsRead(loc', volume, record), ExtentsRead(loc', volume, record), UNCHANGED <<job, order, rpos>>
  PROVE  ContentRead'
PROOF
<1>1. record' = record /\ volume' = volume
  BY SamePart DEF record, volume
<1> QED BY <1>1 DEF ContentRead

LEMMA NoFileContent ==
  ASSUME loc' = NoFile
  PROVE  ContentRead'
PROOF BY DEF ContentRead, NoFile

LEMMA NextContent ==
  ASSUME IInv, Bounded, ContentRead, [Next]_vars
  PROVE  ContentRead'
PROOF
<1>1. CASE ExportRecords
  <2>1. loc = NoFile
    BY <1>1 DEF IInv, Opened, ExportRecords
  <2>2. loc' = NoFile
    BY <1>1, <2>1 DEF ExportRecords
  <2> QED BY <2>2, NoFileContent
<1>2. CASE SkipFolder
  <2>1. loc = NoFile
    BY <1>2 DEF IInv, Opened, SkipFolder
  <2>2. loc' = NoFile
    BY <1>2, <2>1 DEF SkipFolder
  <2> QED BY <2>2, NoFileContent
<1>3. CASE OpenFile
  <2>1. UNCHANGED <<job, order, rpos>>
    BY <1>3 DEF OpenFile, inputs, workerVars
  <2> QED BY <1>3, <2>1, OpenRuns, OpenExtents, NowContent
<1>4. CASE LocateResident \/ LocateRun \/ LocateGroup \/ LocateEnd
  <2>1. UNCHANGED <<job, order, rpos>>
    BY <1>4 DEF LocateResident, LocateRun, LocateGroup, LocateEnd, inputs, workerVars
  <2>2. RunsRead(loc', volume, record)
    BY <1>4, OtherRuns, RunRuns, EndRuns
  <2>3. ExtentsRead(loc', volume, record)
    BY <1>4, OtherExtents, GroupExtents, EndExtents
  <2> QED BY <2>1, <2>2, <2>3, NowContent
<1>5. CASE SendFile
  <2>1. loc' = NoFile
    BY <1>5 DEF SendFile
  <2> QED BY <2>1, NoFileContent
<1>6. CASE LocatePanics \/ CloseResults \/ RemoveOld \/ WriteFile \/ ExportWait \/ HashFiles \/ LoopDone \/ UNCHANGED vars
  <2>1. UNCHANGED <<job, order, rpos, loc>>
    BY <1>6 DEF LocatePanics, CloseResults, RemoveOld, WriteFile, ExportWait, HashFiles, HashFile, HashDone, LoopDone, vars,
       inputs, workerVars
  <2> QED BY <2>1, SameContent
<1> QED BY <1>1, <1>2, <1>3, <1>4, <1>5, <1>6 DEF Next, Worker, LocateData, ExportData, Returned

LEMMA NextExported ==
  ASSUME IInv, Bounded, ContentRead, RunsExported, [Next]_vars
  PROVE  RunsExported'
PROOF
<1>1. CASE SendFile
  <2> DEFINE t == SubSeq(loc.buf, 1, record.lsize)
             m == [part |-> part, idx |-> rpos, rec |-> record, content |-> t]
  <2>1. sent' = Append(sent, m) /\ job' = job /\ Working /\ loc # NoFile
    BY <1>1 DEF SendFile, record, inputs
  <2>2. Len(t) = record.lsize
    BY <2>1, SentContent
  <2>3. RunsTrue(volume, record, t)
    BY <1>1, RunsSent
  <2>4. ExtentsTrue(volume, record, t)
    BY <1>1, ExtentsSent
  <2> HIDE DEF t
  <2>5. m.rec = record /\ job[m.part] = volume /\ m.content = t
    BY DEF volume
  <2> HIDE DEF m
  <2>6. sent \in Seq(RangeOf(sent))
    BY DEF IInv, Queue
  <2>7. /\ Len(sent) \in Nat /\ Len(sent') = Len(sent) + 1 /\ sent'[Len(sent) + 1] = m
        /\ \A k \in 1 .. Len(sent) : sent'[k] = sent[k]
    BY <2>1, <2>6, AppendFacts
  <2>8. ASSUME NEW k \in 1 .. Len(sent')
        PROVE  /\ Len(sent'[k].content) = sent'[k].rec.lsize
               /\ RunsTrue(job[sent'[k].part], sent'[k].rec, sent'[k].content)
               /\ ExtentsTrue(job[sent'[k].part], sent'[k].rec, sent'[k].content)
    <3>1. CASE k \in 1 .. Len(sent)
      BY <2>7, <3>1 DEF RunsExported
    <3>2. CASE k = Len(sent) + 1
      BY <2>2, <2>3, <2>4, <2>5, <2>7, <3>2
    <3> QED BY <2>7, <3>1, <3>2
  <2> QED BY <2>1, <2>8 DEF RunsExported
<1>2. CASE ~SendFile
  <2>1. UNCHANGED <<job, sent>>
    BY <1>2 DEF Next, Worker, LocateData, ExportData, Returned, ExportRecords, SkipFolder, OpenFile, LocateResident, LocateRun,
       LocateGroup, LocateEnd, LocatePanics, CloseResults, RemoveOld, WriteFile, ExportWait, HashFiles, HashFile, HashDone,
       LoopDone, vars, inputs
  <2> QED BY <2>1 DEF RunsExported
<1> QED BY <1>1, <1>2

CInv == PInv /\ ContentRead /\ RunsExported

(* Whatever its runs or extents are, in every partition: what is sent of a *)
(* regular NTFS file differs from the file in exactly the units that are   *)
(* misread, and of a sound BTRFS file not at all, unless it has an awkward *)
(* extent, and then it does (LocateData, ReadFile, GetGroupedExtents).     *)
THEOREM FilesAreRead == Spec => []RunsExported
PROOF
<1>1. Init => CInv
  <2> SUFFICES ASSUME Init PROVE CInv
    OBVIOUS
  <2>1. Bounded /\ PanicOnlyOnOverrun /\ ContentRead /\ RunsExported
    BY DEF Init, Bounded, PanicOnlyOnOverrun, ContentRead, RunsExported
  <2> QED BY <2>1, InitIInv DEF PInv, CInv
<1>2. CInv /\ [Next]_vars => CInv'
  BY NextIInv, NextBounded, NextPanic, NextContent, NextExported DEF PInv, CInv
<1>3. CInv => RunsExported
  BY DEF CInv
<1> QED BY <1>1, <1>2, <1>3, PTL DEF Spec
=============================================================================
