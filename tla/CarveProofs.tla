----------------------------- MODULE CarveProofs -----------------------------
(***************************************************************************)
(* Carving finds every $MFT record exactly once, for every disk, chunk     *)
(* size, channel capacity and number of workers.                           *)
(***************************************************************************)
EXTENDS Carve, WellFoundedInduction, TLAPS

Distinct(s) == \A i, j \in 1 .. Len(s) : i # j => s[i] # s[j]

Held == {hold[w] : w \in Workers} \ {None}

(* A position the reads start at.                                          *)
AtChunk(o) == \E k \in Nat : o = start + k * Chunk

Inputs == disk \in Seq(Unit) /\ start \in Nat /\ keepsTail \in BOOLEAN

(* Where the producer is: inside a chunk it stays among the delivered      *)
(* candidates, and between chunks it has left none of them behind.         *)
Chunks ==
  /\ AtChunk(off)
  /\ start <= pos /\ pos <= end /\ end <= off
  /\ pos < end => end <= DeliveredEnd
  /\ end = off \/ DeliveredEnd <= end
  /\ (pos - start) % 2 = 0

(* Candidates in flight are delivered ones, parsed ones are valid.         *)
Sound ==
  /\ Range(ch) \subseteq {p \in Delivered : p < pos}
  /\ Held \subseteq {p \in Delivered : p < pos /\ At(p).valid}
  /\ Range(out) \subseteq {p \in Delivered : p < pos /\ At(p).valid}
  /\ Range(carved) \subseteq {p \in Targets : p < pos}

(* No candidate is at two places or twice at one.                          *)
Once ==
  /\ Distinct(ch) /\ Distinct(out) /\ Distinct(carved)
  /\ \A w, v \in Workers : w # v /\ hold[w] # None => hold[w] # hold[v]
  /\ Range(ch) \cap Held = {} /\ Range(ch) \cap Range(out) = {} /\ Range(ch) \cap Range(carved) = {}
  /\ Held \cap Range(out) = {} /\ Held \cap Range(carved) = {} /\ Range(out) \cap Range(carved) = {}

(* No target the producer has passed is lost.                              *)
Complete == \A p \in Targets : p < pos => p \in Range(ch) \cup Held \cup Range(out) \cup Range(carved)

(* What holds of the goroutines that are done.                             *)
Closing ==
  /\ \A w \in Workers : wpc[w] = "send" <=> hold[w] # None
  /\ \A w \in Workers : wpc[w] = "done" => closed /\ ch = <<>>
  /\ closed => pos = end /\ off >= D
  /\ outClosed => \A w \in Workers : wpc[w] = "done"
  /\ stage \in {"rebuild", "done"} => outClosed /\ out = <<>>

(* Which records the search still has to rebuild, and has rebuilt.         *)
Rebuilding ==
  /\ \A l \in left : l \in DOMAIN byLSN /\ byLSN[l] \in Targets /\ At(byLSN[l]).lsn = l
  /\ \A k \in 1 .. Len(parts) :
       parts[k] \in Targets /\ PartitionOffset(parts[k]) > MinOffset /\ At(parts[k]).lsn \notin left
  /\ \A j, k \in 1 .. Len(parts) : j # k => At(parts[j]).lsn # At(parts[k]).lsn
  /\ stage \in {"carve", "panic"} => parts = <<>> /\ left = {}

IInv == Inputs /\ TypeOK /\ Chunks /\ Sound /\ Once /\ Complete /\ Closing /\ Rebuilding
-----------------------------------------------------------------------------
(* Sequences without repetition.                                           *)

(* Appending a new element to a sequence without repetition adds it to the *)
(* range and keeps it without repetition (a send on a channel).            *)
LEMMA AppendDistinct ==
  ASSUME NEW S, NEW s \in Seq(S), NEW x \in S, Distinct(s), x \notin Range(s)
  PROVE  /\ Append(s, x) \in Seq(S) /\ Distinct(Append(s, x))
         /\ Len(Append(s, x)) = Len(s) + 1
         /\ Range(Append(s, x)) = Range(s) \cup {x}
PROOF
<1> DEFINE t == Append(s, x)
<1>1. t \in Seq(S) /\ Len(t) = Len(s) + 1 /\ t[Len(s) + 1] = x /\ \A i \in 1 .. Len(s) : t[i] = s[i]
  OBVIOUS
<1>2. DOMAIN s = 1 .. Len(s) /\ DOMAIN t = 1 .. Len(t) /\ Len(s) \in Nat
  BY <1>1
<1>3. \A i \in 1 .. Len(s) : s[i] # x
  BY <1>2 DEF Range
<1>4. Distinct(t)
  BY <1>1, <1>2, <1>3 DEF Distinct
<1>5. Range(t) = Range(s) \cup {x}
  <2> HIDE DEF t
  <2> QED BY <1>1, <1>2 DEF Range
<1> QED BY <1>1, <1>4, <1>5

(* Taking the head of a sequence without repetition removes it from the    *)
(* range (a receive from a channel).                                       *)
LEMMA TailDistinct ==
  ASSUME NEW S, NEW s \in Seq(S), Distinct(s), s # <<>>
  PROVE  /\ Tail(s) \in Seq(S) /\ Distinct(Tail(s)) /\ Head(s) \in S
         /\ Len(Tail(s)) = Len(s) - 1
         /\ Head(s) \in Range(s)
         /\ Range(Tail(s)) = Range(s) \ {Head(s)}
PROOF
<1> DEFINE t == Tail(s)
<1>1. /\ t \in Seq(S) /\ Len(t) = Len(s) - 1 /\ Head(s) = s[1] /\ Head(s) \in S
      /\ \A i \in 1 .. Len(t) : t[i] = s[i + 1]
  OBVIOUS
<1>2. DOMAIN s = 1 .. Len(s) /\ DOMAIN t = 1 .. Len(t) /\ Len(s) \in Nat /\ Len(s) >= 1
  BY <1>1
<1>3. Distinct(t)
  BY <1>1, <1>2 DEF Distinct
<1>4. Head(s) \in Range(s)
  BY <1>1, <1>2 DEF Range
<1>5. Range(t) = Range(s) \ {Head(s)}
  <2> HIDE DEF t
  <2>1. ASSUME NEW y \in Range(t) PROVE y \in Range(s) \ {Head(s)}
    <3>1. PICK i \in 1 .. Len(t) : y = t[i]
      BY <1>2, <2>1 DEF Range
    <3>2. i + 1 \in 1 .. Len(s) /\ y = s[i + 1] /\ i + 1 # 1
      BY <1>1, <1>2, <3>1
    <3>3. y # s[1]
      BY <1>2, <3>2 DEF Distinct
    <3> QED BY <1>1, <1>2, <3>2, <3>3 DEF Range
  <2>2. ASSUME NEW y \in Range(s), y # Head(s) PROVE y \in Range(t)
    <3>1. PICK i \in 1 .. Len(s) : y = s[i]
      BY <1>2, <2>2 DEF Range
    <3>2. i # 1
      BY <1>1, <2>2, <3>1
    <3>3. i - 1 \in 1 .. Len(t) /\ t[i - 1] = s[i]
      BY <1>1, <1>2, <3>1, <3>2
    <3> QED BY <1>2, <3>1, <3>3 DEF Range
  <2> QED BY <2>1, <2>2
<1> QED BY <1>1, <1>3, <1>4, <1>5

(* The empty sequence.                                                     *)
LEMMA EmptyRange == Range(<<>>) = {} /\ Distinct(<<>>)
PROOF BY DEF Range, Distinct
-----------------------------------------------------------------------------
(* Chunks.                                                                 *)

(* Multiples of the chunk size are a chunk apart.                          *)
LEMMA Multiples ==
  ASSUME NEW c \in Nat \ {0}, NEW j \in Nat, NEW k \in Nat, j < k
  PROVE  j * c + c <= k * c
PROOF
<1>1. PICK m \in Nat : k = j + 1 + m
  <2>1. k - j - 1 \in Nat /\ k = j + 1 + (k - j - 1)
    OBVIOUS
  <2> QED BY <2>1
<1>2. k * c = j * c + c + m * c
  BY <1>1
<1>3. m * c \in Nat /\ j * c \in Nat
  OBVIOUS
<1> QED BY <1>2, <1>3

(* A chunk that lies on the disk is delivered; where a chunk runs past the *)
(* end, nothing from its start on is, unless the reader keeps the tail.    *)
LEMMA ChunkDelivered ==
  ASSUME Inputs, NEW o \in Nat, AtChunk(o), o < D
  PROVE  /\ DeliveredEnd \in Nat /\ DeliveredEnd <= D
         /\ o + Chunk <= D => o + Chunk <= DeliveredEnd
         /\ o + Chunk > D /\ ~keepsTail => DeliveredEnd <= o
         /\ keepsTail => DeliveredEnd = D
         /\ start <= o /\ (o - start) % 2 = 0 /\ AtChunk(o + Chunk)
PROOF
<1>1. D \in Nat /\ start \in Nat /\ keepsTail \in BOOLEAN /\ Chunk \in Nat \ {0} /\ Chunk % 2 = 0
  BY CarveAssumption DEF Inputs, D
<1>2. PICK k \in Nat : o = start + k * Chunk
  BY DEF AtChunk
<1>3. k * Chunk \in Nat /\ start <= o /\ start <= D
  BY <1>1, <1>2
<1>4. (o - start) % 2 = 0
  <2>1. PICK m \in Nat : Chunk = 2 * m
    <3>1. Chunk = 2 * (Chunk \div 2) /\ Chunk \div 2 \in Nat
      BY <1>1
    <3> QED BY <3>1
  <2>2. k * Chunk = 2 * (k * m) /\ k * m \in Nat
    BY <2>1
  <2>3. \A n \in Nat : (2 * n) % 2 = 0
    OBVIOUS
  <2>4. o - start = k * Chunk
    BY <1>1, <1>2, <1>3
  <2> QED BY <2>2, <2>3, <2>4
<1>5. AtChunk(o + Chunk)
  <2>1. (k + 1) * Chunk = k * Chunk + Chunk
    BY <1>1
  <2>2. o + Chunk = start + (k + 1) * Chunk
    BY <1>1, <1>2, <1>3, <2>1
  <2>3. k + 1 \in Nat
    OBVIOUS
  <2> QED BY <2>2, <2>3 DEF AtChunk
<1> DEFINE q == (D - start) \div Chunk
<1>6. q \in Nat /\ q * Chunk <= D - start /\ D - start < q * Chunk + Chunk /\ q * Chunk \in Nat
  <2>1. \A n \in Nat, c \in Nat \ {0} :
          n \div c \in Nat /\ (n \div c) * c <= n /\ n < (n \div c) * c + c
    OBVIOUS
  <2> QED BY <1>1, <1>3, <2>1
<1> HIDE DEF q
<1>7. k < q => k * Chunk + Chunk <= q * Chunk
  BY <1>1, <1>6, Multiples
<1>8. q < k => q * Chunk + Chunk <= k * Chunk
  BY <1>1, <1>6, Multiples
<1>9. CASE keepsTail
  BY <1>1, <1>2, <1>3, <1>4, <1>5, <1>9 DEF DeliveredEnd
<1>10. CASE ~keepsTail
  <2>1. DeliveredEnd = start + q * Chunk
    BY <1>1, <1>3, <1>10 DEF DeliveredEnd, q
  <2> QED BY <1>1, <1>2, <1>3, <1>4, <1>5, <1>6, <1>7, <1>8, <1>10, <2>1
<1> QED BY <1>9, <1>10
-----------------------------------------------------------------------------
(* The inputs never change, so neither does what they determine.           *)
LEMMA SameInputs ==
  ASSUME UNCHANGED inputs
  PROVE  /\ D' = D /\ DeliveredEnd' = DeliveredEnd /\ Delivered' = Delivered /\ Targets' = Targets
         /\ \A p : At(p)' = At(p)
         /\ \A p : PartitionOffset(p)' = PartitionOffset(p)
         /\ Inputs => Inputs'
         /\ \A o : AtChunk(o)' = AtChunk(o)
PROOF BY DEF inputs, D, DeliveredEnd, Delivered, Targets, At, PartitionOffset, Inputs, AtChunk

(* Delivered candidates are numbers.                                       *)
LEMMA DeliveredType ==
  ASSUME Inputs
  PROVE  DeliveredEnd \in Int /\ Delivered \subseteq Nat /\ Targets \subseteq Delivered
PROOF
<1>1. D \in Nat /\ start \in Nat /\ keepsTail \in BOOLEAN /\ Chunk \in Nat \ {0}
  BY CarveAssumption DEF Inputs, D
<1>2. DeliveredEnd \in Int
  BY <1>1 DEF DeliveredEnd
<1> QED BY <1>1, <1>2 DEF Delivered, Targets

(* A non-empty set of positions of a sequence has a last one.              *)
LEMMA LastExists ==
  ASSUME NEW n \in Nat, NEW K \in SUBSET (1 .. n), K # {}
  PROVE  \E k \in K : \A j \in K : j <= k
PROOF
<1> DEFINE T == {n - k : k \in K}
<1>1. T \subseteq Nat /\ T # {}
  <2>1. \A k \in K : n - k \in Nat
    OBVIOUS
  <2>2. \E k : k \in K
    OBVIOUS
  <2> QED BY <2>1, <2>2
<1> DEFINE R == {ss \in Nat \X Nat : ss[1] < ss[2]}
<1>2. IsWellFoundedOn(R, Nat)
  BY NatLessThanWellFounded, Zenon DEF OpToRel
<1>3. PICK x \in T : \A y \in T : ~(y < x)
  <2> HIDE DEF T
  <2>1. \A x, y \in Nat : y < x => <<y, x>> \in R
    OBVIOUS
  <2> HIDE DEF R
  <2>2. PICK x \in T : \A y \in T : ~(<<y, x>> \in R)
    BY <1>1, <1>2, WFMin
  <2> QED BY <1>1, <2>1, <2>2
<1>4. PICK k \in K : x = n - k
  OBVIOUS
<1>5. \A j \in K : ~(n - j < n - k)
  BY <1>3, <1>4
<1> QED BY <1>5

(* The record kept for a log sequence number is a carved one with that     *)
(* number (recordsBYLSN).                                                  *)
LEMMA LastOfCarved ==
  ASSUME carved \in Seq(Nat), NEW l \in LSNs
  PROVE  LastOf(l) \in Range(carved) /\ At(LastOf(l)).lsn = l
PROOF
<1> DEFINE K == {k \in 1 .. Len(carved) : At(carved[k]).lsn = l}
<1>1. K \in SUBSET (1 .. Len(carved)) /\ K # {} /\ Len(carved) \in Nat
  BY DEF LSNs
<1> DEFINE m == CHOOSE k \in K : \A j \in K : j <= k
<1>2. m \in K
  BY <1>1, LastExists
<1>3. LastOf(l) = carved[m]
  BY DEF LastOf
<1>4. DOMAIN carved = 1 .. Len(carved)
  OBVIOUS
<1> HIDE DEF m
<1> QED BY <1>2, <1>3, <1>4 DEF Range
-----------------------------------------------------------------------------
(* The invariant holds initially and every step keeps it.                  *)

(* Before the search nothing was read, sent or carved. *)
LEMMA InitIInv == Init => IInv
PROOF
<1> SUFFICES ASSUME Init PROVE IInv
  OBVIOUS
<1> USE CarveAssumption DEF Init
<1>1. Inputs
  BY DEF Inputs
<1>2. Held = {}
  BY DEF Held
<1>3. Range(ch) = {} /\ Range(out) = {} /\ Range(carved) = {} /\ Distinct(<<>>)
  BY EmptyRange
<1>4. TypeOK
  <2>1. off \in Nat /\ pos \in Nat /\ end \in Nat /\ pos <= end
    BY <1>1 DEF Inputs
  <2>2. ch \in Seq(Nat) /\ out \in Seq(Nat) /\ carved \in Seq(Nat) /\ parts \in Seq(Nat)
    OBVIOUS
  <2>3. Len(ch) <= ChCap /\ Len(out) <= OutCap
    OBVIOUS
  <2>4. wpc \in [Workers -> {"idle", "send", "done"}] /\ hold \in [Workers -> Nat \cup {None}]
    OBVIOUS
  <2> QED BY <2>1, <2>2, <2>3, <2>4 DEF TypeOK
<1>5. Chunks
  <2>1. AtChunk(start)
    <3>1. start = start + 0 * Chunk /\ 0 \in Nat
      BY <1>1 DEF Inputs
    <3> QED BY <3>1 DEF AtChunk
  <2> QED BY <1>1, <2>1 DEF Chunks, Inputs
<1>6. Sound /\ Once
  BY <1>2, <1>3 DEF Sound, Once
<1>7. Complete
  BY <1>1, DeliveredType DEF Complete, Delivered
<1>8. Closing /\ Rebuilding
  BY DEF Closing, Rebuilding
<1> QED BY <1>1, <1>4, <1>5, <1>6, <1>7, <1>8 DEF IInv

(* The producer reads a chunk: new candidates lie past all it read before
   (CarveMFTRecordsCH, ntfs.go:143-155). *)
LEMMA ReadChunkIInv == IInv /\ ReadChunk => IInv'
PROOF
<1> SUFFICES ASSUME IInv, ReadChunk PROVE IInv'
  OBVIOUS
<1> USE DEF ReadChunk, IInv
<1>1. /\ D' = D /\ DeliveredEnd' = DeliveredEnd /\ Delivered' = Delivered /\ Targets' = Targets
      /\ \A p : At(p)' = At(p) /\ Inputs'
      /\ \A p : PartitionOffset(p)' = PartitionOffset(p)
  BY SameInputs
<1>2. off \in Nat /\ pos \in Nat /\ end \in Nat /\ D \in Nat /\ Chunk \in Nat \ {0}
  BY CarveAssumption DEF TypeOK, Inputs, D
<1>3. /\ DeliveredEnd \in Nat /\ DeliveredEnd <= D
      /\ off + Chunk <= D => off + Chunk <= DeliveredEnd
      /\ off + Chunk > D /\ ~keepsTail => DeliveredEnd <= off
      /\ keepsTail => DeliveredEnd = D
      /\ start <= off /\ (off - start) % 2 = 0 /\ AtChunk(off + Chunk)
  BY <1>2, ChunkDelivered DEF Chunks
<1>4. end' \in Nat /\ off' \in Nat /\ off <= end' /\ end' <= off'
  BY <1>2 DEF ChunkEnd, Inputs
<1>5. TypeOK'
  BY <1>2, <1>4 DEF TypeOK, poolVars, searchVars
<1>6. Chunks'
  <2>1. AtChunk(off)'
    BY <1>3 DEF AtChunk, inputs
  <2>2. pos' < end' => end' <= DeliveredEnd
    BY <1>2, <1>3 DEF ChunkEnd, Inputs
  <2>3. end' = off' \/ DeliveredEnd <= end'
    BY <1>2, <1>3 DEF ChunkEnd, Inputs
  <2>4. (pos' - start') % 2 = 0 /\ start' <= pos'
    BY <1>3 DEF inputs
  <2> QED BY <1>1, <1>4, <2>1, <2>2, <2>3, <2>4 DEF Chunks
<1>7. Sound'
  <2>1. pos <= pos'
    BY <1>2 DEF Chunks
  <2>2. Delivered \subseteq Nat /\ Targets \subseteq Delivered
    BY DeliveredType
  <2>3. \A p \in Delivered : p < pos => p < pos'
    BY <1>2, <2>1, <2>2
  <2>4. Held' = Held
    BY DEF Held, poolVars
  <2> QED BY <1>1, <2>2, <2>3, <2>4 DEF Sound
<1>8. Once'
  BY DEF Once, Held, poolVars
<1>9. Complete'
  <2>1. ASSUME NEW p \in Targets, p < off PROVE p < pos
    BY <1>2, <1>3, <2>1, DeliveredType DEF Targets, Delivered, Chunks, Inputs
  <2> QED BY <1>1, <2>1 DEF Complete, Held, poolVars
<1>10. Closing'
  BY <1>1, <1>2 DEF Closing, poolVars, searchVars
<1>11. Rebuilding'
  BY <1>1 DEF Rebuilding, searchVars
<1> QED BY <1>1, <1>5, <1>6, <1>7, <1>8, <1>9, <1>10, <1>11

(* A candidate enters its channel once (ntfs.go:157-160). *)
LEMMA SendCandidateIInv == IInv /\ SendCandidate => IInv'
PROOF
<1> SUFFICES ASSUME IInv, SendCandidate PROVE IInv'
  OBVIOUS
<1> USE DEF SendCandidate, IInv
<1>1. /\ D' = D /\ DeliveredEnd' = DeliveredEnd /\ Delivered' = Delivered /\ Targets' = Targets
      /\ \A p : At(p)' = At(p) /\ Inputs'
      /\ \A p : PartitionOffset(p)' = PartitionOffset(p)
  BY SameInputs
<1>2. /\ pos \in Nat /\ end \in Nat /\ start \in Nat /\ DeliveredEnd \in Int
      /\ Delivered \subseteq Nat /\ Targets \subseteq Delivered
  BY DeliveredType DEF TypeOK, Inputs
<1>3. pos \in Delivered
  BY <1>2 DEF Chunks, Delivered
<1>4. pos \notin Range(ch) /\ pos \notin Held /\ pos \notin Range(out) /\ pos \notin Range(carved)
  BY <1>2 DEF Sound
<1>5. /\ ch' \in Seq(Nat) /\ Distinct(ch') /\ Len(ch') = Len(ch) + 1
      /\ Range(ch') = Range(ch) \cup {pos}
  BY <1>2, <1>4, AppendDistinct DEF TypeOK, Once
<1>6. Held' = Held
  BY DEF Held, poolVars
<1>7. TypeOK'
  BY <1>2, <1>5, CarveAssumption DEF TypeOK, poolVars, searchVars
<1>8. Chunks'
  <2>1. (pos + 2 - start) % 2 = 0
    BY <1>2 DEF Chunks
  <2> QED BY <1>1, <1>2, <2>1 DEF Chunks, AtChunk, inputs
<1>9. Sound'
  <2>1. \A p \in Delivered : p < pos => p < pos'
    BY <1>2
  <2>2. pos < pos'
    BY <1>2
  <2> QED BY <1>1, <1>2, <1>3, <1>5, <1>6, <2>1, <2>2 DEF Sound
<1>10. Once'
  BY <1>4, <1>5, <1>6 DEF Once, poolVars
<1>11. Complete'
  <2>1. ASSUME NEW p \in Targets, p < pos + 2 PROVE p < pos \/ p = pos
    <3>1. p \in Nat /\ (p - start) % 2 = 0
      BY <1>2 DEF Delivered
    <3> QED BY <1>2, <2>1, <3>1 DEF Chunks
  <2> QED BY <1>1, <1>5, <1>6, <2>1 DEF Complete
<1>12. Closing'
  <2>1. ~closed
    BY <1>2 DEF Closing
  <2> QED BY <1>1, <2>1 DEF Closing, poolVars, searchVars
<1>13. Rebuilding'
  BY <1>1 DEF Rebuilding, searchVars
<1> QED BY <1>1, <1>7, <1>8, <1>9, <1>10, <1>11, <1>12, <1>13

(* A candidate cut past the end of a short chunk stops the program. *)
LEMMA SlicePanicsIInv == IInv /\ SlicePanics => IInv'
PROOF
<1> SUFFICES ASSUME IInv, SlicePanics PROVE IInv'
  OBVIOUS
<1> USE DEF SlicePanics, IInv
<1>1. /\ D' = D /\ DeliveredEnd' = DeliveredEnd /\ Delivered' = Delivered /\ Targets' = Targets
      /\ \A p : At(p)' = At(p) /\ Inputs'
      /\ \A p : PartitionOffset(p)' = PartitionOffset(p)
  BY SameInputs
<1>2. pos \in Nat /\ end \in Nat
  BY DEF TypeOK
<1>3. ~closed
  BY <1>2 DEF Closing
<1>4. TypeOK' /\ Chunks'
  BY <1>1 DEF TypeOK, Chunks, AtChunk, inputs, prodVars, poolVars
<1>5. Sound' /\ Once' /\ Complete'
  BY <1>1 DEF Sound, Once, Complete, Held, prodVars, poolVars
<1>6. Closing'
  BY <1>1 DEF Closing, prodVars, poolVars
<1>7. Rebuilding'
  <2>1. PICK w : w \in Workers
    BY PoolAssumption
  <2>2. stage \in {"carve", "panic"}
    BY <1>3, <2>1 DEF Closing, TypeOK
  <2> QED BY <1>1, <2>2 DEF Rebuilding
<1> QED BY <1>1, <1>4, <1>5, <1>6, <1>7

(* The producer closes its channel when the disk is read (ntfs.go:162). *)
LEMMA CloseCandidatesIInv == IInv /\ CloseCandidates => IInv'
PROOF
<1> SUFFICES ASSUME IInv, CloseCandidates PROVE IInv'
  OBVIOUS
<1> USE DEF CloseCandidates, IInv
<1>1. /\ D' = D /\ DeliveredEnd' = DeliveredEnd /\ Delivered' = Delivered /\ Targets' = Targets
      /\ \A p : At(p)' = At(p) /\ Inputs'
      /\ \A p : PartitionOffset(p)' = PartitionOffset(p)
  BY SameInputs
<1>2. TypeOK' /\ Chunks'
  BY <1>1 DEF TypeOK, Chunks, AtChunk, inputs, poolVars, searchVars
<1>3. Sound' /\ Once' /\ Complete'
  BY <1>1 DEF Sound, Once, Complete, Held, poolVars
<1>4. Closing' /\ Rebuilding'
  BY <1>1 DEF Closing, Rebuilding, poolVars, searchVars
<1> QED BY <1>1, <1>2, <1>3, <1>4

(* A worker takes a candidate and drops or keeps it (CarveRecordsCH,
   ProcessRecord, ntfs.go:189-282). *)
LEMMA TakeCandidateIInv ==
  \A w \in Workers : IInv /\ TakeCandidate(w) => IInv'
PROOF
<1> SUFFICES ASSUME NEW w \in Workers, IInv, TakeCandidate(w) PROVE IInv'
  OBVIOUS
<1> USE DEF TakeCandidate, IInv
<1>1. /\ D' = D /\ DeliveredEnd' = DeliveredEnd /\ Delivered' = Delivered /\ Targets' = Targets
      /\ \A p : At(p)' = At(p) /\ Inputs'
      /\ \A p : PartitionOffset(p)' = PartitionOffset(p)
  BY SameInputs
<1> DEFINE h == Head(ch)
<1>2. /\ ch' \in Seq(Nat) /\ Distinct(ch') /\ h \in Nat /\ Len(ch') = Len(ch) - 1
      /\ h \in Range(ch) /\ Range(ch') = Range(ch) \ {h}
  BY TailDistinct DEF TypeOK, Once
<1>3. h \in Delivered /\ h < pos /\ h \notin Held /\ h \notin Range(out) /\ h \notin Range(carved)
  BY <1>2 DEF Sound, Once
<1>4. hold[w] = None /\ h # None
  BY <1>2 DEF Closing, TypeOK, None
<1> HIDE DEF h
<1>5. Chunks'
  BY <1>1 DEF Chunks, AtChunk, inputs, prodVars
<1>6. Rebuilding'
  BY <1>1 DEF Rebuilding, searchVars
<1>7. \A v \in Workers : wpc[v] # "done"
  BY DEF Closing
<1>8. ~outClosed
  BY <1>7, PoolAssumption DEF Closing
<1>9. CASE At(h).valid
  <2>1. /\ wpc' = [wpc EXCEPT ![w] = "send"] /\ hold' = [hold EXCEPT ![w] = h]
        /\ hold \in [Workers -> Nat \cup {None}] /\ wpc \in [Workers -> {"idle", "send", "done"}]
    BY <1>9 DEF TypeOK, h
  <2>2. hold'[w] = h /\ \A v \in Workers \ {w} : hold'[v] = hold[v]
    BY <2>1
  <2>3. wpc'[w] = "send" /\ \A v \in Workers \ {w} : wpc'[v] = wpc[v]
    BY <2>1
  <2>4. Held' = Held \cup {h}
    BY <1>4, <2>2 DEF Held
  <2>5. TypeOK'
    <3>1. hold' \in [Workers -> Nat \cup {None}] /\ wpc' \in [Workers -> {"idle", "send", "done"}]
      BY <1>2, <2>1
    <3> QED BY <1>2, <3>1, CarveAssumption DEF TypeOK, prodVars, searchVars
  <2>6. Sound'
    BY <1>1, <1>2, <1>3, <1>9, <2>4 DEF Sound, prodVars
  <2>7. Once'
    <3>1. \A v \in Workers : hold[v] # h
      BY <1>3, <1>4 DEF Held
    <3>2. \A u, v \in Workers : u # v /\ hold'[u] # None => hold'[u] # hold'[v]
      BY <2>2, <3>1 DEF Once
    <3> QED BY <1>2, <1>3, <2>4, <3>2 DEF Once
  <2>8. Complete'
    BY <1>1, <1>2, <2>4 DEF Complete, prodVars
  <2>9. Closing'
    BY <1>1, <1>4, <1>7, <1>8, <2>2, <2>3 DEF Closing, prodVars, searchVars
  <2> QED BY <1>1, <1>5, <1>6, <2>5, <2>6, <2>7, <2>8, <2>9
<1>10. CASE ~At(h).valid
  <2>1. wpc' = wpc /\ hold' = hold
    BY <1>10 DEF poolVars, h
  <2>2. Held' = Held
    BY <2>1 DEF Held
  <2>3. TypeOK'
    BY <1>2, <2>1, CarveAssumption DEF TypeOK, prodVars, searchVars
  <2>4. Sound' /\ Once'
    BY <1>1, <1>2, <2>1, <2>2 DEF Sound, Once, prodVars
  <2>5. Complete'
    <3>1. h \notin Targets
      BY <1>10 DEF Targets
    <3> QED BY <1>1, <1>2, <2>2, <3>1 DEF Complete, prodVars
  <2>6. Closing'
    BY <1>1, <1>7, <1>8, <2>1 DEF Closing, prodVars, searchVars
  <2> QED BY <1>1, <1>5, <1>6, <2>3, <2>4, <2>5, <2>6
<1> QED BY <1>9, <1>10

(* A carved record enters the output channel, still once. *)
LEMMA SendRecordIInv ==
  \A w \in Workers : IInv /\ SendRecord(w) => IInv'
PROOF
<1> SUFFICES ASSUME NEW w \in Workers, IInv, SendRecord(w) PROVE IInv'
  OBVIOUS
<1> USE DEF SendRecord, IInv
<1>1. /\ D' = D /\ DeliveredEnd' = DeliveredEnd /\ Delivered' = Delivered /\ Targets' = Targets
      /\ \A p : At(p)' = At(p) /\ Inputs'
      /\ \A p : PartitionOffset(p)' = PartitionOffset(p)
  BY SameInputs
<1> DEFINE h == hold[w]
<1>2. h # None /\ h \in Held /\ h \in Nat
  BY DEF Closing, TypeOK, Held
<1>3. h \in Delivered /\ h < pos /\ At(h).valid /\ h \notin Range(out) /\ h \notin Range(carved) /\ h \notin Range(ch)
  BY <1>2 DEF Sound, Once
<1>4. /\ out' \in Seq(Nat) /\ Distinct(out') /\ Len(out') = Len(out) + 1
      /\ Range(out') = Range(out) \cup {h}
  BY <1>2, <1>3, AppendDistinct DEF TypeOK, Once
<1>5. /\ hold'[w] = None /\ \A v \in Workers \ {w} : hold'[v] = hold[v]
      /\ wpc'[w] = "idle" /\ \A v \in Workers \ {w} : wpc'[v] = wpc[v]
  BY DEF TypeOK
<1>6. \A v \in Workers \ {w} : hold[v] # h
  BY <1>2 DEF Once
<1>7. Held' = Held \ {h}
  BY <1>2, <1>5, <1>6 DEF Held
<1>8. TypeOK'
  <2>1. hold' \in [Workers -> Nat \cup {None}] /\ wpc' \in [Workers -> {"idle", "send", "done"}]
    BY DEF TypeOK
  <2>2. Len(out') <= OutCap
    BY <1>4, CarveAssumption DEF TypeOK
  <2> QED BY <1>4, <2>1, <2>2 DEF TypeOK, prodVars, searchVars
<1>9. Chunks'
  BY <1>1 DEF Chunks, AtChunk, inputs, prodVars
<1> HIDE DEF h
<1>10. Sound' /\ Complete'
  BY <1>1, <1>3, <1>4, <1>7 DEF Sound, Complete, prodVars
<1>11. Once'
  <2>1. \A u, v \in Workers : u # v /\ hold'[u] # None => hold'[u] # hold'[v]
    BY <1>5 DEF Once
  <2> QED BY <1>3, <1>4, <1>7, <2>1 DEF Once
<1>12. Closing'
  <2>1. wpc[w] # "done" /\ ~outClosed
    BY DEF Closing
  <2> QED BY <1>1, <1>5, <2>1 DEF Closing, prodVars, searchVars
<1>13. Rebuilding'
  BY <1>1 DEF Rebuilding, searchVars
<1> QED BY <1>1, <1>8, <1>9, <1>10, <1>11, <1>12, <1>13

(* A worker returns only from a closed and empty channel. *)
LEMMA WorkerDoneIInv ==
  \A w \in Workers : IInv /\ WorkerDone(w) => IInv'
PROOF
<1> SUFFICES ASSUME NEW w \in Workers, IInv, WorkerDone(w) PROVE IInv'
  OBVIOUS
<1> USE DEF WorkerDone, IInv
<1>1. /\ D' = D /\ DeliveredEnd' = DeliveredEnd /\ Delivered' = Delivered /\ Targets' = Targets
      /\ \A p : At(p)' = At(p) /\ Inputs'
      /\ \A p : PartitionOffset(p)' = PartitionOffset(p)
  BY SameInputs
<1>2. /\ wpc' \in [Workers -> {"idle", "send", "done"}]
      /\ wpc'[w] = "done" /\ \A v \in Workers \ {w} : wpc'[v] = wpc[v]
  BY DEF TypeOK
<1>3. TypeOK' /\ Chunks'
  BY <1>1, <1>2 DEF TypeOK, Chunks, AtChunk, inputs, prodVars, searchVars
<1>4. Sound' /\ Once' /\ Complete'
  BY <1>1 DEF Sound, Once, Complete, Held, prodVars
<1>5. Closing' /\ Rebuilding'
  BY <1>1, <1>2 DEF Closing, Rebuilding, prodVars, searchVars
<1> QED BY <1>1, <1>3, <1>4, <1>5

(* The closer waits for every worker (ntfs.go:171-175). *)
LEMMA CloseRecordsIInv == IInv /\ CloseRecords => IInv'
PROOF
<1> SUFFICES ASSUME IInv, CloseRecords PROVE IInv'
  OBVIOUS
<1> USE DEF CloseRecords, IInv
<1>1. /\ D' = D /\ DeliveredEnd' = DeliveredEnd /\ Delivered' = Delivered /\ Targets' = Targets
      /\ \A p : At(p)' = At(p) /\ Inputs'
      /\ \A p : PartitionOffset(p)' = PartitionOffset(p)
  BY SameInputs
<1>2. TypeOK' /\ Chunks'
  BY <1>1 DEF TypeOK, Chunks, AtChunk, inputs, prodVars, poolVars, searchVars
<1>3. Sound' /\ Once' /\ Complete'
  BY <1>1 DEF Sound, Once, Complete, Held, prodVars, poolVars
<1>4. Closing' /\ Rebuilding'
  BY <1>1 DEF Closing, Rebuilding, prodVars, poolVars, searchVars
<1> QED BY <1>1, <1>2, <1>3, <1>4

(* The collector moves a record from the channel to the list (ntfs.go:176-186). *)
LEMMA CollectIInv == IInv /\ Collect => IInv'
PROOF
<1> SUFFICES ASSUME IInv, Collect PROVE IInv'
  OBVIOUS
<1> USE DEF Collect, IInv
<1>1. /\ D' = D /\ DeliveredEnd' = DeliveredEnd /\ Delivered' = Delivered /\ Targets' = Targets
      /\ \A p : At(p)' = At(p) /\ Inputs'
      /\ \A p : PartitionOffset(p)' = PartitionOffset(p)
  BY SameInputs
<1> DEFINE h == Head(out)
<1>2. /\ out' \in Seq(Nat) /\ Distinct(out') /\ h \in Nat /\ Len(out') = Len(out) - 1
      /\ h \in Range(out) /\ Range(out') = Range(out) \ {h}
  BY TailDistinct DEF TypeOK, Once
<1>3. h \in Delivered /\ h < pos /\ At(h).valid /\ h \notin Range(carved) /\ h \notin Range(ch) /\ h \notin Held
  BY <1>2 DEF Sound, Once
<1>4. Held' = Held
  BY DEF Held, poolVars
<1>5. Chunks' /\ Rebuilding'
  BY <1>1 DEF Chunks, AtChunk, Rebuilding, inputs, prodVars, searchVars
<1>6. Closing'
  BY <1>1 DEF Closing, prodVars, poolVars, searchVars
<1>7. CASE At(h).mft
  <2>1. carved' = Append(carved, h)
    BY <1>7
  <2> HIDE DEF h
  <2>2. carved' \in Seq(Nat) /\ Distinct(carved') /\ Range(carved') = Range(carved) \cup {h}
    BY <1>2, <1>3, <2>1, AppendDistinct DEF TypeOK, Once
  <2>3. h \in Targets
    BY <1>3, <1>7 DEF Targets
  <2>4. TypeOK'
    BY <1>2, <2>2, CarveAssumption DEF TypeOK, prodVars, poolVars, searchVars
  <2>5. Sound' /\ Once' /\ Complete'
    BY <1>1, <1>2, <1>3, <1>4, <2>2, <2>3 DEF Sound, Once, Complete, prodVars, poolVars
  <2> QED BY <1>1, <1>5, <1>6, <2>4, <2>5
<1>8. CASE ~At(h).mft
  <2>1. carved' = carved
    BY <1>8
  <2> HIDE DEF h
  <2>2. h \notin Targets
    BY <1>8 DEF Targets
  <2>3. TypeOK'
    BY <1>2, <2>1, CarveAssumption DEF TypeOK, prodVars, poolVars, searchVars
  <2>4. Sound' /\ Once' /\ Complete'
    BY <1>1, <1>2, <1>4, <2>1, <2>2 DEF Sound, Once, Complete, prodVars, poolVars
  <2> QED BY <1>1, <1>5, <1>6, <2>3, <2>4
<1> QED BY <1>7, <1>8

(* The last record of each log sequence number is kept (disk.go:154-158). *)
LEMMA ReduceByLSNIInv == IInv /\ ReduceByLSN => IInv'
PROOF
<1> SUFFICES ASSUME IInv, ReduceByLSN PROVE IInv'
  OBVIOUS
<1> USE DEF ReduceByLSN, IInv
<1>1. /\ D' = D /\ DeliveredEnd' = DeliveredEnd /\ Delivered' = Delivered /\ Targets' = Targets
      /\ \A p : At(p)' = At(p) /\ Inputs'
      /\ \A p : PartitionOffset(p)' = PartitionOffset(p)
  BY SameInputs
<1>2. Chunks'
  BY <1>1 DEF Chunks, AtChunk, inputs, prodVars
<1>3. Sound' /\ Once' /\ Complete'
  BY <1>1 DEF Sound, Once, Complete, Held, prodVars, poolVars
<1>4. Closing'
  BY <1>1 DEF Closing, prodVars, poolVars
<1>5. TypeOK'
  BY DEF TypeOK, prodVars, poolVars
<1>6. Rebuilding'
  <2>1. \A l \in LSNs : byLSN'[l] \in Targets /\ At(byLSN'[l]).lsn = l
    BY LastOfCarved DEF TypeOK, Sound
  <2>2. parts' = <<>> /\ stage' = "rebuild" /\ left' = LSNs /\ DOMAIN byLSN' = LSNs
    BY DEF Rebuilding
  <2> QED BY <1>1, <2>1, <2>2 DEF Rebuilding
<1> QED BY <1>1, <1>2, <1>3, <1>4, <1>5, <1>6

(* A record without a run list ends the rebuilding (disk.go:163-166). *)
LEMMA RebuildBreakIInv ==
  \A l \in left : IInv /\ RebuildBreak(l) => IInv'
PROOF
<1> SUFFICES ASSUME NEW l \in left, IInv, RebuildBreak(l) PROVE IInv'
  OBVIOUS
<1> USE DEF RebuildBreak, IInv
<1>1. /\ D' = D /\ DeliveredEnd' = DeliveredEnd /\ Delivered' = Delivered /\ Targets' = Targets
      /\ \A p : At(p)' = At(p) /\ Inputs'
      /\ \A p : PartitionOffset(p)' = PartitionOffset(p)
  BY SameInputs
<1>2. Chunks'
  BY <1>1 DEF Chunks, AtChunk, inputs, prodVars
<1>3. Sound' /\ Once' /\ Complete'
  BY <1>1 DEF Sound, Once, Complete, Held, prodVars, poolVars
<1>4. Closing'
  BY <1>1 DEF Closing, prodVars, poolVars
<1>5. TypeOK' /\ Rebuilding'
  BY <1>1 DEF TypeOK, Rebuilding, prodVars, poolVars
<1> QED BY <1>1, <1>2, <1>3, <1>4, <1>5

(* An implausible offset is passed over. *)
LEMMA RebuildSkipIInv ==
  \A l \in left : IInv /\ RebuildSkip(l) => IInv'
PROOF
<1> SUFFICES ASSUME NEW l \in left, IInv, RebuildSkip(l) PROVE IInv'
  OBVIOUS
<1> USE DEF RebuildSkip, IInv
<1>1. /\ D' = D /\ DeliveredEnd' = DeliveredEnd /\ Delivered' = Delivered /\ Targets' = Targets
      /\ \A p : At(p)' = At(p) /\ Inputs'
      /\ \A p : PartitionOffset(p)' = PartitionOffset(p)
  BY SameInputs
<1>2. Chunks'
  BY <1>1 DEF Chunks, AtChunk, inputs, prodVars
<1>3. Sound' /\ Once' /\ Complete'
  BY <1>1 DEF Sound, Once, Complete, Held, prodVars, poolVars
<1>4. Closing'
  BY <1>1 DEF Closing, prodVars, poolVars
<1>5. TypeOK' /\ Rebuilding'
  BY <1>1 DEF TypeOK, Rebuilding, prodVars, poolVars
<1> QED BY <1>1, <1>2, <1>3, <1>4, <1>5

(* A plausible record yields a partition at the offset it tells (disk.go:160-200). *)
LEMMA RebuildTableIInv ==
  \A l \in left : IInv /\ RebuildTable(l) => IInv'
PROOF
<1> SUFFICES ASSUME NEW l \in left, IInv, RebuildTable(l) PROVE IInv'
  OBVIOUS
<1> USE DEF RebuildTable, IInv
<1>1. /\ D' = D /\ DeliveredEnd' = DeliveredEnd /\ Delivered' = Delivered /\ Targets' = Targets
      /\ \A p : At(p)' = At(p) /\ Inputs'
      /\ \A p : PartitionOffset(p)' = PartitionOffset(p)
  BY SameInputs
<1>2. Chunks'
  BY <1>1 DEF Chunks, AtChunk, inputs, prodVars
<1>3. Sound' /\ Once' /\ Complete'
  BY <1>1 DEF Sound, Once, Complete, Held, prodVars, poolVars
<1>4. Closing'
  BY <1>1 DEF Closing, prodVars, poolVars
<1> DEFINE p == byLSN[l]
<1>5. p \in Targets /\ At(p).lsn = l /\ p \in Nat /\ PartitionOffset(p) > MinOffset
  BY DeliveredType DEF Rebuilding
<1>6. /\ parts \in Seq(Nat) /\ parts' = Append(parts, p) /\ left' = left \ {l} /\ stage' = "rebuild"
      /\ byLSN' = byLSN
  BY DEF TypeOK
<1> HIDE DEF p
<1>7. /\ parts' \in Seq(Nat) /\ Len(parts') = Len(parts) + 1 /\ parts'[Len(parts) + 1] = p
      /\ \A k \in 1 .. Len(parts) : parts'[k] = parts[k]
      /\ Len(parts) \in Nat
  BY <1>5, <1>6
<1>8. TypeOK'
  BY <1>6, <1>7 DEF TypeOK, prodVars, poolVars
<1>9. Rebuilding'
  <2>1. \A m \in left' : m \in DOMAIN byLSN' /\ byLSN'[m] \in Targets /\ At(byLSN'[m]).lsn = m
    BY <1>6 DEF Rebuilding
  <2>2. \A k \in 1 .. Len(parts') :
          parts'[k] \in Targets /\ PartitionOffset(parts'[k]) > MinOffset /\ At(parts'[k]).lsn \notin left'
    BY <1>5, <1>6, <1>7 DEF Rebuilding
  <2>3. \A j, k \in 1 .. Len(parts') : j # k => At(parts'[j]).lsn # At(parts'[k]).lsn
    <3>1. \A k \in 1 .. Len(parts) : At(parts'[k]).lsn # l
      BY <1>7 DEF Rebuilding
    <3> QED BY <1>5, <1>7, <3>1 DEF Rebuilding
  <2> QED BY <1>1, <1>6, <2>1, <2>2, <2>3 DEF Rebuilding
<1> QED BY <1>1, <1>2, <1>3, <1>4, <1>8, <1>9

(* The rebuilding ends when no record is left. *)
LEMMA RebuildDoneIInv == IInv /\ RebuildDone => IInv'
PROOF
<1> SUFFICES ASSUME IInv, RebuildDone PROVE IInv'
  OBVIOUS
<1> USE DEF RebuildDone, IInv
<1>1. /\ D' = D /\ DeliveredEnd' = DeliveredEnd /\ Delivered' = Delivered /\ Targets' = Targets
      /\ \A p : At(p)' = At(p) /\ Inputs'
      /\ \A p : PartitionOffset(p)' = PartitionOffset(p)
  BY SameInputs
<1>2. Chunks'
  BY <1>1 DEF Chunks, AtChunk, inputs, prodVars
<1>3. Sound' /\ Once' /\ Complete'
  BY <1>1 DEF Sound, Once, Complete, Held, prodVars, poolVars
<1>4. Closing'
  BY <1>1 DEF Closing, prodVars, poolVars
<1>5. TypeOK' /\ Rebuilding'
  BY <1>1 DEF TypeOK, Rebuilding, prodVars, poolVars
<1> QED BY <1>1, <1>2, <1>3, <1>4, <1>5

(* Every step, and every stuttering step, keeps the invariant.             *)
LEMMA NextIInv == IInv /\ [Next]_vars => IInv'
PROOF
<1> SUFFICES ASSUME IInv, [Next]_vars PROVE IInv'
  OBVIOUS
<1>1. CASE ReadChunk
  BY <1>1, ReadChunkIInv
<1>2. CASE SendCandidate
  BY <1>2, SendCandidateIInv
<1>3. CASE SlicePanics
  BY <1>3, SlicePanicsIInv
<1>4. CASE CloseCandidates
  BY <1>4, CloseCandidatesIInv
<1>5. ASSUME NEW w \in Workers, ProcessRecord(w) PROVE IInv'
  BY <1>5, TakeCandidateIInv, SendRecordIInv, WorkerDoneIInv DEF ProcessRecord
<1>6. CASE CloseRecords
  BY <1>6, CloseRecordsIInv
<1>7. CASE Collect
  BY <1>7, CollectIInv
<1>8. CASE ReduceByLSN
  BY <1>8, ReduceByLSNIInv
<1>9. ASSUME NEW l \in left, Rebuild(l) PROVE IInv'
  BY <1>9, RebuildBreakIInv, RebuildSkipIInv, RebuildTableIInv DEF Rebuild
<1>10. CASE RebuildDone
  BY <1>10, RebuildDoneIInv
<1>11. CASE UNCHANGED vars
  <2> USE <1>11 DEF vars
  <2>1. /\ D' = D /\ DeliveredEnd' = DeliveredEnd /\ Delivered' = Delivered /\ Targets' = Targets
        /\ \A p : At(p)' = At(p) /\ (Inputs => Inputs')
        /\ \A p : PartitionOffset(p)' = PartitionOffset(p)
    BY SameInputs
  <2>2. TypeOK' /\ Chunks'
    BY <2>1 DEF IInv, TypeOK, Chunks, AtChunk, inputs, prodVars, poolVars, searchVars
  <2>3. Sound' /\ Once' /\ Complete'
    BY <2>1 DEF IInv, Sound, Once, Complete, Held, prodVars, poolVars
  <2>4. Closing' /\ Rebuilding'
    BY <2>1 DEF IInv, Closing, Rebuilding, prodVars, poolVars, searchVars
  <2> QED BY <2>1, <2>2, <2>3, <2>4 DEF IInv
<1> QED
  BY <1>1, <1>2, <1>3, <1>4, <1>5, <1>6, <1>7, <1>8, <1>9, <1>10, <1>11 DEF Next, Search, Producer, Returned

(* The invariant holds of every reachable state.                           *)
LEMMA Invariance == Spec => []IInv
PROOF BY InitIInv, NextIInv, PTL DEF Spec
-----------------------------------------------------------------------------
(* The variables of the search stay in their ranges, channels within their *)
(* capacities (CarveMFTRecordsCH).                                         *)
THEOREM TypeCorrect == Spec => []TypeOK
PROOF
<1>1. IInv => TypeOK
  BY DEF IInv
<1> QED BY <1>1, Invariance, PTL

(* No goroutine ever sends on a closed channel (ntfs.go:161,174).          *)
THEOREM NoSendAfterCloseHolds == Spec => []NoSendAfterClose
PROOF
<1>1. IInv => NoSendAfterClose
  BY PoolAssumption DEF IInv, NoSendAfterClose, Closing
<1> QED BY <1>1, Invariance, PTL

(* The search rebuilds at most one table per log sequence number, each     *)
(* from a $MFT record on the disk at a plausible offset (disk.go:154-200). *)
THEOREM PartsSoundHolds == Spec => []PartsSound
PROOF
<1>1. IInv => PartsSound
  BY DEF IInv, PartsSound, Rebuilding
<1> QED BY <1>1, Invariance, PTL
-----------------------------------------------------------------------------
(* What the reads deliver lies on the disk, so its offset is a number.     *)
LEMMA DeliveredOnDisk ==
  ASSUME Inputs
  PROVE  /\ D \in Nat /\ DeliveredEnd \in Int /\ DeliveredEnd <= D
         /\ \A p \in Targets : PartitionOffset(p) \in Int
PROOF
<1>1. D \in Nat /\ start \in Nat /\ keepsTail \in BOOLEAN /\ Chunk \in Nat \ {0} /\ Cluster \in Nat
  BY CarveAssumption DEF Inputs, D
<1>2. ~keepsTail /\ start <= D => ((D - start) \div Chunk) * Chunk <= D - start
  <2>1. \A n \in Nat, c \in Nat \ {0} : (n \div c) * c <= n
    OBVIOUS
  <2> QED BY <1>1, <2>1
<1>3. DeliveredEnd \in Int /\ DeliveredEnd <= D
  BY <1>1, <1>2, DeliveredType DEF DeliveredEnd
<1>4. ASSUME NEW p \in Targets PROVE PartitionOffset(p) \in Int
  <2>1. p \in Nat /\ p + 1 \in 1 .. Len(disk)
    BY <1>1, <1>3 DEF Targets, Delivered, D
  <2>2. disk[p + 1] \in Unit
    BY <2>1 DEF Inputs
  <2>3. At(p).run \in Int
    BY <2>2 DEF At, Unit, NoRun
  <2> QED BY <1>1, <2>1, <2>3 DEF PartitionOffset
<1> QED BY <1>1, <1>3, <1>4

(* When both channels are drained every target has been carved.            *)
LEMMA NoneMissing == IInv /\ ReduceByLSN => Range(carved) = Targets
PROOF
<1> SUFFICES ASSUME IInv, ReduceByLSN PROVE Range(carved) = Targets
  OBVIOUS
<1> USE DEF ReduceByLSN
<1>1. /\ \A w \in Workers : wpc[w] = "done"
      /\ closed /\ ch = <<>> /\ pos = end /\ off >= D /\ out = <<>>
  BY PoolAssumption DEF IInv, Closing
<1>2. Range(ch) = {} /\ Range(out) = {}
  BY <1>1, EmptyRange
<1>3. Held = {}
  BY <1>1 DEF IInv, Closing, Held
<1>4. \A p \in Targets : p < pos
  <2>1. D \in Nat /\ off \in Nat /\ pos \in Nat /\ end \in Nat /\ DeliveredEnd \in Int /\ DeliveredEnd <= D
    BY DeliveredOnDisk DEF IInv, TypeOK
  <2>2. \A p \in Targets : p \in Int /\ p < DeliveredEnd
    BY <2>1, DeliveredType DEF IInv, Targets, Delivered
  <2>3. end = off \/ DeliveredEnd <= end
    BY DEF IInv, Chunks
  <2> QED BY <1>1, <2>1, <2>2, <2>3
<1> QED BY <1>2, <1>3, <1>4 DEF IInv, Complete, Sound
-----------------------------------------------------------------------------
(* While tables are rebuilt, each log sequence number is still to come, has *)
(* its table, or has a record at an implausible offset.                    *)
Rebuilt ==
  stage \in {"rebuild", "done"} =>
    /\ stage = "done" => left = {}
    /\ (\A p \in Targets : At(p).run # NoRun) =>
         \A p \in Targets :
           \/ At(p).lsn \in left
           \/ \E q \in Targets : At(q).lsn = At(p).lsn /\ ~(PartitionOffset(q) > MinOffset)
           \/ \E k \in 1 .. Len(parts) : At(parts[k]).lsn = At(p).lsn

(* The records that are rebuilt are those of all targets (disk.go:154-200).*)
LEMMA NextRebuilt == IInv /\ Rebuilt /\ [Next]_vars => Rebuilt'
PROOF
<1> SUFFICES ASSUME IInv, Rebuilt, [Next]_vars PROVE Rebuilt'
  OBVIOUS
<1>1. UNCHANGED inputs
  BY DEF Next, Search, Producer, ProcessRecord, Rebuild, Returned, vars, ReadChunk, SendCandidate,
         SlicePanics, CloseCandidates, TakeCandidate, SendRecord, WorkerDone, CloseRecords, Collect,
         ReduceByLSN, RebuildBreak, RebuildSkip, RebuildTable, RebuildDone
<1>2. Targets' = Targets /\ (\A p : At(p)' = At(p) /\ PartitionOffset(p)' = PartitionOffset(p))
  BY <1>1, SameInputs
<1>3. CASE ReduceByLSN
  <2>1. Range(carved) = Targets
    BY <1>3, NoneMissing
  <2>2. carved \in Seq(Nat) /\ DOMAIN carved = 1 .. Len(carved)
    BY DEF IInv, TypeOK
  <2>3. \A p \in Targets : \E k \in 1 .. Len(carved) : carved[k] = p
    BY <2>1, <2>2 DEF Range
  <2>4. \A p \in Targets : At(p).lsn \in LSNs
    BY <2>3 DEF LSNs
  <2> QED BY <1>2, <1>3, <2>4 DEF ReduceByLSN, Rebuilt
<1>4. ASSUME NEW l \in left, RebuildBreak(l) PROVE Rebuilt'
  <2>1. byLSN[l] \in Targets /\ At(byLSN[l]).run = NoRun
    BY <1>4 DEF RebuildBreak, IInv, Rebuilding
  <2> QED BY <1>2, <1>4, <2>1 DEF RebuildBreak, Rebuilt
<1>5. ASSUME NEW l \in left, RebuildSkip(l) PROVE Rebuilt'
  <2>1. byLSN[l] \in Targets /\ At(byLSN[l]).lsn = l /\ PartitionOffset(byLSN[l]) <= MinOffset
    BY <1>5 DEF RebuildSkip, IInv, Rebuilding
  <2>2. ~(PartitionOffset(byLSN[l]) > MinOffset)
    BY <2>1, DeliveredOnDisk, CarveAssumption DEF IInv
  <2>3. left' = left \ {l} /\ parts' = parts /\ stage' = "rebuild" /\ stage = "rebuild"
    BY <1>5 DEF RebuildSkip
  <2> QED BY <1>2, <2>1, <2>2, <2>3 DEF Rebuilt
<1>6. ASSUME NEW l \in left, RebuildTable(l) PROVE Rebuilt'
  <2>1. byLSN[l] \in Targets /\ byLSN[l] \in Nat /\ At(byLSN[l]).lsn = l
    BY <1>6, DeliveredType DEF IInv, Rebuilding
  <2>2. /\ parts \in Seq(Nat) /\ parts' = Append(parts, byLSN[l])
        /\ left' = left \ {l} /\ stage' = "rebuild" /\ stage = "rebuild"
    BY <1>6 DEF RebuildTable, IInv, TypeOK
  <2>3. /\ Len(parts') = Len(parts) + 1 /\ Len(parts) \in Nat /\ parts'[Len(parts) + 1] = byLSN[l]
        /\ \A k \in 1 .. Len(parts) : parts'[k] = parts[k]
    BY <2>1, <2>2
  <2>4. /\ \A k \in 1 .. Len(parts) : k \in 1 .. Len(parts') /\ parts'[k] = parts[k]
        /\ Len(parts) + 1 \in 1 .. Len(parts') /\ At(parts'[Len(parts) + 1]).lsn = l
    BY <2>1, <2>3
  <2> QED BY <1>2, <2>2, <2>4 DEF Rebuilt
<1>7. CASE RebuildDone
  BY <1>2, <1>7 DEF RebuildDone, Rebuilt
<1>8. CASE SlicePanics
  BY <1>8 DEF SlicePanics, Rebuilt
<1>9. CASE UNCHANGED <<stage, left, parts>>
  BY <1>2, <1>9 DEF Rebuilt
<1> QED
  BY <1>3, <1>4, <1>5, <1>6, <1>7, <1>8, <1>9 DEF Next, Search, Producer, ProcessRecord, Rebuild, Returned, vars,
     searchVars, ReadChunk, SendCandidate, CloseCandidates, TakeCandidate, SendRecord, WorkerDone, CloseRecords,
     Collect

(* If all carved records have their run lists, each log sequence number    *)
(* with plausible offsets only yields a table, whatever order the map and  *)
(* the goroutines take (disk.go:154-200).                                  *)
THEOREM PartsCompleteHolds == Spec => []PartsComplete
PROOF
<1>1. Init => Rebuilt
  BY DEF Init, Rebuilt
<1>2. Rebuilt => PartsComplete
  BY DEF Rebuilt, PartsComplete
<1> QED BY <1>1, <1>2, Invariance, NextRebuilt, PTL DEF Spec
-----------------------------------------------------------------------------
(* Every step of the search is a step of the abstract specification, which *)
(* finds each target once and finishes when none is missing.               *)
LEMMA StepRefines == IInv /\ IInv' /\ [Next]_vars => [Abs!Next]_(Abs!vars)
PROOF
<1> SUFFICES ASSUME IInv, IInv', [Next]_vars PROVE [Abs!Next]_(Abs!vars)
  OBVIOUS
<1> USE DEF Abs!Next, Abs!vars
<1>1. Targets' = Targets
  <2>1. UNCHANGED inputs
    BY DEF Next, Search, Producer, ProcessRecord, Rebuild, Returned, vars, ReadChunk, SendCandidate,
           SlicePanics, CloseCandidates, TakeCandidate, SendRecord, WorkerDone, CloseRecords, Collect,
           ReduceByLSN, RebuildBreak, RebuildSkip, RebuildTable, RebuildDone
  <2> QED BY <2>1, SameInputs
<1>2. CASE Collect
  <2> USE <1>2 DEF Collect
  <2> DEFINE h == Head(out)
  <2>1. h \in Range(out) /\ h \in Nat
    BY TailDistinct DEF IInv, TypeOK, Once
  <2>2. h \in Delivered /\ At(h).valid /\ h \notin Range(carved)
    BY <2>1 DEF IInv, Sound, Once
  <2>3. stage' = stage
    BY DEF searchVars
  <2>4. CASE At(h).mft
    <3>1. carved' = Append(carved, h)
      BY <2>4
    <3> HIDE DEF h
    <3>2. Range(carved') = Range(carved) \cup {h} /\ Len(carved') = Len(carved) + 1
      BY <2>1, <2>2, <3>1, AppendDistinct DEF IInv, TypeOK, Once
    <3>3. h \in Targets \ Range(carved)
      BY <2>2, <2>4 DEF Targets
    <3>4. Abs!Find
      BY <1>1, <2>3, <3>2, <3>3 DEF Abs!Find
    <3> QED BY <3>4
  <2>5. CASE ~At(h).mft
    BY <1>1, <2>3, <2>5
  <2> QED BY <2>4, <2>5
<1>3. CASE ReduceByLSN
  <2> USE <1>3 DEF ReduceByLSN
  <2>1. Range(carved) = Targets
    BY <1>3, NoneMissing
  <2>2. Abs!Finish
    BY <1>1, <2>1 DEF Abs!Finish
  <2> QED BY <2>2
<1>4. CASE SlicePanics
  <2>1. ~closed /\ pos \in Nat /\ end \in Nat
    BY <1>4 DEF SlicePanics, IInv, Closing, TypeOK
  <2>2. stage \notin {"rebuild", "done"}
    BY <2>1, PoolAssumption DEF IInv, Closing
  <2> QED BY <1>1, <1>4, <2>2 DEF SlicePanics
<1>5. CASE RebuildDone
  BY <1>1, <1>5 DEF RebuildDone
<1>6. CASE UNCHANGED <<carved, stage>>
  BY <1>1, <1>6
<1> QED
  BY <1>2, <1>3, <1>4, <1>5, <1>6 DEF Next, Search, Producer, ProcessRecord, Rebuild, Returned, vars, searchVars,
     ReadChunk, SendCandidate, CloseCandidates, TakeCandidate, SendRecord, WorkerDone, CloseRecords,
     RebuildBreak, RebuildSkip, RebuildTable

(* Carving with a pool of workers and two bounded channels implements      *)
(* carving: every $MFT record the reads deliver is found, once, before the *)
(* search goes on (CarveMFTRecordsCH, ProcessRecord).                      *)
THEOREM Refinement == Spec => CarvesEveryTarget
PROOF
<1>1. Init => Abs!Init
  BY EmptyRange DEF Init, Abs!Init
<1> QED BY <1>1, Invariance, StepRefines, PTL DEF Spec, CarvesEveryTarget, Abs!Spec
=============================================================================
