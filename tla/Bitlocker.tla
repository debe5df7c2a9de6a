------------------------------ MODULE Bitlocker ------------------------------
(***************************************************************************)
(* BitLocker metadata, and the way from a password or a recovery key to    *)
(* the key of the volume (disk/Bitlocker/bitlocker.go, metadata.go,        *)
(* datums/datums.go, datums/vmk.go).                                       *)
(*                                                                         *)
(* A block of metadata is [bver, units, version, datums, ...]: sizes count *)
(* units of 16 bytes, of which the headers take seven and a datum one.     *)
(* The ciphers are symbolic: what is sealed opens under the key it was     *)
(* sealed under, and to noise (NoBlob) under any other.  A recovery key is *)
(* the numbers of its groups, -1 where one has a character that is no      *)
(* digit.                                                                  *)
(***************************************************************************)
EXTENDS Integers, Sequences, SequencesExt

\* Keys: by how they come about, in fields of one shape.
NoKey == [how |-> "none", pw |-> "", rk |-> <<>>, salt |-> 0]
ClearKey(salt)     == [NoKey EXCEPT !.how = "clear", !.salt = salt]
PasswordKey(x, salt) == [NoKey EXCEPT !.how = "password", !.pw = x, !.salt = salt]
RecoveryKey(x, salt) == [NoKey EXCEPT !.how = "recovery", !.rk = x, !.salt = salt]
MasterKey(id)      == [NoKey EXCEPT !.how = "master", !.salt = id]

\* What a sealed datum holds: a key, its size field and the low byte of its method.
NoBlob == [id |-> 0, size |-> 0, low |-> 0]

-----------------------------------------------------------------------------
(* Parsing *)

\* Size << 4 of a uint16 in blocks of version 2; earlier ones count bytes.
ReadUnits(m) == IF m.bver = 2 THEN m.units % 4096 ELSE m.units

\* ParseEntries: the block header alone is no error, a part of the next one is.
Parses(m) == ReadUnits(m) = 4 \/ ReadUnits(m) >= 7

Least(a, b) == IF a <= b THEN a ELSE b

\* Datums until one whose type CreateDatum does not know; an erased one is kept.
Known(datums) ==
  SubSeq(datums, 1, Len(SelectSeq([i \in DOMAIN datums |-> \A j \in 1 .. i : datums[j].type # "unknown"],
                                  LAMBDA known : known)))

\* The datums of a block that lie in what was read of it.
Datums(m) == IF ReadUnits(m) < 7 THEN <<>> ELSE Known(SubSeq(m.datums, 1, Least(Len(m.datums), ReadUnits(m) - 7)))

VMKs(blocks) == FlattenSeq([b \in DOMAIN blocks |-> SelectSeq(Datums(blocks[b]), LAMBDA d : d.type = "vmk")])

\* What DecryptVMK looks at: the datums in each VMK of each block, in turn.
Steps(blocks) ==
  LET vmks == VMKs(blocks)
  IN FlattenSeq([v \in DOMAIN vmks |->
       LET known == Known(vmks[v].nested) IN [i \in DOMAIN known |-> [clear |-> vmks[v].clear, datum |-> known[i]]]])

-----------------------------------------------------------------------------
(* Credentials *)

\* The first VMK decides.
RequiresCredentials(blocks) == VMKs(blocks) = <<>> \/ ~VMKs(blocks)[1].clear

\* Groups of a recovery key that are taken: the first that is no multiple of 11, or
\* too large, ends it without an error.
Taken(rk) == {i \in DOMAIN rk : \A j \in 1 .. i : rk[j] >= 0 /\ rk[j] % 11 = 0 /\ rk[j] \div 11 < 2 ^ 16}

\* Groups that are not taken count as 0.
DeriveKeyFromRecoveryKey(rk) == [i \in 1 .. 8 |-> IF i \in Taken(rk) THEN rk[i] \div 11 ELSE 0]

\* A character that is no digit, met before a group that is not taken.
NoDigits(rk) == \E i \in DOMAIN rk : rk[i] = -1 /\ 1 .. i - 1 \subseteq Taken(rk)

\* A datum that ends DecryptVMK with an error.
Refuses(s, c) ==
  \/ s.datum.type = "key" /\ s.datum.method # "aes-ccm"
  \/ s.datum.type = "stretch" /\ s.datum.method = "recovery" /\ c.recovery # <<>> /\ NoDigits(c.recovery)

\* The key a datum gives: a clear one, or what is stretched from the credentials.
KeyOf(s, c) ==
  LET d == s.datum
  IN CASE d.type = "key" /\ s.clear -> ClearKey(d.salt)
       [] d.type = "stretch" /\ d.method = "password" /\ c.password # "" -> PasswordKey(c.password, d.salt)
       [] d.type = "stretch" /\ d.method = "recovery" /\ c.recovery # <<>> ->
            RecoveryKey(DeriveKeyFromRecoveryKey(c.recovery), d.salt)
       [] OTHER -> NoKey

\* Mutation: a key is forgotten at the next datum.
MutLastKey(steps, i, c) == IF i = 1 THEN NoKey ELSE KeyOf(steps[i - 1], c)

\* The key at hand before step i: the last one given, by whichever VMK.
LastKey(steps, i, c) ==
  LET keys == SelectSeq([j \in 1 .. i - 1 |-> KeyOf(steps[j], c)], LAMBDA k : k # NoKey)
  IN IF keys = <<>> THEN NoKey ELSE Last(keys)

\* Steps that end DecryptVMK: an error, or a sealed key when there is a key for it,
\* the right one or not.
Ends(steps, c) ==
  {i \in DOMAIN steps : \/ Refuses(steps[i], c)
                        \/ steps[i].datum.type = "sealed" /\ LastKey(steps, i, c) # NoKey}

\* The VMK that is found: its tag is never compared.
DecryptVMK(blocks, c) ==
  LET steps == Steps(blocks)
      ends  == Ends(steps, c)
      i     == CHOOSE j \in ends : \A k \in ends : j <= k
  IN IF ends = {} THEN NoBlob
     ELSE IF ~Refuses(steps[i], c) /\ steps[i].datum.under = LastKey(steps, i, c)
          THEN steps[i].datum.holds ELSE NoBlob

\* A ninth group that is taken lies outside the derived key.
RecoveryPanics(blocks, c) ==
  LET steps == Steps(blocks)
  IN /\ 9 \in Taken(c.recovery)
     /\ \E i \in DOMAIN steps : /\ steps[i].datum.type = "stretch" /\ steps[i].datum.method = "recovery"
                                /\ \A j \in Ends(steps, c) : i <= j

\* Keys of 32 bytes, of which that of the volume must have the higher method.
DecryptFVEK(blocks, c) ==
  LET vmk == DecryptVMK(blocks, c)
  IN /\ blocks # <<>> /\ vmk # NoBlob /\ vmk.size = 44
     /\ \E d \in ToSet(Datums(blocks[1])) :
          /\ d.type = "sealed" /\ d.under = MasterKey(vmk.id)
          /\ d.holds.size = 44 /\ d.holds.low > vmk.low
=============================================================================
