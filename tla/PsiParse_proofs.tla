---------------------------- MODULE PsiParse_proofs ----------------------------
(***************************************************************************)
(* Proofs that the PAT and PMT iterators of src/demultiplex.rs hand        *)
(* new_table exactly the PIDs the spec's section layouts give, for every   *)
(* delivered section.                                                      *)
(***************************************************************************)
EXTENDS PsiParse, SequenceTheorems, WellFoundedInduction, TLAPS

(* What the parse has produced so far, plus what the spec's definition     *)
(* gives for the bytes the iterator has left, is what the spec gives for  *)
(* the whole body.  This is what makes the three invariants inductive:    *)
(* each next() moves one record or entry from the remainder to out.       *)
PInv ==
  /\ TypeOK
  /\ Len(data) >= HeaderSize + CrcSize
  /\ status = "section" => out = <<>>
  /\ status = "programs" => table = "Pat"
  /\ status = "streams" => table = "Pmt"
  /\ table = "Pat" /\ status \in {"programs", "done"} =>
       out \o SpecPatPids(rest) = SpecPatPids(SpecBody(data))
  /\ table = "Pat" /\ status = "done" => rest = <<>>
  /\ table = "Pmt" /\ status \in {"streams", "done"} =>
       /\ SpecPmtWellFormed(SpecBody(data))
       /\ out \o SpecStreams[rest] = SpecPmtPids(SpecBody(data))
  /\ table = "Pmt" /\ status = "done" => SpecStreams[rest] = <<>>
-----------------------------------------------------------------------------
(* Lemmas on the byte accessors.                                           *)

Pid13 == 0..8191

(* The masks keep a PID within 13 bits.                                    *)
LEMMA PidRange ==
  ASSUME NEW a \in Bytes, NEW b \in Bytes
  PROVE  (a % 32) * 256 + b \in Pid13
BY DEF Bytes, Pid13

(* TypeOK's PID sequences are the sequences of 13-bit PIDs.               *)
LEMMA PidSeq == Seq(0..8191) = Seq(Pid13)
BY DEF Pid13

(* A byte is a natural number below 256.                                   *)
LEMMA ByteNat ==
  ASSUME NEW a \in Bytes
  PROVE  a \in Nat /\ a <= 255
BY DEF Bytes

(* The 12-bit length fields (section, program_info and ES_info lengths)   *)
(* are natural numbers.                                                    *)
LEMMA LengthRange ==
  ASSUME NEW a \in Bytes, NEW b \in Bytes
  PROVE  (a % 16) * 256 + b \in Nat
<1>1. a % 16 \in 0..15 /\ b \in 0..255
  BY DEF Bytes
<1>2. QED
  BY <1>1

(* section(): the body the code takes is the one the spec names.           *)
LEMMA BodyIsSpecBody ==
  ASSUME NEW d \in Seq(Bytes), Len(d) >= HeaderSize + CrcSize
  PROVE  /\ Body(d) = SpecBody(d)
         /\ Body(d) \in Seq(Bytes)
         /\ Len(Body(d)) = Len(d) - 12
<1>1. Len(d) >= 12 /\ Body(d) = SubSeq(d, 9, Len(d) - 4)
  BY DEF Body, HeaderSize, CrcSize
<1>2. SubSeq(d, 9, Len(d) - 4) = [k \in 1..(Len(d) - 12) |-> d[8 + k]]
  BY <1>1
<1>3. [k \in 1..(Len(d) - 12) |-> d[8 + k]] \in Seq(Bytes)
  BY <1>1
<1>4. Body(d) = SpecBody(d)
  BY <1>1, <1>2 DEF SpecBody
<1>5. Len(SpecBody(d)) = Len(d) - 12
  BY <1>1, <1>3 DEF SpecBody
<1>6. QED
  BY <1>3, <1>4, <1>5 DEF SpecBody

(* Dropping the first n bytes.                                             *)
LEMMA DropProps ==
  ASSUME NEW s \in Seq(Bytes), NEW n \in 0..Len(s)
  PROVE  /\ Drop(s, n) \in Seq(Bytes)
         /\ Len(Drop(s, n)) = Len(s) - n
         /\ \A k \in 1..(Len(s) - n) : Drop(s, n)[k] = s[n + k]
BY DEF Drop

(* The spec's PAT layout: one PID per 4-byte record, read from its last    *)
(* two bytes.                                                             *)
LEMMA SpecPatProps ==
  ASSUME NEW r \in Seq(Bytes)
  PROVE  /\ SpecPatPids(r) \in Seq(Pid13)
         /\ Len(SpecPatPids(r)) = Len(r) \div 4
         /\ \A k \in 1..(Len(r) \div 4) :
              SpecPatPids(r)[k] = (r[4 * k - 1] % 32) * 256 + r[4 * k]
<1>1. Len(r) \div 4 \in Nat
  OBVIOUS
<1>2. \A k \in 1..(Len(r) \div 4) : 4 * k - 1 \in 1..Len(r) /\ 4 * k \in 1..Len(r)
  OBVIOUS
<1>3. \A k \in 1..(Len(r) \div 4) : (r[4 * k - 1] % 32) * 256 + r[4 * k] \in Pid13
  BY <1>2, PidRange
<1>4. QED
  BY <1>1, <1>3 DEF SpecPatPids

(* A PAT body: one whole record, then the rest.                            *)
LEMMA SpecPatStep ==
  ASSUME NEW r \in Seq(Bytes), Len(r) >= 4
  PROVE  SpecPatPids(r) = <<ProgramPid(r)>> \o SpecPatPids(Drop(r, 4))
<1> DEFINE t == Drop(r, 4)
<1>1. t \in Seq(Bytes) /\ Len(t) = Len(r) - 4 /\ \A k \in 1..(Len(r) - 4) : t[k] = r[4 + k]
  BY DropProps
<1>2. Len(r) \div 4 = 1 + Len(t) \div 4
  <2>1. Len(r) \in Nat /\ Len(r) >= 4 /\ Len(t) = Len(r) - 4
    BY <1>1
  <2>2. \A m \in Nat : m >= 4 => m \div 4 = 1 + (m - 4) \div 4
    OBVIOUS
  <2>3. QED
    BY <2>1, <2>2
<1> DEFINE L == <<ProgramPid(r)>> \o SpecPatPids(t)
<1>3. ProgramPid(r) \in Pid13
  BY PidRange DEF ProgramPid
<1>4. L \in Seq(Pid13) /\ Len(L) = Len(r) \div 4
  BY <1>1, <1>2, <1>3, SpecPatProps, ConcatProperties
<1>5. L[1] = ProgramPid(r)
  BY <1>1, <1>3, SpecPatProps, ConcatProperties
<1>6. ASSUME NEW k \in 2..(Len(r) \div 4)
      PROVE  L[k] = SpecPatPids(t)[k - 1]
  BY <1>1, <1>2, <1>3, SpecPatProps, ConcatProperties
<1>7. \A k \in 1..(Len(t) \div 4) : 4 * k - 1 \in 1..Len(t) /\ 4 * k \in 1..Len(t)
  BY <1>1
<1>8. ASSUME NEW k \in 1..(Len(r) \div 4)
      PROVE  SpecPatPids(r)[k] = L[k]
  <2>1. CASE k = 1
    BY <2>1, <1>5, SpecPatProps DEF ProgramPid
  <2>2. CASE k # 1
    <3>1. k - 1 \in 1..(Len(t) \div 4) /\ 4 * (k - 1) - 1 = 4 * k - 5
      BY <2>2, <1>2
    <3>2. t[4 * (k - 1) - 1] = r[4 * k - 1] /\ t[4 * (k - 1)] = r[4 * k]
      <4>1. 4 * (k - 1) - 1 \in 1..(Len(r) - 4) /\ 4 * (k - 1) \in 1..(Len(r) - 4)
        BY <3>1, <1>7, <1>1
      <4>2. t[4 * (k - 1) - 1] = r[4 + (4 * (k - 1) - 1)] /\ t[4 * (k - 1)] = r[4 + 4 * (k - 1)]
        BY <4>1, <1>1
      <4>3. 4 + (4 * (k - 1) - 1) = 4 * k - 1 /\ 4 + 4 * (k - 1) = 4 * k
        OBVIOUS
      <4>4. QED
        BY <4>2, <4>3
    <3>3. SpecPatPids(t)[k - 1] = (t[4 * (k - 1) - 1] % 32) * 256 + t[4 * (k - 1)]
      BY <3>1, <1>1, SpecPatProps
    <3>4. SpecPatPids(r)[k] = (r[4 * k - 1] % 32) * 256 + r[4 * k]
      BY SpecPatProps
    <3>5. k \in 2..(Len(r) \div 4)
      BY <2>2
    <3>6. QED
      BY <3>2, <3>3, <3>4, <3>5, <1>6
  <2>3. QED
    BY <2>1, <2>2
<1>9. SpecPatPids(r) \in Seq(Pid13) /\ Len(SpecPatPids(r)) = Len(r) \div 4
  BY SpecPatProps
<1>10. QED
  BY <1>4, <1>8, <1>9, SeqEqual

LEMMA SpecPatEmpty == SpecPatPids(<<>>) = <<>>
BY DEF SpecPatPids

-----------------------------------------------------------------------------
(* SpecStreams, the spec's PMT stream loop, is a recursive function on the *)
(* remaining bytes.  Each call drops at least the 5 header bytes of one    *)
(* stream entry, so it recurses on a shorter sequence and is well defined. *)

StreamsDef(g, s) ==
  IF Len(s) < 5 THEN <<>>
  ELSE LET n == 5 + (s[4] % 16) * 256 + s[5]
       IN  IF n > Len(s) THEN <<>>
           ELSE <<(s[2] % 32) * 256 + s[3]>> \o g[SubSeq(s, n + 1, Len(s))]

Shorter == {ss \in Seq(Bytes) \X Seq(Bytes) : Len(ss[1]) < Len(ss[2])}

(* A strictly shorter byte sequence cannot be taken forever.               *)
LEMMA ShorterWellFounded == IsWellFoundedOn(Shorter, Seq(Bytes))
<1>1. SUFFICES ASSUME NEW f \in [Nat -> Seq(Bytes)],
                      \A n \in Nat : <<f[n + 1], f[n]>> \in Shorter
               PROVE  FALSE
  BY DEF IsWellFoundedOn
<1> DEFINE lf == [n \in Nat |-> Len(f[n])]
<1>2. lf \in [Nat -> Nat]
  OBVIOUS
<1>3. ASSUME NEW n \in Nat
      PROVE  <<lf[n + 1], lf[n]>> \in OpToRel(<, Nat)
  <2>1. f[n + 1] \in Seq(Bytes) /\ f[n] \in Seq(Bytes)
    OBVIOUS
  <2>2. Len(f[n + 1]) < Len(f[n])
    <3>1. <<f[n + 1], f[n]>> \in Shorter
      BY <1>1
    <3>2. QED
      BY <3>1 DEF Shorter
  <2>3. <<lf[n + 1], lf[n]>> \in Nat \X Nat /\ lf[n + 1] < lf[n]
    BY <2>1, <2>2
  <2>4. QED
    BY <2>3 DEF OpToRel
<1>4. QED
  BY <1>2, <1>3, NatLessThanWellFounded DEF IsWellFoundedOn

(* Dropping a non-empty prefix leaves a shorter byte sequence.            *)
LEMMA DropShorter ==
  ASSUME NEW s \in Seq(Bytes), NEW n \in 1..Len(s)
  PROVE  /\ SubSeq(s, n + 1, Len(s)) \in Seq(Bytes)
         /\ <<SubSeq(s, n + 1, Len(s)), s>> \in Shorter
<1>1. SubSeq(s, n + 1, Len(s)) \in Seq(Bytes) /\ Len(SubSeq(s, n + 1, Len(s))) = Len(s) - n
  BY DropProps DEF Drop
<1>2. <<SubSeq(s, n + 1, Len(s)), s>> \in Seq(Bytes) \X Seq(Bytes)
  BY <1>1
<1>3. Len(SubSeq(s, n + 1, Len(s))) < Len(s)
  BY <1>1
<1>4. QED
  BY <1>1, <1>2, <1>3 DEF Shorter

(* A stream entry that fits spans 5 to Len(s) bytes.                       *)
LEMMA EntryFits ==
  ASSUME NEW s \in Seq(Bytes), Len(s) >= 5,
         5 + (s[4] % 16) * 256 + s[5] <= Len(s)
  PROVE  5 + (s[4] % 16) * 256 + s[5] \in 1..Len(s)
<1> DEFINE e == (s[4] % 16) * 256 + s[5]
<1>0. s[4] \in Bytes /\ s[5] \in Bytes
  OBVIOUS
<1>1. e \in Nat
  BY <1>0, LengthRange
<1>2. s[4] \in Nat /\ s[5] \in Nat
  BY <1>0, ByteNat
<1>3. 5 + e <= Len(s)
  BY <1>2
<1>4. 5 + e \in 1..Len(s)
  BY <1>1, <1>3 DEF e
<1>5. QED
  BY <1>2, <1>4

(* One step of the stream loop reads only the entries after the first.    *)
LEMMA StreamsDefOn == WFDefOn(Shorter, Seq(Bytes), StreamsDef)
<1>1. SUFFICES ASSUME NEW g, NEW h, NEW s \in Seq(Bytes),
                      \A y \in SetLessThan(s, Shorter, Seq(Bytes)) : g[y] = h[y]
               PROVE  StreamsDef(g, s) = StreamsDef(h, s)
  BY DEF WFDefOn
<1>2. Len(s) >= 5 => s[4] \in Nat /\ s[5] \in Nat
  BY ByteNat
<1>3. CASE Len(s) < 5
  BY <1>3 DEF StreamsDef
<1>4. CASE Len(s) >= 5 /\ 5 + (s[4] % 16) * 256 + s[5] > Len(s)
  BY <1>4 DEF StreamsDef
<1>5. CASE Len(s) >= 5 /\ 5 + (s[4] % 16) * 256 + s[5] <= Len(s)
  <2> DEFINE y == SubSeq(s, 5 + (s[4] % 16) * 256 + s[5] + 1, Len(s))
  <2>1. y \in SetLessThan(s, Shorter, Seq(Bytes))
    BY <1>5, EntryFits, DropShorter DEF SetLessThan
  <2>2. g[y] = h[y]
    BY <1>1, <2>1
  <2>3. ~(Len(s) < 5) /\ ~(5 + (s[4] % 16) * 256 + s[5] > Len(s))
    BY <1>2, <1>5
  <2>4. /\ StreamsDef(g, s) = <<(s[2] % 32) * 256 + s[3]>> \o g[y]
        /\ StreamsDef(h, s) = <<(s[2] % 32) * 256 + s[3]>> \o h[y]
    BY <2>3, Zenon DEF StreamsDef
  <2>5. QED
    BY <2>2, <2>4
<1>6. QED
  BY <1>2, <1>3, <1>4, <1>5

(* SpecStreams is the function its recursive definition describes.        *)
LEMMA SpecStreamsDefines == WFInductiveDefines(SpecStreams, Seq(Bytes), StreamsDef)
<1>1. OpDefinesFcn(SpecStreams, Seq(Bytes), StreamsDef)
  BY DEF OpDefinesFcn, SpecStreams, StreamsDef
<1> HIDE DEF StreamsDef
<1>2. QED
  BY <1>1, StreamsDefOn, ShorterWellFounded, WFInductiveDef

(* The defining equation of SpecStreams holds on every byte sequence.      *)
LEMMA SpecStreamsDef ==
  \A s \in Seq(Bytes) : SpecStreams[s] = StreamsDef(SpecStreams, s)
BY SpecStreamsDefines DEF WFInductiveDefines

(* The spec's stream loop yields a sequence of 13-bit PIDs.                *)
LEMMA SpecStreamsType ==
  \A s \in Seq(Bytes) : SpecStreams[s] \in Seq(Pid13)
<1>1. ASSUME NEW g, NEW s \in Seq(Bytes),
             \A y \in SetLessThan(s, Shorter, Seq(Bytes)) : g[y] \in Seq(Pid13)
      PROVE  StreamsDef(g, s) \in Seq(Pid13)
  <2>1. CASE Len(s) >= 5 /\ 5 + (s[4] % 16) * 256 + s[5] <= Len(s)
    <3>1. (s[2] % 32) * 256 + s[3] \in Pid13
      <4>1. s[2] \in Bytes /\ s[3] \in Bytes
        BY <2>1
      <4>2. QED
        BY <4>1, PidRange
    <3>2. g[SubSeq(s, 5 + (s[4] % 16) * 256 + s[5] + 1, Len(s))] \in Seq(Pid13)
      <4>1. SubSeq(s, 5 + (s[4] % 16) * 256 + s[5] + 1, Len(s)) \in SetLessThan(s, Shorter, Seq(Bytes))
        BY <2>1, EntryFits, DropShorter DEF SetLessThan
      <4>2. QED
        BY <4>1, <1>1
    <3>3. ~(Len(s) < 5) /\ ~(5 + (s[4] % 16) * 256 + s[5] > Len(s))
      <4>1. s[4] \in Nat /\ s[5] \in Nat
        BY <2>1, ByteNat
      <4>2. QED
        BY <2>1, <4>1
    <3>4. StreamsDef(g, s) = <<(s[2] % 32) * 256 + s[3]>>
                               \o g[SubSeq(s, 5 + (s[4] % 16) * 256 + s[5] + 1, Len(s))]
      BY <3>3, Zenon DEF StreamsDef
    <3>5. QED
      BY <3>1, <3>2, <3>4
  <2>2. CASE ~(Len(s) >= 5 /\ 5 + (s[4] % 16) * 256 + s[5] <= Len(s))
    <3>1. Len(s) >= 5 => s[4] \in Nat /\ s[5] \in Nat
      BY ByteNat
    <3>2. StreamsDef(g, s) = <<>>
      BY <2>2, <3>1 DEF StreamsDef
    <3>3. QED
      BY <3>2
  <2>3. QED
    BY <2>1, <2>2
<1>2. SUFFICES ASSUME NEW s0 \in Seq(Bytes), SpecStreams[s0] \notin Seq(Pid13)
               PROVE  FALSE
  OBVIOUS
<1> DEFINE Bad == {x \in Seq(Bytes) : SpecStreams[x] \notin Seq(Pid13)}
<1>3. PICK x \in Bad : \A y \in Bad : ~(<<y, x>> \in Shorter)
  <2>1. Bad \subseteq Seq(Bytes) /\ Bad # {}
    BY <1>2
  <2>2. QED
    BY <2>1, ShorterWellFounded, WFMin
<1>4. \A y \in SetLessThan(x, Shorter, Seq(Bytes)) : SpecStreams[y] \in Seq(Pid13)
  BY <1>3 DEF SetLessThan
<1>5. StreamsDef(SpecStreams, x) \in Seq(Pid13)
  BY <1>4, <1>1
<1>6. QED
  BY <1>3, <1>5, SpecStreamsDef

(* StreamInfoIter::next on an entry that fits: its PID, then the entries   *)
(* after its descriptor_end.                                               *)
LEMMA SpecStreamsStep ==
  ASSUME NEW s \in Seq(Bytes), Len(s) >= StreamHeaderSize,
         DescriptorEnd(s) <= Len(s)
  PROVE  SpecStreams[s] = <<ElementaryPid(s)>> \o SpecStreams[Drop(s, DescriptorEnd(s))]
<1>1. s[4] \in Nat /\ s[5] \in Nat
  BY ByteNat DEF StreamHeaderSize
<1>2. ~(Len(s) < 5) /\ ~(5 + (s[4] % 16) * 256 + s[5] > Len(s))
  BY <1>1 DEF StreamHeaderSize, DescriptorEnd, EsInfoLength
<1>3. StreamsDef(SpecStreams, s)
        = <<(s[2] % 32) * 256 + s[3]>> \o SpecStreams[SubSeq(s, 5 + (s[4] % 16) * 256 + s[5] + 1, Len(s))]
  BY <1>2, Zenon DEF StreamsDef
<1>4. Drop(s, DescriptorEnd(s)) = SubSeq(s, 5 + (s[4] % 16) * 256 + s[5] + 1, Len(s))
  <2>1. DescriptorEnd(s) + 1 = 5 + (s[4] % 16) * 256 + s[5] + 1
    BY <1>1 DEF DescriptorEnd, StreamHeaderSize, EsInfoLength
  <2>2. QED
    BY <2>1, Zenon DEF Drop
<1> HIDE DEF StreamsDef
<1>5. SpecStreams[s] = StreamsDef(SpecStreams, s)
  BY SpecStreamsDef
<1>6. QED
  BY <1>3, <1>4, <1>5 DEF ElementaryPid

(* StreamInfoIter::next returning None: no entry header left, or one whose *)
(* es_info runs past the buffer; the spec's list ends there too.           *)
LEMMA SpecStreamsStop ==
  ASSUME NEW s \in Seq(Bytes),
         Len(s) < StreamHeaderSize \/ DescriptorEnd(s) > Len(s)
  PROVE  SpecStreams[s] = <<>>
<1>1. Len(s) >= 5 => s[4] \in Nat /\ s[5] \in Nat
  BY ByteNat
<1>2. Len(s) < 5 \/ 5 + (s[4] % 16) * 256 + s[5] > Len(s)
  BY <1>1 DEF StreamHeaderSize, DescriptorEnd, EsInfoLength
<1>3. StreamsDef(SpecStreams, s) = <<>>
  BY <1>2, Zenon DEF StreamsDef
<1>4. QED
  BY <1>3, SpecStreamsDef

(* Appending a PID to out and taking it off the front of the rest keeps    *)
(* their concatenation.                                                    *)
LEMMA AppendShift ==
  ASSUME NEW S, NEW o \in Seq(S), NEW p \in S, NEW x \in Seq(S)
  PROVE  Append(o, p) \o x = o \o (<<p>> \o x)
<1>1. Append(o, p) = o \o <<p>>
  BY AppendIsConcat
<1>2. <<p>> \in Seq(S)
  OBVIOUS
<1>3. QED
  BY <1>1, <1>2, ConcatAssociative

-----------------------------------------------------------------------------
(* PInv holds initially and is preserved by each handler.                  *)

LEMMA InitPInv == Init => PInv
<1>1. SUFFICES ASSUME Init PROVE PInv
  OBVIOUS
<1>2. PICK in \in Inputs : table = in.table /\ data = in.bytes
  BY <1>1 DEF Init
<1>3. table \in {"Pat", "Pmt"} /\ data \in Seq(Bytes) /\ Len(data) >= HeaderSize + CrcSize
  BY <1>2, InputsAssumption
<1>4. rest = <<>> /\ out = <<>> /\ status = "section"
  BY <1>1 DEF Init
<1>5. <<>> \in Seq(Bytes) /\ <<>> \in Seq(0..8191)
  BY EmptySeq
<1>6. QED
  BY <1>3, <1>4, <1>5 DEF PInv, TypeOK

(* PatProcessor::section starts the program loop on the whole body.       *)
LEMMA PatSectionPInv == PInv /\ PatSection => PInv'
<1>1. SUFFICES ASSUME PInv, PatSection PROVE PInv'
  OBVIOUS
<1>2. data \in Seq(Bytes) /\ Len(data) >= HeaderSize + CrcSize /\ out = <<>>
  BY <1>1 DEF PInv, TypeOK, PatSection
<1>3. rest' = SpecBody(data) /\ rest' \in Seq(Bytes)
  BY <1>1, <1>2, BodyIsSpecBody DEF PatSection
<1>4. out' \o SpecPatPids(rest') = SpecPatPids(SpecBody(data'))
  <2>1. SpecPatPids(rest') \in Seq(Pid13)
    BY <1>3, SpecPatProps
  <2>2. QED
    BY <1>1, <1>2, <1>3, <2>1, ConcatEmptySeq DEF PatSection
<1>5. QED
  BY <1>1, <1>2, <1>3, <1>4 DEF PInv, TypeOK, PatSection

(* PmtProcessor::section and streams(): either the panic on a              *)
(* program_info_length past the body, or the stream loop started right     *)
(* after program_info, where the spec's entries begin.                     *)
LEMMA PmtSectionPInv == PInv /\ PmtSection => PInv'
<1>1. SUFFICES ASSUME PInv, PmtSection PROVE PInv'
  OBVIOUS
<1> DEFINE b == Body(data)
<1>2. data \in Seq(Bytes) /\ Len(data) >= HeaderSize + CrcSize /\ out = <<>>
      /\ table = "Pmt" /\ UNCHANGED <<table, data, out>>
  BY <1>1 DEF PInv, TypeOK, PmtSection
<1>3. b = SpecBody(data) /\ b \in Seq(Bytes)
  BY <1>2, BodyIsSpecBody
<1>4. CASE Len(b) < 4 \/ 4 + ProgramInfoLength(b) > Len(b)
  <2>1. status' = "panic" /\ rest' = b
    BY <1>1, <1>4 DEF PmtSection
  <2>2. QED
    BY <1>1, <1>2, <1>3, <2>1 DEF PInv, TypeOK
<1>5. CASE ~(Len(b) < 4 \/ 4 + ProgramInfoLength(b) > Len(b))
  <2>1. status' = "streams" /\ rest' = Drop(b, 4 + ProgramInfoLength(b))
    BY <1>1, <1>5 DEF PmtSection
  <2>2. b[3] \in Nat /\ b[4] \in Nat /\ b[3] \in Bytes /\ b[4] \in Bytes
    BY <1>3, <1>5, ByteNat
  <2>3. ProgramInfoLength(b) \in Nat
    BY <2>2, LengthRange DEF ProgramInfoLength
  <2>4. SpecPmtWellFormed(SpecBody(data))
    BY <1>3, <1>5, <2>2 DEF SpecPmtWellFormed, ProgramInfoLength
  <2>5. rest' \in Seq(Bytes)
    BY <1>3, <1>5, <2>1, <2>3, DropProps
  <2>6. rest' = SubSeq(b, 5 + (b[3] % 16) * 256 + b[4], Len(b))
    <3>1. 4 + ProgramInfoLength(b) + 1 = 5 + (b[3] % 16) * 256 + b[4]
      BY <2>2 DEF ProgramInfoLength
    <3>2. QED
      BY <2>1, <3>1, Zenon DEF Drop
  <2>7. out' \o SpecStreams[rest'] = SpecPmtPids(SpecBody(data'))
    <3>1. SpecStreams[rest'] \in Seq(Pid13)
      BY <2>5, SpecStreamsType
    <3>2. out' \o SpecStreams[rest'] = SpecStreams[rest']
      BY <1>2, <3>1, ConcatEmptySeq
    <3>3. QED
      BY <1>2, <1>3, <2>6, <3>2 DEF SpecPmtPids
  <2>8. QED
    BY <1>1, <1>2, <2>1, <2>4, <2>5, <2>7 DEF PInv, TypeOK
<1>6. QED
  BY <1>4, <1>5

(* ProgramIter::next: the end of the buffer, a short record's panic, or    *)
(* one record moved from the buffer to new_table.                          *)
LEMMA ProgramNextPInv == PInv /\ ProgramNext => PInv'
<1>1. SUFFICES ASSUME PInv, ProgramNext PROVE PInv'
  OBVIOUS
<1>2. /\ status = "programs" /\ table = "Pat" /\ rest \in Seq(Bytes) /\ out \in Seq(Pid13)
      /\ out \o SpecPatPids(rest) = SpecPatPids(SpecBody(data))
      /\ UNCHANGED <<table, data>>
  BY <1>1, PidSeq DEF PInv, TypeOK, ProgramNext
<1>3. CASE rest = <<>> /\ status' = "done" /\ UNCHANGED <<rest, out>>
  BY <1>1, <1>2, <1>3 DEF PInv, TypeOK
<1>4. CASE rest # <<>> /\ Len(rest) < 4 /\ status' = "panic" /\ UNCHANGED <<rest, out>>
  BY <1>1, <1>2, <1>4 DEF PInv, TypeOK
<1>5. CASE /\ Len(rest) >= 4
           /\ out' = Append(out, ProgramPid(rest))
           /\ rest' = Drop(rest, 4)
           /\ UNCHANGED status
  <2>1. ProgramPid(rest) \in Pid13
    <3>1. rest[3] \in Bytes /\ rest[4] \in Bytes
      BY <1>2, <1>5
    <3>2. QED
      BY <3>1, PidRange DEF ProgramPid
  <2>2. rest' \in Seq(Bytes) /\ out' \in Seq(Pid13)
    BY <1>2, <1>5, <2>1, DropProps
  <2>3. out' \o SpecPatPids(rest') = SpecPatPids(SpecBody(data'))
    <3>1. SpecPatPids(rest') \in Seq(Pid13)
      BY <2>2, SpecPatProps
    <3>2. out' \o SpecPatPids(rest') = out \o (<<ProgramPid(rest)>> \o SpecPatPids(rest'))
      BY <1>2, <1>5, <2>1, <3>1, AppendShift
    <3>3. QED
      BY <1>2, <1>5, <3>2, SpecPatStep
  <2>4. TypeOK'
    <3>1. out' \in Seq(0..8191)
      BY <2>2, PidSeq
    <3>2. table' \in {"Pat", "Pmt"} /\ data' \in Seq(Bytes) /\ status' = "programs"
      BY <1>1, <1>2, <1>5 DEF PInv, TypeOK
    <3>3. QED
      BY <2>2, <3>1, <3>2 DEF TypeOK
  <2>5. QED
    BY <1>1, <1>2, <1>5, <2>2, <2>3, <2>4 DEF PInv
<1>6. QED
  BY <1>1, <1>3, <1>4, <1>5 DEF ProgramNext

(* StreamInfoIter::next: None on an empty buffer, a short header or an     *)
(* es_info past the buffer, where the spec's list ends too; otherwise one  *)
(* entry moved from the buffer to new_table.                               *)
LEMMA StreamNextPInv == PInv /\ StreamNext => PInv'
<1>1. SUFFICES ASSUME PInv, StreamNext PROVE PInv'
  OBVIOUS
<1>2. /\ status = "streams" /\ table = "Pmt" /\ rest \in Seq(Bytes) /\ out \in Seq(Pid13)
      /\ SpecPmtWellFormed(SpecBody(data))
      /\ out \o SpecStreams[rest] = SpecPmtPids(SpecBody(data))
      /\ UNCHANGED <<table, data>>
  BY <1>1, PidSeq DEF PInv, TypeOK, StreamNext
<1>3. CASE \/ rest = <<>> /\ status' = "done" /\ UNCHANGED <<rest, out>>
           \/ /\ rest # <<>> /\ Len(rest) < StreamHeaderSize
              /\ status' = "done" /\ UNCHANGED <<rest, out>>
           \/ /\ Len(rest) >= StreamHeaderSize /\ DescriptorEnd(rest) > Len(rest)
              /\ status' = "done" /\ UNCHANGED <<rest, out>>
  <2>1. Len(rest) < StreamHeaderSize \/ DescriptorEnd(rest) > Len(rest)
    BY <1>3 DEF StreamHeaderSize
  <2>2. SpecStreams[rest'] = <<>>
    BY <1>2, <1>3, <2>1, SpecStreamsStop
  <2>3. UNCHANGED <<table, data, rest, out>> /\ status' = "done"
    BY <1>2, <1>3
  <2>4. TypeOK'
    BY <1>1, <1>2, <2>3, PidSeq DEF PInv, TypeOK
  <2>5. QED
    BY <1>1, <1>2, <2>2, <2>3, <2>4 DEF PInv
<1>4. CASE /\ Len(rest) >= StreamHeaderSize /\ DescriptorEnd(rest) <= Len(rest)
           /\ out' = Append(out, ElementaryPid(rest))
           /\ rest' = Drop(rest, DescriptorEnd(rest))
           /\ UNCHANGED status
  <2>1. ElementaryPid(rest) \in Pid13
    <3>1. rest[2] \in Bytes /\ rest[3] \in Bytes
      BY <1>2, <1>4 DEF StreamHeaderSize
    <3>2. QED
      BY <3>1, PidRange DEF ElementaryPid
  <2>2. DescriptorEnd(rest) \in 0..Len(rest)
    <3>1. rest[4] \in Bytes /\ rest[5] \in Bytes
      BY <1>2, <1>4 DEF StreamHeaderSize
    <3>2. EsInfoLength(rest) \in Nat
      BY <3>1, LengthRange DEF EsInfoLength
    <3>3. QED
      BY <1>4, <3>2 DEF DescriptorEnd, StreamHeaderSize
  <2>3. rest' \in Seq(Bytes) /\ out' \in Seq(Pid13)
    BY <1>2, <1>4, <2>1, <2>2, DropProps
  <2>4. out' \o SpecStreams[rest'] = SpecPmtPids(SpecBody(data'))
    <3> DEFINE nr == Drop(rest, DescriptorEnd(rest))
               tl == SpecStreams[nr]
    <3>1. nr \in Seq(Bytes) /\ rest' = nr
      BY <1>2, <1>4, <2>2, DropProps
    <3>2. tl \in Seq(Pid13)
      BY <3>1, SpecStreamsType
    <3> HIDE DEF nr, tl
    <3>3. Append(out, ElementaryPid(rest)) \o tl = out \o (<<ElementaryPid(rest)>> \o tl)
      BY <1>2, <2>1, <3>2, AppendShift
    <3>4. <<ElementaryPid(rest)>> \o tl = SpecStreams[rest]
      BY <1>2, <1>4, SpecStreamsStep DEF nr, tl
    <3>5. out' \o SpecStreams[rest'] = Append(out, ElementaryPid(rest)) \o tl
      BY <1>4, <3>1 DEF tl
    <3>6. QED
      BY <1>2, <3>3, <3>4, <3>5
  <2>5. TypeOK'
    <3>1. out' \in Seq(0..8191)
      BY <2>3, PidSeq
    <3>2. table' \in {"Pat", "Pmt"} /\ data' \in Seq(Bytes) /\ status' = "streams"
      BY <1>1, <1>2, <1>4 DEF PInv, TypeOK
    <3>3. QED
      BY <2>3, <3>1, <3>2 DEF TypeOK
  <2>6. QED
    BY <1>1, <1>2, <1>4, <2>3, <2>4, <2>5 DEF PInv
<1>5. QED
  BY <1>1, <1>3, <1>4 DEF StreamNext

(* Every step of the processors, and every stuttering step, keeps PInv.    *)
LEMMA NextPInv == PInv /\ [Next]_vars => PInv'
<1>1. SUFFICES ASSUME PInv, [Next]_vars PROVE PInv'
  OBVIOUS
<1>2. CASE PatSection
  BY <1>1, <1>2, PatSectionPInv
<1>3. CASE PmtSection
  BY <1>1, <1>3, PmtSectionPInv
<1>4. CASE ProgramNext
  BY <1>1, <1>4, ProgramNextPInv
<1>5. CASE StreamNext
  BY <1>1, <1>5, StreamNextPInv
<1>6. CASE UNCHANGED vars
  BY <1>1, <1>6 DEF PInv, TypeOK, vars
<1>7. QED
  BY <1>1, <1>2, <1>3, <1>4, <1>5, <1>6 DEF Next

(* PInv holds in every reachable state of the section parsers.             *)
LEMMA PInvInvariant == Spec => []PInv
BY InitPInv, NextPInv, PTL DEF Spec

-----------------------------------------------------------------------------
(* The parsers only ever hold byte buffers and hand new_table 13-bit PIDs: *)
(* the masks of ProgramDescriptor::pid and StreamInfo::elementary_pid keep *)
(* every PID below 8192.                                                   *)
THEOREM ParseTypeCorrect == Spec => []TypeOK
<1>1. PInv => TypeOK
  BY DEF PInv
<1>2. QED
  BY <1>1, PInvInvariant, PTL

(* When ProgramIter has run to the end of a PAT section, new_table has     *)
(* been given the pmt_pid of every whole 4-byte record of the body the     *)
(* spec names, in order, for every delivered section.                      *)
THEOREM PatParsedAsSpecified == Spec => []PatProgramsAsSpecified
<1>1. PInv => PatProgramsAsSpecified
  <2>1. SUFFICES ASSUME PInv, table = "Pat", status = "done"
                 PROVE  out = SpecPatPids(SpecBody(data))
    BY DEF PatProgramsAsSpecified
  <2>2. rest = <<>> /\ out \in Seq(Pid13)
    BY <2>1, PidSeq DEF PInv, TypeOK
  <2>3. out \o SpecPatPids(rest) = out
    BY <2>2, SpecPatEmpty, ConcatEmptySeq
  <2>4. QED
    BY <2>1, <2>3 DEF PInv
<1>2. QED
  BY <1>1, PInvInvariant, PTL

(* When StreamInfoIter has returned None on a PMT section, the section     *)
(* was well formed and new_table has been given the elementary PIDs of     *)
(* every entry before the first truncated one, for every delivered         *)
(* section.                                                                *)
THEOREM PmtParsedAsSpecified == Spec => []PmtStreamsAsSpecified
<1>1. PInv => PmtStreamsAsSpecified
  <2>1. SUFFICES ASSUME PInv, table = "Pmt", status = "done"
                 PROVE  /\ SpecPmtWellFormed(SpecBody(data))
                        /\ out = SpecPmtPids(SpecBody(data))
    BY DEF PmtStreamsAsSpecified
  <2>2. SpecStreams[rest] = <<>> /\ out \in Seq(Pid13)
    BY <2>1, PidSeq DEF PInv, TypeOK
  <2>3. out \o SpecStreams[rest] = out
    BY <2>2, ConcatEmptySeq
  <2>4. QED
    BY <2>1, <2>3 DEF PInv
<1>2. QED
  BY <1>1, PInvInvariant, PTL

=============================================================================
