------------------------------ MODULE PsiParse ------------------------------
(***************************************************************************)
(* The byte-level parsing that PatProcessor and PmtProcessor do on a      *)
(* section the psi layer delivers: section() strips the 8 header bytes    *)
(* and the 4 CRC bytes; a PAT body is walked by ProgramIter in 4-byte     *)
(* records; a PMT body is split by PmtSection::streams after its          *)
(* program_info and walked by StreamInfoIter.  Each call of an iterator's *)
(* next() is one step, so that a panic, a silent truncation and a normal  *)
(* end are distinct outcomes.  The output is the sequence of PIDs that    *)
(* new_table receives, which is what Demux abstracts a Section to.         *)
(*                                                                         *)
(* The reference definitions at the end are written from the layouts of  *)
(* spec 6 and the error policy of spec 4.5 and 7.  SpecStreams is a       *)
(* recursive function on the remaining bytes, so that proofs can use it.   *)
(***************************************************************************)
EXTENDS Naturals, Sequences

CONSTANT Inputs   \* the delivered sections: their table and their bytes

Bytes == 0..255
HeaderSize == 3 + 5   \* SectionCommonHeader::SIZE + TableSyntaxHeader::SIZE
CrcSize == 4

(* A section reaching a processor is whole: headers, body and CRC.         *)
ASSUME InputsAssumption ==
  /\ Inputs \subseteq [table : {"Pat", "Pmt"}, bytes : Seq(Bytes)]
  /\ \A in \in Inputs : Len(in.bytes) >= HeaderSize + CrcSize

VARIABLES
  table,   \* which processor the section was delivered to
  data,    \* the section bytes handed to section()
  rest,    \* the iterator's remaining buffer (self.buf)
  out,     \* the PIDs new_table has been given so far, in order
  status   \* "section", "programs", "streams", "done" or "panic"

vars == <<table, data, rest, out, status>>

Drop(s, n) == SubSeq(s, n + 1, Len(s))

(* Field accessors: `&` with a low mask is `%`, `<< 8 |` is `* 256 +`.     *)
(* Mutant: the PID read without its 13-bit mask.                            *)
ProgramPidUnmasked(d) == d[3] * 256 + d[4]
ProgramPid(d) == (d[3] % 32) * 256 + d[4]
ElementaryPid(d) == (d[2] % 32) * 256 + d[3]
(* Mutant: es_info_length read with the 13-bit mask of a PID.             *)
EsInfoLengthWide(d) == (d[4] % 32) * 256 + d[5]
EsInfoLength(d) == (d[4] % 16) * 256 + d[5]
ProgramInfoLength(d) == (d[3] % 16) * 256 + d[4]

(* StreamInfo::from_bytes: HEADER_SIZE and descriptor_end.                *)
StreamHeaderSize == 5
DescriptorEnd(s) == StreamHeaderSize + EsInfoLength(s)

(* section(): data[SIZE + SIZE .. len - 4].                                *)
Body(d) == SubSeq(d, HeaderSize + 1, Len(d) - CrcSize)

-----------------------------------------------------------------------------
Init ==
  /\ \E in \in Inputs : table = in.table /\ data = in.bytes
  /\ rest = <<>>
  /\ out = <<>>
  /\ status = "section"

(* PatProcessor::section: PatSection::new(body).programs().                *)
PatSection ==
  /\ status = "section" /\ table = "Pat"
  /\ rest' = Body(data)
  /\ status' = "programs"
  /\ UNCHANGED <<table, data, out>>

(* PmtProcessor::section, then PmtSection::streams() as new_table calls    *)
(* it: reading program_info_length indexes bytes 2 and 3, and a length     *)
(* that runs past the body hits the panic! of streams().                   *)
PmtSection ==
  /\ status = "section" /\ table = "Pmt"
  /\ LET b == Body(data)
     IN  IF Len(b) < 4 \/ 4 + ProgramInfoLength(b) > Len(b)
           THEN /\ status' = "panic"
                /\ rest' = b
           ELSE /\ rest' = Drop(b, 4 + ProgramInfoLength(b))
                /\ status' = "streams"
  /\ UNCHANGED <<table, data, out>>

(* Mutant: next() takes a 3-byte record.                                   *)
ProgramNextShort ==
  /\ status = "programs"
  /\ \/ rest = <<>> /\ status' = "done" /\ UNCHANGED <<rest, out>>
     \/ /\ rest # <<>> /\ Len(rest) < 3
        /\ status' = "panic" /\ UNCHANGED <<rest, out>>
     \/ /\ Len(rest) >= 3
        /\ out' = Append(out, (rest[2] % 32) * 256 + rest[3])
        /\ rest' = Drop(rest, 3)
        /\ UNCHANGED status
  /\ UNCHANGED <<table, data>>

(* ProgramIter::next: None on an empty buffer; split_at(4) panics when     *)
(* fewer than 4 bytes are left; otherwise one ProgramDescriptor.           *)
ProgramNext ==
  /\ status = "programs"
  /\ \/ rest = <<>> /\ status' = "done" /\ UNCHANGED <<rest, out>>
     \/ /\ rest # <<>> /\ Len(rest) < 4
        /\ status' = "panic" /\ UNCHANGED <<rest, out>>
     \/ /\ Len(rest) >= 4
        /\ out' = Append(out, ProgramPid(rest))
        /\ rest' = Drop(rest, 4)
        /\ UNCHANGED status
  /\ UNCHANGED <<table, data>>

(* StreamInfoIter::next with StreamInfo::from_bytes: None on an empty      *)
(* buffer, on fewer than HEADER_SIZE = 5 bytes, or when es_info_length     *)
(* runs past the buffer (both logged); otherwise one StreamInfo.           *)
StreamNext ==
  /\ status = "streams"
  /\ \/ rest = <<>> /\ status' = "done" /\ UNCHANGED <<rest, out>>
     \/ /\ rest # <<>> /\ Len(rest) < StreamHeaderSize
        /\ status' = "done" /\ UNCHANGED <<rest, out>>
     \/ /\ Len(rest) >= StreamHeaderSize /\ DescriptorEnd(rest) > Len(rest)
        /\ status' = "done" /\ UNCHANGED <<rest, out>>
     \/ /\ Len(rest) >= StreamHeaderSize /\ DescriptorEnd(rest) <= Len(rest)
        /\ out' = Append(out, ElementaryPid(rest))
        /\ rest' = Drop(rest, DescriptorEnd(rest))
        /\ UNCHANGED status
  /\ UNCHANGED <<table, data>>

Next == PatSection \/ PmtSection \/ ProgramNext \/ StreamNext

Spec == Init /\ [][Next]_vars

-----------------------------------------------------------------------------
(* Reference definitions, from spec 6 (layouts) and spec 4.5 (truncation). *)

(* The body the spec names: data[SECTION_COMMON_HEADER_SIZE +              *)
(* TABLE_SYNTAX_HEADER_SIZE .. len-4].                                     *)
SpecBody(d) == [k \in 1..(Len(d) - 12) |-> d[8 + k]]

(* A PAT body is repeating {program_number:16, reserved:3, pmt_pid:13}.    *)
SpecPatPids(b) ==
  [k \in 1..(Len(b) \div 4) |-> (b[4 * k - 1] % 32) * 256 + b[4 * k]]

(* A PMT body: pcr_pid and program_info_length (4 bytes), program_info,    *)
(* then StreamInfo entries of 5 + es_info_length bytes until the body      *)
(* ends; an entry that does not fit ends the list (spec 4.5 edge cases).   *)
SpecStreams[s \in Seq(Bytes)] ==
  IF Len(s) < 5 THEN <<>>
  ELSE LET n == 5 + (s[4] % 16) * 256 + s[5]
       IN  IF n > Len(s) THEN <<>>
           ELSE <<(s[2] % 32) * 256 + s[3]>> \o SpecStreams[SubSeq(s, n + 1, Len(s))]

SpecPmtWellFormed(b) ==
  Len(b) >= 4 /\ 4 + (b[3] % 16) * 256 + b[4] <= Len(b)

SpecPmtPids(b) ==
  SpecStreams[SubSeq(b, 5 + (b[3] % 16) * 256 + b[4], Len(b))]

-----------------------------------------------------------------------------
TypeOK ==
  /\ table \in {"Pat", "Pmt"}
  /\ data \in Seq(Bytes)
  /\ rest \in Seq(Bytes)
  /\ out \in Seq(0..8191)
  /\ status \in {"section", "programs", "streams", "done", "panic"}

(* ProgramIter hands new_table the pmt_pid of every whole 4-byte record of *)
(* the body the spec names, in order, when it runs to its end.             *)
PatProgramsAsSpecified ==
  table = "Pat" /\ status = "done" => out = SpecPatPids(SpecBody(data))

(* PmtSection::streams and StreamInfoIter hand new_table the elementary    *)
(* PIDs of the entries before the first truncated one, skipping the        *)
(* program_info and every es_info, on every body the spec calls well-      *)
(* formed.                                                                 *)
PmtStreamsAsSpecified ==
  table = "Pmt" /\ status = "done" =>
     /\ SpecPmtWellFormed(SpecBody(data))
     /\ out = SpecPmtPids(SpecBody(data))

(* Spec 7: errors are local to the offending section; a malformed section *)
(* is discarded (spec 4.5) and never aborts the program.                   *)
SectionErrorsAreLocal == status # "panic"

=============================================================================
