----------------------------- MODULE MC_PsiParse -----------------------------
(* Sections for PsiParse: bodies put together from a few whole records,    *)
(* entries and stray bytes, so that records split by a short tail, a       *)
(* program_info_length past the body, es_info skipped or running past the  *)
(* body, and masked reserved bits all occur.                               *)
EXTENDS PsiParse

(* table_id, section_length, table id, version, section numbers; CRC.      *)
Section(tid, b) ==
  <<tid, 16 + Len(b) \div 256, Len(b) % 256, 0, 1, 193, 0, 0>> \o b
     \o <<170, 187, 204, 221>>

(* PAT records {program_number, reserved | pmt_pid}: program 1 on PID 101, *)
(* program 2 on PID 0x1066 (reserved bits 111 set); stray bytes.           *)
PatChunks == {<<>>, <<0, 1, 224, 101>>, <<0, 2, 240, 102>>, <<0>>, <<0, 0>>}
PatBodies == {a \o b \o c : a, b, c \in PatChunks}

(* PMT heads {pcr_pid, program_info_length}: lengths 0, 1 and 256, and a   *)
(* body cut inside the head.                                               *)
PmtHeads == {<<>>, <<225>>, <<225, 1, 240, 0>>, <<225, 1, 240, 1>>,
             <<225, 1, 241, 0>>}
(* StreamInfo entries: PID 201 with es_info_length 0 and 1, an entry       *)
(* header cut short, and a descriptor byte.                                *)
PmtChunks == {<<>>, <<27, 224, 201, 240, 0>>, <<27, 224, 202, 240, 1>>,
              <<27, 224, 203>>, <<0>>}
PmtBodies == {h \o a \o b \o c : h \in PmtHeads, a, b, c \in PmtChunks}

MCPatInputs == {[table |-> "Pat", bytes |-> Section(0, b)] : b \in PatBodies}
MCPmtInputs == {[table |-> "Pmt", bytes |-> Section(2, b)] : b \in PmtBodies}
(* PMT sections whose body holds the whole 4-byte head.                     *)
MCPmtHeadInputs ==
  {[table |-> "Pmt", bytes |-> Section(2, h \o a)] :
     h \in PmtHeads \ {<<>>, <<225>>}, a \in PmtChunks}
MCInputs == MCPatInputs \cup MCPmtInputs
=============================================================================
