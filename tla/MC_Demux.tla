------------------------------ MODULE MC_Demux ------------------------------
(* Small instances of Demux for TLC: the PIDs of one or two programs, two  *)
(* table versions, and packets that announce, update and withdraw them.    *)
EXTENDS Demux

Sec(tid, ver, pids) == [tid |-> tid, ver |-> ver, crc |-> TRUE, pids |-> pids]
Pk(pid, sect) == [pid |-> pid, sync |-> TRUE, sect |-> sect]
Lost(pid) == [pid |-> pid, sync |-> FALSE, sect |-> NoSection]

MCPids == {0, 101, 102, 201}
MCVersions == {0, 1}

(* PAT v0 announces program PMT 101, PAT v1 adds PMT 102; the PMT on 101   *)
(* announces elementary PID 201 in v0 and withdraws it in v1; payload on   *)
(* 201; a packet that lost its sync byte.                                  *)
MCPackets ==
  { Pk(0, Sec(PatTableId, 0, <<101>>)),
    Pk(0, Sec(PatTableId, 1, <<101, 102>>)),
    Pk(101, Sec(PmtTableId, 0, <<201>>)),
    Pk(101, Sec(PmtTableId, 1, <<>>)),
    Pk(201, NoSection),
    Lost(201) }

(* A program whose PMT sits on 0x1FFF, the last PID, and a PAT that later  *)
(* withdraws it.                                                           *)
MCTopPids == {0, 8191}
MCTopPackets ==
  { Pk(0, Sec(PatTableId, 0, <<8191>>)),
    Pk(0, Sec(PatTableId, 1, <<>>)) }

(* Two programs, PMTs on 101 and 102, that both list elementary PID 201;   *)
(* the PMT on 102 later drops it.                                          *)
MCSharedPackets ==
  { Pk(0, Sec(PatTableId, 0, <<101, 102>>)),
    Pk(101, Sec(PmtTableId, 0, <<201>>)),
    Pk(102, Sec(PmtTableId, 0, <<201>>)),
    Pk(102, Sec(PmtTableId, 1, <<>>)) }
=============================================================================
