------------------------------- MODULE Demux -------------------------------
(***************************************************************************)
(* The packet dispatcher of src/demultiplex.rs together with the handlers  *)
(* it dispatches to: the PID-indexed filter table (Filters), the deferred  *)
(* edit log (FilterChangeset), the PAT and PMT processors (PatProcessor,   *)
(* PmtProcessor) and the application's StreamConstructor.                  *)
(*                                                                         *)
(* Demultiplex::push is modelled one loop step per action, so that the     *)
(* states between two handler invocations are visible: the outer loop      *)
(* (lookup or autodiscovery of the packet's PID), the inner same-PID       *)
(* batching loop (one packet consumed per step) and the drain of the       *)
(* changeset after the inner loop.  A packet is abstracted to its PID, its *)
(* sync byte and the PSI section, if any, whose last byte it carries; the  *)
(* psi layer that reassembles, CRC-checks and de-duplicates sections is    *)
(* not under src/ and is modelled from its contract in the spec (4.3).     *)
(***************************************************************************)
EXTENDS Naturals, Sequences, FiniteSets, Functions, FilterTable

CONSTANTS
  Pids,       \* the PIDs the model's packets and tables mention
  Versions,   \* the table version numbers used (5-bit version field)
  Packets,    \* the packets a pushed buffer is made of
  MaxBuf,     \* most packets in one buffer given to push()
  NoVersion,  \* Option<u8>::None of current_version and of the dedup state
  NoSection   \* a packet that completes no section

MaxPid == 8191          \* 0x1FFF, the largest 13-bit PID
PatTableId == 0
PmtTableId == 2

(* A PSI section as the psi layer hands it to a processor: table_id,       *)
(* version, whether its CRC-32 matched, and the PIDs its body lists in     *)
(* order (PMT PIDs of a PAT, elementary PIDs of a PMT).                    *)
Section == [tid : Nat, ver : Versions, crc : BOOLEAN, pids : Seq(Pids)]
Packet  == [pid : Pids, sync : BOOLEAN, sect : Section \cup {NoSection}]

ASSUME PidsAssumption == /\ Pids \subseteq 0..MaxPid
                         /\ 0 \in Pids
                         /\ IsFiniteSet(Pids)
ASSUME VersionsAssumption == Versions \subseteq 0..31 /\ NoVersion \notin Versions
ASSUME PacketsAssumption == Packets \subseteq Packet
ASSUME MaxBufAssumption == MaxBuf \in Nat

(* A handler (the F of a DemuxContext): its variant, the PID it was        *)
(* constructed for and, for the PSI variants, the dedup parser's last      *)
(* version, the processor's current_version and filters_registered.        *)
Kinds == {"Pat", "Pmt", "Es", "Nul"}
Handler == [kind : Kinds, pid : Pids, last : Versions \cup {NoVersion},
            cur : Versions \cup {NoVersion}, reg : SUBSET Pids]
Edit == [op : {"Insert"}, pid : Pids, h : Handler]
          \cup [op : {"Remove"}, pid : Pids, h : {None}]
ASSUME NoneAssumption == None \notin Handler

Buffers == UNION {[1..n -> Packets] : n \in 0..MaxBuf}

VARIABLES
  filters,      \* Demultiplex.processor_by_pid: PID -> handler or None
  changeset,    \* ctx.changeset.updates: the pending edits, in order
  buf,          \* the buffer of the current push(), as packets
  i,            \* push's cursor, counted in packets (bytes / 188)
  thisPid,      \* this_pid of the current outer-loop iteration
  pc,           \* where push is: "idle", "outer", "inner" or "after"
  consumed,     \* history: [pos, slot] of each consume() of this push
  patAnnounced, \* history: PMT PIDs of the last table the PAT accepted
  pmtAnnounced, \* history: PID -> elementary PIDs of the last PMT accepted there
  pmtVersion    \* history: PID -> version of the last PMT accepted there

vars == <<filters, changeset, buf, i, thisPid, pc, consumed,
          patAnnounced, pmtAnnounced, pmtVersion>>

-----------------------------------------------------------------------------
(* StreamConstructor::construct as the test constructor and spec 4.7 use   *)
(* it: ByPid(0) gives a PAT filter, ByPid(other) a null filter, Pmt a PMT  *)
(* filter and ByStream the application's elementary-stream consumer.       *)
Fresh(kind, p) ==
  [kind |-> kind, pid |-> p, last |-> NoVersion, cur |-> NoVersion, reg |-> {}]

Construct(req, p) ==
  CASE req = "ByPid" /\ p = 0 -> Fresh("Pat", p)
    [] req = "ByPid"          -> Fresh("Nul", p)
    [] req = "Pmt"            -> Fresh("Pmt", p)
    [] req = "ByStream"       -> Fresh("Es", p)

-----------------------------------------------------------------------------
(* new_table of the PAT and PMT processors.  One Insert per listed PID, in *)
(* the order the section lists them, then one Remove per PID registered    *)
(* before and not listed now, in ascending PID order.  The scan is         *)
(* `for pid in 0..0x1fff`, which stops before 0x1FFF.                      *)
ScanRange == 0..(MaxPid - 1)

(* Mutant: the removal scan forgets the `!pids_seen.contains` test.       *)
UnregisteredAll(reg, seen) == {p \in reg : p \in ScanRange}

Unregistered(reg, seen) == {p \in reg : p \in ScanRange /\ p \notin seen}

(* The order of the scan: the k-th PID of S is the one with k - 1 smaller. *)
Rank(S, x) == Cardinality({y \in S : y < x})

Ascending(S) ==
  [k \in 1..Cardinality(S) |-> CHOOSE x \in S : Rank(S, x) = k - 1]

InsertEdits(pids, req) ==
  [k \in 1..Len(pids) |->
     [op |-> "Insert", pid |-> pids[k], h |-> Construct(req, pids[k])]]

RemoveEdits(gone) ==
  LET order == Ascending(gone)
  IN  [k \in 1..Len(order) |-> [op |-> "Remove", pid |-> order[k], h |-> None]]

(* The result of a processor's new_table: its new state and its edits.     *)
NewTable(h, s, tid, req) ==
  IF s.tid # tid
    THEN [h |-> h, edits |-> <<>>]
    ELSE LET seen == Range(s.pids)
             gone == Unregistered(h.reg, seen)
         IN  [h |-> [h EXCEPT !.reg = (@ \cup seen) \ gone, !.cur = s.ver],
              edits |-> InsertEdits(s.pids, req) \o RemoveEdits(gone)]

PatNewTable(h, s) == NewTable(h, s, PatTableId, "Pmt")
(* Mutant: the PMT asks the constructor for ByPid instead of ByStream.     *)
PmtNewTableByPid(h, s) == NewTable(h, s, PmtTableId, "ByPid")

PmtNewTable(h, s) == NewTable(h, s, PmtTableId, "ByStream")

(* The psi stack in front of a processor delivers a section only when the  *)
(* packet completes one, its CRC matches, and its version differs from the *)
(* last one delivered (DedupSectionSyntaxPayloadParser).                   *)
Delivers(h, pk) ==
  /\ h.kind \in {"Pat", "Pmt"}
  /\ pk.sect # NoSection
  /\ pk.sect.crc
  /\ pk.sect.ver # h.last

(* PacketFilter::consume of each handler variant.                          *)
Consume(h, pk) ==
  IF ~Delivers(h, pk)
    THEN [h |-> h, edits |-> <<>>]
  ELSE LET h1 == [h EXCEPT !.last = pk.sect.ver]
       IN  IF h.kind = "Pat" THEN PatNewTable(h1, pk.sect)
                             ELSE PmtNewTable(h1, pk.sect)

(* Whether consume makes the processor accept a table (history only).     *)
Accepts(h, pk, kind, tid) ==
  h.kind = kind /\ Delivers(h, pk) /\ pk.sect.tid = tid

-----------------------------------------------------------------------------
(* Demultiplex::new: an empty table with the constructor's ByPid(0)        *)
(* filter installed; the context's changeset starts empty.                 *)
Init ==
  /\ filters = [p \in Pids |-> IF p = 0 THEN Construct("ByPid", 0) ELSE None]
  /\ changeset = <<>>
  /\ buf = <<>>
  /\ i = 0
  /\ thisPid = 0
  /\ pc = "idle"
  /\ consumed = <<>>
  /\ patAnnounced = {}
  /\ pmtAnnounced = [p \in Pids |-> {}]
  /\ pmtVersion = [p \in Pids |-> NoVersion]

(* The caller calls push(ctx, buf).                                        *)
Push(b) ==
  /\ pc = "idle"
  /\ buf' = b
  /\ i' = 0
  /\ pc' = "outer"
  /\ consumed' = <<>>
  /\ UNCHANGED <<filters, changeset, thisPid, patAnnounced, pmtAnnounced, pmtVersion>>

(* Top of the outer loop: fewer than 188 bytes left, so push returns.      *)
LoopEnd ==
  /\ pc = "outer"
  /\ i + 1 > Len(buf)
  /\ pc' = "idle"
  /\ UNCHANGED <<filters, changeset, buf, i, thisPid, consumed,
                 patAnnounced, pmtAnnounced, pmtVersion>>

(* Top of the outer loop: no sync byte, so push gives up on the buffer.    *)
LoopDesync ==
  /\ pc = "outer"
  /\ i + 1 <= Len(buf)
  /\ ~buf[i + 1].sync
  /\ pc' = "idle"
  /\ UNCHANGED <<filters, changeset, buf, i, thisPid, consumed,
                 patAnnounced, pmtAnnounced, pmtVersion>>

(* Mutant: push constructs and inserts a ByPid filter without asking      *)
(* whether the table already holds one for the PID.                        *)
LoopLookupNoContains ==
  /\ pc = "outer"
  /\ i + 1 <= Len(buf)
  /\ buf[i + 1].sync
  /\ LET p == buf[i + 1].pid
     IN  /\ thisPid' = p
         /\ filters' = InsertFilter(filters, p, Construct("ByPid", p))
  /\ pc' = "inner"
  /\ UNCHANGED <<changeset, buf, i, consumed, patAnnounced, pmtAnnounced, pmtVersion>>

(* Top of the outer loop: look the PID up, constructing and inserting a   *)
(* ByPid filter when the table has none, and enter the batching loop.     *)
LoopLookup ==
  /\ pc = "outer"
  /\ i + 1 <= Len(buf)
  /\ buf[i + 1].sync
  /\ LET p == buf[i + 1].pid
     IN  /\ thisPid' = p
         /\ filters' = IF Contains(filters, p) THEN filters
                       ELSE InsertFilter(filters, p, Construct("ByPid", p))
  /\ pc' = "inner"
  /\ UNCHANGED <<changeset, buf, i, consumed, patAnnounced, pmtAnnounced, pmtVersion>>

(* Mutant: the loop goes back to its top without draining the changeset.  *)
InnerExitNoDrain ==
  /\ pc = "inner"
  /\ changeset # <<>>
  /\ pc' = "outer"
  /\ UNCHANGED <<filters, changeset, buf, i, thisPid, consumed,
                 patAnnounced, pmtAnnounced, pmtVersion>>

(* The inner loop's guard `while changeset.is_empty()` fails.              *)
InnerExit ==
  /\ pc = "inner"
  /\ changeset # <<>>
  /\ pc' = "after"
  /\ UNCHANGED <<filters, changeset, buf, i, thisPid, consumed,
                 patAnnounced, pmtAnnounced, pmtVersion>>

(* Mutant: on a change of PID the cursor steps back two packets.          *)
AdvanceBackTwice ==
  LET j == i + 1
  IN  \/ /\ j + 1 > Len(buf)
         /\ i' = j /\ pc' = "after"
      \/ /\ j + 1 <= Len(buf) /\ ~buf[j + 1].sync
         /\ i' = j /\ pc' = "idle"
      \/ /\ j + 1 <= Len(buf) /\ buf[j + 1].sync /\ buf[j + 1].pid # thisPid
         /\ i' = j - 2 /\ pc' = "after"
      \/ /\ j + 1 <= Len(buf) /\ buf[j + 1].sync /\ buf[j + 1].pid = thisPid
         /\ i' = j /\ pc' = "inner"

(* Mutant: the batching loop does not compare the next packet's PID.       *)
AdvanceNoPidCheck ==
  LET j == i + 1
  IN  \/ /\ j + 1 > Len(buf)
         /\ i' = j /\ pc' = "after"
      \/ /\ j + 1 <= Len(buf) /\ ~buf[j + 1].sync
         /\ i' = j /\ pc' = "idle"
      \/ /\ j + 1 <= Len(buf) /\ buf[j + 1].sync
         /\ i' = j /\ pc' = "inner"

(* After consume: i += 188, then stop at the end of the buffer, return on  *)
(* a missing sync byte, step back (i -= 188) and leave on another PID, or  *)
(* go round again on the same PID.                                         *)
Advance ==
  LET j == i + 1
  IN  \/ /\ j + 1 > Len(buf)
         /\ i' = j /\ pc' = "after"
      \/ /\ j + 1 <= Len(buf) /\ ~buf[j + 1].sync
         /\ i' = j /\ pc' = "idle"
      \/ /\ j + 1 <= Len(buf) /\ buf[j + 1].sync /\ buf[j + 1].pid # thisPid
         /\ i' = j - 1 /\ pc' = "after"
      \/ /\ j + 1 <= Len(buf) /\ buf[j + 1].sync /\ buf[j + 1].pid = thisPid
         /\ i' = j /\ pc' = "inner"

(* One iteration of the batching loop: the handler of this_pid consumes   *)
(* the packet at i; its edits go to the changeset, not to the table.      *)
Dispatch ==
  /\ pc = "inner"
  /\ changeset = <<>>
  /\ LET pk == buf[i + 1]
         h  == filters[thisPid]
         r  == Consume(h, pk)
     IN  /\ filters' = [filters EXCEPT ![thisPid] = r.h]
         /\ changeset' = changeset \o r.edits
         /\ consumed' = Append(consumed, [pos |-> i + 1, slot |-> thisPid])
         /\ patAnnounced' = IF Accepts(h, pk, "Pat", PatTableId)
                              THEN Range(pk.sect.pids) ELSE patAnnounced
         /\ pmtAnnounced' = IF Accepts(h, pk, "Pmt", PmtTableId)
                              THEN [pmtAnnounced EXCEPT ![thisPid] = Range(pk.sect.pids)]
                              ELSE pmtAnnounced
         /\ pmtVersion' = IF Accepts(h, pk, "Pmt", PmtTableId)
                            THEN [pmtVersion EXCEPT ![thisPid] = pk.sect.ver]
                            ELSE pmtVersion
  /\ Advance
  /\ UNCHANGED <<buf, thisPid>>

(* Mutant: the trailing i += 188 of the outer loop is missing.            *)
AfterInnerNoAdvance ==
  /\ pc = "after"
  /\ filters' = ApplyChangeset(filters, changeset)
  /\ changeset' = <<>>
  /\ i' = i
  /\ pc' = "outer"
  /\ UNCHANGED <<buf, thisPid, consumed, patAnnounced, pmtAnnounced, pmtVersion>>

(* After the inner loop: drain the changeset into the table, i += 188.     *)
AfterInner ==
  /\ pc = "after"
  /\ filters' = ApplyChangeset(filters, changeset)
  /\ changeset' = <<>>
  /\ i' = i + 1
  /\ pc' = "outer"
  /\ UNCHANGED <<buf, thisPid, consumed, patAnnounced, pmtAnnounced, pmtVersion>>

Next ==
  \/ \E b \in Buffers : Push(b)
  \/ LoopEnd
  \/ LoopDesync
  \/ LoopLookup
  \/ InnerExit
  \/ Dispatch
  \/ AfterInner

Spec == Init /\ [][Next]_vars

(* One step of push's loop, whatever the caller does.                      *)
PushStep == LoopEnd \/ LoopDesync \/ LoopLookup \/ InnerExit \/ Dispatch \/ AfterInner

(* push is a synchronous loop with no suspension point (spec 5): once      *)
(* called, it keeps taking steps.  The caller is not bound to call push.   *)
FairSpec == Spec /\ WF_vars(PushStep)

-----------------------------------------------------------------------------
(* Properties.                                                             *)

TypeOK ==
  /\ filters \in [Pids -> Handler \cup {None}]
  /\ changeset \in Seq(Edit)
  /\ buf \in Seq(Packets)
  /\ i \in Nat
  /\ thisPid \in Pids
  /\ pc \in {"idle", "outer", "inner", "after"}
  /\ consumed \in Seq([pos : Nat, slot : Pids])
  /\ patAnnounced \in SUBSET Pids
  /\ pmtAnnounced \in [Pids -> SUBSET Pids]
  /\ pmtVersion \in [Pids -> Versions \cup {NoVersion}]

(* The table as it is once the pending edits are applied.                  *)
Effective == ApplyChangeset(filters, changeset)
RoutedAs(kind) == {p \in Pids : Effective[p] # None /\ Effective[p].kind = kind}

(* Same-PID batching never hands a packet to the handler of another PID:   *)
(* push's bookkeeping of i (+= 188 in the inner loop, -= 188 when the PID  *)
(* changes, += 188 after the drain) keeps the packet at i on this_pid.     *)
DispatchToOwnPid ==
  \A k \in DOMAIN consumed : buf[consumed[k].pos].pid = consumed[k].slot

(* Within one push, handlers receive packets in buffer order and no packet *)
(* twice: the positions consumed strictly increase.                        *)
DispatchInOrder ==
  \A j, k \in DOMAIN consumed : j < k => consumed[j].pos < consumed[k].pos

(* The routing table follows the PAT: once the pending edits are applied,  *)
(* the PIDs with a PMT filter are exactly those the last PAT accepted       *)
(* lists.  It rests on PatProcessor's filters_registered diff, on the      *)
(* changeset being drained in order, and on autodiscovery never replacing  *)
(* an installed filter.                                                    *)
PmtRoutingFollowsPat == RoutedAs("Pmt") = patAnnounced

(* Every elementary PID that the last accepted PMT of a routed program     *)
(* lists has an elementary-stream filter (PmtProcessor inserts, and only   *)
(* removes what it registered itself).                                     *)
EsAnnouncedRouted ==
  UNION {pmtAnnounced[p] : p \in RoutedAs("Pmt")} \subseteq RoutedAs("Es")

(* The kind of filter a table entry routes to, None for an empty slot.    *)
KindOf(x) == IF x = None THEN None ELSE x.kind

(* This step is a PAT or PMT processor accepting a new table in push.      *)
TableAccepted ==
  /\ pc = "inner"
  /\ \/ Accepts(filters[thisPid], buf[i + 1], "Pat", PatTableId)
     \/ Accepts(filters[thisPid], buf[i + 1], "Pmt", PmtTableId)

(* Routing changes only through tables: the kind of a PID's effective     *)
(* filter (the table with the pending changeset applied) changes only in  *)
(* a step where the PAT or PMT processor accepts a table, or when the PID *)
(* had no filter at all and push's lookup installs one.  A handler        *)
(* updating its own state, the drain after the batching loop and the      *)
(* `contains` test of a PID that already has a filter never re-route it.  *)
RoutingChangesOnlyByTables ==
  [][\A p \in Pids :
       KindOf(Effective'[p]) # KindOf(Effective[p]) =>
         Effective[p] = None \/ TableAccepted]_vars

(* Spec 8: the packets handlers receive are exactly the packets of the     *)
(* buffer up to the first lost sync byte; when push returns, each was      *)
(* consumed.                                                               *)
FirstDesync ==
  IF \E k \in DOMAIN buf : ~buf[k].sync
    THEN CHOOSE k \in DOMAIN buf : ~buf[k].sync /\ \A j \in 1..(k - 1) : buf[j].sync
    ELSE Len(buf) + 1

EveryPacketDispatched ==
  pc = "idle" => {consumed[k].pos : k \in DOMAIN consumed} = 1..(FirstDesync - 1)

(* Spec 4.6 (post: changeset empty) and the debug_assert after the drain:  *)
(* when push returns, no edit is left pending.                             *)
ChangesetDrainedOnReturn == pc = "idle" => changeset = <<>>

(* Spec 3 (lifecycles): an elementary-stream filter is destroyed when its  *)
(* PID disappears from the announcing table or a new PAT supersedes it:    *)
(* every elementary-stream filter is listed by the last accepted PMT of a  *)
(* routed program.                                                         *)
EsRoutedAnnounced ==
  RoutedAs("Es") \subseteq UNION {pmtAnnounced[p] : p \in RoutedAs("Pmt")}

(* Spec 5: push returns, whatever the buffer holds; the cursor bookkeeping *)
(* of the batching loop (i -= 188 on a change of PID, i += 188 after the   *)
(* drain) never makes the loop revisit a packet forever.                   *)
PushReturns == pc # "idle" ~> pc = "idle"

(* Spec 9: re-registration of elementary streams happens only on a real    *)
(* PMT version change, because the dedup layer keeps new_table from being  *)
(* re-entered with an unchanged version.  A step that enqueues edits for a *)
(* PMT section carries a version other than the one last accepted on that *)
(* PID.                                                                    *)
StreamsReinsertedOnNewVersion ==
  [][ (/\ pc = "inner"
       /\ changeset' # changeset
       /\ filters[thisPid] # None
       /\ filters[thisPid].kind = "Pmt")
      => buf[i + 1].sect.ver # pmtVersion[thisPid] ]_vars

=============================================================================
