-------------------------- MODULE Demux_es_proofs --------------------------
(***************************************************************************)
(* EsAnnouncedRouted for every value of the constants whose tables are     *)
(* well formed and whose programs list disjoint elementary PIDs: what the  *)
(* last accepted PMT of a program lists keeps its elementary-stream        *)
(* filters, because PmtProcessor::new_table inserts them and only the PMT  *)
(* filter of that program ever removes them.                               *)
(***************************************************************************)
EXTENDS Demux_routing_proofs

(* The PMT sections that arrive on PID q, and the elementary PIDs they     *)
(* list.                                                                   *)
PmtSections(q) ==
  {pk.sect : pk \in {x \in Packets : /\ x.pid = q /\ x.sect # NoSection
                                     /\ x.sect.tid = PmtTableId}}
EsListed(q) == UNION {Range(s.pids) : s \in PmtSections(q)}

(* No elementary PID is listed by the PMTs of two programs.  The run       *)
(* shared_es_pid shows what PmtProcessor::new_table does otherwise.        *)
ProgramsApart ==
  \A a, b \in Pids : a # b => EsListed(a) \cap EsListed(b) = {}

IsEs(x) == x # None /\ x.kind = "Es"

(* EsAnnouncedRouted is not inductive: a program the PAT drops keeps its   *)
(* announced streams, so the claim must hold for every program, routed or *)
(* not; and a PMT filter's filters_registered must stay within what the    *)
(* PMTs of its own PID list, so that its removals miss other programs.     *)
EsInv ==
  /\ \A q \in Pids : pmtAnnounced[q] \subseteq EsListed(q)
  /\ \A q \in Pids : IsPmt(filters[q]) => filters[q].reg \subseteq EsListed(q)
  /\ \A q \in Pids : \A e \in pmtAnnounced[q] : IsEs(Effective[e])

-----------------------------------------------------------------------------
LEMMA EsListedFacts ==
  ASSUME NEW q \in Pids
  PROVE  EsListed(q) \subseteq Listed(PmtTableId) \cap Pids
<1>1. PmtSections(q) \subseteq TableSections(PmtTableId)
  BY DEF PmtSections, TableSections
<1>2. \A s \in PmtSections(q) : Range(s.pids) \subseteq Pids
  BY PacketsAssumption DEF PmtSections, Packet, Section, Range
<1>3. QED
  BY <1>1, <1>2 DEF EsListed, Listed

LEMMA InitEs == Init => EsInv
BY DEF Init, EsInv, IsPmt, Construct, Fresh

(* A step that leaves the table, the changeset and the PMT announcements   *)
(* alone keeps the invariant.                                              *)
LEMMA UnchangedEs ==
  ASSUME EsInv, UNCHANGED <<filters, changeset, pmtAnnounced>>
  PROVE  EsInv'
BY DEF EsInv, Effective, IsPmt, IsEs

(* Autodiscovery only fills a slot that holds None and that no pending     *)
(* edit names, so a slot with a stream filter keeps it.                    *)
LEMMA LookupEs ==
  ASSUME IInv, RoutingInv, EsInv, LoopLookup
  PROVE  EsInv'
<1> DEFINE p == buf[i + 1].pid
<1>1. filters \in [Pids -> Handler \cup {None}] /\ changeset \in Seq(Edit)
      /\ p \in Pids
  <2>1. buf[i + 1] \in Packet
    BY PacketsAssumption DEF IInv, TypeOK, LoopLookup
  <2>2. QED
    BY <2>1 DEF IInv, TypeOK, Packet
<1>2. UNCHANGED <<changeset, pmtAnnounced>>
  BY DEF LoopLookup
<1>3. CASE Contains(filters, p)
  BY <1>2, <1>3, UnchangedEs DEF LoopLookup
<1>4. CASE ~Contains(filters, p)
  <2>1. filters[p] = None
    BY <1>4 DEF Contains
  <2>2. filters' = [filters EXCEPT ![p] = Construct("ByPid", p)]
    BY <1>4 DEF LoopLookup, InsertFilter
  <2>3. filters' \in [Pids -> Handler \cup {None}]
    BY <1>1, <2>2, ConstructType DEF Requests
  <2>4. \A q \in Pids : IsEs(Effective[q]) => Effective'[q] = Effective[q]
    <3> SUFFICES ASSUME NEW q \in Pids, IsEs(Effective[q])
                 PROVE  Effective'[q] = Effective[q]
      OBVIOUS
    <3>1. CASE \E k \in DOMAIN changeset : IsLastEdit(changeset, q, k)
      BY <1>1, <1>2, <2>3, <3>1 DEF Effective, ApplyChangeset
    <3>2. CASE ~\E k \in DOMAIN changeset : IsLastEdit(changeset, q, k)
      <4>1. Effective'[q] = filters'[q] /\ Effective[q] = filters[q]
        BY <1>1, <1>2, <2>3, <3>2 DEF Effective, ApplyChangeset
      <4>2. q # p
        BY <2>1, <4>1 DEF IsEs
      <4>3. QED
        BY <1>1, <2>2, <4>1, <4>2
    <3>3. QED
      BY <3>1, <3>2
  <2>5. \A q \in Pids : IsPmt(filters'[q]) => filters'[q] = filters[q]
    <3>1. ~IsPmt(Construct("ByPid", p))
      BY DEF IsPmt, Construct, Fresh
    <3>2. QED
      BY <1>1, <2>2, <3>1
  <2>6. \A q \in Pids : pmtAnnounced[q] \subseteq Pids
    BY DEF IInv, TypeOK
  <2>7. \A q \in Pids : IsPmt(filters'[q]) => filters'[q].reg \subseteq EsListed(q)
    BY <2>5 DEF EsInv
  <2>8. \A q \in Pids : \A e \in pmtAnnounced'[q] : IsEs(Effective'[e])
    BY <1>2, <2>4, <2>6 DEF EsInv
  <2>9. QED
    BY <1>2, <2>7, <2>8 DEF EsInv
<1>5. QED
  BY <1>3, <1>4

(* The drain: the table becomes the effective table, and a PMT filter an   *)
(* edit installs is fresh, with nothing registered.                         *)
LEMMA AfterInnerEs ==
  ASSUME IInv, RoutingInv, EsInv, AfterInner
  PROVE  EsInv'
<1>1. filters \in [Pids -> Handler \cup {None}] /\ changeset \in Seq(Edit)
  BY DEF IInv, TypeOK
<1>2. filters' = Effective /\ changeset' = <<>> /\ pmtAnnounced' = pmtAnnounced
  BY DEF AfterInner, Effective
<1>3. filters' \in [Pids -> Handler \cup {None}]
  BY <1>1, <1>2, ApplyChangesetType DEF Effective
<1>4. Effective' = Effective
  BY <1>2, <1>3, ApplyEmpty DEF Effective
<1>5. ASSUME NEW q \in Pids
      PROVE  \/ filters'[q] = filters[q]
             \/ \E k \in DOMAIN changeset : filters'[q] = changeset[k].h
  BY <1>1, <1>2 DEF Effective, ApplyChangeset, IsLastEdit
<1>6. \A q \in Pids : IsPmt(filters'[q]) => filters'[q].reg \subseteq EsListed(q)
  <2> SUFFICES ASSUME NEW q \in Pids, IsPmt(filters'[q])
               PROVE  filters'[q].reg \subseteq EsListed(q)
    OBVIOUS
  <2>1. CASE filters'[q] = filters[q]
    BY <2>1 DEF EsInv
  <2>2. CASE \E k \in DOMAIN changeset : filters'[q] = changeset[k].h
    <3>1. PICK k \in DOMAIN changeset : filters'[q] = changeset[k].h
      BY <2>2
    <3>2. changeset[k].h \in Handler \cup {None}
      BY <1>1 DEF Edit
    <3>3. changeset[k].h \in Handler
      BY <3>1, <3>2 DEF IsPmt
    <3>4. changeset[k].h.reg = {}
      BY <3>3 DEF RoutingInv, EditOK
    <3>5. QED
      BY <3>1, <3>4
  <2>3. QED
    BY <1>5, <2>1, <2>2
<1>7. QED
  BY <1>2, <1>4, <1>6 DEF EsInv

(* A handler that keeps its variant and filters_registered and enqueues   *)
(* nothing keeps the invariant.                                             *)
LEMMA QuietEs ==
  ASSUME IInv, EsInv,
         NEW q \in Pids, NEW x \in Handler,
         filters[q] \in Handler, x.kind = filters[q].kind, x.reg = filters[q].reg,
         changeset = <<>>,
         filters' = [filters EXCEPT ![q] = x], changeset' = <<>>,
         pmtAnnounced' = pmtAnnounced
  PROVE  EsInv'
<1>1. filters \in [Pids -> Handler \cup {None}]
  BY DEF IInv, TypeOK
<1>2. filters' \in [Pids -> Handler \cup {None}]
  BY <1>1
<1>3. Effective = filters /\ Effective' = filters'
  BY <1>1, <1>2, ApplyEmpty DEF Effective
<1>4. \A p \in Pids : /\ IsPmt(filters'[p]) <=> IsPmt(filters[p])
                      /\ IsEs(filters'[p]) <=> IsEs(filters[p])
                      /\ IsPmt(filters'[p]) => filters'[p].reg = filters[p].reg
  BY <1>1, NoneAssumption DEF IsPmt, IsEs
<1>5. \A p \in Pids : pmtAnnounced[p] \subseteq Pids
  BY DEF IInv, TypeOK
<1>6. QED
  BY <1>3, <1>4, <1>5 DEF EsInv

(* The PAT filter accepts a table: its edits name only PAT-listed PIDs,    *)
(* never an elementary PID that a PMT lists.                               *)
LEMMA PatAcceptEs ==
  ASSUME WellFormedTables, IInv, RoutingInv, EsInv,
         NEW h \in Handler, h = filters[0], NEW s \in Section, s.tid = PatTableId,
         NEW pk \in Packets, pk.sect = s, s # NoSection,
         changeset = <<>>,
         filters' = [filters EXCEPT ![0] = NewTable([h EXCEPT !.last = s.ver], s, PatTableId, "Pmt").h],
         changeset' = NewTable([h EXCEPT !.last = s.ver], s, PatTableId, "Pmt").edits,
         pmtAnnounced' = pmtAnnounced
  PROVE  EsInv'
<1> DEFINE h1   == [h EXCEPT !.last = s.ver]
           r    == NewTable(h1, s, PatTableId, "Pmt")
           seen == Range(s.pids)
<1>1. filters \in [Pids -> Handler \cup {None}] /\ 0 \in Pids
  BY PidsAssumption DEF IInv, TypeOK
<1>2. h1 \in Handler /\ h1.kind = "Pat" /\ h1.reg = patAnnounced
  BY DEF Handler, Section, RoutingInv
<1>3. /\ r.h.kind = "Pat"
      /\ r.edits \in Seq(Edit)
      /\ EditsFor(r.edits, seen, h1.reg, "Pmt")
  <2>1. "Pmt" \in Requests
    BY DEF Requests
  <2>2. r.h.kind = "Pat"
    BY <1>2 DEF NewTable, Handler
  <2>3. r.edits \in Seq(Edit)
    BY <1>2, <2>1, NewTableEdits
  <2>4. EditsFor(r.edits, seen, h1.reg, "Pmt")
    BY <1>2, <2>1, NewTableEdits, Zenon
  <2>5. QED
    BY <2>2, <2>3, <2>4
<1>4. \A k \in DOMAIN r.edits : r.edits[k].pid \in Listed(PatTableId)
  <2>1. seen \subseteq Listed(PatTableId)
    BY DEF Listed, TableSections, Range
  <2>2. QED
    BY <1>2, <1>3, <2>1 DEF EditsFor, RoutingInv
<1>5. r.h \in Handler
  BY <1>2, NewTableType DEF Requests
<1>6. filters' \in [Pids -> Handler \cup {None}]
      /\ \A p \in Pids \ {0} : filters'[p] = filters[p]
  BY <1>1, <1>5
<1>7. Effective = filters /\ Effective' = ApplyChangeset(filters', r.edits)
  BY <1>1, ApplyEmpty DEF Effective
<1>8. \A q \in Pids : \A e \in pmtAnnounced[q] : IsEs(Effective'[e])
  <2> SUFFICES ASSUME NEW q \in Pids, NEW e \in pmtAnnounced[q]
               PROVE  IsEs(Effective'[e])
    OBVIOUS
  <2>1. e \in Listed(PmtTableId) /\ e \in Pids
    BY EsListedFacts DEF EsInv
  <2>2. e # 0 /\ e \notin Listed(PatTableId)
    BY <2>1 DEF WellFormedTables
  <2>3. \A k \in DOMAIN r.edits : r.edits[k].pid # e
    BY <1>4, <2>2
  <2>4. Effective'[e] = filters'[e]
    BY <1>6, <1>7, <2>1, <2>3 DEF ApplyChangeset, IsLastEdit
  <2>5. QED
    BY <1>6, <1>7, <2>1, <2>2, <2>4 DEF EsInv
<1>9. \A q \in Pids : IsPmt(filters'[q]) => filters'[q].reg \subseteq EsListed(q)
  <2>1. ~IsPmt(filters'[0])
    BY <1>1, <1>3 DEF IsPmt
  <2>2. QED
    BY <1>6, <2>1 DEF EsInv
<1>10. QED
  BY <1>8, <1>9 DEF EsInv

(* A PMT filter on q accepts a table: every PID it lists gets a fresh      *)
(* stream filter, and the PIDs it names (listed now or registered before)  *)
(* are all listed by the PMTs of q, so no other program's streams move.    *)
LEMMA PmtAcceptEs ==
  ASSUME WellFormedTables, ProgramsApart, IInv, RoutingInv, EsInv,
         NEW q \in Pids, NEW h \in Handler, h = filters[q], h.kind = "Pmt",
         NEW s \in PmtSections(q), s \in Section,
         changeset = <<>>,
         filters' = [filters EXCEPT ![q] = NewTable([h EXCEPT !.last = s.ver], s, PmtTableId, "ByStream").h],
         changeset' = NewTable([h EXCEPT !.last = s.ver], s, PmtTableId, "ByStream").edits,
         pmtAnnounced' = [pmtAnnounced EXCEPT ![q] = Range(s.pids)]
  PROVE  EsInv'
<1> DEFINE h1   == [h EXCEPT !.last = s.ver]
           r    == NewTable(h1, s, PmtTableId, "ByStream")
           seen == Range(s.pids)
<1>1. filters \in [Pids -> Handler \cup {None}] /\ pmtAnnounced \in [Pids -> SUBSET Pids]
  BY DEF IInv, TypeOK
<1>2. s.tid = PmtTableId /\ seen \subseteq EsListed(q)
  BY DEF PmtSections, EsListed
<1>3. h1 \in Handler /\ h1.kind = "Pmt" /\ h1.reg = h.reg
  BY DEF Handler, Section
<1>4. h.reg \subseteq EsListed(q)
  BY NoneAssumption DEF EsInv, IsPmt
<1>5. /\ r.h.kind = "Pmt"
      /\ r.h.reg = seen
      /\ r.edits \in Seq(Edit)
      /\ EditsFor(r.edits, seen, h1.reg, "ByStream")
  <2>1. "ByStream" \in Requests
    BY DEF Requests
  <2>2. r.h.kind = "Pmt"
    BY <1>3 DEF NewTable, Handler
  <2>3. r.h.reg = seen /\ r.edits \in Seq(Edit)
    BY <1>2, <1>3, <2>1, NewTableEdits
  <2>4. EditsFor(r.edits, seen, h1.reg, "ByStream")
    BY <1>2, <1>3, <2>1, NewTableEdits, Zenon
  <2>5. QED
    BY <2>2, <2>3, <2>4
<1>6. r.h \in Handler
  BY <1>3, NewTableType DEF Requests
<1>7. filters' \in [Pids -> Handler \cup {None}] /\ filters'[q] = r.h
      /\ \A p \in Pids \ {q} : filters'[p] = filters[p]
  BY <1>1, <1>6
<1>8. Effective = filters /\ Effective' = ApplyChangeset(filters', r.edits)
  BY <1>1, ApplyEmpty DEF Effective
<1>9. \A k \in DOMAIN r.edits : r.edits[k].pid \in EsListed(q)
  BY <1>2, <1>3, <1>4, <1>5 DEF EditsFor
<1>10. q \notin Listed(PmtTableId)
  <2>1. IsPmt(filters[q])
    BY NoneAssumption DEF IsPmt
  <2>2. q \in patAnnounced
    BY <1>8, <2>1 DEF RoutingInv
  <2>3. QED
    BY <2>2 DEF RoutingInv, WellFormedTables
<1>11. \A e \in seen : IsEs(Effective'[e])
  <2> SUFFICES ASSUME NEW e \in seen PROVE IsEs(Effective'[e])
    OBVIOUS
  <2>1. e \in Pids
    BY <1>2, EsListedFacts
  <2>2. \E k \in DOMAIN r.edits : r.edits[k].pid = e
    BY <1>5 DEF EditsFor
  <2>3. PICK k \in DOMAIN r.edits : IsLastEdit(r.edits, e, k)
    BY <1>5, <2>2, LastEditExists
  <2>4. Effective'[e] = r.edits[k].h
    <3>1. \A j \in DOMAIN r.edits : IsLastEdit(r.edits, e, j) => j = k
      <4>1. DOMAIN r.edits \subseteq Nat
        BY <1>5
      <4>2. QED
        BY <2>3, <4>1 DEF IsLastEdit
    <3>2. QED
      BY <1>7, <1>8, <2>1, <2>3, <3>1 DEF ApplyChangeset
  <2>5. r.edits[k].h = Fresh("Es", e)
    BY <1>5, <2>3 DEF EditsFor, IsLastEdit, Construct
  <2>6. Fresh("Es", e) \in Handler
    BY <2>1 DEF Fresh, Handler, Kinds
  <2>7. QED
    BY <2>4, <2>5, <2>6, NoneAssumption DEF IsEs, Fresh
<1>12. ASSUME NEW p \in Pids \ {q}, NEW e \in pmtAnnounced[p]
       PROVE  IsEs(Effective'[e])
  <2>1. e \in EsListed(p) /\ e \in Pids
    BY <1>1, EsListedFacts DEF EsInv
  <2>2. e \notin EsListed(q)
    BY <2>1 DEF ProgramsApart
  <2>3. e # q
    BY <2>1, <1>10, EsListedFacts
  <2>4. \A k \in DOMAIN r.edits : r.edits[k].pid # e
    BY <1>9, <2>2
  <2>5. Effective'[e] = filters'[e]
    BY <1>7, <1>8, <2>1, <2>4 DEF ApplyChangeset, IsLastEdit
  <2>6. QED
    BY <1>7, <1>8, <2>1, <2>3, <2>5 DEF EsInv
<1>13. \A p \in Pids : pmtAnnounced'[p] \subseteq EsListed(p)
  BY <1>1, <1>2 DEF EsInv
<1>14. \A p \in Pids : IsPmt(filters'[p]) => filters'[p].reg \subseteq EsListed(p)
  BY <1>2, <1>5, <1>7 DEF EsInv
<1>15. \A p \in Pids : \A e \in pmtAnnounced'[p] : IsEs(Effective'[e])
  BY <1>1, <1>11, <1>12
<1>16. QED
  BY <1>13, <1>14, <1>15 DEF EsInv

(* One iteration of the batching loop keeps the invariant.  The packet a   *)
(* PMT filter consumes carries that filter's PID (DispatchInv), so the      *)
(* section it accepts is one of the PMT sections of that PID.               *)
LEMMA DispatchEs ==
  ASSUME WellFormedTables, ProgramsApart, IInv, DispatchInv, RoutingInv, EsInv,
         Dispatch
  PROVE  EsInv'
<1> DEFINE pk == buf[i + 1]
           h  == filters[thisPid]
           r  == Consume(h, pk)
           h1 == [h EXCEPT !.last = pk.sect.ver]
<1>1. /\ h \in Handler /\ pk \in Packets /\ pk \in Packet /\ thisPid \in Pids
      /\ pk.pid = thisPid
      /\ changeset = <<>>
      /\ filters' = [filters EXCEPT ![thisPid] = r.h]
      /\ changeset' = r.edits
      /\ pmtAnnounced' = IF Accepts(h, pk, "Pmt", PmtTableId)
                           THEN [pmtAnnounced EXCEPT ![thisPid] = Range(pk.sect.pids)]
                           ELSE pmtAnnounced
  <2>1. h \in Handler /\ pk \in Packets /\ thisPid \in Pids /\ changeset = <<>>
    BY DEF IInv, TypeOK, InnerOK, Dispatch
  <2>2. pk \in Packet
    BY <2>1, PacketsAssumption
  <2>3. r.edits \in Seq(Edit)
    BY <2>1, <2>2, ConsumeType
  <2>4. changeset' = r.edits
    BY <2>1, <2>3 DEF Dispatch
  <2>5. pk.pid = thisPid
    BY DEF DispatchInv, Dispatch
  <2>6. QED
    BY <2>1, <2>2, <2>4, <2>5 DEF Dispatch
<1>2. CASE ~Delivers(h, pk)
  <2>1. r = [h |-> h, edits |-> <<>>]
    BY <1>2 DEF Consume
  <2>2. ~Accepts(h, pk, "Pmt", PmtTableId)
    BY <1>2 DEF Accepts
  <2>3. /\ filters' = [filters EXCEPT ![thisPid] = h]
        /\ changeset' = <<>> /\ pmtAnnounced' = pmtAnnounced
    BY <1>1, <2>1, <2>2
  <2>4. QED
    BY <1>1, <2>3, QuietEs
<1>3. CASE Delivers(h, pk)
  <2>0. pk.sect \in Section /\ pk.sect # NoSection /\ h1 \in Handler
    <3>1. pk.sect \in Section /\ pk.sect # NoSection
      BY <1>1, <1>3 DEF Delivers, Packet
    <3>2. QED
      BY <1>1, <3>1 DEF Handler, Section
  <2>1. CASE \/ h.kind = "Pat" /\ pk.sect.tid # PatTableId
             \/ h.kind = "Pmt" /\ pk.sect.tid # PmtTableId
    <3>1. r = [h |-> h1, edits |-> <<>>]
      BY <1>3, <2>1 DEF Consume, PatNewTable, PmtNewTable, NewTable
    <3>2. ~Accepts(h, pk, "Pmt", PmtTableId)
      BY <2>1 DEF Accepts
    <3>3. h1.kind = h.kind /\ h1.reg = h.reg
      BY <1>1 DEF Handler
    <3>4. /\ filters' = [filters EXCEPT ![thisPid] = h1]
          /\ changeset' = <<>> /\ pmtAnnounced' = pmtAnnounced
      BY <1>1, <3>1, <3>2
    <3>5. QED
      BY <1>1, <2>0, <3>3, <3>4, QuietEs
  <2>2. CASE h.kind = "Pat" /\ pk.sect.tid = PatTableId
    <3>1. thisPid = 0
      BY <1>1, <2>2 DEF RoutingInv, SlotOK
    <3>2. r = NewTable(h1, pk.sect, PatTableId, "Pmt")
      BY <1>3, <2>2 DEF Consume, PatNewTable
    <3>3. ~Accepts(h, pk, "Pmt", PmtTableId)
      BY <2>2 DEF Accepts
    <3>4. pmtAnnounced' = pmtAnnounced
      BY <1>1, <3>3
    <3>5. QED
      BY <1>1, <2>0, <2>2, <3>1, <3>2, <3>4, PatAcceptEs
  <2>3. CASE h.kind = "Pmt" /\ pk.sect.tid = PmtTableId
    <3>1. r = NewTable(h1, pk.sect, PmtTableId, "ByStream")
      BY <1>3, <2>3 DEF Consume, PmtNewTable
    <3>2. Accepts(h, pk, "Pmt", PmtTableId)
      BY <1>3, <2>3 DEF Accepts
    <3>3. pmtAnnounced' = [pmtAnnounced EXCEPT ![thisPid] = Range(pk.sect.pids)]
      BY <1>1, <3>2
    <3>4. pk.sect \in PmtSections(thisPid)
      BY <1>1, <2>0, <2>3 DEF PmtSections
    <3>5. QED
      BY <1>1, <2>0, <2>3, <3>1, <3>3, <3>4, PmtAcceptEs
  <2>4. QED
    BY <1>3, <2>1, <2>2, <2>3 DEF Delivers
<1>4. QED
  BY <1>2, <1>3

LEMMA NextEs ==
  ASSUME WellFormedTables, ProgramsApart, IInv, DispatchInv, RoutingInv, EsInv,
         [Next]_vars
  PROVE  EsInv'
<1>1. CASE \E b \in Buffers : Push(b)
  BY <1>1, UnchangedEs DEF Push
<1>2. CASE LoopEnd
  BY <1>2, UnchangedEs DEF LoopEnd
<1>3. CASE LoopDesync
  BY <1>3, UnchangedEs DEF LoopDesync
<1>4. CASE LoopLookup
  BY <1>4, LookupEs
<1>5. CASE InnerExit
  BY <1>5, UnchangedEs DEF InnerExit
<1>6. CASE Dispatch
  BY <1>6, DispatchEs
<1>7. CASE AfterInner
  BY <1>7, AfterInnerEs
<1>8. CASE UNCHANGED vars
  BY <1>8, UnchangedEs DEF vars
<1>9. QED
  BY <1>1, <1>2, <1>3, <1>4, <1>5, <1>6, <1>7, <1>8 DEF Next

-----------------------------------------------------------------------------
(* Every elementary PID that the last accepted PMT of a routed program     *)
(* lists has an elementary-stream filter once the pending edits are        *)
(* applied, in every reachable state, whenever the tables are well formed  *)
(* and no two programs list the same elementary PID: PmtProcessor's        *)
(* new_table inserts a ByStream filter for each listed PID and removes     *)
(* only PIDs its own program registered.                                   *)
THEOREM EsFollowsPmt ==
  WellFormedTables /\ ProgramsApart => (Spec => []EsAnnouncedRouted)
<1> SUFFICES ASSUME WellFormedTables, ProgramsApart
             PROVE  Spec => []EsAnnouncedRouted
  OBVIOUS
<1> DEFINE Inv == IInv /\ DispatchInv /\ RoutingInv /\ EsInv
<1>1. Init => Inv
  BY InitIInv, InitDispatchInv, InitRouting, InitEs
<1>2. Inv /\ [Next]_vars => Inv'
  BY NextIInv, NextDispatchInv, NextRouting, NextEs
<1>3. Inv => EsAnnouncedRouted
  BY DEF IInv, TypeOK, EsInv, IsEs, EsAnnouncedRouted, RoutedAs
<1>4. QED
  BY <1>1, <1>2, <1>3, PTL DEF Spec
=============================================================================
