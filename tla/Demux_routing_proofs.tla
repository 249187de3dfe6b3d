------------------------ MODULE Demux_routing_proofs ------------------------
(***************************************************************************)
(* PmtRoutingFollowsPat for every value of the constants whose tables are  *)
(* well formed: the PAT and PMT filters' removal scans, the in-order drain *)
(* of the changeset and autodiscovery together keep the PIDs routed to a   *)
(* PMT filter equal to the PIDs the last accepted PAT lists.               *)
(***************************************************************************)
EXTENDS Demux_proofs, SequenceTheorems

(* The PIDs that some PAT (table_id 0), or some PMT (table_id 2), among    *)
(* the packets lists.                                                      *)
TableSections(tid) ==
  {s \in {pk.sect : pk \in Packets} : s # NoSection /\ s.tid = tid}
Listed(tid) == UNION {Range(s.pids) : s \in TableSections(tid)}

(* The tables of the stream never list PID 0, PAT-listed and PMT-listed    *)
(* PIDs are apart, and PID 0x1FFF (which the scans 0..0x1fff miss) is not  *)
(* used.  The runs top_pid_never_removed and the self-listing gap of       *)
(* PmtProcessor::new_table (line 289) show what happens otherwise.         *)
WellFormedTables ==
  /\ MaxPid \notin Pids
  /\ 0 \notin Listed(PatTableId) \cup Listed(PmtTableId)
  /\ Listed(PatTableId) \cap Listed(PmtTableId) = {}

-----------------------------------------------------------------------------
(* Lemmas on ApplyChangeset, the closed form of FilterChangeset::apply.    *)

(* A non-empty finite set of naturals has a largest element: the one whose *)
(* rank is one less than the size.                                         *)
LEMMA NatMax ==
  ASSUME NEW S \in SUBSET Nat, IsFiniteSet(S), S # {}
  PROVE  \E x \in S : \A y \in S : y <= x
<1> DEFINE n == Cardinality(S)
<1>1. n \in Nat /\ n # 0
  BY FS_CardinalityType, FS_EmptySet
<1>2. PICK x \in S : Rank(S, x) = n - 1
  BY <1>1, RankOnto
<1>3. \A y \in S : ~(x < y)
  <2> SUFFICES ASSUME NEW y \in S, x < y PROVE FALSE
    OBVIOUS
  <2>1. Rank(S, x) < Rank(S, y)
    BY RankMonotone
  <2>2. Rank(S, y) \in 0..(n - 1)
    BY RankBounds
  <2>3. QED
    BY <1>1, <1>2, <2>1, <2>2
<1>4. \A y \in S : ~(x < y) => y <= x
  BY SMT
<1>5. QED
  BY <1>3, <1>4

(* A log that names p has a last edit naming p.                          *)
LEMMA LastEditExists ==
  ASSUME NEW cs \in Seq(Edit), NEW p,
         \E k \in DOMAIN cs : cs[k].pid = p
  PROVE  \E k \in DOMAIN cs : IsLastEdit(cs, p, k)
<1> DEFINE K == {k \in DOMAIN cs : cs[k].pid = p}
<1>1. K \subseteq Nat /\ IsFiniteSet(K) /\ K # {}
  <2>1. IsFiniteSet(1..Len(cs))
    BY FS_Interval
  <2>2. K \subseteq 1..Len(cs)
    OBVIOUS
  <2>3. QED
    BY <2>1, <2>2, FS_Subset
<1>2. PICK m \in K : \A y \in K : y <= m
  BY <1>1, NatMax
<1>3. QED
  BY <1>2 DEF IsLastEdit

(* Draining an empty log changes nothing.                                  *)
LEMMA ApplyEmpty ==
  ASSUME NEW t \in [Pids -> Handler \cup {None}]
  PROVE  ApplyChangeset(t, <<>>) = t
BY DEF ApplyChangeset, IsLastEdit

-----------------------------------------------------------------------------
(* Lemmas on new_table.                                                    *)

(* With 0x1FFF unused, the scan 0..0x1fff sees every PID.                  *)
LEMMA ScanCovers ==
  ASSUME WellFormedTables
  PROVE  Pids \subseteq ScanRange
BY PidsAssumption DEF WellFormedTables, ScanRange, MaxPid

(* The edits of new_table on an accepted section: an Insert of the         *)
(* constructed filter for each listed PID, a Remove for each PID           *)
(* registered before and not listed now, nothing else; filters_registered  *)
(* becomes the listed PIDs.                                                *)
(* What a log of edits does: it names only PIDs of seen or reg; each PID   *)
(* of seen is named, always with the constructed filter; each PID of reg   *)
(* not in seen is named, always with None.                                 *)
EditsFor(E, seen, reg, req) ==
  /\ \A k \in DOMAIN E : E[k].pid \in seen \cup reg
  /\ \A p \in seen :
        /\ \E k \in DOMAIN E : E[k].pid = p
        /\ \A k \in DOMAIN E : E[k].pid = p => E[k].h = Construct(req, p)
  /\ \A p \in reg \ seen :
        /\ \E k \in DOMAIN E : E[k].pid = p
        /\ \A k \in DOMAIN E : E[k].pid = p => E[k].h = None

LEMMA NewTableEdits ==
  ASSUME WellFormedTables, NEW hd \in Handler, NEW s \in Section,
         NEW tid, s.tid = tid, NEW req \in Requests
  PROVE  /\ NewTable(hd, s, tid, req).h.kind = hd.kind
         /\ NewTable(hd, s, tid, req).h.reg = Range(s.pids)
         /\ NewTable(hd, s, tid, req).edits \in Seq(Edit)
         /\ EditsFor(NewTable(hd, s, tid, req).edits, Range(s.pids), hd.reg, req)
<1> DEFINE seen == Range(s.pids)
           gone == Unregistered(hd.reg, seen)
           I    == InsertEdits(s.pids, req)
           R    == RemoveEdits(gone)
           E    == I \o R
           O    == Ascending(gone)
<1>1. seen \subseteq Pids /\ s.pids \in Seq(Pids)
  BY DEF Section, Range
<1>2. gone = hd.reg \ seen /\ gone \subseteq Pids
  BY ScanCovers DEF Unregistered, Handler
<1>3. NewTable(hd, s, tid, req) =
        [h |-> [hd EXCEPT !.reg = (@ \cup seen) \ gone, !.cur = s.ver], edits |-> E]
  BY DEF NewTable
<1>4. I \in Seq(Edit) /\ R \in Seq(Edit)
  BY <1>1, <1>2, InsertEditsType, RemoveEditsType
<1>5. /\ E \in Seq(Edit)
      /\ Len(E) = Len(I) + Len(R)
      /\ \A k \in 1..(Len(I) + Len(R)) : E[k] = IF k <= Len(I) THEN I[k] ELSE R[k - Len(I)]
  BY <1>4, ConcatProperties
<1>6. /\ O \in [1..Cardinality(gone) -> gone]
      /\ \A x \in gone : \E k \in 1..Cardinality(gone) : O[k] = x
      /\ Cardinality(gone) \in Nat
  <2>0. Pids \subseteq Nat
    BY PidsAssumption DEF MaxPid
  <2>1. gone \subseteq Nat
    BY <1>2, <2>0
  <2>2. IsFiniteSet(gone)
    BY <1>2, PidsAssumption, FS_Subset
  <2>3. QED
    BY <2>1, <2>2, AscendingProps, FS_CardinalityType
<1>7. /\ Len(I) = Len(s.pids)
      /\ \A k \in 1..Len(I) : I[k].pid = s.pids[k] /\ I[k].h = Construct(req, s.pids[k])
  BY <1>1 DEF InsertEdits
<1>8. /\ Len(R) = Cardinality(gone)
      /\ \A k \in 1..Len(R) : R[k].pid = O[k] /\ R[k].h = None
  BY <1>6 DEF RemoveEdits
<1>9. \A k \in DOMAIN E :
        \/ k \in 1..Len(I) /\ E[k] = I[k]
        \/ k - Len(I) \in 1..Len(R) /\ E[k] = R[k - Len(I)]
  BY <1>4, <1>5
<1>10. \A k \in DOMAIN E : \/ E[k].pid \in seen /\ E[k].h = Construct(req, E[k].pid)
                           \/ E[k].pid \in gone /\ E[k].h = None
  BY <1>6, <1>7, <1>8, <1>9 DEF Range
<1>11. ASSUME NEW p \in seen PROVE \E k \in DOMAIN E : E[k].pid = p
  <2>1. PICK j \in 1..Len(s.pids) : s.pids[j] = p
    BY DEF Range
  <2>2. j \in DOMAIN E /\ E[j] = I[j]
    BY <1>4, <1>5, <1>7
  <2>3. QED
    BY <2>1, <2>2, <1>7
<1>12. ASSUME NEW p \in gone PROVE \E k \in DOMAIN E : E[k].pid = p
  <2>1. PICK j \in 1..Len(R) : O[j] = p
    BY <1>6, <1>8
  <2>2. Len(I) + j \in DOMAIN E /\ E[Len(I) + j] = R[j]
    BY <1>4, <1>5
  <2>3. QED
    BY <2>1, <2>2, <1>8
<1>13. seen \cap gone = {}
  BY <1>2
<1>14. /\ NewTable(hd, s, tid, req).h.kind = hd.kind
       /\ NewTable(hd, s, tid, req).h.reg = seen
       /\ NewTable(hd, s, tid, req).edits = E
  <2> DEFINE X == [hd EXCEPT !.reg = (@ \cup seen) \ gone, !.cur = s.ver]
  <2>1. X.kind = hd.kind
    BY DEF Handler
  <2>2. X.reg = seen
    BY <1>2 DEF Handler
  <2>3. NewTable(hd, s, tid, req).h = X /\ NewTable(hd, s, tid, req).edits = E
    BY <1>3
  <2>4. QED
    BY <2>1, <2>2, <2>3
<1>15. \A k \in DOMAIN E : E[k].pid \in seen \cup hd.reg
  BY <1>2, <1>10
<1>16. \A p \in seen : \A k \in DOMAIN E : E[k].pid = p => E[k].h = Construct(req, p)
  BY <1>10, <1>13
<1>17. \A p \in hd.reg \ seen : \A k \in DOMAIN E : E[k].pid = p => E[k].h = None
  BY <1>2, <1>10
<1>18. \A p \in hd.reg \ seen : \E k \in DOMAIN E : E[k].pid = p
  BY <1>2, <1>12
<1>19. QED
  BY <1>5, <1>11, <1>14, <1>15, <1>16, <1>17, <1>18 DEF EditsFor

-----------------------------------------------------------------------------
(* The inductive invariant.                                                *)

IsPmt(x) == x # None /\ x.kind = "Pmt"

(* A pending edit never touches PID 0, and an Insert carries a fresh PMT   *)
(* or stream filter (filters_registered empty).                            *)
EditOK(e) ==
  /\ e.pid # 0
  /\ e.h \in Handler => e.h.kind \in {"Pmt", "Es"} /\ e.h.reg = {}

(* A PAT filter sits only at PID 0, and a PMT filter has registered only   *)
(* PIDs that some PMT lists.                                               *)
SlotOK(p, x) ==
  /\ x.kind = "Pat" => p = 0
  /\ x.kind = "Pmt" => x.reg \subseteq Listed(PmtTableId)

(* PmtRoutingFollowsPat is not inductive: the PAT filter's                 *)
(* filters_registered must be the announced PIDs (or its removals would    *)
(* miss some), no edit may replace the PAT filter, and a PMT's own         *)
(* registrations must stay clear of the PAT-listed PIDs.                   *)
RoutingInv ==
  /\ filters[0] \in Handler
  /\ filters[0].kind = "Pat"
  /\ filters[0].reg = patAnnounced
  /\ \A k \in DOMAIN changeset : EditOK(changeset[k])
  /\ patAnnounced \subseteq Listed(PatTableId)
  /\ \A p \in Pids : filters[p] \in Handler => SlotOK(p, filters[p])
  /\ \A p \in Pids : IsPmt(Effective[p]) <=> p \in patAnnounced

LEMMA InitRouting == Init => RoutingInv
<1> SUFFICES ASSUME Init PROVE RoutingInv
  OBVIOUS
<1>1. filters \in [Pids -> Handler \cup {None}] /\ changeset = <<>>
  BY InitIInv DEF IInv, TypeOK, Init
<1>2. Effective = filters
  BY <1>1, ApplyEmpty DEF Effective
<1>3. filters[0] = Fresh("Pat", 0) /\ \A p \in Pids \ {0} : filters[p] = None
  BY PidsAssumption DEF Init, Construct
<1>4. filters[0] \in Handler
  BY <1>1, <1>3, PidsAssumption
<1>5. QED
  BY <1>1, <1>2, <1>3, <1>4, NoneAssumption
     DEF RoutingInv, Init, Fresh, IsPmt, SlotOK

(* A step whose handler keeps its variant and its filters_registered, and  *)
(* enqueues nothing, keeps the invariant.                                   *)
LEMMA QuietDispatch ==
  ASSUME IInv, RoutingInv,
         NEW q \in Pids, NEW x \in Handler,
         filters[q] \in Handler, x.kind = filters[q].kind, x.reg = filters[q].reg,
         changeset = <<>>,
         filters' = [filters EXCEPT ![q] = x], changeset' = <<>>,
         patAnnounced' = patAnnounced
  PROVE  RoutingInv'
<1>1. filters \in [Pids -> Handler \cup {None}]
  BY DEF IInv, TypeOK
<1>2. filters' \in [Pids -> Handler \cup {None}]
  BY <1>1
<1>3. Effective = filters /\ Effective' = filters'
  BY <1>1, <1>2, ApplyEmpty DEF Effective
<1>4. \A p \in Pids : /\ filters'[p] \in Handler <=> filters[p] \in Handler
                      /\ filters'[p] \in Handler => /\ filters'[p].kind = filters[p].kind
                                                    /\ filters'[p].reg = filters[p].reg
  BY <1>1
<1>5. \A p \in Pids : IsPmt(filters'[p]) <=> IsPmt(filters[p])
  BY <1>1, <1>4, NoneAssumption DEF IsPmt
<1>6. filters'[0] \in Handler /\ filters'[0].kind = "Pat" /\ filters'[0].reg = patAnnounced'
  BY <1>4, PidsAssumption DEF RoutingInv
<1>7. \A p \in Pids : filters'[p] \in Handler => SlotOK(p, filters'[p])
  BY <1>4 DEF RoutingInv, SlotOK
<1>8. QED
  BY <1>3, <1>5, <1>6, <1>7 DEF RoutingInv
(* The PAT filter accepts a table: its edits re-route exactly the PIDs    *)
(* the table lists to PMT filters, and un-route the ones it dropped.       *)
LEMMA PatAcceptRouting ==
  ASSUME WellFormedTables, IInv, RoutingInv,
         NEW h \in Handler, h = filters[0], NEW s \in Section, s.tid = PatTableId,
         NEW pk \in Packets, pk.sect = s, s # NoSection,
         changeset = <<>>,
         filters' = [filters EXCEPT ![0] = NewTable([h EXCEPT !.last = s.ver], s, PatTableId, "Pmt").h],
         changeset' = NewTable([h EXCEPT !.last = s.ver], s, PatTableId, "Pmt").edits,
         patAnnounced' = Range(s.pids)
  PROVE  RoutingInv'
<1> DEFINE h1   == [h EXCEPT !.last = s.ver]
           r    == NewTable(h1, s, PatTableId, "Pmt")
           seen == Range(s.pids)
<1>1. filters \in [Pids -> Handler \cup {None}] /\ 0 \in Pids
  BY PidsAssumption DEF IInv, TypeOK
<1>2. h1 \in Handler /\ h1.kind = "Pat" /\ h1.reg = patAnnounced
  BY DEF Handler, Section, RoutingInv
<1>3. /\ r.h.kind = h1.kind
      /\ r.h.reg = seen
      /\ r.edits \in Seq(Edit)
      /\ EditsFor(r.edits, seen, h1.reg, "Pmt")
  <2>1. "Pmt" \in Requests
    BY DEF Requests
  <2>2. r.h.kind = h1.kind
    BY <1>2 DEF NewTable, Handler
  <2>3. r.h.reg = seen /\ r.edits \in Seq(Edit)
    BY <1>2, <2>1, NewTableEdits
  <2>4. EditsFor(r.edits, seen, h1.reg, "Pmt")
    BY <1>2, <2>1, NewTableEdits, Zenon
  <2>5. QED
    BY <2>2, <2>3, <2>4
<1>4. r.h \in Handler
  BY <1>2, NewTableType DEF Requests
<1>5. seen \subseteq Listed(PatTableId) /\ seen \subseteq Pids
  BY DEF Listed, TableSections, Section, Range, PatTableId
<1>6. 0 \notin seen /\ 0 \notin patAnnounced
  BY <1>5 DEF WellFormedTables, RoutingInv
<1>7. \A p \in Pids : Construct("Pmt", p) = Fresh("Pmt", p)
  BY DEF Construct
<1>8. filters' \in [Pids -> Handler \cup {None}] /\ filters'[0] = r.h
      /\ \A p \in Pids \ {0} : filters'[p] = filters[p]
  BY <1>1, <1>4
<1>9. \A k \in DOMAIN changeset' : EditOK(changeset'[k])
  <2> SUFFICES ASSUME NEW k \in DOMAIN changeset' PROVE EditOK(changeset'[k])
    OBVIOUS
  <2> DEFINE e == changeset'[k]
  <2>1. e.pid \in seen \cup patAnnounced
    BY <1>2, <1>3 DEF EditsFor
  <2>2. e.pid \in seen => e.h = Construct("Pmt", e.pid)
    BY <1>2, <1>3 DEF EditsFor
  <2>3. e.pid \notin seen => e.h = None
    BY <1>2, <1>3, <2>1 DEF EditsFor
  <2>4. e.pid \in Pids
    BY <1>5, <2>1 DEF IInv, TypeOK
  <2>5. QED
    BY <1>6, <1>7, <2>1, <2>2, <2>3, <2>4, NoneAssumption DEF EditOK, Fresh
<1>10. \A p \in Pids : IsPmt(Effective'[p]) <=> p \in seen
  <2> SUFFICES ASSUME NEW p \in Pids PROVE IsPmt(Effective'[p]) <=> p \in seen
    OBVIOUS
  <2>0. Effective' = ApplyChangeset(filters', r.edits) /\ p \in DOMAIN filters'
    BY <1>8 DEF Effective
  <2>1. CASE p \in seen
    <3>1. /\ \E k \in DOMAIN r.edits : r.edits[k].pid = p
          /\ \A k \in DOMAIN r.edits : r.edits[k].pid = p => r.edits[k].h = Construct("Pmt", p)
      BY <2>1, <1>3 DEF EditsFor
    <3>2. Effective'[p] = Construct("Pmt", p)
      <4>0. \E k \in DOMAIN r.edits : IsLastEdit(r.edits, p, k)
        BY <3>1, <1>3, LastEditExists
      <4>1. ApplyChangeset(filters', r.edits)[p] = Construct("Pmt", p)
        BY <2>0, <3>1, <4>0 DEF ApplyChangeset, IsLastEdit
      <4>2. QED
        BY <2>0, <4>1
    <3>3. Fresh("Pmt", p) \in Handler
      BY DEF Fresh, Handler, Kinds
    <3>4. IsPmt(Fresh("Pmt", p))
      BY <3>3, NoneAssumption DEF IsPmt, Fresh
    <3>5. QED
      BY <2>1, <3>2, <3>4, <1>7
  <2>2. CASE p \in patAnnounced \ seen
    <3>1. /\ \E k \in DOMAIN r.edits : r.edits[k].pid = p
          /\ \A k \in DOMAIN r.edits : r.edits[k].pid = p => r.edits[k].h = None
      BY <2>2, <1>2, <1>3 DEF EditsFor
    <3>2. Effective'[p] = None
      <4>0. \E k \in DOMAIN r.edits : IsLastEdit(r.edits, p, k)
        BY <3>1, <1>3, LastEditExists
      <4>1. ApplyChangeset(filters', r.edits)[p] = None
        BY <2>0, <3>1, <4>0 DEF ApplyChangeset, IsLastEdit
      <4>2. QED
        BY <2>0, <4>1
    <3>3. QED
      BY <2>2, <3>2 DEF IsPmt
  <2>3. CASE p \notin seen \cup patAnnounced
    <3>1. \A k \in DOMAIN r.edits : r.edits[k].pid # p
      BY <2>3, <1>2, <1>3 DEF EditsFor
    <3>2. Effective'[p] = filters'[p]
      <4>0. p \in DOMAIN filters' /\ \A k \in DOMAIN r.edits : r.edits[k].pid # p
        BY <2>0, <3>1
      <4>1. ApplyChangeset(filters', r.edits)[p] = filters'[p]
        BY <4>0 DEF ApplyChangeset, IsLastEdit
      <4>2. QED
        BY <2>0, <4>1
    <3>3. ~IsPmt(filters'[p])
      <4>1. CASE p = 0
        BY <4>1, <1>2, <1>3, <1>8 DEF IsPmt
      <4>2. CASE p # 0
        <5>1. Effective = filters
          BY <1>1, ApplyEmpty DEF Effective
        <5>2. ~IsPmt(filters[p])
          BY <2>3, <5>1 DEF RoutingInv
        <5>3. QED
          BY <4>2, <5>2, <1>8
      <4>3. QED
        BY <4>1, <4>2
    <3>4. QED
      BY <2>3, <3>2, <3>3
  <2>4. QED
    BY <2>1, <2>2, <2>3
<1>11. \A p \in Pids : filters'[p] \in Handler => SlotOK(p, filters'[p])
  BY <1>3, <1>8 DEF RoutingInv, SlotOK
<1>12. QED
  BY <1>3, <1>4, <1>5, <1>8, <1>9, <1>10, <1>11 DEF RoutingInv


(* A PMT filter accepts a table: its edits name only PIDs some PMT lists,  *)
(* which the PAT never lists, and install stream filters or remove them,   *)
(* so the PMT routing is untouched.                                        *)
LEMMA PmtAcceptRouting ==
  ASSUME WellFormedTables, IInv, RoutingInv,
         NEW q \in Pids, NEW h \in Handler, h = filters[q], h.kind = "Pmt",
         NEW s \in Section, s.tid = PmtTableId,
         NEW pk \in Packets, pk.sect = s, s # NoSection,
         changeset = <<>>,
         filters' = [filters EXCEPT ![q] = NewTable([h EXCEPT !.last = s.ver], s, PmtTableId, "ByStream").h],
         changeset' = NewTable([h EXCEPT !.last = s.ver], s, PmtTableId, "ByStream").edits,
         patAnnounced' = patAnnounced
  PROVE  RoutingInv'
<1> DEFINE h1   == [h EXCEPT !.last = s.ver]
           r    == NewTable(h1, s, PmtTableId, "ByStream")
           seen == Range(s.pids)
<1>1. filters \in [Pids -> Handler \cup {None}] /\ 0 \in Pids
  BY PidsAssumption DEF IInv, TypeOK
<1>2. h1 \in Handler /\ h1.kind = "Pmt" /\ h1.reg = h.reg
  BY DEF Handler, Section
<1>3. Effective = filters
  BY <1>1, ApplyEmpty DEF Effective
<1>4. q \in patAnnounced /\ q # 0
  <2>1. IsPmt(filters[q])
    BY NoneAssumption DEF IsPmt
  <2>2. q \in patAnnounced
    BY <1>3, <2>1 DEF RoutingInv
  <2>3. QED
    BY <2>2 DEF RoutingInv, WellFormedTables
<1>5. /\ r.h.kind = "Pmt"
      /\ r.h.reg = seen
      /\ r.edits \in Seq(Edit)
      /\ EditsFor(r.edits, seen, h1.reg, "ByStream")
  <2>1. "ByStream" \in Requests
    BY DEF Requests
  <2>2. r.h.kind = "Pmt"
    BY <1>2 DEF NewTable, Handler
  <2>3. r.h.reg = seen /\ r.edits \in Seq(Edit)
    BY <1>2, <2>1, NewTableEdits
  <2>4. EditsFor(r.edits, seen, h1.reg, "ByStream")
    BY <1>2, <2>1, NewTableEdits, Zenon
  <2>5. QED
    BY <2>2, <2>3, <2>4
<1>6. r.h \in Handler
  BY <1>2, NewTableType DEF Requests
<1>7. seen \cup h1.reg \subseteq Listed(PmtTableId) /\ seen \subseteq Pids
  <2>1. seen \subseteq Listed(PmtTableId) /\ seen \subseteq Pids
    BY DEF Listed, TableSections, Section, Range, PmtTableId
  <2>2. h.reg \subseteq Listed(PmtTableId)
    BY DEF RoutingInv, SlotOK
  <2>3. QED
    BY <1>2, <2>1, <2>2
<1>8. /\ 0 \notin Listed(PmtTableId)
      /\ patAnnounced \cap Listed(PmtTableId) = {}
  BY DEF WellFormedTables, RoutingInv
<1>9. filters' \in [Pids -> Handler \cup {None}] /\ filters'[q] = r.h
      /\ \A p \in Pids \ {q} : filters'[p] = filters[p]
  BY <1>1, <1>6
<1>10. \A k \in DOMAIN changeset' : EditOK(changeset'[k])
  <2> SUFFICES ASSUME NEW k \in DOMAIN changeset' PROVE EditOK(changeset'[k])
    OBVIOUS
  <2> DEFINE e == changeset'[k]
  <2>1. e.pid \in seen \cup h1.reg
    BY <1>5 DEF EditsFor
  <2>2. e.pid \in seen => e.h = Construct("ByStream", e.pid)
    BY <1>5 DEF EditsFor
  <2>3. e.pid \notin seen => e.h = None
    BY <1>5, <2>1 DEF EditsFor
  <2>4. e.pid # 0
    BY <1>7, <1>8, <2>1
  <2>5. \A p \in Pids : Construct("ByStream", p) = Fresh("Es", p)
    BY DEF Construct
  <2>6. e.pid \in Pids
    BY <1>7, <2>1 DEF Handler
  <2>7. QED
    BY <2>2, <2>3, <2>4, <2>5, <2>6, NoneAssumption DEF EditOK, Fresh
<1>11. \A p \in Pids : IsPmt(Effective'[p]) <=> p \in patAnnounced
  <2> SUFFICES ASSUME NEW p \in Pids PROVE IsPmt(Effective'[p]) <=> p \in patAnnounced
    OBVIOUS
  <2>0. Effective' = ApplyChangeset(filters', r.edits) /\ p \in DOMAIN filters'
    BY <1>9 DEF Effective
  <2>1. CASE \E k \in DOMAIN r.edits : r.edits[k].pid = p
    <3>1. p \in seen \cup h1.reg
      BY <2>1, <1>5 DEF EditsFor
    <3>2. p \notin patAnnounced
      BY <3>1, <1>7, <1>8
    <3>3. PICK k \in DOMAIN r.edits : IsLastEdit(r.edits, p, k)
      BY <2>1, <1>5, LastEditExists
    <3>4. Effective'[p] = r.edits[k].h
      <4>1. \A j \in DOMAIN r.edits : IsLastEdit(r.edits, p, j) => j = k
        <5>1. DOMAIN r.edits \subseteq Nat
          BY <1>5
        <5>2. QED
          BY <3>3, <5>1 DEF IsLastEdit
      <4>2. ApplyChangeset(filters', r.edits)[p] = r.edits[k].h
        BY <2>0, <3>3, <4>1 DEF ApplyChangeset
      <4>3. QED
        BY <2>0, <4>2
    <3>5. r.edits[k].h = Fresh("Es", p) \/ r.edits[k].h = None
      BY <3>1, <3>3, <1>5 DEF EditsFor, IsLastEdit, Construct
    <3>6. ~IsPmt(r.edits[k].h)
      BY <3>5 DEF IsPmt, Fresh
    <3>7. QED
      BY <3>2, <3>4, <3>6
  <2>2. CASE ~\E k \in DOMAIN r.edits : r.edits[k].pid = p
    <3>1. Effective'[p] = filters'[p]
      <4>1. ApplyChangeset(filters', r.edits)[p] = filters'[p]
        BY <2>0, <2>2 DEF ApplyChangeset, IsLastEdit
      <4>2. QED
        BY <2>0, <4>1
    <3>2. CASE p = q
      <4>1. IsPmt(filters'[p])
        BY <3>2, <1>5, <1>6, <1>9, NoneAssumption DEF IsPmt
      <4>2. QED
        BY <3>1, <3>2, <4>1, <1>4
    <3>3. CASE p # q
      BY <3>1, <3>3, <1>3, <1>9 DEF RoutingInv
    <3>4. QED
      BY <3>2, <3>3
  <2>3. QED
    BY <2>1, <2>2
<1>12. \A p \in Pids : filters'[p] \in Handler => SlotOK(p, filters'[p])
  <2>1. SlotOK(q, r.h)
    BY <1>4, <1>5, <1>7 DEF SlotOK
  <2>2. QED
    BY <2>1, <1>9 DEF RoutingInv
<1>13. filters'[0] = filters[0]
  BY <1>1, <1>4, <1>9
<1>14. QED
  BY <1>10, <1>11, <1>12, <1>13 DEF RoutingInv

(* One iteration of the batching loop keeps the invariant: a handler that  *)
(* accepts no table changes neither its variant nor its registrations and  *)
(* enqueues nothing; an accepting PAT or PMT filter is one of the lemmas   *)
(* above.                                                                  *)
LEMMA DispatchRouting ==
  ASSUME WellFormedTables, IInv, RoutingInv, Dispatch
  PROVE  RoutingInv'
<1> DEFINE pk == buf[i + 1]
           h  == filters[thisPid]
           r  == Consume(h, pk)
           h1 == [h EXCEPT !.last = pk.sect.ver]
<1>1. /\ h \in Handler /\ pk \in Packets /\ pk \in Packet /\ thisPid \in Pids
      /\ changeset = <<>>
      /\ filters' = [filters EXCEPT ![thisPid] = r.h]
      /\ changeset' = r.edits
      /\ patAnnounced' = IF Accepts(h, pk, "Pat", PatTableId)
                           THEN Range(pk.sect.pids) ELSE patAnnounced
  <2>1. h \in Handler /\ pk \in Packets /\ thisPid \in Pids /\ changeset = <<>>
    BY DEF IInv, TypeOK, InnerOK, Dispatch
  <2>2. pk \in Packet
    BY <2>1, PacketsAssumption
  <2>3. r.edits \in Seq(Edit)
    BY <2>1, <2>2, ConsumeType
  <2>4. changeset' = r.edits
    BY <2>1, <2>3 DEF Dispatch
  <2>5. QED
    BY <2>1, <2>2, <2>4 DEF Dispatch
<1>2. CASE ~Delivers(h, pk)
  <2>1. r = [h |-> h, edits |-> <<>>]
    BY <1>2 DEF Consume
  <2>2. ~Accepts(h, pk, "Pat", PatTableId)
    BY <1>2 DEF Accepts
  <2>3. /\ filters' = [filters EXCEPT ![thisPid] = h]
        /\ changeset' = <<>> /\ patAnnounced' = patAnnounced
    BY <1>1, <2>1, <2>2
  <2>4. QED
    BY <1>1, <2>3, QuietDispatch
<1>3. CASE Delivers(h, pk)
  <2>0. pk.sect \in Section /\ pk.sect # NoSection /\ h1 \in Handler
    <3>1. pk.sect \in Section /\ pk.sect # NoSection
      BY <1>1, <1>3 DEF Delivers, Packet
    <3>2. QED
      BY <1>1, <3>1 DEF Handler, Section
  <2>1. CASE h.kind = "Pat" /\ pk.sect.tid # PatTableId
    <3>1. r = [h |-> h1, edits |-> <<>>]
      BY <1>3, <2>1 DEF Consume, PatNewTable, NewTable
    <3>2. ~Accepts(h, pk, "Pat", PatTableId)
      BY <2>1 DEF Accepts
    <3>3. h1.kind = h.kind /\ h1.reg = h.reg
      BY <1>1 DEF Handler
    <3>4. /\ filters' = [filters EXCEPT ![thisPid] = h1]
          /\ changeset' = <<>> /\ patAnnounced' = patAnnounced
      BY <1>1, <3>1, <3>2
    <3>5. QED
      BY <1>1, <2>0, <3>3, <3>4, QuietDispatch
  <2>2. CASE h.kind = "Pat" /\ pk.sect.tid = PatTableId
    <3>1. thisPid = 0
      BY <1>1, <2>2 DEF RoutingInv, SlotOK
    <3>2. r = NewTable(h1, pk.sect, PatTableId, "Pmt")
      BY <1>3, <2>2 DEF Consume, PatNewTable
    <3>3. Accepts(h, pk, "Pat", PatTableId)
      BY <1>3, <2>2 DEF Accepts
    <3>4. QED
      BY <1>1, <2>0, <2>2, <3>1, <3>2, <3>3, PatAcceptRouting
  <2>3. CASE h.kind = "Pmt" /\ pk.sect.tid # PmtTableId
    <3>1. r = [h |-> h1, edits |-> <<>>]
      BY <1>3, <2>3 DEF Consume, PmtNewTable, NewTable
    <3>2. ~Accepts(h, pk, "Pat", PatTableId)
      BY <2>3 DEF Accepts
    <3>3. h1.kind = h.kind /\ h1.reg = h.reg
      BY <1>1 DEF Handler
    <3>4. /\ filters' = [filters EXCEPT ![thisPid] = h1]
          /\ changeset' = <<>> /\ patAnnounced' = patAnnounced
      BY <1>1, <3>1, <3>2
    <3>5. QED
      BY <1>1, <2>0, <3>3, <3>4, QuietDispatch
  <2>4. CASE h.kind = "Pmt" /\ pk.sect.tid = PmtTableId
    <3>1. r = NewTable(h1, pk.sect, PmtTableId, "ByStream")
      BY <1>3, <2>4 DEF Consume, PmtNewTable
    <3>2. ~Accepts(h, pk, "Pat", PatTableId)
      BY <2>4 DEF Accepts
    <3>3. QED
      BY <1>1, <2>0, <2>4, <3>1, <3>2, PmtAcceptRouting
  <2>5. QED
    BY <1>3, <2>1, <2>2, <2>3, <2>4 DEF Delivers
<1>4. QED
  BY <1>2, <1>3


(* A step that leaves the table, the changeset and the announced PIDs     *)
(* alone keeps the invariant.                                               *)
LEMMA UnchangedRouting ==
  ASSUME RoutingInv, UNCHANGED <<filters, changeset, patAnnounced>>
  PROVE  RoutingInv'
BY DEF RoutingInv, Effective, SlotOK, EditOK, IsPmt

(* The top of the outer loop installs a null filter for an unknown PID:   *)
(* PID 0 always has the PAT filter, and a pending edit of that PID still  *)
(* wins over the new filter.                                              *)
LEMMA LookupRouting ==
  ASSUME IInv, RoutingInv, LoopLookup
  PROVE  RoutingInv'
<1> DEFINE p == buf[i + 1].pid
<1>1. filters \in [Pids -> Handler \cup {None}] /\ changeset \in Seq(Edit)
      /\ p \in Pids
  <2>1. buf[i + 1] \in Packet
    BY PacketsAssumption DEF IInv, TypeOK, LoopLookup
  <2>2. QED
    BY <2>1 DEF IInv, TypeOK, Packet
<1>2. UNCHANGED <<changeset, patAnnounced>>
  BY DEF LoopLookup
<1>3. CASE Contains(filters, p)
  BY <1>2, <1>3, UnchangedRouting DEF LoopLookup
<1>4. CASE ~Contains(filters, p)
  <2>1. p # 0 /\ filters[p] = None
    BY <1>4, NoneAssumption DEF Contains, RoutingInv
  <2>2. filters' = [filters EXCEPT ![p] = Fresh("Nul", p)]
    BY <1>4, <2>1 DEF LoopLookup, InsertFilter, Construct
  <2>3. Fresh("Nul", p) \in Handler
    BY <1>1 DEF Fresh, Handler, Kinds
  <2>4. filters' \in [Pids -> Handler \cup {None}] /\ filters'[0] = filters[0]
    BY <1>1, <2>1, <2>2, <2>3, PidsAssumption
  <2>5. \A q \in Pids : IsPmt(Effective'[q]) <=> IsPmt(Effective[q])
    <3> SUFFICES ASSUME NEW q \in Pids PROVE IsPmt(Effective'[q]) <=> IsPmt(Effective[q])
      OBVIOUS
    <3>1. CASE \E k \in DOMAIN changeset : IsLastEdit(changeset, q, k)
      <4>1. Effective'[q] = Effective[q]
        BY <1>1, <1>2, <2>4, <3>1 DEF Effective, ApplyChangeset
      <4>2. QED
        BY <4>1
    <3>2. CASE ~\E k \in DOMAIN changeset : IsLastEdit(changeset, q, k)
      <4>1. Effective'[q] = filters'[q] /\ Effective[q] = filters[q]
        BY <1>1, <1>2, <2>4, <3>2 DEF Effective, ApplyChangeset
      <4>2. ~IsPmt(Fresh("Nul", p)) /\ ~IsPmt(None)
        BY DEF IsPmt, Fresh
      <4>3. QED
        BY <1>1, <2>1, <2>2, <4>1, <4>2
    <3>3. QED
      BY <3>1, <3>2
  <2>6. \A q \in Pids : filters'[q] \in Handler => SlotOK(q, filters'[q])
    BY <1>1, <2>2, <2>3 DEF RoutingInv, SlotOK, Fresh
  <2>7. QED
    BY <1>2, <2>4, <2>5, <2>6 DEF RoutingInv
<1>5. QED
  BY <1>3, <1>4

(* Draining the changeset after the inner loop: the table becomes the     *)
(* effective table, no edit names PID 0, and the filters the edits install *)
(* are fresh PMT and stream filters.                                       *)
LEMMA AfterInnerRouting ==
  ASSUME IInv, RoutingInv, AfterInner
  PROVE  RoutingInv'
<1>1. filters \in [Pids -> Handler \cup {None}] /\ changeset \in Seq(Edit)
  BY DEF IInv, TypeOK
<1>2. filters' = Effective /\ changeset' = <<>> /\ patAnnounced' = patAnnounced
  BY DEF AfterInner, Effective
<1>3. filters' \in [Pids -> Handler \cup {None}]
  BY <1>1, <1>2, ApplyChangesetType DEF Effective
<1>4. Effective' = Effective
  BY <1>2, <1>3, ApplyEmpty DEF Effective
<1>5. ASSUME NEW q \in Pids
      PROVE  \/ filters'[q] = filters[q]
             \/ \E k \in DOMAIN changeset : filters'[q] = changeset[k].h /\ changeset[k].pid = q
  BY <1>1, <1>2 DEF Effective, ApplyChangeset, IsLastEdit
<1>6. filters'[0] = filters[0]
  <2>1. 0 \in Pids
    BY PidsAssumption
  <2>2. \A k \in DOMAIN changeset : changeset[k].pid # 0
    BY DEF RoutingInv, EditOK
  <2>3. QED
    BY <1>5, <2>1, <2>2
<1>7. \A q \in Pids : filters'[q] \in Handler => SlotOK(q, filters'[q])
  <2> SUFFICES ASSUME NEW q \in Pids, filters'[q] \in Handler PROVE SlotOK(q, filters'[q])
    OBVIOUS
  <2>1. CASE filters'[q] = filters[q]
    BY <2>1 DEF RoutingInv
  <2>2. CASE \E k \in DOMAIN changeset : filters'[q] = changeset[k].h /\ changeset[k].pid = q
    <3>1. PICK k \in DOMAIN changeset : filters'[q] = changeset[k].h
      BY <2>2
    <3>2. EditOK(changeset[k])
      BY DEF RoutingInv
    <3>3. QED
      BY <3>1, <3>2 DEF EditOK, SlotOK
  <2>3. QED
    BY <1>5, <2>1, <2>2
<1>8. QED
  BY <1>2, <1>4, <1>6, <1>7 DEF RoutingInv

LEMMA NextRouting ==
  ASSUME WellFormedTables, IInv, RoutingInv, [Next]_vars
  PROVE  RoutingInv'
<1>1. CASE \E b \in Buffers : Push(b)
  BY <1>1, UnchangedRouting DEF Push
<1>2. CASE LoopEnd
  BY <1>2, UnchangedRouting DEF LoopEnd
<1>3. CASE LoopDesync
  BY <1>3, UnchangedRouting DEF LoopDesync
<1>4. CASE LoopLookup
  BY <1>4, LookupRouting
<1>5. CASE InnerExit
  BY <1>5, UnchangedRouting DEF InnerExit
<1>6. CASE Dispatch
  BY <1>6, DispatchRouting
<1>7. CASE AfterInner
  BY <1>7, AfterInnerRouting
<1>8. CASE UNCHANGED vars
  BY <1>8, UnchangedRouting DEF vars
<1>9. QED
  BY <1>1, <1>2, <1>3, <1>4, <1>5, <1>6, <1>7, <1>8 DEF Next

-----------------------------------------------------------------------------
(* The PIDs that push routes to a PMT filter, once the pending edits are   *)
(* applied, are exactly the PMT PIDs of the last PAT the PAT filter        *)
(* accepted, in every reachable state, whenever the stream's tables are   *)
(* well formed: PatProcessor::new_table's filters_registered diff, the     *)
(* in-order drain of the changeset and the autodiscovery of unknown PIDs   *)
(* keep the two in step.                                                   *)
THEOREM RoutingFollowsPat == WellFormedTables => (Spec => []PmtRoutingFollowsPat)
<1> SUFFICES ASSUME WellFormedTables PROVE Spec => []PmtRoutingFollowsPat
  OBVIOUS
<1>1. Init => RoutingInv
  BY InitRouting
<1>2. IInv /\ RoutingInv /\ [Next]_vars => RoutingInv'
  BY NextRouting
<1>3. IInv /\ RoutingInv => PmtRoutingFollowsPat
  BY DEF IInv, TypeOK, RoutingInv, PmtRoutingFollowsPat, RoutedAs, IsPmt
<1>4. Spec => []IInv
  BY TypeInvariant
<1>5. QED
  BY <1>1, <1>2, <1>3, <1>4, PTL DEF Spec

-----------------------------------------------------------------------------
(* Routing changes only through tables.                                    *)

(* consume of a packet that makes no processor accept a table keeps the    *)
(* handler's variant and enqueues nothing: the dedup layer withholds the   *)
(* section, or new_table ignores a section of another table_id.            *)
LEMMA QuietConsume ==
  ASSUME NEW h \in Handler, NEW pk \in Packet,
         ~Accepts(h, pk, "Pat", PatTableId), ~Accepts(h, pk, "Pmt", PmtTableId)
  PROVE  Consume(h, pk).edits = <<>> /\ Consume(h, pk).h.kind = h.kind
<1>1. CASE ~Delivers(h, pk)
  BY <1>1 DEF Consume
<1>2. CASE Delivers(h, pk)
  <2>1. [h EXCEPT !.last = pk.sect.ver].kind = h.kind
    BY DEF Handler
  <2>2. CASE h.kind = "Pat"
    <3>1. pk.sect.tid # PatTableId
      BY <1>2, <2>2 DEF Accepts
    <3>2. QED
      BY <1>2, <2>1, <2>2, <3>1 DEF Consume, PatNewTable, NewTable
  <2>3. CASE h.kind = "Pmt"
    <3>1. pk.sect.tid # PmtTableId
      BY <1>2, <2>3 DEF Accepts
    <3>2. QED
      BY <1>2, <2>1, <2>3, <3>1 DEF Consume, PmtNewTable, NewTable
  <2>4. QED
    BY <1>2, <2>2, <2>3 DEF Delivers
<1>3. QED
  BY <1>1, <1>2

(* The kind of a handler is its variant.                                   *)
LEMMA KindOfHandler ==
  ASSUME NEW x \in Handler
  PROVE  KindOf(x) = x.kind
BY NoneAssumption DEF KindOf

(* One step of push, read through the effective table.                     *)
LEMMA RoutingStep ==
  ASSUME IInv, [Next]_vars, NEW p \in Pids,
         KindOf(Effective'[p]) # KindOf(Effective[p])
  PROVE  Effective[p] = None \/ TableAccepted
<1>1. filters \in [Pids -> Handler \cup {None}] /\ changeset \in Seq(Edit)
  BY DEF IInv, TypeOK
<1>2. UNCHANGED <<filters, changeset>> => Effective' = Effective
  BY DEF Effective
<1>3. CASE LoopLookup
  <2> DEFINE q == buf[i + 1].pid
  <2> SUFFICES ASSUME Effective[p] # None PROVE Effective'[p] = Effective[p]
    OBVIOUS
  <2>1. UNCHANGED changeset
    BY <1>3 DEF LoopLookup
  <2>2. CASE Contains(filters, q)
    BY <1>2, <1>3, <2>1, <2>2 DEF LoopLookup
  <2>3. CASE ~Contains(filters, q)
    <3>1. filters' = [filters EXCEPT ![q] = Construct("ByPid", q)] /\ filters[q] = None
      BY <1>3, <2>3 DEF LoopLookup, InsertFilter, Contains
    <3>2. CASE \E k \in DOMAIN changeset : IsLastEdit(changeset, p, k)
      BY <1>1, <2>1, <3>1, <3>2 DEF Effective, ApplyChangeset
    <3>3. CASE ~\E k \in DOMAIN changeset : IsLastEdit(changeset, p, k)
      <4>1. Effective[p] = filters[p] /\ Effective'[p] = filters'[p]
        BY <1>1, <2>1, <3>1, <3>3 DEF Effective, ApplyChangeset
      <4>2. QED
        BY <1>1, <3>1, <4>1
    <3>4. QED
      BY <3>2, <3>3
  <2>4. QED
    BY <2>2, <2>3
<1>4. CASE AfterInner
  <2>1. Effective \in [Pids -> Handler \cup {None}]
    BY <1>1, ApplyChangesetType DEF Effective
  <2>2. Effective' = ApplyChangeset(Effective, <<>>)
    BY <1>4 DEF AfterInner, Effective
  <2>3. QED
    BY <2>1, <2>2, ApplyEmpty
<1>5. CASE Dispatch
  <2> SUFFICES ASSUME ~TableAccepted PROVE FALSE
    OBVIOUS
  <2> DEFINE h == filters[thisPid]
             pk == buf[i + 1]
  <2>1. h \in Handler /\ pk \in Packet /\ pc = "inner" /\ changeset = <<>>
    BY <1>5, PacketsAssumption DEF Dispatch, IInv, InnerOK, TypeOK
  <2>2. Consume(h, pk).edits = <<>> /\ Consume(h, pk).h.kind = h.kind
        /\ Consume(h, pk).h \in Handler
    BY <2>1, QuietConsume, ConsumeType DEF TableAccepted
  <2>3. filters' = [filters EXCEPT ![thisPid] = Consume(h, pk).h] /\ changeset' = <<>>
    BY <1>5, <2>1, <2>2 DEF Dispatch
  <2>4. filters' \in [Pids -> Handler \cup {None}]
    BY <1>1, <2>2, <2>3
  <2>5. Effective = filters /\ Effective' = filters'
    BY <1>1, <2>1, <2>3, <2>4, ApplyEmpty DEF Effective
  <2>6. thisPid \in Pids
    BY DEF IInv, TypeOK
  <2>7. CASE p = thisPid
    <3>1. KindOf(filters'[p]) = KindOf(filters[p])
      BY <1>1, <2>1, <2>2, <2>3, <2>6, <2>7, KindOfHandler
    <3>2. QED
      BY <2>5, <3>1
  <2>8. CASE p # thisPid
    BY <2>3, <2>5, <2>8
  <2>9. QED
    BY <2>7, <2>8
<1>6. QED
  BY <1>2, <1>3, <1>4, <1>5 DEF Next, vars, Push, LoopEnd, LoopDesync, InnerExit

(* The kind of filter a PID is routed to, with the pending changeset       *)
(* applied, changes only when the PAT or PMT processor accepts a table in  *)
(* that step or when push's lookup fills an empty slot: handler state      *)
(* updates, the drain after the batching loop and the `contains` test of   *)
(* Demultiplex::push never re-route a PID.                                 *)
THEOREM RoutingByTables == Spec => RoutingChangesOnlyByTables
<1>1. IInv /\ [Next]_vars =>
        [\A p \in Pids : KindOf(Effective'[p]) # KindOf(Effective[p]) =>
                           Effective[p] = None \/ TableAccepted]_vars
  BY RoutingStep
<1>2. QED
  BY <1>1, TypeInvariant, PTL DEF Spec, RoutingChangesOnlyByTables
=============================================================================
