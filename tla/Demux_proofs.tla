---------------------------- MODULE Demux_proofs ----------------------------
(***************************************************************************)
(* Proofs about Demux for every value of its constants.                    *)
(***************************************************************************)
EXTENDS Demux, FiniteSetTheorems, TLAPS

Requests == {"ByPid", "Pmt", "ByStream"}

(* When push is inside the batching loop, the cursor is on a packet of the *)
(* buffer and the table holds a handler for this_pid (the one borrowed as  *)
(* this_proc).  Without it TypeOK is not inductive: consume is applied to  *)
(* filters[this_pid] and buf[i + 1].                                       *)
InnerOK ==
  pc = "inner" => /\ i + 1 \in 1..Len(buf)
                  /\ filters[thisPid] \in Handler

IInv == TypeOK /\ InnerOK

-----------------------------------------------------------------------------
(* Lemmas on the operators the model is built from.                        *)

LEMMA ConstructType ==
  ASSUME NEW req \in Requests, NEW p \in Pids
  PROVE  Construct(req, p) \in Handler
BY DEF Construct, Fresh, Handler, Kinds, Requests

LEMMA InsertEditsType ==
  ASSUME NEW s \in Seq(Pids), NEW req \in Requests
  PROVE  InsertEdits(s, req) \in Seq(Edit)
<1>1. \A k \in 1..Len(s) : Construct(req, s[k]) \in Handler
  BY ConstructType
<1>2. QED
  BY <1>1 DEF InsertEdits, Edit

(* The rank of an element of a finite set of naturals is below the set's  *)
(* size, and a larger element has a larger rank.                           *)
LEMMA RankBounds ==
  ASSUME NEW S \in SUBSET Nat, IsFiniteSet(S), NEW x \in S
  PROVE  Rank(S, x) \in 0..(Cardinality(S) - 1)
<1> DEFINE below == {y \in S : y < x}
<1>1. below \subseteq S \ {x}
  OBVIOUS
<1>2. IsFiniteSet(S \ {x}) /\ Cardinality(S \ {x}) = Cardinality(S) - 1
  BY FS_RemoveElement
<1>3. Cardinality(below) \in Nat /\ Cardinality(below) <= Cardinality(S) - 1
  BY <1>1, <1>2, FS_Subset, FS_CardinalityType
<1>4. QED
  BY <1>3 DEF Rank

LEMMA RankMonotone ==
  ASSUME NEW S \in SUBSET Nat, IsFiniteSet(S), NEW x \in S, NEW y \in S, x < y
  PROVE  Rank(S, x) < Rank(S, y)
<1> DEFINE A == {z \in S : z < x}
           B == {z \in S : z < y}
<1>0. A \subseteq S /\ B \subseteq S
  OBVIOUS
<1>1. IsFiniteSet(B) /\ Cardinality(B) \in Nat
  BY <1>0, FS_Subset, FS_CardinalityType
<1>2. A \cup {x} \subseteq B /\ x \notin A
  <2>1. \A z \in S : z < x => z < y
    BY SMT
  <2>2. ~(x < x)
    BY SMT
  <2>3. QED
    BY <2>1, <2>2
<1>3. IsFiniteSet(A) /\ Cardinality(A) \in Nat
  BY <1>0, FS_Subset, FS_CardinalityType
<1>4. Cardinality(A \cup {x}) = Cardinality(A) + 1
  BY <1>2, <1>3, FS_AddElement
<1>5. Cardinality(A \cup {x}) <= Cardinality(B)
  BY <1>1, <1>2, FS_Subset
<1>6. QED
  BY <1>3, <1>4, <1>5, <1>1 DEF Rank

(* Every rank below the size is taken: rank is an injection of S into      *)
(* 0..|S|-1, a set of the same size, hence onto it.                        *)
LEMMA RankOnto ==
  ASSUME NEW S \in SUBSET Nat, IsFiniteSet(S),
         NEW k \in 0..(Cardinality(S) - 1)
  PROVE  \E x \in S : Rank(S, x) = k
<1> DEFINE n == Cardinality(S)
           f == [x \in S |-> Rank(S, x)]
<1>1. n \in Nat
  BY FS_CardinalityType
<1>2. f \in [S -> 0..(n - 1)]
  BY RankBounds
<1>3. \A a, b \in S : Rank(S, a) = Rank(S, b) => a = b
  <2> SUFFICES ASSUME NEW a \in S, NEW b \in S, a # b
               PROVE  Rank(S, a) # Rank(S, b)
    OBVIOUS
  <2>0. Rank(S, a) \in Nat /\ Rank(S, b) \in Nat
    BY RankBounds
  <2>1. a < b \/ b < a
    BY SMT
  <2>2. CASE a < b
    <3>1. Rank(S, a) < Rank(S, b)
      BY <2>2, RankMonotone
    <3>2. QED
      BY <2>0, <3>1
  <2>3. CASE b < a
    <3>1. Rank(S, b) < Rank(S, a)
      BY <2>3, RankMonotone
    <3>2. QED
      BY <2>0, <3>1
  <2>4. QED
    BY <2>1, <2>2, <2>3
<1>4. f \in Injection(S, 0..(n - 1))
  <2>1. \A a, b \in S : f[a] = f[b] => a = b
    BY <1>3
  <2>2. QED
    BY <1>2, <2>1 DEF Injection, IsInjective
<1>5. IsFiniteSet(0..(n - 1)) /\ Cardinality(0..(n - 1)) = n
  BY <1>1, FS_Interval
<1>6. f \in Surjection(S, 0..(n - 1))
  BY <1>4, <1>5, FS_Injection
<1>7. QED
  BY <1>6 DEF Surjection

(* Ascending(S) lists S without repeats.                                   *)
LEMMA AscendingProps ==
  ASSUME NEW S \in SUBSET Nat, IsFiniteSet(S)
  PROVE  /\ Ascending(S) \in [1..Cardinality(S) -> S]
         /\ \A x \in S : \E k \in 1..Cardinality(S) : Ascending(S)[k] = x
         /\ \A j, k \in 1..Cardinality(S) : Ascending(S)[j] = Ascending(S)[k] => j = k
<1> DEFINE n == Cardinality(S)
<1>1. n \in Nat
  BY FS_CardinalityType
<1>2. \A k \in 1..n : /\ Ascending(S)[k] \in S
                      /\ Rank(S, Ascending(S)[k]) = k - 1
  <2> SUFFICES ASSUME NEW k \in 1..n
               PROVE  /\ Ascending(S)[k] \in S
                      /\ Rank(S, Ascending(S)[k]) = k - 1
    OBVIOUS
  <2>1. \E x \in S : Rank(S, x) = k - 1
    BY <1>1, RankOnto
  <2>2. QED
    BY <2>1 DEF Ascending
<1>3. Ascending(S) \in [1..n -> S]
  BY <1>2 DEF Ascending
<1>4. \A x \in S : \E k \in 1..n : Ascending(S)[k] = x
  <2> SUFFICES ASSUME NEW x \in S PROVE \E k \in 1..n : Ascending(S)[k] = x
    OBVIOUS
  <2> DEFINE k == Rank(S, x) + 1
  <2>0. Rank(S, x) \in 0..(n - 1)
    BY RankBounds
  <2>1. k \in 1..n
    BY <2>0, <1>1
  <2> DEFINE z == Ascending(S)[k]
  <2>2. z \in S /\ Rank(S, z) = k - 1
    BY <2>1, <1>2
  <2>3. z = x
    <3>0. Rank(S, z) = Rank(S, x) /\ Rank(S, x) \in Nat
      BY <2>0, <2>2, <1>1
    <3>1. ~(z < x)
      <4> SUFFICES ASSUME z < x PROVE FALSE
        OBVIOUS
      <4>1. Rank(S, z) < Rank(S, x)
        BY <2>2, RankMonotone
      <4>2. QED
        BY <3>0, <4>1
    <3>2. ~(x < z)
      <4> SUFFICES ASSUME x < z PROVE FALSE
        OBVIOUS
      <4>1. Rank(S, x) < Rank(S, z)
        BY <2>2, RankMonotone
      <4>2. QED
        BY <3>0, <4>1
    <3>3. \A u, v \in Nat : ~(u < v) /\ ~(v < u) => u = v
      BY SMT
    <3>4. QED
      BY <2>2, <3>1, <3>2, <3>3
  <2>4. QED
    BY <2>1, <2>3
<1>5. \A j, k \in 1..n : Ascending(S)[j] = Ascending(S)[k] => j = k
  BY <1>2
<1>6. QED
  BY <1>3, <1>4, <1>5

LEMMA AscendingType ==
  ASSUME NEW S \in SUBSET Pids
  PROVE  Ascending(S) \in Seq(S)
<1>0. S \subseteq Nat
  BY PidsAssumption DEF MaxPid
<1>1. S \subseteq Nat /\ IsFiniteSet(S)
  BY <1>0, PidsAssumption, FS_Subset
<1>2. Cardinality(S) \in Nat
  BY <1>1, FS_CardinalityType
<1>3. QED
  BY <1>1, <1>2, AscendingProps

LEMMA RemoveEditsType ==
  ASSUME NEW S \in SUBSET Pids
  PROVE  RemoveEdits(S) \in Seq(Edit)
<1>1. Ascending(S) \in Seq(S)
  BY AscendingType
<1>2. QED
  BY <1>1 DEF RemoveEdits, Edit

LEMMA NewTableType ==
  ASSUME NEW h \in Handler, NEW s \in Section, NEW tid, NEW req \in Requests
  PROVE  /\ NewTable(h, s, tid, req).h \in Handler
         /\ NewTable(h, s, tid, req).edits \in Seq(Edit)
<1>1. CASE s.tid # tid
  BY <1>1 DEF NewTable
<1>2. CASE s.tid = tid
  <2> DEFINE seen == Range(s.pids)
             gone == Unregistered(h.reg, seen)
  <2>1. seen \subseteq Pids
    BY DEF Section, Range
  <2>2. gone \subseteq Pids
    BY DEF Unregistered, Handler
  <2>3. [h EXCEPT !.reg = (@ \cup seen) \ gone, !.cur = s.ver] \in Handler
    BY <2>1 DEF Handler, Section
  <2>4. InsertEdits(s.pids, req) \o RemoveEdits(gone) \in Seq(Edit)
    BY <2>2, InsertEditsType, RemoveEditsType DEF Section
  <2>5. QED
    BY <1>2, <2>3, <2>4 DEF NewTable
<1>3. QED
  BY <1>1, <1>2

LEMMA ConsumeType ==
  ASSUME NEW h \in Handler, NEW pk \in Packet
  PROVE  /\ Consume(h, pk).h \in Handler
         /\ Consume(h, pk).edits \in Seq(Edit)
<1>1. CASE ~Delivers(h, pk)
  BY <1>1 DEF Consume
<1>2. CASE Delivers(h, pk)
  <2>1. pk.sect \in Section
    BY <1>2 DEF Delivers, Packet
  <2>2. [h EXCEPT !.last = pk.sect.ver] \in Handler
    BY <2>1 DEF Handler, Section
  <2>3. "Pmt" \in Requests /\ "ByStream" \in Requests
    BY DEF Requests
  <2>4. QED
    BY <1>2, <2>1, <2>2, <2>3, NewTableType DEF Consume, PatNewTable, PmtNewTable
<1>3. QED
  BY <1>1, <1>2

LEMMA ApplyChangesetType ==
  ASSUME NEW t \in [Pids -> Handler \cup {None}], NEW cs \in Seq(Edit)
  PROVE  ApplyChangeset(t, cs) \in [Pids -> Handler \cup {None}]
<1>1. \A k \in DOMAIN cs : cs[k].h \in Handler \cup {None}
  BY DEF Edit
<1>2. QED
  BY <1>1 DEF ApplyChangeset

-----------------------------------------------------------------------------
(* The type invariant.                                                     *)

LEMMA InitIInv == Init => IInv
<1>1. Construct("ByPid", 0) \in Handler
  BY PidsAssumption, ConstructType DEF Requests
<1>2. QED
  BY <1>1, PidsAssumption DEF Init, IInv, TypeOK, InnerOK

LEMMA NextIInv == IInv /\ [Next]_vars => IInv'
<1> SUFFICES ASSUME IInv, [Next]_vars PROVE IInv'
  OBVIOUS
<1> USE DEF IInv, TypeOK, InnerOK
<1>1. ASSUME NEW b \in Buffers, Push(b) PROVE IInv'
  <2>1. b \in Seq(Packets)
    BY MaxBufAssumption DEF Buffers
  <2>2. QED
    BY <1>1, <2>1 DEF Push
<1>2. CASE LoopEnd
  BY <1>2 DEF LoopEnd
<1>3. CASE LoopDesync
  BY <1>3 DEF LoopDesync
<1>4. CASE LoopLookup
  <2> DEFINE p == buf[i + 1].pid
  <2>1. p \in Pids
    BY <1>4, PacketsAssumption DEF LoopLookup, Packet
  <2>2. Construct("ByPid", p) \in Handler
    BY <2>1, ConstructType DEF Requests
  <2>3. filters' \in [Pids -> Handler \cup {None}] /\ filters'[p] \in Handler
    BY <1>4, <2>1, <2>2 DEF LoopLookup, Contains, InsertFilter
  <2>4. QED
    BY <1>4, <2>1, <2>3 DEF LoopLookup
<1>5. CASE InnerExit
  BY <1>5 DEF InnerExit
<1>6. CASE Dispatch
  <2> DEFINE pk == buf[i + 1]
             h  == filters[thisPid]
             r  == Consume(h, pk)
  <2>1. pc = "inner" /\ changeset = <<>>
    BY <1>6 DEF Dispatch
  <2>2. pk \in Packet /\ h \in Handler
    BY <2>1, PacketsAssumption
  <2>3. r.h \in Handler /\ r.edits \in Seq(Edit)
    BY <2>2, ConsumeType
  <2>4. filters' \in [Pids -> Handler \cup {None}] /\ filters'[thisPid] \in Handler
    BY <1>6, <2>3 DEF Dispatch
  <2>5. changeset' \in Seq(Edit)
    BY <1>6, <2>1, <2>3 DEF Dispatch
  <2>6. consumed' \in Seq([pos : Nat, slot : Pids])
    BY <1>6 DEF Dispatch
  <2>7. Delivers(h, pk) => Range(pk.sect.pids) \subseteq Pids
    BY <2>2 DEF Delivers, Packet, Section, Range
  <2>8. patAnnounced' \in SUBSET Pids /\ pmtAnnounced' \in [Pids -> SUBSET Pids]
    BY <1>6, <2>7 DEF Dispatch, Accepts
  <2>11. pmtVersion' \in [Pids -> Versions \cup {NoVersion}]
    BY <1>6, <2>2 DEF Dispatch, Accepts, Delivers, Packet, Section
  <2>9. /\ i' \in Nat
        /\ pc' \in {"idle", "outer", "inner", "after"}
        /\ pc' = "inner" => i' + 1 \in 1..Len(buf')
        /\ UNCHANGED <<buf, thisPid>>
    BY <1>6, <2>1 DEF Dispatch, Advance
  <2>10. QED
    BY <2>4, <2>5, <2>6, <2>8, <2>9, <2>11
<1>7. CASE AfterInner
  <2>1. filters' \in [Pids -> Handler \cup {None}]
    BY <1>7, ApplyChangesetType DEF AfterInner
  <2>2. QED
    BY <1>7, <2>1 DEF AfterInner
<1>8. CASE UNCHANGED vars
  BY <1>8 DEF vars
<1>9. QED
  BY <1>1, <1>2, <1>3, <1>4, <1>5, <1>6, <1>7, <1>8 DEF Next

(* Type correctness of the dispatcher: the filter table maps every PID to  *)
(* a handler or to None, the changeset is a sequence of Insert and Remove  *)
(* edits, and the cursor of push stays a natural number, whatever the      *)
(* buffers pushed and the tables they carry.                               *)
THEOREM TypeCorrect == Spec => []TypeOK
<1>1. Init => IInv
  BY InitIInv
<1>2. IInv /\ [Next]_vars => IInv'
  BY NextIInv
<1>3. IInv => TypeOK
  BY DEF IInv
<1>4. QED
  BY <1>1, <1>2, <1>3, PTL DEF Spec

LEMMA TypeInvariant == Spec => []IInv
BY InitIInv, NextIInv, PTL DEF Spec

-----------------------------------------------------------------------------
(* Same-PID batching.  The bookkeeping of push's cursor: every consumed    *)
(* position lies in the buffer, at most i while the loop looks at packet   *)
(* i + 1 and at most i + 1 just after the batching loop (before the       *)
(* trailing i += 188); inside the batching loop the packet at i + 1 is on  *)
(* this_pid.                                                               *)
DispatchInv ==
  /\ \A k \in DOMAIN consumed : consumed[k].pos \in 1..Len(buf)
  /\ DispatchToOwnPid
  /\ DispatchInOrder
  /\ pc \in {"outer", "inner"} => \A k \in DOMAIN consumed : consumed[k].pos <= i
  /\ pc = "after" => \A k \in DOMAIN consumed : consumed[k].pos <= i + 1
  /\ pc = "inner" => buf[i + 1].pid = thisPid

LEMMA InitDispatchInv == Init => DispatchInv
BY DEF Init, DispatchInv, DispatchToOwnPid, DispatchInOrder

LEMMA NextDispatchInv == IInv /\ DispatchInv /\ [Next]_vars => DispatchInv'
<1> SUFFICES ASSUME IInv, DispatchInv, [Next]_vars PROVE DispatchInv'
  OBVIOUS
<1> USE DEF IInv, TypeOK, InnerOK, DispatchInv, DispatchToOwnPid, DispatchInOrder
<1>1. ASSUME NEW b \in Buffers, Push(b) PROVE DispatchInv'
  BY <1>1 DEF Push
<1>2. CASE LoopEnd
  BY <1>2 DEF LoopEnd
<1>3. CASE LoopDesync
  BY <1>3 DEF LoopDesync
<1>4. CASE LoopLookup
  BY <1>4 DEF LoopLookup
<1>5. CASE InnerExit
  BY <1>5 DEF InnerExit
<1>6. CASE Dispatch
  <2> DEFINE rec == [pos |-> i + 1, slot |-> thisPid]
  <2>1. /\ pc = "inner"
        /\ consumed' = Append(consumed, rec)
        /\ UNCHANGED <<buf, thisPid>>
        /\ Advance
    BY <1>6 DEF Dispatch
  <2>2. /\ i + 1 \in 1..Len(buf)
        /\ buf[i + 1].pid = thisPid
        /\ \A k \in DOMAIN consumed : consumed[k].pos <= i
    BY <2>1
  <2>3. /\ \A k \in DOMAIN consumed' : consumed'[k].pos \in 1..Len(buf')
        /\ \A k \in DOMAIN consumed' : buf'[consumed'[k].pos].pid = consumed'[k].slot
        /\ \A k \in DOMAIN consumed' : consumed'[k].pos <= i + 1
    BY <2>1, <2>2
  <2>4. \A j, k \in DOMAIN consumed' : j < k => consumed'[j].pos < consumed'[k].pos
    BY <2>1, <2>2
  <2>5. /\ pc' \in {"outer", "inner"} => \A k \in DOMAIN consumed' : consumed'[k].pos <= i'
        /\ pc' = "after" => \A k \in DOMAIN consumed' : consumed'[k].pos <= i' + 1
        /\ pc' = "inner" => buf'[i' + 1].pid = thisPid'
    BY <2>1, <2>3 DEF Advance
  <2>6. QED
    BY <2>3, <2>4, <2>5
<1>7. CASE AfterInner
  BY <1>7 DEF AfterInner
<1>8. CASE UNCHANGED vars
  BY <1>8 DEF vars
<1>9. QED
  BY <1>1, <1>2, <1>3, <1>4, <1>5, <1>6, <1>7, <1>8 DEF Next

(* Same-PID batching in Demultiplex::push hands each packet to the filter  *)
(* installed for that packet's PID, and within one push the packets are    *)
(* consumed in buffer order with none consumed twice, whatever the PIDs,   *)
(* sync bytes and tables of the buffers pushed.                            *)
THEOREM BatchingDispatch == Spec => [](DispatchToOwnPid /\ DispatchInOrder)
<1>1. Init => IInv /\ DispatchInv
  BY InitIInv, InitDispatchInv
<1>2. IInv /\ DispatchInv /\ [Next]_vars => (IInv /\ DispatchInv)'
  BY NextIInv, NextDispatchInv
<1>3. IInv /\ DispatchInv => DispatchToOwnPid /\ DispatchInOrder
  BY DEF DispatchInv
<1>4. QED
  BY <1>1, <1>2, <1>3, PTL DEF Spec

(* Within one Demultiplex::push, the packets handed to handlers are taken  *)
(* in buffer order and none twice: the consumed positions strictly rise.   *)
THEOREM InOrderDispatch == Spec => []DispatchInOrder
BY BatchingDispatch, PTL
=============================================================================
