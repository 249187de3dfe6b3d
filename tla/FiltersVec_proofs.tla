-------------------------- MODULE FiltersVec_proofs --------------------------
(***************************************************************************)
(* Proofs that the Vec<Option<F>> table of src/demultiplex.rs stays within *)
(* the PID space and implements the abstract filter map, for every value   *)
(* of the constants.                                                       *)
(***************************************************************************)
EXTENDS FiltersVec, SequenceTheorems, WellFoundedInduction, TLAPS

Slots == Seq(Handlers \cup {None})

(* A vector the code can hold: a slot per PID up to the largest inserted.  *)
VecOK(v) == v \in Slots /\ Len(v) <= MaxPid + 1

(* What one FilterChange does to the map view: the PID's entry becomes    *)
(* the edit's filter (Insert) or None (Remove).                            *)
SetEntry(m, e) == [m EXCEPT ![e.pid] = e.h]

-----------------------------------------------------------------------------
(* Filters::insert grows the vector with None up to the PID's slot and     *)
(* stores the filter there; every other PID reads as before.               *)
LEMMA VecInsertEffect ==
  ASSUME NEW v, VecOK(v), NEW p \in Pids, NEW h \in Handlers
  PROVE  /\ VecOK(VecInsert(v, p, h))
         /\ AsMap(VecInsert(v, p, h)) = [AsMap(v) EXCEPT ![p] = h]
<1> DEFINE S == Handlers \cup {None}
<1>1. p \in Nat /\ p <= MaxPid /\ MaxPid \in Nat /\ v \in Seq(S) /\ Len(v) <= MaxPid + 1
  BY FiltersVecAssumption DEF VecOK, Slots
(* The vector after growing: its length and what each slot holds.        *)
<1>2. PICK grown \in Seq(S) :
        /\ VecInsert(v, p, h) = [grown EXCEPT ![p + 1] = h]
        /\ Len(grown) = IF p < Len(v) THEN Len(v) ELSE p + 1
        /\ \A j \in 1..Len(grown) : grown[j] = IF j <= Len(v) THEN v[j] ELSE None
  <2>1. CASE p < Len(v)
    <3>1. VecInsert(v, p, h) = [v EXCEPT ![p + 1] = h]
      BY <1>1, <2>1 DEF VecInsert
    <3>2. /\ v \in Seq(S)
          /\ VecInsert(v, p, h) = [v EXCEPT ![p + 1] = h]
          /\ Len(v) = IF p < Len(v) THEN Len(v) ELSE p + 1
          /\ \A j \in 1..Len(v) : v[j] = IF j <= Len(v) THEN v[j] ELSE None
      BY <1>1, <2>1, <3>1
    <3>3. QED
      BY <3>2, Zenon
  <2>2. CASE ~(p < Len(v))
    <3> DEFINE pad == [k \in 1..(p - Len(v) + 1) |-> None]
    <3>1. pad \in Seq(S) /\ Len(pad) = p - Len(v) + 1
      BY <1>1, <2>2
    <3>2. VecInsert(v, p, h) = [v \o pad EXCEPT ![p + 1] = h]
      <4>1. p - Len(v) >= 0
        BY <1>1, <2>2
      <4>2. QED
        BY <4>1 DEF VecInsert
    <3>3. /\ v \o pad \in Seq(S)
          /\ Len(v \o pad) = p + 1
          /\ \A j \in 1..(p + 1) : (v \o pad)[j] = IF j <= Len(v) THEN v[j] ELSE None
      <4>1. /\ v \o pad \in Seq(S)
            /\ Len(v \o pad) = Len(v) + Len(pad)
            /\ \A j \in 1..(Len(v) + Len(pad)) :
                  (v \o pad)[j] = IF j <= Len(v) THEN v[j] ELSE pad[j - Len(v)]
        BY <1>1, <3>1, ConcatProperties
      <4>2. QED
        BY <1>1, <2>2, <3>1, <4>1
    <3>4. QED
      BY <2>2, <3>2, <3>3
  <2>3. QED
    BY <2>1, <2>2
<1>3. p + 1 \in 1..Len(grown) /\ Len(grown) <= MaxPid + 1
  BY <1>1, <1>2
<1>4. /\ [grown EXCEPT ![p + 1] = h] \in Seq(S)
      /\ Len([grown EXCEPT ![p + 1] = h]) = Len(grown)
      /\ \A j \in 1..Len(grown) :
            [grown EXCEPT ![p + 1] = h][j] = IF j = p + 1 THEN h ELSE grown[j]
  BY <1>3, ExceptSeq
<1>5. VecOK(VecInsert(v, p, h))
  BY <1>2, <1>3, <1>4 DEF VecOK, Slots
<1>6. AsMap(VecInsert(v, p, h)) = [AsMap(v) EXCEPT ![p] = h]
  <2> DEFINE w == [grown EXCEPT ![p + 1] = h]
  <2> SUFFICES ASSUME NEW q \in Pids
               PROVE  AsMap(w)[q] = [AsMap(v) EXCEPT ![p] = h][q]
    BY <1>2 DEF AsMap
  <2>1. q \in Nat
    BY FiltersVecAssumption
  <2>2. AsMap(w)[q] = IF q < Len(grown) THEN w[q + 1] ELSE None
    BY <1>4 DEF AsMap
  <2>3. AsMap(v)[q] = IF q < Len(v) THEN v[q + 1] ELSE None
    BY DEF AsMap
  <2>4. CASE q = p
    <3>1. w[p + 1] = h
      BY <1>3, <1>4
    <3>2. [AsMap(v) EXCEPT ![p] = h][p] = h
      BY DEF AsMap
    <3>3. AsMap(w)[p] = w[p + 1]
      BY <1>1, <1>3, <2>2, <2>4
    <3>4. QED
      BY <2>4, <3>1, <3>2, <3>3
  <2>5. CASE q # p
    <3>1. [AsMap(v) EXCEPT ![p] = h][q] = AsMap(v)[q]
      BY <2>5 DEF AsMap
    <3>2. q < Len(grown) => w[q + 1] = grown[q + 1]
      BY <1>4, <2>1, <2>5
    <3>3. q < Len(grown) => grown[q + 1] = IF q < Len(v) THEN v[q + 1] ELSE None
      BY <1>2, <2>1
    <3>4. ~(q < Len(grown)) => ~(q < Len(v))
      BY <1>1, <1>2, <2>1
    <3>5. QED
      BY <2>2, <2>3, <3>1, <3>2, <3>3, <3>4
  <2>6. QED
    BY <2>4, <2>5
<1>7. QED
  BY <1>5, <1>6

(* Filters::remove clears the PID's slot when the vector reaches it, and   *)
(* a PID past the end already reads as None.                               *)
LEMMA VecRemoveEffect ==
  ASSUME NEW v, VecOK(v), NEW p \in Pids
  PROVE  /\ VecOK(VecRemove(v, p))
         /\ AsMap(VecRemove(v, p)) = [AsMap(v) EXCEPT ![p] = None]
<1>1. Pids \subseteq 0..MaxPid
  BY FiltersVecAssumption
<1>2. CASE p < Len(v)
  <2>1. /\ [v EXCEPT ![p + 1] = None] \in Slots
        /\ Len([v EXCEPT ![p + 1] = None]) = Len(v)
        /\ \A j \in 1..Len(v) : [v EXCEPT ![p + 1] = None][j] = IF j = p + 1 THEN None ELSE v[j]
    BY <1>1, <1>2, ExceptSeq DEF VecOK, Slots
  <2>2. VecRemove(v, p) = [v EXCEPT ![p + 1] = None]
    BY <1>2 DEF VecRemove
  <2>3. VecOK(VecRemove(v, p))
    BY <2>1, <2>2 DEF VecOK
  <2>4. AsMap(VecRemove(v, p)) = [AsMap(v) EXCEPT ![p] = None]
    <3> SUFFICES ASSUME NEW q \in Pids
                 PROVE  AsMap(VecRemove(v, p))[q] = [AsMap(v) EXCEPT ![p] = None][q]
      BY DEF AsMap
    <3>1. q \in Nat /\ p \in Nat
      BY <1>1
    <3>2. AsMap(VecRemove(v, p))[q] = IF q < Len(v) THEN [v EXCEPT ![p + 1] = None][q + 1] ELSE None
      BY <2>1, <2>2 DEF AsMap
    <3>3. CASE q = p
      BY <1>2, <3>1, <3>2, <3>3, <2>1 DEF AsMap
    <3>4. CASE q # p
      BY <3>1, <3>2, <3>4, <2>1 DEF AsMap
    <3>5. QED
      BY <3>3, <3>4
  <2>5. QED
    BY <2>3, <2>4
<1>3. CASE ~(p < Len(v))
  <2>1. VecRemove(v, p) = v
    BY <1>3 DEF VecRemove
  <2>2. AsMap(v)[p] = None
    BY <1>3 DEF AsMap
  <2>3. AsMap(v) = [AsMap(v) EXCEPT ![p] = None]
    BY <2>2 DEF AsMap
  <2>4. QED
    BY <2>1, <2>3
<1>4. QED
  BY <1>2, <1>3

(* FilterChange::apply, either way.                                        *)
LEMMA ApplyEditEffect ==
  ASSUME NEW v, VecOK(v), NEW e \in Edits
  PROVE  /\ VecOK(ApplyEdit(v, e))
         /\ AsMap(ApplyEdit(v, e)) = SetEntry(AsMap(v), e)
<1>1. CASE e.op = "Insert"
  <2>1. e.pid \in Pids /\ e.h \in Handlers
    BY <1>1 DEF Edits
  <2>2. QED
    BY <1>1, <2>1, VecInsertEffect DEF ApplyEdit, SetEntry
<1>2. CASE e.op # "Insert"
  <2>1. e.pid \in Pids /\ e.h = None
    BY <1>2 DEF Edits
  <2>2. QED
    BY <1>2, <2>1, VecRemoveEffect DEF ApplyEdit, SetEntry
<1>3. QED
  BY <1>1, <1>2

-----------------------------------------------------------------------------
(* The drain of FilterChangeset::apply, edit by edit.                      *)

(* The states of the vector along the drain: the recursive function of     *)
(* DrainInto, and the first n edits of the log.                            *)
Drained(v, cs) ==
  CHOOSE g : g = [k \in 0..Len(cs) |-> IF k = 0 THEN v ELSE ApplyEdit(g[k - 1], cs[k])]
Prefix(cs, n) == [j \in 1..n |-> cs[j]]

LEMMA DrainedDef ==
  ASSUME NEW v, NEW cs \in Seq(Edits)
  PROVE  /\ Drained(v, cs) = [k \in 0..Len(cs) |->
                                IF k = 0 THEN v ELSE ApplyEdit(Drained(v, cs)[k - 1], cs[k])]
         /\ DrainInto(v, cs) = Drained(v, cs)[Len(cs)]
<1> DEFINE D(w, k) == ApplyEdit(w, cs[k])
<1>1. Len(cs) \in Nat
  OBVIOUS
<1>2. Drained(v, cs) = [k \in 0..Len(cs) |-> IF k = 0 THEN v ELSE D(Drained(v, cs)[k - 1], k)]
  <2> HIDE DEF D
  <2>1. FiniteNatInductiveDefHypothesis(Drained(v, cs), v, D, 0, Len(cs))
    BY DEF FiniteNatInductiveDefHypothesis, Drained, D
  <2>2. FiniteNatInductiveDefConclusion(Drained(v, cs), v, D, 0, Len(cs))
    BY <1>1, <2>1, FiniteNatInductiveDef
  <2>3. QED
    BY <2>2 DEF FiniteNatInductiveDefConclusion
<1>3. DrainInto(v, cs) = Drained(v, cs)[Len(cs)]
  BY DEF DrainInto, Drained
<1>4. QED
  BY <1>2, <1>3

(* An edit log one edit longer: its last edit sets its PID's entry, every  *)
(* other entry is what the shorter log left.                               *)
LEMMA ApplyPrefixStep ==
  ASSUME NEW t \in [Pids -> Handlers \cup {None}], NEW cs \in Seq(Edits),
         NEW n \in 1..Len(cs)
  PROVE  ApplyChangeset(t, Prefix(cs, n)) = SetEntry(ApplyChangeset(t, Prefix(cs, n - 1)), cs[n])
<1> DEFINE A == Prefix(cs, n)
           B == Prefix(cs, n - 1)
           e == cs[n]
<1>1. e \in Edits /\ e.pid \in Pids /\ DOMAIN A = 1..n /\ DOMAIN B = 1..(n - 1)
      /\ \A j \in 1..n : A[j] = cs[j]
      /\ \A m \in 1..(n - 1) : B[m] = cs[m]
  BY DEF Prefix, Edits
<1>2. ApplyChangeset(t, B) \in [Pids -> Handlers \cup {None}]
  <2>1. \A j \in 1..(n - 1) : cs[j].h \in Handlers \cup {None}
    BY DEF Edits
  <2>2. QED
    BY <1>1, <2>1 DEF ApplyChangeset
<1> SUFFICES ASSUME NEW q \in Pids
             PROVE  ApplyChangeset(t, A)[q] = SetEntry(ApplyChangeset(t, B), e)[q]
  BY <1>2 DEF ApplyChangeset, SetEntry
(* The last edit of a PID, when there is one, is unique.                   *)
<1>3. \A j, k \in DOMAIN A : IsLastEdit(A, q, j) /\ IsLastEdit(A, q, k) => j = k
  BY <1>1 DEF IsLastEdit
<1>4. \A j, k \in DOMAIN B : IsLastEdit(B, q, j) /\ IsLastEdit(B, q, k) => j = k
  BY <1>1 DEF IsLastEdit
<1>5. CASE q = e.pid
  <2>1. IsLastEdit(A, q, n)
    BY <1>1, <1>5 DEF IsLastEdit
  <2>2. ApplyChangeset(t, A)[q] = e.h
    BY <1>1, <1>3, <2>1 DEF ApplyChangeset
  <2>3. SetEntry(ApplyChangeset(t, B), e)[q] = e.h
    BY <1>2, <1>5 DEF SetEntry
  <2>4. QED
    BY <2>2, <2>3
<1>6. CASE q # e.pid
  <2>1. SetEntry(ApplyChangeset(t, B), e)[q] = ApplyChangeset(t, B)[q]
    BY <1>2, <1>6 DEF SetEntry
  <2>2. \A k \in DOMAIN A : IsLastEdit(A, q, k) <=> k \in DOMAIN B /\ IsLastEdit(B, q, k)
    BY <1>1, <1>6 DEF IsLastEdit
  <2>3. CASE \E k \in DOMAIN B : IsLastEdit(B, q, k)
    <3>1. PICK k \in DOMAIN B : IsLastEdit(B, q, k)
      BY <2>3
    <3>2. k \in DOMAIN A /\ IsLastEdit(A, q, k) /\ A[k] = B[k]
      BY <1>1, <2>2, <3>1
    <3>3. ApplyChangeset(t, A)[q] = A[k].h
      BY <1>3, <3>2 DEF ApplyChangeset
    <3>4. ApplyChangeset(t, B)[q] = B[k].h
      BY <1>4, <3>1 DEF ApplyChangeset
    <3>5. QED
      BY <2>1, <3>2, <3>3, <3>4
  <2>4. CASE ~\E k \in DOMAIN B : IsLastEdit(B, q, k)
    <3>1. ~\E k \in DOMAIN A : IsLastEdit(A, q, k)
      BY <2>2, <2>4
    <3>2. QED
      BY <2>1, <2>4, <3>1 DEF ApplyChangeset
  <2>5. QED
    BY <2>3, <2>4
<1>7. QED
  BY <1>5, <1>6

(* What contains/get present of a well-formed vector is a PID map.         *)
LEMMA AsMapType ==
  ASSUME NEW v, VecOK(v)
  PROVE  AsMap(v) \in [Pids -> Handlers \cup {None}]
<1>1. \A p \in Pids : p \in Nat
  BY FiltersVecAssumption
<1>2. QED
  BY <1>1 DEF VecOK, Slots, AsMap

(* Draining an empty log changes no entry.                                 *)
LEMMA ApplyNothing ==
  ASSUME NEW t \in [Pids -> Handlers \cup {None}], NEW cs
  PROVE  ApplyChangeset(t, Prefix(cs, 0)) = t
BY DEF ApplyChangeset, Prefix, IsLastEdit

(* FilterChangeset::apply, run edit by edit on the vector, has the effect  *)
(* of the whole log applied last-edit-wins to the map the vector presents, *)
(* and leaves the vector well formed.                                      *)
LEMMA DrainCorrect ==
  ASSUME NEW v, VecOK(v), NEW cs \in Seq(Edits)
  PROVE  /\ VecOK(DrainInto(v, cs))
         /\ AsMap(DrainInto(v, cs)) = ApplyChangeset(AsMap(v), cs)
(* By a least counterexample: a first edit n whose prefix the drain gets  *)
(* wrong follows a prefix n - 1 that it gets right, which ApplyEditEffect  *)
(* and ApplyPrefixStep rule out.                                           *)
<1> DEFINE g == Drained(v, cs)
           P(n) == /\ VecOK(g[n])
                   /\ AsMap(g[n]) = ApplyChangeset(AsMap(v), Prefix(cs, n))
           Bad == {n \in 0..Len(cs) : ~P(n)}
<1>1. g = [k \in 0..Len(cs) |-> IF k = 0 THEN v ELSE ApplyEdit(g[k - 1], cs[k])]
      /\ DrainInto(v, cs) = g[Len(cs)]
  BY DrainedDef
<1>2. P(0)
  <2>1. g[0] = v
    BY <1>1
  <2>2. AsMap(v) \in [Pids -> Handlers \cup {None}]
    BY AsMapType
  <2>3. ApplyChangeset(AsMap(v), Prefix(cs, 0)) = AsMap(v)
    BY <2>2, ApplyNothing
  <2>4. QED
    BY <2>1, <2>3
<1>3. ASSUME NEW n \in 1..Len(cs), P(n - 1) PROVE P(n)
  <2>1. g[n] = ApplyEdit(g[n - 1], cs[n])
    BY <1>1
  <2>2. VecOK(g[n - 1]) /\ AsMap(g[n - 1]) = ApplyChangeset(AsMap(v), Prefix(cs, n - 1))
    BY <1>3
  <2>3. cs[n] \in Edits
    OBVIOUS
  <2>4. VecOK(g[n]) /\ AsMap(g[n]) = SetEntry(AsMap(g[n - 1]), cs[n])
    BY <2>1, <2>2, <2>3, ApplyEditEffect
  <2>5. ApplyChangeset(AsMap(v), Prefix(cs, n))
          = SetEntry(ApplyChangeset(AsMap(v), Prefix(cs, n - 1)), cs[n])
    BY AsMapType, ApplyPrefixStep
  <2>6. QED
    BY <2>2, <2>4, <2>5
<1>4. Bad = {}
  <2> SUFFICES ASSUME Bad # {} PROVE FALSE
    OBVIOUS
  <2> HIDE DEF P
  <2>1. Bad \subseteq Nat
    OBVIOUS
  <2>2. PICK x \in Bad : \A y \in Bad : ~(<<y, x>> \in OpToRel(<, Nat))
    BY <2>1, NatLessThanWellFounded, WFMin
  <2>3. x \in 0..Len(cs) /\ ~P(x)
    BY <2>2
  <2>4. x \in 1..Len(cs) /\ x - 1 \in 0..Len(cs)
    BY <1>2, <2>3
  <2>5. <<x - 1, x>> \in OpToRel(<, Nat)
    <3>1. <<x - 1, x>> \in Nat \X Nat /\ x - 1 < x
      BY <2>4
    <3>2. QED
      BY <3>1 DEF OpToRel
  <2>6. P(x - 1)
    BY <2>2, <2>4, <2>5
  <2>7. P(x)
    BY <2>4, <2>6, <1>3
  <2>8. QED
    BY <2>3, <2>7
<1>5. Prefix(cs, Len(cs)) = cs
  BY DEF Prefix
<1>6. QED
  BY <1>1, <1>4, <1>5

-----------------------------------------------------------------------------
(* The specification.                                                      *)

(* AsMap of the empty vector, the one Filters::default starts from.        *)
LEMMA AsMapEmpty == AsMap(<<>>) = [p \in Pids |-> None]
BY FiltersVecAssumption DEF AsMap

(* Every operation on the filter table keeps a vector of at most MaxPid+1  *)
(* slots holding a handler or None, and a log of well-formed edits: the    *)
(* growth of Filters::insert stops at the PID it writes.                   *)
LEMMA TypeStep == TypeOK /\ [Next]_<<vec, updates>> => TypeOK'
<1> SUFFICES ASSUME TypeOK, [Next]_<<vec, updates>> PROVE TypeOK'
  OBVIOUS
<1>1. VecOK(vec)
  BY DEF TypeOK, VecOK, Slots
<1> USE DEF TypeOK, VecOK, Slots
<1>2. ASSUME NEW p \in Pids, NEW h \in Handlers, Insert(p, h) PROVE TypeOK'
  BY <1>1, <1>2, VecInsertEffect DEF Insert
<1>3. ASSUME NEW p \in Pids, NEW h \in Handlers, ChangesetInsert(p, h) PROVE TypeOK'
  BY <1>3 DEF ChangesetInsert, Edits
<1>4. ASSUME NEW p \in Pids, ChangesetRemove(p) PROVE TypeOK'
  BY <1>4 DEF ChangesetRemove, Edits
<1>5. ASSUME Apply PROVE TypeOK'
  BY <1>1, <1>5, DrainCorrect DEF Apply
<1>6. CASE UNCHANGED <<vec, updates>>
  BY <1>6
<1>7. QED
  BY <1>2, <1>3, <1>4, <1>5, <1>6 DEF Next

(* Type correctness of the Vec table: TypeOK holds in every state.         *)
THEOREM VecTypeCorrect == Spec => []TypeOK
<1>1. Init => TypeOK
  BY FiltersVecAssumption DEF Init, TypeOK
<1>2. QED
  BY <1>1, TypeStep, PTL DEF Spec

(* Every step of the Vec table, read through Filters::contains/get, is a   *)
(* step of the abstract map or leaves it alone: Filters::insert is a       *)
(* direct insert, FilterChangeset::insert/remove enqueue an edit, and      *)
(* FilterChangeset::apply is the last-edit-wins drain.                     *)
LEMMA RefinementStep ==
  TypeOK /\ [Next]_<<vec, updates>> => [Abstract!Next]_<<AsMap(vec), updates>>
<1> SUFFICES ASSUME TypeOK, [Next]_<<vec, updates>>
             PROVE  [Abstract!Next]_<<AsMap(vec), updates>>
  OBVIOUS
<1>1. VecOK(vec)
  BY DEF TypeOK, VecOK, Slots
<1>2. ASSUME NEW p \in Pids, NEW h \in Handlers, Insert(p, h)
      PROVE  Abstract!DirectInsert(p, h)
  <2>1. AsMap(vec') = [AsMap(vec) EXCEPT ![p] = h]
    BY <1>1, <1>2, VecInsertEffect DEF Insert
  <2>2. QED
    BY <1>2, <2>1 DEF Insert, Abstract!DirectInsert, Abstract!InsertFilter
<1>3. ASSUME NEW p \in Pids, NEW h \in Handlers, ChangesetInsert(p, h)
      PROVE  \E e \in Abstract!Edits : Abstract!Enqueue(e)
  BY <1>3 DEF ChangesetInsert, Abstract!Edits, Abstract!Enqueue
<1>4. ASSUME NEW p \in Pids, ChangesetRemove(p)
      PROVE  \E e \in Abstract!Edits : Abstract!Enqueue(e)
  BY <1>4 DEF ChangesetRemove, Abstract!Edits, Abstract!Enqueue
<1>5. ASSUME Apply PROVE Abstract!Drain
  <2>1. AsMap(vec') = ApplyChangeset(AsMap(vec), updates)
    BY <1>1, <1>5, DrainCorrect DEF Apply, TypeOK
  <2>2. QED
    BY <1>5, <2>1 DEF Apply, Abstract!Drain, Abstract!ApplyChangeset, ApplyChangeset,
                      Abstract!IsLastEdit, IsLastEdit
<1>6. CASE UNCHANGED <<vec, updates>>
  BY <1>6
<1>7. QED
  BY <1>2, <1>3, <1>4, <1>5, <1>6 DEF Next, Abstract!Next

(* Filters with FilterChangeset implement the abstract filter table: the   *)
(* Vec representation, read through contains/get, never shows a map the    *)
(* abstract specification could not reach.                                 *)
THEOREM VecRefinement == Spec => ImplementsAbstractFilters
<1>1. Init => Abstract!Init
  BY AsMapEmpty DEF Init, Abstract!Init
<1>2. QED
  BY <1>1, RefinementStep, VecTypeCorrect, PTL DEF Spec, ImplementsAbstractFilters, Abstract!Spec
=============================================================================
