----------------------------- MODULE FiltersVec -----------------------------
(***************************************************************************)
(* Filters and FilterChangeset of src/demultiplex.rs as the code keeps     *)
(* them: a Vec<Option<F>> indexed by PID that grows on insert and never    *)
(* shrinks, and a Vec of FilterChange drained in order into it.            *)
(***************************************************************************)
EXTENDS Integers, Sequences, FilterTable

CONSTANTS
  Pids,      \* the PIDs inserted and removed
  Handlers,  \* the filter values (model values)
  MaxPid,    \* the largest PID (0x1FFF in the code)
  MaxLog     \* most edits queued before a drain

ASSUME FiltersVecAssumption ==
  /\ MaxPid \in Nat
  /\ Pids \subseteq 0..MaxPid
  /\ None \notin Handlers
  /\ MaxLog \in Nat

VARIABLES
  vec,      \* Filters.filters_by_pid; vec[p + 1] is the slot of PID p
  updates   \* FilterChangeset.updates

Edits == [op : {"Insert"}, pid : Pids, h : Handlers]
           \cup [op : {"Remove"}, pid : Pids, h : {None}]

(* Filters::insert: push None diff + 1 times when the PID is at or past    *)
(* the end, then store the filter in the PID's slot.                       *)
VecInsertShort(v, p, h) ==
  LET diff == p - Len(v)
      grown == IF diff >= 0 THEN v \o [k \in 1..diff |-> None] ELSE v
  IN  [grown EXCEPT ![p + 1] = h]

VecInsertLong(v, p, h) ==
  LET diff == p - Len(v)
      grown == IF diff >= 0 THEN v \o [k \in 1..(diff + 2) |-> None] ELSE v
  IN  [grown EXCEPT ![p + 1] = h]

VecInsert(v, p, h) ==
  LET diff == p - Len(v)
      grown == IF diff >= 0 THEN v \o [k \in 1..(diff + 1) |-> None] ELSE v
  IN  [grown EXCEPT ![p + 1] = h]

(* Filters::remove: clear the slot when the PID is below the length.       *)
VecRemove(v, p) == IF p < Len(v) THEN [v EXCEPT ![p + 1] = None] ELSE v

(* FilterChange::apply.                                                    *)
ApplyEdit(v, e) == IF e.op = "Insert" THEN VecInsert(v, e.pid, e.h)
                                      ELSE VecRemove(v, e.pid)

(* FilterChangeset::apply: the edits of updates.drain(..), in order.       *)
DrainInto(v, cs) ==
  LET f[k \in 0..Len(cs)] == IF k = 0 THEN v ELSE ApplyEdit(f[k - 1], cs[k])
  IN  f[Len(cs)]

(* Filters::contains / Filters::get, as the map they present.              *)
AsMap(v) == [p \in Pids |-> IF p < Len(v) THEN v[p + 1] ELSE None]

Init == vec = <<>> /\ updates = <<>>

(* Filters::insert called directly (Demultiplex::new, autodiscovery).      *)
Insert(p, h) == vec' = VecInsert(vec, p, h) /\ UNCHANGED updates

(* FilterChangeset::insert and FilterChangeset::remove.                    *)
ChangesetInsert(p, h) ==
  /\ Len(updates) < MaxLog
  /\ updates' = Append(updates, [op |-> "Insert", pid |-> p, h |-> h])
  /\ UNCHANGED vec

ChangesetRemove(p) ==
  /\ Len(updates) < MaxLog
  /\ updates' = Append(updates, [op |-> "Remove", pid |-> p, h |-> None])
  /\ UNCHANGED vec

Apply == vec' = DrainInto(vec, updates) /\ updates' = <<>>

Next ==
  \/ \E p \in Pids, h \in Handlers : Insert(p, h)
  \/ \E p \in Pids, h \in Handlers : ChangesetInsert(p, h)
  \/ \E p \in Pids : ChangesetRemove(p)
  \/ Apply

Spec == Init /\ [][Next]_<<vec, updates>>

-----------------------------------------------------------------------------
(* The vector holds a filter or None per slot, and grows only as far as    *)
(* the PID space (spec 4.1: at most 8192 slots).                           *)
TypeOK ==
  /\ vec \in Seq(Handlers \cup {None})
  /\ Len(vec) <= MaxPid + 1
  /\ updates \in Seq(Edits)

(* The Vec implementation, read through contains/get, behaves as the      *)
(* abstract map: inserts land in the PID's slot however far the vector    *)
(* must grow, and a sequential drain of the log has the last-edit-wins     *)
(* effect the dispatcher model relies on.                                  *)
Abstract == INSTANCE AbstractFilters WITH table <- AsMap(vec), log <- updates
ImplementsAbstractFilters == Abstract!Spec
=============================================================================
