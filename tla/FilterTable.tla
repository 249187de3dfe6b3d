---------------------------- MODULE FilterTable ----------------------------
(***************************************************************************)
(* The filter table of src/demultiplex.rs (Filters) seen as a map from PID *)
(* to a handler or None, and the effect on it of draining a changeset      *)
(* (FilterChangeset::apply).  Demux works on this view; FiltersVec shows   *)
(* that the Vec<Option<F>> implementation refines it.                      *)
(***************************************************************************)
EXTENDS Naturals, Sequences

CONSTANT None   \* an empty slot / no handler

(* Filters::contains and Filters::insert.                                  *)
Contains(t, p) == t[p] # None
InsertFilter(t, p, h) == [t EXCEPT ![p] = h]

(* An edit of the log is a record [op, pid, h]: h is the filter of an      *)
(* Insert and None for a Remove, which is what FilterChange::apply stores  *)
(* in the slot (Some(filter) or None).  Draining the log in order leaves   *)
(* each slot with the value of the last edit naming its PID.               *)
IsLastEdit(cs, p, k) ==
  /\ cs[k].pid = p
  /\ \A j \in DOMAIN cs : cs[j].pid = p => j <= k

ApplyChangeset(t, cs) ==
  [p \in DOMAIN t |->
     IF \E k \in DOMAIN cs : IsLastEdit(cs, p, k)
       THEN cs[CHOOSE k \in DOMAIN cs : IsLastEdit(cs, p, k)].h
       ELSE t[p]]
=============================================================================
