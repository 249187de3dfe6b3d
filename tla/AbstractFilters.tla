-------------------------- MODULE AbstractFilters --------------------------
(***************************************************************************)
(* What the filter table and its changeset promise (spec 4.1, 4.2): a map  *)
(* from PID to a handler or None, written directly by insert, and a log   *)
(* of Insert/Remove edits that a drain applies in order and empties.      *)
(***************************************************************************)
EXTENDS FilterTable

CONSTANTS Pids, Handlers

VARIABLES table, log

Edits == [op : {"Insert"}, pid : Pids, h : Handlers]
           \cup [op : {"Remove"}, pid : Pids, h : {None}]

Init == table = [p \in Pids |-> None] /\ log = <<>>

DirectInsert(p, h) == table' = InsertFilter(table, p, h) /\ UNCHANGED log

Enqueue(e) == log' = Append(log, e) /\ UNCHANGED table

Drain == table' = ApplyChangeset(table, log) /\ log' = <<>>

Next ==
  \/ \E p \in Pids, h \in Handlers : DirectInsert(p, h)
  \/ \E e \in Edits : Enqueue(e)
  \/ Drain

Spec == Init /\ [][Next]_<<table, log>>
=============================================================================
