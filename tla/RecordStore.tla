----------------------------- MODULE RecordStore -----------------------------
(* What storage promises of one record: writes replace it, updates change    *)
(* what is there, each at once, and a removal may be undone by an update     *)
(* that began before it.  A value is the set of those who contributed to it. *)
CONSTANTS Procs, Absent

VARIABLES
  op,       \* what each process does to the record
  record,   \* the record's value, or Absent
  removed   \* what the last removal removed

Init == record \in {Absent, {}} /\ removed = Absent

Put(p) ==
  /\ op[p] = "write"
  /\ record' = {p}
  /\ UNCHANGED removed
Change(p) ==
  /\ op[p] = "update" /\ record # Absent
  /\ record' = record \cup {p}
  /\ UNCHANGED removed
Revive(p) ==
  /\ op[p] = "update" /\ record = Absent /\ removed # Absent
  /\ record' = removed \cup {p}
  /\ UNCHANGED removed
Remove(p) ==
  /\ op[p] = "remove" /\ record # Absent
  /\ record' = Absent /\ removed' = record

Next ==
  /\ \E p \in Procs : Put(p) \/ Change(p) \/ Revive(p) \/ Remove(p)
  /\ UNCHANGED op

Spec == Init /\ [][Next]_<<op, record, removed>>
=============================================================================
