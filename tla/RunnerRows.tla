------------------------------ MODULE RunnerRows ------------------------------
(* The rows of the store as sets of records, and what calls make of them.     *)
CONSTANT Runners     \* records with an id, a name and a container (its name)

Ids == {r.id : r \in Runners}

\* List stands for every call that only reads: Get, List, Readable.
List == [op |-> "list"]
Calls == [op : {"add", "update"}, runner : Runners] \cup [op : {"delete"}, id : Ids] \cup {List}

Done == [kind |-> "done"]
NotFound == [kind |-> "notfound"]
Conflict == [kind |-> "conflict"]
Failed == [kind |-> "failed"]        \* the file cannot be read or written
Listed(rows) == [kind |-> "rows", rows |-> rows]
Answers == {Done, NotFound, Conflict, Failed} \cup {Listed(rows) : rows \in SUBSET Runners}

Others(rows, id) == {r \in rows : r.id # id}

\* What a call makes of the rows, when it can.
After(rows, q) ==
  CASE q.op = "add"    -> rows \cup {q.runner}
    [] q.op = "update" -> Others(rows, q.runner.id) \cup {q.runner}
    [] q.op = "delete" -> Others(rows, q.id)
    [] q.op = "list"   -> rows

\* The runner is there that a call is to update or to delete.
Found(rows, q) ==
  /\ q.op = "update" => \E r \in rows : r.id = q.runner.id
  /\ q.op = "delete" => \E r \in rows : r.id = q.id

\* An id, a name or a container belongs to one runner.
Unique(rows) ==
  \A r, s \in rows : r.id = s.id \/ r.name = s.name \/ r.container = s.container => r = s

===============================================================================
