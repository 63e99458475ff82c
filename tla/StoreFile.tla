------------------------------ MODULE StoreFile -------------------------------
(******************************************************************************)
(* Store (internal/store/store.go): each call reads runners.json under one    *)
(* mutex; a change writes it anew beside the old one, syncs and renames.  The *)
(* process can end and the power can fail at every step.                      *)
(******************************************************************************)
EXTENDS RunnerRows, Integers

CONSTANTS
  Callers,     \* goroutines of the manager
  None,
  MaxFaults    \* system calls that fail, ends of the process, power losses

ASSUME NoneAssumption == None \notin Callers \cup Calls \cup Answers
ASSUME BoundAssumption == MaxFaults \in Nat

VARIABLES
  file,        \* runners.json
  tmp,         \* runners.json.tmp: its rows, and whether it is synced; or None
  durable,     \* what a power loss may leave of runners.json
  mu,          \* who has Store.mu, or None
  pc,          \* caller -> next step
  call,        \* caller -> its call, or None
  data,        \* caller -> the rows that it is to write, or None
  answer,      \* caller -> what it is to return, or None
  used,        \* ids that are or were somebody's
  faults

disk == <<file, tmp, durable>>
vars == <<disk, mu, pc, call, data, answer, used, faults>>

\* A file as load sees it; one that is absent or empty has no rows.
Absent == [version |-> "current", rows |-> {}]
Garbled == [version |-> "bad", rows |-> {}]

\* Slip: the version is not compared.
ReadableAnyVersion == file.version # "bad"

\* The schema version is one that this program knows.
Readable == file.version \in {"old", "current"}

IdsOf(rows) == {r.id : r \in rows}

Init ==
  /\ file \in [version : {"old", "current", "newer"}, rows : SUBSET Runners] \cup {Garbled}
  /\ Unique(file.rows) /\ durable = {file} /\ tmp = None
  /\ mu = None
  /\ pc = [c \in Callers |-> "idle"] /\ call = [c \in Callers |-> None]
  /\ data = [c \in Callers |-> None] /\ answer = [c \in Callers |-> None]
  /\ used = IdsOf(file.rows)
  /\ faults = 0

Fault == faults < MaxFaults /\ faults' = faults + 1
Goto(c, label) == pc' = [pc EXCEPT ![c] = label]

--------------------------------------------------------------------------------
(* A call.                                                                    *)

\* The manager calls; a runner that it adds has an id of its own (a UUID).
Ask(c) ==
  /\ pc[c] = "idle"
  /\ \E q \in Calls :
       /\ q.op = "add" => q.runner.id \notin used
       /\ call' = [call EXCEPT ![c] = q]
       /\ used' = IF q.op = "add" THEN used \cup {q.runner.id} ELSE used
  /\ Goto(c, "lock")
  /\ UNCHANGED <<disk, mu, data, answer, faults>>

Lock(c) ==
  /\ pc[c] = "lock" /\ mu = None
  /\ mu' = c /\ Goto(c, "load")
  /\ UNCHANGED <<disk, call, data, answer, used, faults>>

\* What the call returns, when it has unlocked.
Answer(c, a) == Goto(c, "unlock") /\ answer' = [answer EXCEPT ![c] = a]

\* Another runner has the name or the container.
Clash(rows, r) == \E other \in rows : other.name = r.name \/ other.container = r.container

\* Slip: only names are compared.
TakenByName(q) ==
  \/ q.op = "add" /\ \E other \in file.rows : other.name = q.runner.name
  \/ q.op = "update" /\ \E other \in Others(file.rows, q.runner.id) : other.name = q.runner.name

\* The loops of Add and Update.
Taken(q) ==
  \/ q.op = "add" /\ Clash(file.rows, q.runner)
  \/ q.op = "update" /\ Clash(Others(file.rows, q.runner.id), q.runner)

\* A file that is newer, does not parse, or cannot be read.
LoadFails(c) ==
  /\ pc[c] = "load"
  /\ (~ Readable /\ UNCHANGED faults) \/ Fault
  /\ Answer(c, Failed)
  /\ UNCHANGED <<disk, mu, call, data, used>>

LoadList(c) ==
  /\ pc[c] = "load" /\ Readable /\ call[c] = List
  /\ Answer(c, Listed(file.rows))
  /\ UNCHANGED <<disk, mu, call, data, used, faults>>

Reject(c) ==
  /\ pc[c] = "load" /\ Readable /\ call[c] # List
  /\ \/ ~ Found(file.rows, call[c]) /\ Answer(c, NotFound)
     \/ Found(file.rows, call[c]) /\ Taken(call[c]) /\ Answer(c, Conflict)
  /\ UNCHANGED <<disk, mu, call, data, used, faults>>

Change(c) ==
  /\ pc[c] = "load" /\ Readable /\ call[c] # List
  /\ Found(file.rows, call[c]) /\ ~ Taken(call[c])
  /\ data' = [data EXCEPT ![c] = After(file.rows, call[c])]
  /\ Goto(c, "write")
  /\ UNCHANGED <<disk, mu, call, answer, used, faults>>

--------------------------------------------------------------------------------
(* save.                                                                      *)

\* OpenFile truncates what an earlier save may have left.
Write(c) ==
  /\ pc[c] = "write"
  /\ tmp' = [rows |-> data[c], synced |-> FALSE]
  /\ Goto(c, "sync")
  /\ UNCHANGED <<file, durable, mu, call, data, answer, used, faults>>

\* Slip: the file is not synced before the rename.
SyncNothing(c) ==
  /\ pc[c] = "sync" /\ Goto(c, "rename")
  /\ UNCHANGED <<disk, mu, call, data, answer, used, faults>>

Sync(c) ==
  /\ pc[c] = "sync"
  /\ tmp' = [tmp EXCEPT !.synced = TRUE]
  /\ Goto(c, "rename")
  /\ UNCHANGED <<file, durable, mu, call, data, answer, used, faults>>

\* A write, a sync or a rename that fails; what it leaves in tmp nobody reads.
SaveFails(c) ==
  /\ pc[c] \in {"write", "sync", "rename"} /\ Fault
  /\ Answer(c, Failed)
  /\ UNCHANGED <<disk, mu, call, data, used>>

\* The new file, and what of it survives a power loss until the folder is synced:
\* the old one or the new, and without a sync of the new one nothing or a part.
Rename(c) ==
  /\ pc[c] = "rename"
  /\ LET new == [version |-> "current", rows |-> tmp.rows]
     IN  /\ file' = new
         /\ durable' = durable \cup {new} \cup (IF tmp.synced THEN {} ELSE {Absent, Garbled})
  /\ tmp' = None
  /\ answer' = [answer EXCEPT ![c] = Done] /\ Goto(c, "syncdir")
  /\ UNCHANGED <<mu, call, data, used, faults>>

\* Best effort.
SyncDir(c) ==
  /\ pc[c] = "syncdir"
  /\ \/ durable' = {file} /\ UNCHANGED faults
     \/ Fault /\ UNCHANGED durable
  /\ Goto(c, "unlock")
  /\ UNCHANGED <<file, tmp, mu, call, data, answer, used>>

Unlock(c) ==
  /\ pc[c] = "unlock"
  /\ mu' = None /\ Goto(c, "idle")
  /\ call' = [call EXCEPT ![c] = None] /\ data' = [data EXCEPT ![c] = None]
  /\ answer' = [answer EXCEPT ![c] = None]
  /\ UNCHANGED <<disk, used, faults>>

--------------------------------------------------------------------------------
(* The process and the machine.                                               *)

Gone ==
  /\ mu' = None
  /\ pc' = [c \in Callers |-> "idle"] /\ call' = [c \in Callers |-> None]
  /\ data' = [c \in Callers |-> None] /\ answer' = [c \in Callers |-> None]

Crash == Fault /\ Gone /\ UNCHANGED <<disk, used>>

PowerLoss ==
  /\ Fault /\ Gone
  /\ file' \in durable /\ durable' = {file'} /\ tmp' = None
  /\ UNCHANGED used

Step(c) ==
  \/ LoadFails(c) \/ LoadList(c) \/ Reject(c) \/ Change(c)
  \/ Write(c) \/ Sync(c) \/ SaveFails(c) \/ Rename(c) \/ SyncDir(c) \/ Unlock(c)

Next ==
  \/ \E c \in Callers : Ask(c) \/ Lock(c) \/ Step(c)
  \/ Crash \/ PowerLoss

Spec == Init /\ [][Next]_vars

--------------------------------------------------------------------------------
(* What holds at each step.                                                   *)

Saving == {"write", "sync", "rename"}
InCall == Saving \cup {"load", "syncdir", "unlock"}

TypeOK ==
  /\ file \in [version : {"old", "current", "newer", "bad"}, rows : SUBSET Runners]
  /\ tmp \in [rows : SUBSET Runners, synced : BOOLEAN] \cup {None}
  /\ durable \subseteq [version : {"old", "current", "newer", "bad"}, rows : SUBSET Runners]
  /\ mu \in Callers \cup {None}
  /\ pc \in [Callers -> {"idle", "lock"} \cup InCall]
  /\ call \in [Callers -> Calls \cup {None}]
  /\ data \in [Callers -> {None} \cup SUBSET Runners]
  /\ answer \in [Callers -> Answers \cup {None}]
  /\ used \subseteq Ids
  /\ faults \in 0 .. MaxFaults

\* store.go:14 - whatever is read back, also after a power loss, has no id, name or
\* container twice.
UniqueRows == \A f \in durable : Unique(f.rows)

\* A caller in a call has the mutex, and until its rename the file is as it has
\* read it.
InStep(c) ==
  /\ mu = c <=> pc[c] \in InCall
  /\ call[c] = None <=> pc[c] = "idle"
  /\ answer[c] # None <=> pc[c] \in {"syncdir", "unlock"}
  /\ pc[c] \in Saving => /\ Readable /\ call[c] # List
                         /\ Found(file.rows, call[c]) /\ ~ Taken(call[c])
                         /\ data[c] = After(file.rows, call[c])
  /\ pc[c] \in {"sync", "rename"} => tmp = [rows |-> data[c], synced |-> pc[c] = "rename"]

LockInv == \A c \in Callers : InStep(c)

Adds(c) == call[c] # None /\ call[c].op = "add"

\* The id that an add brings is in no other add, and in no file before its rename.
IdInv ==
  /\ \A f \in durable : IdsOf(f.rows) \subseteq used
  /\ \A c \in Callers : Adds(c) =>
       /\ call[c].runner.id \in used
       /\ \A d \in Callers \ {c} : Adds(d) => call[d].runner.id # call[c].runner.id
       /\ answer[c] = None => \A f \in durable : call[c].runner.id \notin IdsOf(f.rows)

\* Only files that were read with success are replaced.
DiskInv ==
  /\ file \in durable
  /\ \A f \in durable : f.version \in {"newer", "bad"} => durable = {f}

\* store.go:59 - rows are unique on whatever disk a power loss leaves, one caller at a
\* time has the mutex, and what it is to write fits the file that it will replace.
StoreInv == TypeOK /\ UniqueRows /\ LockInv /\ IdInv /\ DiskInv

\* store.go:95 - a file of a newer version, or one that does not parse, stays as it
\* is, whatever is called and whenever the power fails.
ForeignKept == [][file.version \in {"newer", "bad"} => UNCHANGED file]_vars

\* store.go:101 - for the manager the file is a set of rows that changes at once.
Promise ==
  INSTANCE RunnerStore
    WITH stored <- file.rows, kept <- {f.rows : f \in durable}
KeepsPromise == Promise!Spec

===============================================================================
