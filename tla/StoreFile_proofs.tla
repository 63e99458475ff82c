--------------------------- MODULE StoreFile_proofs ---------------------------
(******************************************************************************)
(* The file holds unique rows at every step and after every power loss, a     *)
(* file of another program is left alone, and StoreFile implements            *)
(* RunnerStore.  The caller that has the mutex finds the file at its rename   *)
(* as it has read it; all else follows from what its loop has checked then.   *)
(******************************************************************************)
EXTENDS StoreFile, TLAPS

--------------------------------------------------------------------------------
(* Rows and calls.                                                            *)

\* store.go:180 - a change makes rows of rows.
LEMMA AfterRows ==
  ASSUME NEW rows \in SUBSET Runners, NEW q \in Calls
  PROVE  After(rows, q) \in SUBSET Runners
BY DEF After, Calls, List, Others

\* store.go:180 - a change brings no id but that of its own runner.
LEMMA AfterIds ==
  ASSUME NEW rows \in SUBSET Runners, NEW q \in Calls, Found(rows, q)
  PROVE  /\ q.op = "add" => IdsOf(After(rows, q)) = IdsOf(rows) \cup {q.runner.id}
         /\ q.op # "add" => IdsOf(After(rows, q)) \subseteq IdsOf(rows)
<1>1. CASE q.op = "add"
  BY <1>1 DEF After, IdsOf
<1>2. CASE q.op = "update"
  BY <1>2 DEF After, IdsOf, Others, Found
<1>3. CASE q.op = "delete"
  BY <1>3 DEF After, IdsOf, Others
<1>4. CASE q.op = "list"
  BY <1>4 DEF After, IdsOf
<1>5. QED  BY <1>1, <1>2, <1>3, <1>4 DEF Calls, List

\* store.go:175, :196 - the loops of Add and Update let exactly those changes pass
\* after which the rows are still unique.
LEMMA LoopsKeepUnique ==
  ASSUME Unique(file.rows), file.rows \in SUBSET Runners,
         NEW q \in Calls, q # List, Found(file.rows, q),
         q.op = "add" => q.runner.id \notin IdsOf(file.rows)
  PROVE  ~ Taken(q) <=> Unique(After(file.rows, q))
<1>1. CASE q.op = "add"
  <2>1. Taken(q) <=> Clash(file.rows, q.runner)  BY <1>1 DEF Taken
  <2>2. After(file.rows, q) = file.rows \cup {q.runner}  BY <1>1 DEF After
  <2>3. \A r \in file.rows : r.id # q.runner.id /\ r # q.runner
    BY <1>1 DEF IdsOf
  <2>4. QED  BY <2>1, <2>2, <2>3 DEF Unique, Clash
<1>2. CASE q.op = "update"
  <2>1. Taken(q) <=> Clash(Others(file.rows, q.runner.id), q.runner)  BY <1>2 DEF Taken
  <2>2. After(file.rows, q) = Others(file.rows, q.runner.id) \cup {q.runner}
    BY <1>2 DEF After
  <2>3. \A r \in Others(file.rows, q.runner.id) : r.id # q.runner.id /\ r # q.runner
    BY DEF Others
  <2>4. Unique(Others(file.rows, q.runner.id))  BY DEF Unique, Others
  <2>5. QED  BY <2>1, <2>2, <2>3, <2>4 DEF Unique, Clash
<1>3. CASE q.op = "delete"
  BY <1>3 DEF Taken, After, Others, Unique
<1>4. QED  BY <1>1, <1>2, <1>3 DEF Calls, List

\* store.go:13 - what a call can return.
LEMMA AnswersTyped ==
  /\ {Done, NotFound, Conflict, Failed} \subseteq Answers
  /\ \A rows \in SUBSET Runners : Listed(rows) \in Answers
BY DEF Answers

--------------------------------------------------------------------------------
(* Types.                                                                     *)

\* store.go:101 - every step keeps the types: a caller writes rows, and answers with
\* what its call can return.
LEMMA NextType == TypeOK /\ LockInv /\ [Next]_vars => TypeOK'
<1> SUFFICES ASSUME TypeOK, LockInv, [Next]_vars PROVE TypeOK'
  OBVIOUS
<1> USE DEF TypeOK, InCall, Saving, Goto
<1>1. ASSUME NEW c \in Callers, Ask(c) PROVE TypeOK'
  <2>1. PICK q \in Calls : /\ call' = [call EXCEPT ![c] = q]
                           /\ used' = IF q.op = "add" THEN used \cup {q.runner.id} ELSE used
    BY <1>1 DEF Ask
  <2>2. q.op = "add" => q.runner.id \in Ids  BY DEF Calls, List, Ids
  <2>3. QED  BY <1>1, <2>1, <2>2 DEF Ask, disk
<1>2. ASSUME NEW c \in Callers, Lock(c) PROVE TypeOK'
  BY <1>2 DEF Lock, disk
<1>3. ASSUME NEW c \in Callers, NEW a \in Answers, Answer(c, a),
             UNCHANGED <<disk, mu, call, data, used>>, faults' \in 0 .. MaxFaults
      PROVE TypeOK'
  BY <1>3 DEF Answer, disk
<1>4. ASSUME NEW c \in Callers, LoadFails(c) \/ SaveFails(c) PROVE TypeOK'
  BY <1>3, <1>4, BoundAssumption, AnswersTyped DEF LoadFails, SaveFails, Fault
<1>5. ASSUME NEW c \in Callers, LoadList(c) \/ Reject(c) PROVE TypeOK'
  BY <1>3, <1>5, AnswersTyped DEF LoadList, Reject
<1>6. ASSUME NEW c \in Callers, Change(c) PROVE TypeOK'
  <2>1. call[c] \in Calls  BY <1>6 DEF Change, LockInv, InStep
  <2>2. After(file.rows, call[c]) \in SUBSET Runners  BY <2>1, AfterRows
  <2>3. QED  BY <1>6, <2>2 DEF Change, disk
<1>7. ASSUME NEW c \in Callers, Write(c) PROVE TypeOK'
  <2>1. data[c] \in SUBSET Runners
    <3>1. call[c] \in Calls /\ data[c] = After(file.rows, call[c])
      BY <1>7 DEF Write, LockInv, InStep
    <3>2. QED  BY <3>1, AfterRows
  <2>2. QED  BY <1>7, <2>1 DEF Write
<1>8. ASSUME NEW c \in Callers, Sync(c) PROVE TypeOK'
  <2>1. tmp \in [rows : SUBSET Runners, synced : BOOLEAN]
    <3>1. call[c] \in Calls /\ data[c] = After(file.rows, call[c]) /\ tmp = [rows |-> data[c], synced |-> FALSE]
      BY <1>8 DEF Sync, LockInv, InStep
    <3>2. QED  BY <3>1, AfterRows
  <2>2. QED  BY <1>8, <2>1 DEF Sync
<1>9. ASSUME NEW c \in Callers, Rename(c) PROVE TypeOK'
  <2>1. tmp.rows \in SUBSET Runners
    <3>1. call[c] \in Calls /\ data[c] = After(file.rows, call[c]) /\ tmp = [rows |-> data[c], synced |-> TRUE]
      BY <1>9 DEF Rename, LockInv, InStep
    <3>2. QED  BY <3>1, AfterRows
  <2>2. QED  BY <1>9, <2>1, AnswersTyped DEF Rename, Absent, Garbled
<1>10. ASSUME NEW c \in Callers, SyncDir(c) PROVE TypeOK'
  BY <1>10, BoundAssumption DEF SyncDir, Fault
<1>11. ASSUME NEW c \in Callers, Unlock(c) PROVE TypeOK'
  BY <1>11 DEF Unlock, disk
<1>12. CASE Crash
  BY <1>12, BoundAssumption DEF Crash, Gone, Fault, disk
<1>13. CASE PowerLoss
  BY <1>13, BoundAssumption DEF PowerLoss, Gone, Fault
<1>14. CASE UNCHANGED vars
  BY <1>14 DEF vars, disk
<1>15. QED
  BY <1>1, <1>2, <1>3, <1>4, <1>5, <1>6, <1>7, <1>8, <1>9, <1>10, <1>11, <1>12, <1>13, <1>14
  DEF Next, Step

--------------------------------------------------------------------------------
(* The mutex.                                                                 *)

\* store.go:142 - while one caller has the mutex, the others are outside of their
\* calls, and what it does to the file is nothing to them.
LEMMA OthersOutside ==
  ASSUME TypeOK, LockInv, NEW c \in Callers, mu = c, mu' \in {c, None},
         \A d \in Callers \ {c} :
           pc'[d] = pc[d] /\ call'[d] = call[d] /\ answer'[d] = answer[d],
         InStep(c)'
  PROVE  LockInv'
<1>1. ASSUME NEW d \in Callers \ {c} PROVE InStep(d)'
  <2>1. pc[d] \notin InCall /\ InStep(d)
    BY DEF LockInv, InStep
  <2>2. mu' # d
    BY NoneAssumption
  <2>3. QED  BY <1>1, <2>1, <2>2 DEF InStep, InCall, Saving
<1>2. QED  BY <1>1 DEF LockInv

\* store.go:142 - the caller in a call has the mutex at each of its steps.
LEMMA StepHasMutex ==
  ASSUME LockInv, NEW c \in Callers, Step(c)
  PROVE  mu = c
BY DEF LockInv, InStep, Step, LoadFails, LoadList, Reject, Change, Write, Sync, SaveFails,
       Rename, SyncDir, Unlock, InCall, Saving

\* store.go:101 - the steps of a call: what load has checked holds until the rename,
\* and what is renamed is what was written, after its sync.
LEMMA StepLock ==
  ASSUME TypeOK, LockInv, NEW c \in Callers, Step(c)
  PROVE  LockInv'
<1> USE DEF Goto, InCall, Saving
<1>1. mu = c /\ InStep(c)
  BY StepHasMutex DEF LockInv
<1>2. pc \in [Callers -> {"idle", "lock"} \cup InCall] /\ DOMAIN call = Callers
      /\ DOMAIN data = Callers /\ DOMAIN answer = Callers
  BY DEF TypeOK
<1>3. {Done, NotFound, Conflict, Failed, Listed(file.rows)} \subseteq Answers
  BY AnswersTyped DEF TypeOK
<1>4. \A a \in Answers : a # None
  BY NoneAssumption
<1>5. ASSUME NEW a \in Answers, Answer(c, a), pc[c] \in Saving \cup {"load"},
             UNCHANGED <<disk, mu, call, data>>
      PROVE  LockInv'
  <2>1. InStep(c)'  BY <1>1, <1>2, <1>4, <1>5 DEF InStep, Answer
  <2>2. QED  BY <1>1, <1>2, <1>5, <2>1, OthersOutside DEF Answer
<1>6. CASE LoadFails(c) \/ SaveFails(c)
  BY <1>3, <1>5, <1>6 DEF LoadFails, SaveFails
<1>7. CASE LoadList(c) \/ Reject(c)
  BY <1>3, <1>5, <1>7 DEF LoadList, Reject
<1>8. CASE Change(c)
  <2>1. InStep(c)'  BY <1>1, <1>2, <1>8 DEF InStep, Change, disk, Readable, Taken
  <2>2. QED  BY <1>1, <1>2, <1>8, <2>1, OthersOutside DEF Change
<1>9. CASE Write(c)
  <2>1. InStep(c)'  BY <1>1, <1>2, <1>9 DEF InStep, Write, Readable, Taken
  <2>2. QED  BY <1>1, <1>2, <1>9, <2>1, OthersOutside DEF Write
<1>10. CASE Sync(c)
  <2>1. tmp = [rows |-> data[c], synced |-> FALSE]
    <3>1. tmp = [rows |-> data[c], synced |-> pc[c] = "rename"] /\ pc[c] = "sync"
      BY <1>1, <1>10 DEF InStep, Sync
    <3>2. (pc[c] = "rename") = FALSE  BY <3>1
    <3>3. QED  BY <3>1, <3>2, Zenon
  <2>2. tmp' = [rows |-> data[c], synced |-> TRUE]
    BY <2>1, <1>10 DEF Sync
  <2>3. tmp' = [rows |-> data'[c], synced |-> pc'[c] = "rename"]
    <3>1. pc'[c] = "rename" /\ data' = data  BY <1>2, <1>10 DEF Sync
    <3>2. (pc'[c] = "rename") = TRUE  BY <3>1
    <3>3. QED  BY <2>2, <3>1, <3>2, Zenon
  <2>4. InStep(c)'  BY <1>1, <1>2, <1>10, <2>3 DEF InStep, Sync, Readable, Taken
  <2>5. QED  BY <1>1, <1>2, <1>10, <2>4, OthersOutside DEF Sync
<1>11. CASE Rename(c)
  <2>1. InStep(c)'  BY <1>1, <1>2, <1>3, <1>4, <1>11 DEF InStep, Rename
  <2>2. QED  BY <1>1, <1>2, <1>11, <2>1, OthersOutside DEF Rename
<1>12. CASE SyncDir(c)
  <2>1. InStep(c)'  BY <1>1, <1>2, <1>12 DEF InStep, SyncDir
  <2>2. QED  BY <1>1, <1>2, <1>12, <2>1, OthersOutside DEF SyncDir
<1>13. CASE Unlock(c)
  <2>1. InStep(c)'  BY <1>1, <1>2, <1>13, NoneAssumption DEF InStep, Unlock
  <2>2. QED  BY <1>1, <1>2, <1>13, <2>1, OthersOutside DEF Unlock
<1>14. QED  BY <1>6, <1>7, <1>8, <1>9, <1>10, <1>11, <1>12, <1>13 DEF Step

\* store.go:60 - calls that begin, the grant of the mutex and the end of the process
\* keep the order as well.
LEMMA NextLock == TypeOK /\ LockInv /\ [Next]_vars => LockInv'
<1> SUFFICES ASSUME TypeOK, LockInv, [Next]_vars PROVE LockInv'
  OBVIOUS
<1> USE DEF Goto, InCall, Saving
<1>1. ASSUME NEW c \in Callers, Ask(c) PROVE LockInv'
  <2>1. ASSUME NEW d \in Callers PROVE InStep(d)'
    <3>1. InStep(d) /\ InStep(c)  BY DEF LockInv
    <3>2. CASE d = c
      BY <1>1, <3>1, <3>2, NoneAssumption DEF Ask, TypeOK, InStep, disk
    <3>3. CASE d # c
      <4>1. UNCHANGED <<pc[d], call[d], data, answer, mu, file, tmp>>
        BY <1>1, <3>3 DEF Ask, TypeOK, disk
      <4>2. QED  BY <3>1, <4>1 DEF InStep, Readable, Taken
    <3>4. QED  BY <3>2, <3>3
  <2>2. QED  BY <2>1 DEF LockInv
<1>2. ASSUME NEW c \in Callers, Lock(c) PROVE LockInv'
  <2>1. ASSUME NEW d \in Callers PROVE InStep(d)'
    <3>1. InStep(d) /\ d # None  BY NoneAssumption DEF LockInv
    <3>2. CASE d = c
      BY <1>2, <3>1, <3>2 DEF Lock, TypeOK, InStep, disk
    <3>3. CASE d # c
      BY <1>2, <3>1, <3>3 DEF Lock, TypeOK, InStep, disk
    <3>4. QED  BY <3>2, <3>3
  <2>2. QED  BY <2>1 DEF LockInv
<1>3. CASE Crash \/ PowerLoss
  <2>1. Gone  BY <1>3 DEF Crash, PowerLoss
  <2>2. QED  BY <2>1, NoneAssumption DEF Gone, LockInv, InStep
<1>4. CASE UNCHANGED vars
  BY <1>4 DEF vars, disk, LockInv, InStep, Readable, Taken
<1>5. QED  BY <1>1, <1>2, <1>3, <1>4, StepLock DEF Next

--------------------------------------------------------------------------------
(* The file and what a power loss leaves of it.                               *)

\* store.go:123 - the rename puts the changed rows there, whole, and a power loss
\* finds them or what it could find before.
LEMMA RenameOutcome ==
  ASSUME TypeOK, LockInv, NEW c \in Callers, Rename(c)
  PROVE  /\ call[c] \in Calls /\ call[c] # List /\ answer[c] = None
         /\ Readable /\ Found(file.rows, call[c]) /\ ~ Taken(call[c])
         /\ file' = [version |-> "current", rows |-> After(file.rows, call[c])]
         /\ durable' = durable \cup {file'}
<1>1. InStep(c) /\ pc[c] = "rename"  BY DEF LockInv, Rename
<1>2. /\ call[c] # None /\ answer[c] = None
      /\ Readable /\ call[c] # List /\ Found(file.rows, call[c]) /\ ~ Taken(call[c])
      /\ data[c] = After(file.rows, call[c])
  BY <1>1 DEF InStep, Saving
<1>3. call[c] \in Calls  BY <1>2 DEF TypeOK
<1>4. tmp.rows = data[c] /\ tmp.synced
  <2>1. tmp = [rows |-> data[c], synced |-> pc[c] = "rename"]  BY <1>1 DEF InStep
  <2>2. tmp.rows = data[c]  BY <2>1
  <2>3. tmp.synced = (pc[c] = "rename")  BY <2>1, Zenon
  <2>4. QED  BY <1>1, <2>2, <2>3
<1>5. file' = [version |-> "current", rows |-> tmp.rows]  BY DEF Rename
<1>6. durable' = durable \cup {file'}  BY <1>4 DEF Rename
<1>7. QED  BY <1>2, <1>3, <1>4, <1>5, <1>6

\* No other step writes the file; SyncDir and a power loss only settle what it is.
LEMMA OthersKeepDisk ==
  ASSUME [Next]_vars, \A c \in Callers : ~ Rename(c)
  PROVE  \/ UNCHANGED <<file, durable>>
         \/ file' = file /\ durable' = {file}
         \/ PowerLoss
<1>1. ASSUME NEW c \in Callers, Ask(c) \/ Lock(c) \/ Step(c)
      PROVE  file' = file /\ (durable' = durable \/ durable' = {file})
  BY <1>1 DEF Ask, Lock, Step, LoadFails, LoadList, Reject, Change, Write, Sync, SaveFails,
              SyncDir, Unlock, disk
<1>2. QED  BY <1>1 DEF Next, Crash, vars, disk

\* store.go:175 - a pending add brings an id that the file does not have.
LEMMA AddsFreshId ==
  ASSUME IdInv, DiskInv, NEW c \in Callers, call[c] # None, answer[c] = None
  PROVE  call[c].op = "add" => call[c].runner.id \notin IdsOf(file.rows)
BY DEF IdInv, Adds, DiskInv

\* store.go:14 - a rename that the loops have let pass keeps the rows unique.
LEMMA NextUnique == StoreInv /\ [Next]_vars => UniqueRows'
<1> SUFFICES ASSUME StoreInv, [Next]_vars PROVE UniqueRows'
  OBVIOUS
<1> USE DEF StoreInv
<1>1. ASSUME NEW c \in Callers, Rename(c) PROVE UniqueRows'
  <2>1. Unique(file.rows) /\ file.rows \in SUBSET Runners
    BY DEF DiskInv, UniqueRows, TypeOK
  <2>2. call[c].op = "add" => call[c].runner.id \notin IdsOf(file.rows)
    BY <1>1, RenameOutcome, AddsFreshId, NoneAssumption
  <2>3. Unique(file'.rows)
    BY <1>1, <2>1, <2>2, RenameOutcome, LoopsKeepUnique
  <2>4. QED  BY <1>1, <2>3, RenameOutcome DEF UniqueRows
<1>2. CASE \A c \in Callers : ~ Rename(c)
  BY <1>2, OthersKeepDisk DEF UniqueRows, DiskInv, PowerLoss
<1>3. QED  BY <1>1, <1>2

\* store.go:95 - only a file that was read is replaced, so that one of another
\* program stays the only one a power loss can leave.
LEMMA NextDisk == StoreInv /\ [Next]_vars => DiskInv'
<1> SUFFICES ASSUME StoreInv, [Next]_vars PROVE DiskInv'
  OBVIOUS
<1> USE DEF StoreInv
<1>1. ASSUME NEW c \in Callers, Rename(c) PROVE DiskInv'
  BY <1>1, RenameOutcome DEF DiskInv, Readable
<1>2. CASE \A c \in Callers : ~ Rename(c)
  BY <1>2, OthersKeepDisk DEF DiskInv, PowerLoss
<1>3. QED  BY <1>1, <1>2

\* manager.go:747, store.go:168 - ids stay unique: a new one is nobody's, and a
\* rename brings one that no other call has.
LEMMA NextIds == StoreInv /\ [Next]_vars => IdInv'
<1> SUFFICES ASSUME StoreInv, [Next]_vars PROVE IdInv'
  OBVIOUS
<1> USE DEF StoreInv
<1>1. ASSUME UNCHANGED <<used, durable>>,
             \A c \in Callers : call'[c] = None \/ (call'[c] = call[c] /\ (answer'[c] = None => answer[c] = None))
      PROVE  IdInv'
  BY <1>1 DEF IdInv, Adds
<1>2. ASSUME UNCHANGED <<used, call, answer, file>>, durable' = {file}
      PROVE  IdInv'
  BY <1>2 DEF IdInv, Adds, DiskInv
<1>3. ASSUME NEW c \in Callers, Ask(c) PROVE IdInv'
  <2>1. PICK q \in Calls : /\ q.op = "add" => q.runner.id \notin used
                           /\ call' = [call EXCEPT ![c] = q]
                           /\ used' = IF q.op = "add" THEN used \cup {q.runner.id} ELSE used
    BY <1>3 DEF Ask
  <2>2. call'[c] = q /\ \A d \in Callers \ {c} : call'[d] = call[d]
    BY <2>1 DEF TypeOK
  <2>3. UNCHANGED <<durable, answer>>  BY <1>3 DEF Ask, disk
  <2>4. used \subseteq used' /\ \A f \in durable : IdsOf(f.rows) \subseteq used
    BY <2>1 DEF IdInv
  <2>5. q.op = "add" => \A f \in durable : q.runner.id \notin IdsOf(f.rows)
    BY <2>1, <2>4
  <2>6. q.op = "add" => \A d \in Callers : Adds(d) => call[d].runner.id # q.runner.id
    BY <2>1 DEF IdInv
  <2>7. q.op = "add" => q.runner.id \in used'
    BY <2>1
  <2>8. ASSUME NEW d \in Callers, Adds(d)'
        PROVE  /\ call'[d].runner.id \in used'
               /\ \A e \in Callers \ {d} : Adds(e)' => call'[e].runner.id # call'[d].runner.id
               /\ answer'[d] = None => \A f \in durable' : call'[d].runner.id \notin IdsOf(f.rows)
    <3>1. CASE d = c
      BY <2>2, <2>3, <2>5, <2>6, <2>7, <2>8, <3>1 DEF Adds
    <3>2. CASE d # c
      BY <2>2, <2>3, <2>4, <2>6, <2>8, <3>2 DEF IdInv, Adds
    <3>3. QED  BY <3>1, <3>2
  <2>9. QED  BY <2>3, <2>4, <2>8 DEF IdInv
<1>4. ASSUME NEW c \in Callers, Lock(c) PROVE IdInv'
  BY <1>1, <1>4 DEF Lock, disk
<1>5. ASSUME NEW c \in Callers, NEW a \in Answers, Answer(c, a),
             UNCHANGED <<disk, call, used>>
      PROVE  IdInv'
  <2>1. \A d \in Callers : answer'[d] = None => answer[d] = None
    BY <1>5, NoneAssumption DEF Answer, TypeOK
  <2>2. QED  BY <1>1, <1>5, <2>1 DEF disk
<1>6. ASSUME NEW c \in Callers, LoadFails(c) \/ SaveFails(c) \/ LoadList(c) \/ Reject(c)
      PROVE  IdInv'
  <2>1. {Done, NotFound, Conflict, Failed, Listed(file.rows)} \subseteq Answers
    BY AnswersTyped DEF TypeOK
  <2>2. QED  BY <1>5, <1>6, <2>1 DEF LoadFails, SaveFails, LoadList, Reject
<1>7. ASSUME NEW c \in Callers, Change(c) \/ Write(c) \/ Sync(c) PROVE IdInv'
  BY <1>1, <1>7 DEF Change, Write, Sync, disk
<1>8. ASSUME NEW c \in Callers, Rename(c) PROVE IdInv'
  <2>1. UNCHANGED <<call, used>> /\ answer'[c] # None
        /\ \A d \in Callers \ {c} : answer'[d] = answer[d]
    BY <1>8, NoneAssumption DEF Rename, TypeOK, Answers
  <2>2. /\ call[c].op = "add" => Adds(c) /\ IdsOf(file'.rows) = IdsOf(file.rows) \cup {call[c].runner.id}
        /\ call[c].op # "add" => IdsOf(file'.rows) \subseteq IdsOf(file.rows)
    BY <1>8, RenameOutcome, AfterIds, NoneAssumption DEF TypeOK, Adds
  <2>3. IdsOf(file'.rows) \subseteq used
    BY <2>2 DEF IdInv, DiskInv
  <2>4. \A d \in Callers \ {c} : Adds(d) /\ answer[d] = None =>
          call[d].runner.id \notin IdsOf(file'.rows)
    BY <2>2 DEF IdInv, DiskInv
  <2>5. durable' = durable \cup {file'}  BY <1>8, RenameOutcome
  <2>6. QED  BY <2>1, <2>3, <2>4, <2>5 DEF IdInv, Adds
<1>9. ASSUME NEW c \in Callers, SyncDir(c) PROVE IdInv'
  BY <1>1, <1>2, <1>9 DEF SyncDir
<1>10. ASSUME NEW c \in Callers, Unlock(c) PROVE IdInv'
  <2>1. \A d \in Callers : call'[d] = None \/ (call'[d] = call[d] /\ answer'[d] = answer[d])
    BY <1>10 DEF Unlock, TypeOK
  <2>2. QED  BY <1>1, <1>10, <2>1 DEF Unlock, disk
<1>11. CASE Crash
  BY <1>1, <1>11 DEF Crash, Gone, disk
<1>12. CASE PowerLoss
  BY <1>12 DEF PowerLoss, Gone, IdInv, Adds
<1>13. CASE UNCHANGED vars
  BY <1>1, <1>13 DEF vars, disk
<1>14. QED
  BY <1>3, <1>4, <1>6, <1>7, <1>8, <1>9, <1>10, <1>11, <1>12, <1>13 DEF Next, Step

--------------------------------------------------------------------------------
(* StoreFile implements RunnerStore.                                          *)

\* Both speak of the same rows, calls and answers.
LEMMA SameRows ==
  /\ Promise!Calls = Calls
  /\ Promise!Done = Done /\ Promise!NotFound = NotFound /\ Promise!Conflict = Conflict
  /\ Promise!Failed = Failed
  /\ \A rows : Promise!Listed(rows) = Listed(rows)
  /\ \A rows : Promise!Unique(rows) <=> Unique(rows)
  /\ \A rows, q : Promise!Found(rows, q) <=> Found(rows, q)
  /\ \A rows : \A q \in Calls : Promise!After(rows, q) = After(rows, q)
<1>1. Promise!Calls = Calls
  BY DEF Promise!Calls, Promise!List, Promise!Ids, Calls, List, Ids
<1>2. \A rows : \A q \in Calls : Promise!After(rows, q) = After(rows, q)
  BY DEF Promise!After, Promise!Others, After, Others
<1>3. QED
  BY <1>1, <1>2
  DEF Promise!Done, Promise!NotFound, Promise!Conflict, Promise!Failed, Promise!Listed,
      Promise!Unique, Promise!Found,
      Done, NotFound, Conflict, Failed, Listed, Unique, Found

\* store.go:142 - what a call returns after load or its rename is the outcome that
\* the rows of that moment give it.
LEMMA OutcomeIsPromised ==
  ASSUME StoreInv, NEW q \in Calls, q.op = "add" => q.runner.id \notin IdsOf(file.rows)
  PROVE  /\ q = List => Promise!Outcome(q) = Listed(file.rows)
         /\ q # List /\ ~ Found(file.rows, q) => Promise!Outcome(q) = NotFound
         /\ q # List /\ Found(file.rows, q) =>
              Promise!Outcome(q) = IF Taken(q) THEN Conflict ELSE Done
<1>1. Unique(file.rows) /\ file.rows \in SUBSET Runners
  BY DEF StoreInv, UniqueRows, DiskInv, TypeOK
<1>2. q # List => q.op # "list"
  BY DEF Calls, List
<1>3. CASE q = List
  BY <1>3, SameRows DEF Promise!Outcome, List
<1>4. CASE q # List /\ ~ Found(file.rows, q)
  BY <1>2, <1>4, SameRows DEF Promise!Outcome
<1>5. CASE q # List /\ Found(file.rows, q)
  <2>1. Promise!Outcome(q) = IF Unique(After(file.rows, q)) THEN Done ELSE Conflict
    BY <1>2, <1>5, SameRows DEF Promise!Outcome
  <2>2. ~ Taken(q) <=> Unique(After(file.rows, q))
    BY <1>1, <1>5, LoopsKeepUnique
  <2>3. QED  BY <1>5, <2>1, <2>2
<1>6. QED  BY <1>3, <1>4, <1>5

\* store.go:142 - each step of the file is one step of the promised store, or none
\* that it sees: a call takes effect where load answers it, or at its rename.
LEMMA StepIsPromised ==
  ASSUME StoreInv, [Next]_vars
  PROVE  [Promise!Next]_Promise!vars
<1> USE DEF StoreInv
<1> DEFINE Kept == {f.rows : f \in durable}
<1>1. file \in durable /\ file.rows \in Kept  BY DEF DiskInv
<1>2. ASSUME UNCHANGED <<file, durable, call, answer>>
      PROVE  UNCHANGED Promise!vars
  BY <1>2 DEF Promise!vars
<1>3. ASSUME NEW c \in Callers, Ask(c) PROVE Promise!Next
  <2>1. call[c] = None  BY <1>3 DEF Ask, LockInv, InStep
  <2>2. Promise!Ask(c)  BY <1>3, <2>1, SameRows DEF Ask, disk, Promise!Ask
  <2>3. QED  BY <2>2 DEF Promise!Next
<1>4. ASSUME NEW c \in Callers, Lock(c) \/ Change(c) \/ Write(c) \/ Sync(c)
      PROVE  UNCHANGED Promise!vars
  BY <1>2, <1>4 DEF Lock, Change, Write, Sync, disk
<1>5. ASSUME NEW c \in Callers, pc[c] \in Saving \cup {"load"}
      PROVE  Promise!Pending(c) /\ call[c] \in Calls
  BY <1>5 DEF Promise!Pending, LockInv, InStep, InCall, Saving, TypeOK
<1>6. ASSUME NEW c \in Callers, LoadFails(c) \/ SaveFails(c) PROVE Promise!Next
  <2>1. /\ Promise!Pending(c) /\ answer' = [answer EXCEPT ![c] = Failed]
        /\ UNCHANGED <<file, durable, call>>
    BY <1>5, <1>6 DEF LoadFails, SaveFails, Answer, Saving, disk
  <2>2. Promise!Fail(c)  BY <2>1, SameRows DEF Promise!Fail
  <2>3. QED  BY <2>2 DEF Promise!Next
<1>7. ASSUME NEW c \in Callers, LoadList(c) \/ Reject(c) PROVE Promise!Next
  <2>1. Promise!Pending(c) /\ call[c] \in Calls /\ UNCHANGED <<file, durable, call>>
    BY <1>5, <1>7 DEF LoadList, Reject, disk
  <2>2. call[c].op = "add" => call[c].runner.id \notin IdsOf(file.rows)
    BY <2>1, AddsFreshId DEF Promise!Pending
  <2>3. PICK a \in {Listed(file.rows), NotFound, Conflict} :
          answer' = [answer EXCEPT ![c] = a] /\ a = Promise!Outcome(call[c])
    BY <1>7, <2>1, <2>2, OutcomeIsPromised DEF LoadList, Reject, Answer
  <2>4. a # Done  BY DEF Listed, NotFound, Conflict, Done
  <2>5. Promise!Apply(c)
    BY <1>1, <2>1, <2>3, <2>4, SameRows DEF Promise!Apply
  <2>6. QED  BY <2>5 DEF Promise!Next
<1>8. ASSUME NEW c \in Callers, Rename(c) PROVE Promise!Next
  <2>1. Promise!Pending(c) /\ call[c] \in Calls
    BY <1>5, <1>8 DEF Rename, Saving
  <2>2. call[c].op = "add" => call[c].runner.id \notin IdsOf(file.rows)
    BY <2>1, AddsFreshId DEF Promise!Pending
  <2>3. Promise!Outcome(call[c]) = Done
    BY <1>8, <2>1, <2>2, OutcomeIsPromised, RenameOutcome
  <2>4. file'.rows = After(file.rows, call[c]) /\ {f.rows : f \in durable'} = Kept \cup {file'.rows}
    BY <1>8, RenameOutcome
  <2>5. answer' = [answer EXCEPT ![c] = Done] /\ call' = call
    BY <1>8 DEF Rename
  <2>6. Promise!Apply(c)
    BY <2>1, <2>3, <2>4, <2>5, SameRows DEF Promise!Apply
  <2>7. QED  BY <2>6 DEF Promise!Next
<1>9. ASSUME NEW c \in Callers, SyncDir(c) PROVE [Promise!Next]_Promise!vars
  <2>1. CASE durable' = {file}
    <3>1. Promise!Settle  BY <1>9, <2>1 DEF SyncDir, Promise!Settle
    <3>2. QED  BY <3>1 DEF Promise!Next
  <2>2. CASE durable' = durable
    BY <1>2, <1>9, <2>2 DEF SyncDir
  <2>3. QED  BY <1>9, <2>1, <2>2 DEF SyncDir
<1>10. ASSUME NEW c \in Callers, Unlock(c) PROVE Promise!Next
  <2>1. answer[c] # None  BY <1>10 DEF Unlock, LockInv, InStep
  <2>2. Promise!Return(c)  BY <1>10, <2>1 DEF Unlock, disk, Promise!Return
  <2>3. QED  BY <2>2 DEF Promise!Next
<1>11. CASE Crash
  <2>1. Promise!Crash  BY <1>11 DEF Crash, Gone, disk, Promise!Crash, Promise!Gone
  <2>2. QED  BY <2>1 DEF Promise!Next
<1>12. CASE PowerLoss
  <2>1. Promise!PowerLoss
    BY <1>12 DEF PowerLoss, Gone, Promise!PowerLoss, Promise!Gone
  <2>2. QED  BY <2>1 DEF Promise!Next
<1>13. CASE UNCHANGED vars
  BY <1>2, <1>13 DEF vars, disk
<1>14. QED
  BY <1>3, <1>4, <1>6, <1>7, <1>8, <1>9, <1>10, <1>11, <1>12, <1>13 DEF Next, Step

--------------------------------------------------------------------------------
(* Theorems.                                                                  *)

\* For any callers, runners and failures: rows stay unique in the file and in all
\* that a power loss can leave of it, and the mutex covers each call from its read
\* to its rename.
THEOREM StoreInvariant == Spec => []StoreInv
<1>1. Init => StoreInv
  <2>1. Init => TypeOK
    BY BoundAssumption DEF Init, TypeOK, Garbled, IdsOf, Ids
  <2>2. Init => UniqueRows /\ DiskInv  BY DEF Init, UniqueRows, DiskInv
  <2>3. Init => LockInv
    BY NoneAssumption DEF Init, LockInv, InStep, InCall, Saving
  <2>4. Init => IdInv  BY DEF Init, IdInv, Adds
  <2>5. QED  BY <2>1, <2>2, <2>3, <2>4 DEF StoreInv
<1>2. StoreInv /\ [Next]_vars => StoreInv'
  BY NextType, NextLock, NextUnique, NextIds, NextDisk DEF StoreInv
<1>3. QED  BY <1>1, <1>2, PTL DEF Spec

\* store.go:95 - for any callers and failures: a file that is newer than the program
\* or does not parse stays as it is.
THEOREM ForeignFilesKept == Spec => ForeignKept
<1> DEFINE Kept == file.version \in {"newer", "bad"} => UNCHANGED file
<1>1. StoreInv /\ [Next]_vars => [Kept]_vars
  <2> SUFFICES ASSUME StoreInv, Next, file.version \in {"newer", "bad"} PROVE UNCHANGED file
    BY DEF Kept
  <2>1. \A c \in Callers : ~ Rename(c)
    BY RenameOutcome DEF StoreInv, Readable
  <2>2. durable = {file}
    BY DEF StoreInv, DiskInv
  <2>3. QED  BY <2>1, <2>2, OthersKeepDisk DEF PowerLoss
<1> HIDE DEF Kept
<1>2. QED  BY <1>1, StoreInvariant, PTL DEF Spec, ForeignKept, Kept

\* store.go:101 - for any callers and failures: the store that the manager sees is a
\* set of rows that each call changes at once or not at all.
THEOREM FileIsStore == Spec => KeepsPromise
<1>1. Init => Promise!Init
  BY SameRows DEF Init, Promise!Init, Garbled
<1>2. StoreInv /\ [Next]_vars => [Promise!Next]_Promise!vars
  BY StepIsPromised
<1>3. QED  BY <1>1, <1>2, StoreInvariant, PTL DEF Spec, KeepsPromise, Promise!Spec

===============================================================================
