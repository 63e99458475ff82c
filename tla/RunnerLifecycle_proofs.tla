------------------------ MODULE RunnerLifecycle_proofs ------------------------
(* Proofs about RunnerLifecycle for every number of handlers, runners, names  *)
(* and workdirs, every set of operations and faults and every bound on faults.*)
EXTENDS RunnerLifecycle, TLAPS

(* What the building blocks of the actions do to the types. *)

LEMMA KeepState == StateType /\ Keep => StateType'
BY DEF StateType, Keep

LEMMA GotoControl ==
  ASSUME ControlType, NEW p \in Handlers, NEW l \in Labels, Goto(p, l), KeepLocks
  PROVE  ControlType'
BY DEF ControlType, Goto, KeepLocks, locks

LEMMA FoundType ==
  ASSUME ControlType, NEW k \in Ids \cup Names, NEW m \in Found(k)
  PROVE  m \in Mutexes
BY ConstantsOK DEF Found, ControlType

LEMMA KeepLocalType == LocalType /\ KeepLocals => LocalType'
BY DEF LocalType, KeepLocals

LEMMA ProceedType ==
  LocalType /\ FaultType /\ Proceed
    => LocalType' /\ faults' \in 0..MaxFaults /\ clean' \in [Handlers -> BOOLEAN]
BY DEF LocalType, FaultType, Proceed, KeepLocals

LEMMA FaultStep ==
  ASSUME FaultType, NEW k, Fault(k)
  PROVE  faults' \in 0..MaxFaults
BY ConstantsOK DEF FaultType, Fault

LEMMA FaultOfType ==
  ASSUME FaultType, NEW p \in Handlers, NEW k, FaultOf(p, k)
  PROVE  faults' \in 0..MaxFaults /\ clean' \in [Handlers -> BOOLEAN]
<1>1. faults' \in 0..MaxFaults
  BY FaultStep DEF FaultOf
<1> QED
  BY <1>1 DEF FaultOf, FaultType

LEMMA SetLocalsType ==
  ASSUME LocalType, clean \in [Handlers -> BOOLEAN], NEW p \in Handlers,
         NEW o \in AllOps \cup {"none"}, NEW i \in Ids \cup {None},
         NEW r \in Row \cup {None}, NEW pl \in Plans,
         NEW td \in SUBSET (Ids \X Row), SetLocals(p, o, i, r, pl, td)
  PROVE  LocalType' /\ clean' \in [Handlers -> BOOLEAN]
BY DEF LocalType, SetLocals

LEMMA LeaveType ==
  ASSUME ControlType, LocalType, clean \in [Handlers -> BOOLEAN],
         NEW p \in Handlers, Leave(p)
  PROVE  /\ pc' \in [Handlers -> Labels]
         /\ nameMu' \in [Handlers -> Mutexes \cup {None}]
         /\ idMu' \in [Handlers -> Mutexes \cup {None}]
         /\ LocalType' /\ clean' \in [Handlers -> BOOLEAN]
<1>1. /\ pc' \in [Handlers -> Labels]
      /\ nameMu' \in [Handlers -> Mutexes \cup {None}]
      /\ idMu' \in [Handlers -> Mutexes \cup {None}]
  BY DEF Leave, ControlType, Goto, Labels
<1>2. "reuse" \in Plans
  BY DEF Plans
<1>3. LocalType' /\ clean' \in [Handlers -> BOOLEAN]
  BY <1>2, SetLocalsType DEF Leave
<1> QED
  BY <1>1, <1>3

LEMMA FinishType ==
  ASSUME ControlType, LocalType, clean \in [Handlers -> BOOLEAN],
         NEW p \in Handlers, Finish(p)
  PROVE  ControlType' /\ LocalType' /\ clean' \in [Handlers -> BOOLEAN]
<1>1. CASE ForgetsKey(p)
  <2>1. ControlType'
    BY <1>1 DEF Finish, ControlType, Goto, Labels
  <2>2. /\ op[p] \in AllOps \cup {"none"} /\ rid[p] \in Ids \cup {None}
        /\ (IF op[p] = "create" THEN rec[p] ELSE None) \in Row \cup {None}
        /\ "reuse" \in Plans /\ {} \in SUBSET (Ids \X Row)
    BY DEF LocalType, Plans
  <2>3. SetLocals(p, op[p], rid[p], IF op[p] = "create" THEN rec[p] ELSE None, "reuse", {})
    BY <1>1 DEF Finish, Leave
  <2>4. LocalType' /\ clean' \in [Handlers -> BOOLEAN]
    <3> DEFINE r == IF op[p] = "create" THEN rec[p] ELSE None
    <3>1. r \in Row \cup {None} /\ SetLocals(p, op[p], rid[p], r, "reuse", {})
      BY <2>2, <2>3
    <3> HIDE DEF r
    <3> QED
      BY <2>2, <3>1, SetLocalsType
  <2> QED
    BY <2>1, <2>4
<1>2. CASE Leave(p)
  BY <1>2, LeaveType DEF Finish, ControlType
<1>3. CASE ~ ForgetsKey(p) /\ ~ Leave(p)
  BY <1>3 DEF Finish, ControlType, LocalType, Goto, Labels, locals
<1> QED
  BY <1>1, <1>2, <1>3

LEMMA ForgetType ==
  ASSUME TypeInv, NEW p \in Handlers, Forget(p)
  PROVE  ControlType' /\ LocalType' /\ clean' \in [Handlers -> BOOLEAN]
<1> USE DEF TypeInv, TypeOK
<1>1. /\ pc' \in [Handlers -> Labels]
      /\ nameMu' \in [Handlers -> Mutexes \cup {None}]
      /\ idMu' \in [Handlers -> Mutexes \cup {None}]
      /\ LocalType' /\ clean' \in [Handlers -> BOOLEAN]
  BY LeaveType DEF Forget, FaultType
<1>2. table' \in [Ids \cup Names -> Mutexes \cup {None}]
  BY DEF Forget, ControlType
<1> QED
  BY <1>1, <1>2 DEF ControlType

\* A step of one handler leaves the position and the locals of the others alone.
Stands(q) ==
  /\ pc'[q] = pc[q] /\ op'[q] = op[q] /\ rid'[q] = rid[q]
  /\ rec'[q] = rec[q] /\ todo'[q] = todo[q]

LEMMA FinishStands ==
  ASSUME TypeOK, NEW p \in Handlers, NEW q \in Handlers, p # q, Finish(p)
  PROVE  Stands(q)
BY DEF Finish, Leave, Stands, Goto, SetLocals, locals, TypeOK, ControlType, LocalType

\* The shape of a step: nearly every one goes on to another working step with
\* the same runner, or ends the request.
Moves(p) ==
  /\ pc[p] \in {"add"} \cup Working
  /\ \E l \in Working : Goto(p, l)
  /\ KeepLocks /\ UNCHANGED <<op, rid, rec, todo>>
  /\ plan' \in [Handlers -> Plans]

LEMMA StepShape ==
  ASSUME NEW p \in Handlers, LocalType, Step(p)
  PROVE  \/ Moves(p) \/ CreateCheck(p) \/ Load(p) \/ MissingNext(p) \/ Forget(p)
         \/ Finish(p) /\ pc[p] \in {"check"} \cup Owning
<1>1. CASE CreateAdd(p)
  BY <1>1 DEF CreateAdd, Moves, At, Working, LocalType, Proceed, KeepLocals
<1>2. CASE MakePlan(p)
  <2>1. \E pl \in Plans : ContinueWith(p, pl)
    BY <1>2 DEF MakePlan, PlanFor, Plans
  <2>2. \E l \in Working : Goto(p, l)
    BY <2>1 DEF ContinueWith, AfterRemove, Plans, Working
  <2>3. plan' \in [Handlers -> Plans]
    BY <2>1 DEF ContinueWith, LocalType
  <2> QED
    BY <1>2, <2>2, <2>3 DEF MakePlan, ContinueWith, Moves, At, Working, LocalType
<1>3. CASE RemoveOld(p)
  <2>1. AfterRemove(plan[p]) \in Working
    BY DEF AfterRemove, LocalType, Plans, Working
  <2> QED
    BY <1>3, <2>1 DEF RemoveOld, Moves, At, Working, LocalType, Proceed, KeepLocals
<1>4. CASE Backup(p)
  BY <1>4 DEF Backup, Moves, At, Working, LocalType, Proceed, KeepLocals
<1>5. CASE Clear(p)
  BY <1>5 DEF Clear, Moves, At, Working, LocalType, Proceed, KeepLocals
<1>6. CASE CfgCreate(p)
  BY <1>6 DEF CfgCreate, Moves, At, Working, LocalType, Launch, KeepLocals
<1>7. CASE CfgWait(p)
  BY <1>7 DEF CfgWait, Moves, At, Working, LocalType, Proceed, KeepLocals
<1>8. CASE CfgWaitFails(p)
  BY <1>8 DEF CfgWaitFails, Moves, At, Working, LocalType, KeepLocals
<1>9. CASE CfgDrop(p)
  BY <1>9 DEF CfgDrop, Moves, At, Working, LocalType, Proceed, KeepLocals
<1>10. CASE CfgRemove(p)
  BY <1>10 DEF CfgRemove, Moves, At, Working, LocalType, Proceed, KeepLocals
<1>11. CASE RunCreate(p)
  BY <1>11 DEF RunCreate, Moves, At, Working, LocalType, Launch, KeepLocals
<1>12. CASE ListenOK(p)
  BY <1>12 DEF ListenOK, Moves, At, Working, LocalType, Proceed, KeepLocals
<1>13. CASE ListenFails(p)
  BY <1>13 DEF ListenFails, Moves, At, Working, LocalType, Proceed, KeepLocals
<1>14. CASE Verify(p)
  BY <1>14 DEF Verify, Moves, At, Working, LocalType, Proceed, KeepLocals
<1>15. CASE VerifyFails(p)
  BY <1>15 DEF VerifyFails, Moves, At, Working, LocalType, Proceed, KeepLocals
<1>16. CASE RollbackRemove(p)
  BY <1>16 DEF RollbackRemove, Moves, At, Working, LocalType, Proceed, KeepLocals
<1>17. CASE RemoveContainer(p)
  BY <1>17 DEF RemoveContainer, Moves, At, Working, LocalType, Proceed, KeepLocals
<1>18. CASE RemoveVolume(p)
  BY <1>18 DEF RemoveVolume, Moves, At, Working, LocalType, Proceed, KeepLocals
<1>19. CASE Failed(p)
  BY <1>19 DEF Failed, Moves, At, Owning, Working, LocalType, Proceed, KeepLocals
<1>20. CASE \/ CreateConflict(p) \/ LoadNotFound(p) \/ Refuse(p) \/ PrepareFails(p)
            \/ Get(p) \/ Restore(p) \/ RollbackKeep(p) \/ RollbackInspectFails(p)
            \/ RemoveFails(p) \/ DeleteRow(p) \/ PatchRow(p) \/ StartStop(p)
  BY <1>20 DEF CreateConflict, LoadNotFound, Refuse, PrepareFails, Get, Restore,
     RollbackKeep, RollbackInspectFails, RemoveFails, DeleteRow, PatchRow, StartStop,
     At, Owning, Working
<1> QED
  BY <1>1, <1>2, <1>3, <1>4, <1>5, <1>6, <1>7, <1>8, <1>9, <1>10, <1>11, <1>12, <1>13, <1>14, <1>15, <1>16, <1>17, <1>18, <1>19, <1>20 DEF Step

LEMMA OthersStand ==
  ASSUME TypeOK, NEW p \in Handlers, NEW q \in Handlers, p # q,
         Request(p) \/ Acquire(p) \/ Step(p)
  PROVE  Stands(q)
<1> USE DEF TypeOK, ControlType, LocalType, Stands, Goto
<1>1. CASE Moves(p)
  BY <1>1 DEF Moves
<1>2. CASE Finish(p)
  BY <1>2, FinishStands
<1>3. CASE CreateCheck(p) \/ Load(p) \/ MissingNext(p) \/ Forget(p)
  BY <1>3 DEF CreateCheck, Load, MissingNext, Arrive, Forget, Leave, SetLocals
<1>4. CASE Acquire(p)
  BY <1>4 DEF Acquire, LockName, LockId, Proceed, KeepLocals
<1>5. CASE Request(p)
  <2>1. CASE CreateBegin(p) \/ ApplyBegin(p) \/ MissingBegin(p)
    BY <2>1 DEF CreateBegin, ApplyBegin, MissingBegin, Arrive, SetLocals
  <2>2. CASE \E o \in AllOps : Begin(p, o)
    BY <2>2 DEF Begin, Arrive, SetLocals
  <2> QED
    BY <1>5, <2>1, <2>2 DEF Request, AllOps
<1> QED
  BY <1>1, <1>2, <1>3, <1>4, <1>5, StepShape

LEMMA LeaveFilled ==
  ASSUME ControlType, NEW p \in Handlers, Leave(p)
  PROVE  Filled(p)'
BY DEF Leave, Goto, ControlType, Filled, Owning, Working

\* A create fills its row in before it works, a delete its id, and both keep them.
LEMMA FinishFilled ==
  ASSUME TypeInv, NEW p \in Handlers, Finish(p),
         pc[p] \in {"check"} \cup Owning
  PROVE  Filled(p)'
<1> USE DEF TypeInv, TypeOK, ControlType, LocalType
<1>1. CASE Leave(p)
  BY <1>1, LeaveFilled
<1>2. CASE ForgetsKey(p) /\ ~ Leave(p)
  <2>1. Filled(p) /\ pc'[p] = "unlocked" /\ op'[p] = op[p] /\ rid'[p] = rid[p]
        /\ rec'[p] = IF op[p] = "create" THEN rec[p] ELSE None
    BY <1>2 DEF Finish, Goto, SetLocals
  <2>2. op[p] \in {"create", "delete"}
    BY <1>2 DEF ForgetsKey
  <2> QED
    BY <2>1, <2>2 DEF Filled, Owning, Working
<1>3. CASE ~ ForgetsKey(p) /\ ~ Leave(p)
  <2>1. pc'[p] = "next" /\ op'[p] # "create"
    BY <1>3 DEF Finish, ForgetsKey, Goto, locals
  <2> QED
    BY <2>1 DEF Filled, Owning, Working
<1> QED
  BY <1>1, <1>2, <1>3

LEMMA MovesFilled ==
  ASSUME TypeInv, NEW p \in Handlers, Moves(p)
  PROVE  Filled(p)' /\ ControlType'
<1>1. Filled(p)
  BY DEF TypeInv
<1>2. Working \subseteq Labels
  BY DEF Working, Labels
<1>3. PICK l \in Working : Goto(p, l)
  BY DEF Moves
<1>4. pc'[p] = l
  BY <1>3 DEF Goto, TypeInv, TypeOK, ControlType
<1>5. l \notin {"lockname", "check", "add", "next", "lockid", "load", "unlocked"}
  BY <1>3 DEF Working
<1>6. rid[p] \in Ids /\ rec[p] \in Row
  BY <1>1 DEF Filled, Moves, Owning
<1>7. Filled(p)'
  BY <1>3, <1>4, <1>5, <1>6 DEF Filled, Moves
<1>8. ControlType'
  BY <1>2, <1>3, GotoControl DEF Moves, TypeInv, TypeOK
<1> QED
  BY <1>7, <1>8

LEMMA ArriveType ==
  ASSUME ControlType, NEW p \in Handlers, NEW i \in Ids, Arrive(p, i)
  PROVE  ControlType'
<1>1. PICK m \in Found(i) : /\ table' = [table EXCEPT ![i] = m]
                            /\ idMu' = [idMu EXCEPT ![p] = m]
  BY DEF Arrive
<1>2. m \in Mutexes
  BY <1>1, FoundType
<1> QED
  BY <1>1, <1>2 DEF Arrive, Goto, ControlType, Labels

LEMMA StepControl ==
  ASSUME TypeInv, NEW p \in Handlers, Step(p)
  PROVE  Filled(p)' /\ ControlType'
<1> USE DEF TypeInv, TypeOK
<1>1. CASE Moves(p)
  BY <1>1, MovesFilled
<1>2. CASE Finish(p) /\ pc[p] \in {"check"} \cup Owning
  BY <1>2, FinishFilled, FinishType DEF FaultType
<1>3. CASE CreateCheck(p)
  <2>1. ControlType'
    <3>0. PICK i \in Ids \ used : \E m \in Found(i) : /\ table' = [table EXCEPT ![i] = m]
                                                      /\ idMu' = [idMu EXCEPT ![p] = m]
      BY <1>3 DEF CreateCheck
    <3>1. PICK m \in Found(i) : /\ table' = [table EXCEPT ![i] = m]
                                /\ idMu' = [idMu EXCEPT ![p] = m]
      BY <3>0
    <3>2. m \in Mutexes
      BY <3>1, FoundType
    <3> QED
      BY <1>3, <3>1, <3>2 DEF CreateCheck, Goto, ControlType, Labels
  <2>2. Filled(p)'
    BY <1>3 DEF CreateCheck, At, Goto, ControlType, LocalType, StateType, Filled, Owning, Working
  <2> QED
    BY <2>1, <2>2
<1>4. CASE Load(p)
  <2>1. ControlType'
    BY <1>4 DEF Load, KeepLocks, locks, Goto, ControlType, Labels
  <2>2. Filled(p) /\ rid[p] \in Ids /\ op' = op
    BY <1>4 DEF Load, At, Filled, Owning
  <2>3. rows[rid[p]] \in Row
    BY <1>4, <2>2 DEF Load, StateType
  <2>4. rec'[p] \in Row
    <3>1. CASE op[p] = "apply"
      <4>1. rec[p] \in Row
        BY <1>4, <2>2, <3>1 DEF Load, At, Filled
      <4>2. rec'[p] = [name |-> rows[rid[p]].name, wd |-> rec[p].wd]
        BY <1>4, <3>1 DEF Load, LocalType
      <4> QED
        BY <2>3, <4>1, <4>2 DEF Row
    <3>2. CASE op[p] # "apply"
      BY <1>4, <2>3, <3>2 DEF Load, LocalType
    <3> QED
      BY <3>1, <3>2
  <2>5. pc'[p] \in {"rm_ctr", "gate", "act"} /\ rid' = rid
    BY <1>4 DEF Load, Goto, ControlType
  <2>6. Filled(p)'
    BY <2>2, <2>4, <2>5 DEF Filled, Owning, Working
  <2> QED
    BY <2>1, <2>6
<1>5. CASE MissingNext(p)
  <2>1. PICK t \in todo[p] : /\ rid' = [rid EXCEPT ![p] = t[1]]
                             /\ rec' = [rec EXCEPT ![p] = t[2]]
                             /\ Arrive(p, t[1])
    BY <1>5 DEF MissingNext
  <2>2. t[1] \in Ids /\ t[2] \in Row
    BY <2>1 DEF LocalType
  <2>3. ControlType'
    BY <2>1, <2>2, ArriveType
  <2>4. /\ pc'[p] = "lockid" /\ rid'[p] \in Ids /\ rec'[p] \in Row /\ op'[p] = op[p]
        /\ op[p] # "create"
    BY <1>5, <2>1, <2>2 DEF MissingNext, Arrive, At, Goto, ControlType, LocalType, Filled
  <2>5. Filled(p)'
    BY <2>4 DEF Filled, Owning, Working
  <2> QED
    BY <2>3, <2>5
<1>6. CASE Forget(p)
  BY <1>6, ForgetType, LeaveFilled DEF Forget
<1> QED
  BY <1>1, <1>2, <1>3, <1>4, <1>5, <1>6, StepShape

LEMMA StepLocals ==
  ASSUME TypeInv, NEW p \in Handlers, Step(p)
  PROVE  LocalType'
<1> USE DEF TypeInv, TypeOK
<1>1. CASE Finish(p)
  BY <1>1, FinishType DEF FaultType
<1>2. CASE CreateCheck(p)
  BY <1>2 DEF CreateCheck, LocalType
<1>3. CASE Load(p)
  <2>1. rec'[p] \in Row
    BY <1>3, StepControl DEF Load, At, Goto, ControlType, Filled, Working
  <2>2. rec' \in [Handlers -> Row \cup {None}]
    BY <1>3, <2>1 DEF Load, LocalType
  <2> QED
    BY <1>3, <2>2 DEF Load, LocalType
<1>4. CASE MissingNext(p)
  BY <1>4 DEF MissingNext, Arrive, LocalType, Plans
<1>5. CASE Moves(p)
  BY <1>5 DEF Moves, LocalType
<1>6. CASE Forget(p)
  BY <1>6, ForgetType
<1> QED
  BY <1>1, <1>2, <1>3, <1>4, <1>5, <1>6, StepShape

LEMMA StepAstray ==
  ASSUME TypeInv, NEW p \in Handlers, Step(p)
  PROVE  astray' = astray
BY StepShape DEF Moves, KeepLocks, Finish, CreateCheck, Load, MissingNext, Arrive, Forget,
   TypeInv, TypeOK

LEMMA StepFaults ==
  ASSUME TypeInv, NEW p \in Handlers, Step(p)
  PROVE  FaultType'
<1> USE DEF TypeInv, TypeOK
<1> SUFFICES faults' \in 0..MaxFaults /\ clean' \in [Handlers -> BOOLEAN]
  BY StepAstray DEF FaultType
<1>1. CASE CreateAdd(p)
  BY <1>1, ProceedType, FaultOfType, FinishType DEF CreateAdd, FaultType
<1>2. CASE MakePlan(p)
  BY <1>2, ProceedType, FaultOfType, FinishType DEF MakePlan, FaultType
<1>3. CASE RemoveOld(p)
  BY <1>3, ProceedType, FaultOfType, FinishType DEF RemoveOld, FaultType
<1>4. CASE Backup(p)
  BY <1>4, ProceedType, FaultOfType, FinishType DEF Backup, FaultType
<1>5. CASE Clear(p)
  BY <1>5, ProceedType, FaultOfType, FinishType DEF Clear, FaultType
<1>6. CASE CfgCreate(p)
  BY <1>6, ProceedType, FaultOfType, FinishType DEF CfgCreate, Launch, FaultType
<1>7. CASE CfgWait(p)
  BY <1>7, ProceedType, FaultOfType, FinishType DEF CfgWait, FaultType
<1>8. CASE CfgWaitFails(p)
  BY <1>8, ProceedType, FaultOfType, FinishType DEF CfgWaitFails, FaultType
<1>9. CASE CfgDrop(p)
  BY <1>9, ProceedType, FaultOfType, FinishType DEF CfgDrop, FaultType
<1>10. CASE CfgRemove(p)
  BY <1>10, ProceedType, FaultOfType, FinishType DEF CfgRemove, FaultType
<1>11. CASE RunCreate(p)
  BY <1>11, ProceedType, FaultOfType, FinishType DEF RunCreate, Launch, FaultType
<1>12. CASE ListenOK(p)
  BY <1>12, ProceedType, FaultOfType, FinishType DEF ListenOK, FaultType
<1>13. CASE ListenFails(p)
  BY <1>13, ProceedType, FaultOfType, FinishType DEF ListenFails, FaultType
<1>14. CASE Verify(p)
  BY <1>14, ProceedType, FaultOfType, FinishType DEF Verify, FaultType
<1>15. CASE VerifyFails(p)
  BY <1>15, ProceedType, FaultOfType, FinishType DEF VerifyFails, FaultType
<1>16. CASE RollbackRemove(p)
  BY <1>16, ProceedType, FaultOfType, FinishType DEF RollbackRemove, FaultType
<1>17. CASE RemoveContainer(p)
  BY <1>17, ProceedType, FaultOfType, FinishType DEF RemoveContainer, FaultType
<1>18. CASE RemoveVolume(p)
  BY <1>18, ProceedType, FaultOfType, FinishType DEF RemoveVolume, FaultType
<1>19. CASE Failed(p)
  BY <1>19, ProceedType, FaultOfType, FinishType DEF Failed, FaultType
<1>20. CASE CreateConflict(p)
  BY <1>20, FinishType, FaultStep DEF CreateConflict, FaultType
<1>21. CASE LoadNotFound(p)
  BY <1>21, FinishType, FaultStep DEF LoadNotFound, FaultType
<1>22. CASE Refuse(p)
  BY <1>22, FinishType, FaultStep DEF Refuse, FaultType
<1>23. CASE PrepareFails(p)
  BY <1>23, FinishType, FaultStep DEF PrepareFails, FaultType
<1>24. CASE Get(p)
  BY <1>24, FinishType, FaultStep DEF Get, FaultType
<1>25. CASE Restore(p)
  BY <1>25, FinishType, FaultStep DEF Restore, FaultType
<1>26. CASE RollbackKeep(p)
  BY <1>26, FinishType, FaultStep DEF RollbackKeep, FaultType
<1>27. CASE RollbackInspectFails(p)
  BY <1>27, FinishType, FaultStep DEF RollbackInspectFails, FaultType
<1>28. CASE RemoveFails(p)
  BY <1>28, FinishType, FaultStep DEF RemoveFails, FaultType
<1>29. CASE DeleteRow(p)
  BY <1>29, FinishType, FaultStep DEF DeleteRow, FaultType
<1>30. CASE CreateCheck(p)
  BY <1>30 DEF CreateCheck, FaultType
<1>31. CASE Load(p)
  BY <1>31 DEF Load, FaultType
<1>32. CASE MissingNext(p)
  BY <1>32 DEF MissingNext, Arrive, FaultType
<1>33. CASE PatchRow(p)
  BY <1>33, FinishType DEF PatchRow, FaultType
<1>34. CASE StartStop(p)
  BY <1>34, FinishType, FaultStep DEF StartStop, FaultType
<1>35. CASE Forget(p)
  BY <1>35, ForgetType DEF Forget, FaultType
<1> QED
  BY <1>1, <1>2, <1>3, <1>4, <1>5, <1>6, <1>7, <1>8, <1>9, <1>10, <1>11, <1>12, <1>13,
     <1>14, <1>15, <1>16, <1>17, <1>18, <1>19, <1>20, <1>21, <1>22, <1>23, <1>24, <1>25,
     <1>26, <1>27, <1>28, <1>29, <1>30, <1>31, <1>32, <1>33, <1>34, <1>35 DEF Step

LEMMA EnsuredVolumeType ==
  ASSUME StateType, NEW n \in Names
  PROVE  EnsuredVolume(n) \in [Names -> Volume \cup {None}]
<1>1. EmptyVolume \in Volume
  BY DEF EmptyVolume, Volume
<1> QED
  BY <1>1 DEF EnsuredVolume, StateType

LEMMA WorkerType ==
  ASSUME NEW p \in Handlers, rid[p] \in Ids, rec[p] \in Row,
         NEW token \in BOOLEAN, NEW up \in BOOLEAN
  PROVE  Worker(p, token, up) \in Container
BY DEF Worker, Container, Row

LEMMA WithType ==
  ASSUME NEW c \in Container, NEW up \in BOOLEAN
  PROVE  With(c, up) \in Container
BY DEF With, Container

LEMMA CtrUpdate ==
  ASSUME StateType, NEW n, NEW c \in Container \cup {None}
  PROVE  [ctr EXCEPT ![n] = c] \in [Names -> Container \cup {None}]
BY DEF StateType

LEMMA VolUpdate ==
  ASSUME StateType, NEW n, NEW v \in Volume \cup {None}
  PROVE  [vol EXCEPT ![n] = v] \in [Names -> Volume \cup {None}]
BY DEF StateType

LEMMA LaunchEffect ==
  ASSUME NEW p \in Handlers, NEW token, NEW next, Launch(p, token, next)
  PROVE  LET n == NameOf(p)
         IN \/ ctr' = ctr
            \/ \E c \in {None, Worker(p, token, TRUE), Worker(p, token, FALSE)} :
                 ctr' = [ctr EXCEPT ![n] = c]
            \/ ctr[n] # None /\ ctr' = [ctr EXCEPT ![n] = With(ctr[n], TRUE)]
BY DEF Launch, Managed

LEMMA LaunchState ==
  ASSUME StateType, NEW p \in Handlers, rid[p] \in Ids, rec[p] \in Row,
         NEW token \in BOOLEAN, NEW next, Launch(p, token, next)
  PROVE  StateType'
<1> DEFINE n == NameOf(p)
<1>1. n \in Names
  BY DEF NameOf, Row
<1>2. rows' = rows /\ used' = used
  BY DEF Launch
<1>3. vol' \in [Names -> Volume \cup {None}]
  BY <1>1, EnsuredVolumeType DEF Launch, StateType
<1>4. Worker(p, token, TRUE) \in Container /\ Worker(p, token, FALSE) \in Container
  BY WorkerType
<1>5. ctr[n] # None => With(ctr[n], TRUE) \in Container
  BY <1>1, WithType DEF StateType
<1>6. \/ ctr' = ctr
      \/ \E c \in {None, Worker(p, token, TRUE), Worker(p, token, FALSE)} :
           ctr' = [ctr EXCEPT ![n] = c]
      \/ ctr[n] # None /\ ctr' = [ctr EXCEPT ![n] = With(ctr[n], TRUE)]
  BY LaunchEffect
<1>7. ctr' \in [Names -> Container \cup {None}]
  BY <1>4, <1>5, <1>6, CtrUpdate DEF StateType
<1> QED
  BY <1>2, <1>3, <1>7 DEF StateType

\* The steps that change the store or Docker.
LEMMA StepKinds ==
  ASSUME NEW p \in Handlers, Step(p)
  PROVE  Keep \/ CreateCheck(p) \/ CreateAdd(p) \/ Get(p) \/ DeleteRow(p)
         \/ RemoveOld(p) \/ CfgDrop(p) \/ CfgRemove(p) \/ RemoveContainer(p)
         \/ RemoveVolume(p) \/ Backup(p) \/ Clear(p) \/ Restore(p)
         \/ CfgCreate(p) \/ RunCreate(p) \/ RollbackKeep(p)
         \/ PrepareFails(p) \/ RemoveFails(p) \/ PatchRow(p) \/ StartStop(p)
BY DEF Step, CreateConflict, Load, LoadNotFound, Refuse, MissingNext, Arrive, MakePlan,
       CfgWait, CfgWaitFails, ListenOK, ListenFails, Verify, VerifyFails, Failed,
       RollbackInspectFails, RollbackRemove, Forget

LEMMA StepState ==
  ASSUME TypeInv, NEW p \in Handlers, Step(p)
  PROVE  StateType'
<1> USE DEF TypeInv, TypeOK
<1> DEFINE n == NameOf(p)
<1>0. ASSUME pc[p] \in {"add"} \cup Working
      PROVE  rid[p] \in Ids /\ rec[p] \in Row /\ n \in Names
  BY <1>0 DEF Filled, Owning, NameOf, Row
<1>1. CASE Keep
  BY <1>1, KeepState
<1>2. CASE CreateCheck(p)
  BY <1>2 DEF CreateCheck, StateType
<1>3. CASE CreateAdd(p) \/ Get(p)
  BY <1>0, <1>3 DEF CreateAdd, Get, At, Working, Keep, StateType
<1>4. CASE DeleteRow(p)
  BY <1>4 DEF DeleteRow, StateType
<1>5. CASE \/ RemoveOld(p) \/ CfgDrop(p) \/ CfgRemove(p) \/ RemoveContainer(p)
        \/ PrepareFails(p) \/ RemoveFails(p)
  <2>1. n \in Names
    BY <1>0, <1>5 DEF RemoveOld, CfgDrop, CfgRemove, RemoveContainer, PrepareFails,
       RemoveFails, At, Working
  <2>2. HalfRemoved(n) => ctr' \in [Names -> Container \cup {None}]
    BY <2>1, WithType, CtrUpdate DEF HalfRemoved, StateType
  <2>3. ctr' \in [Names -> Container \cup {None}]
    BY <1>5, <2>2, CtrUpdate DEF RemoveOld, CfgDrop, CfgRemove, RemoveContainer,
       PrepareFails, RemoveFails, StateType
  <2> QED
    BY <1>5, <2>3 DEF RemoveOld, CfgDrop, CfgRemove, RemoveContainer, PrepareFails,
       RemoveFails, StateType
<1>6. CASE RemoveVolume(p)
  <2>1. vol' \in [Names -> Volume \cup {None}]
    BY <1>6, VolUpdate DEF RemoveVolume
  <2> QED
    BY <1>6, <2>1 DEF RemoveVolume, StateType
<1>7. CASE Backup(p) \/ Clear(p) \/ Restore(p)
  <2>1. n \in Names
    BY <1>0, <1>7 DEF Backup, Clear, Restore, At, Working
  <2>2. ASSUME vol[n] # None
        PROVE  \A a, b \in {vol[n].runner, vol[n].bak, None} :
                 [runner |-> a, bak |-> b] \in Volume
    BY <2>1, <2>2 DEF StateType, Volume
  <2>3. \/ vol' = vol
        \/ vol[n] # None /\ \E a, b \in {vol[n].runner, vol[n].bak, None} :
             vol' = [vol EXCEPT ![n] = [runner |-> a, bak |-> b]]
    BY <1>7, <2>1 DEF Backup, Clear, Restore, StateType
  <2>4. vol' \in [Names -> Volume \cup {None}]
    BY <2>2, <2>3, VolUpdate DEF StateType
  <2> QED
    BY <1>7, <2>4 DEF Backup, Clear, Restore, StateType
<1>8. CASE CfgCreate(p) \/ RunCreate(p)
  BY <1>0, <1>8, LaunchState DEF CfgCreate, RunCreate, At, Working
<1>9. CASE RollbackKeep(p)
  <2>1. n \in Names
    BY <1>0, <1>9 DEF RollbackKeep, At, Working
  <2>2. ctr[n] # None => /\ With(ctr[n], TRUE) \in Container
                         /\ With(ctr[n], FALSE) \in Container
    BY <2>1, WithType DEF StateType
  <2>3. ctr' \in [Names -> Container \cup {None}]
    BY <1>9, <2>2, CtrUpdate DEF RollbackKeep, HalfRemoved, StateType
  <2> QED
    BY <1>9, <2>3 DEF RollbackKeep, StateType
<1>10. CASE PatchRow(p)
  <2>1. NameOf(p) \in Names
    BY <1>0, <1>10 DEF PatchRow, At, Working
  <2>2. \A w \in Workdirs : [name |-> NameOf(p), wd |-> w] \in Row
    BY <2>1 DEF Row
  <2> QED
    BY <1>10, <2>2 DEF PatchRow, StateType
<1>11. CASE StartStop(p)
  <2>1. n \in Names
    BY <1>0, <1>11 DEF StartStop, At, Working
  <2>2. With(ctr[n], TRUE) \in Container /\ With(ctr[n], FALSE) \in Container
    BY <1>11, <2>1, WithType DEF StartStop, StateType
  <2>3. ctr' \in [Names -> Container \cup {None}]
    BY <1>11, <2>2, CtrUpdate DEF StartStop, SetRunning
  <2> QED
    BY <1>11, <2>3 DEF StartStop, StateType
<1> QED
  BY <1>1, <1>2, <1>3, <1>4, <1>5, <1>6, <1>7, <1>8, <1>9, <1>10, <1>11, StepKinds

\* The requests on a stored runner, recreate-missing aside.
IdOps == {"recreate", "apply", "delete", "patch", "start", "stop"}

LEMMA RequestKinds ==
  ASSUME NEW p \in Handlers, Request(p)
  PROVE  \/ CreateBegin(p) \/ MissingBegin(p)
         \/ \E o \in IdOps, i \in used, r \in Row \cup {None} :
              /\ o \in Ops /\ (o = "apply" => r \in Row)
              /\ SetLocals(p, o, i, r, "reuse", {}) /\ Arrive(p, i) /\ At(p, "idle")
<1>1. CASE ApplyBegin(p)
  BY <1>1 DEF ApplyBegin, IdOps
<1>2. CASE \E o \in IdOps \ {"apply"} : Begin(p, o)
  BY <1>2 DEF Begin
<1> QED
  BY <1>1, <1>2 DEF Request, IdOps

LEMMA RequestKeeps ==
  ASSUME NEW p \in Handlers, Request(p)
  PROVE  /\ Keep /\ UNCHANGED <<faults, astray>> /\ At(p, "idle")
         /\ Goto(p, "lockname") \/ Goto(p, "lockid") \/ Goto(p, "next")
BY RequestKinds DEF CreateBegin, MissingBegin, Arrive, KeepLocks

LEMMA RequestType ==
  ASSUME TypeInv, NEW p \in Handlers, Request(p)
  PROVE  TypeOK' /\ Filled(p)'
<1> USE DEF TypeInv, TypeOK
<1>1. StateType' /\ UNCHANGED <<faults, astray>>
  BY KeepState, RequestKeeps
<1>2. /\ clean \in [Handlers -> BOOLEAN] /\ {} \in SUBSET (Ids \X Row)
      /\ "fresh" \in Plans /\ "reuse" \in Plans /\ "create" \in AllOps
      /\ "missing" \in AllOps /\ IdOps \subseteq AllOps \ {"create", "missing"}
  BY DEF FaultType, Plans, AllOps, IdOps
<1>3. SUFFICES /\ LocalType' /\ clean' \in [Handlers -> BOOLEAN]
               /\ ControlType' /\ Filled(p)'
  BY <1>1 DEF FaultType
<1>4. CASE CreateBegin(p)
  <2>0. PICK r \in Row : \E m \in Found(r.name) :
          /\ SetLocals(p, "create", None, r, "fresh", {})
          /\ table' = [table EXCEPT ![r.name] = m]
          /\ nameMu' = [nameMu EXCEPT ![p] = m]
    BY <1>4 DEF CreateBegin
  <2>1. PICK m \in Found(r.name) :
          /\ SetLocals(p, "create", None, r, "fresh", {})
          /\ table' = [table EXCEPT ![r.name] = m]
          /\ nameMu' = [nameMu EXCEPT ![p] = m]
    BY <2>0
  <2>2. m \in Mutexes
    BY <2>1, FoundType DEF Row
  <2>3. ControlType'
    BY <1>4, <2>1, <2>2 DEF CreateBegin, Goto, ControlType, Labels
  <2>4. pc'[p] = "lockname" /\ op'[p] = "create" /\ rec'[p] = r
    BY <1>4, <2>1 DEF CreateBegin, Goto, ControlType, SetLocals, LocalType
  <2>5. Filled(p)'
    BY <2>1, <2>4 DEF Filled, Owning, Working
  <2> QED
    BY <1>2, <2>1, <2>3, <2>5, SetLocalsType
<1>5. CASE MissingBegin(p)
  <2> DEFINE gone == {i \in Ids : rows[i] # None /\ ctr[rows[i].name] = None}
             list == {<<i, rows[i]>> : i \in gone}
  <2>1. list \in SUBSET (Ids \X Row)
    BY DEF StateType
  <2>2. SetLocals(p, "missing", None, None, "reuse", list)
    BY <1>5 DEF MissingBegin
  <2> HIDE DEF list
  <2>3. LocalType' /\ clean' \in [Handlers -> BOOLEAN]
    BY <1>2, <2>1, <2>2, SetLocalsType
  <2>4. ControlType'
    BY <1>5, GotoControl DEF MissingBegin, Labels
  <2>5. pc'[p] = "next" /\ op'[p] = "missing"
    BY <1>5, <2>2 DEF MissingBegin, SetLocals, Goto, ControlType, LocalType
  <2>6. Filled(p)'
    BY <2>5 DEF Filled, Owning, Working
  <2> QED
    BY <2>3, <2>4, <2>6
<1>6. ASSUME NEW o \in IdOps, NEW i \in used, NEW r \in Row \cup {None},
             o = "apply" => r \in Row,
             SetLocals(p, o, i, r, "reuse", {}), Arrive(p, i)
      PROVE  /\ LocalType' /\ clean' \in [Handlers -> BOOLEAN]
             /\ ControlType' /\ Filled(p)'
  <2>1. i \in Ids
    BY DEF StateType
  <2>2. LocalType' /\ clean' \in [Handlers -> BOOLEAN]
    BY <1>2, <1>6, <2>1, SetLocalsType
  <2>3. ControlType'
    BY <1>6, <2>1, ArriveType
  <2>4. pc'[p] = "lockid" /\ op'[p] = o /\ rid'[p] = i /\ rec'[p] = r
    BY <1>6 DEF Arrive, SetLocals, Goto, ControlType, LocalType
  <2>5. o # "create" /\ o # "missing"
    BY <1>2
  <2>6. Filled(p)'
    BY <1>6, <2>1, <2>4, <2>5 DEF Filled, Owning, Working
  <2> QED
    BY <2>2, <2>3, <2>6
<1> QED
  BY <1>4, <1>5, <1>6, RequestKinds

LEMMA AcquireKeeps ==
  ASSUME NEW p \in Handlers, Acquire(p)
  PROVE  /\ Keep /\ Proceed /\ UNCHANGED locks
         /\ pc[p] \in {"lockname", "lockid"}
BY DEF Acquire, LockName, LockId, KeepLocks, At

LEMMA AcquireType ==
  ASSUME TypeInv, NEW p \in Handlers, Acquire(p)
  PROVE  TypeOK' /\ Filled(p)'
<1> USE DEF TypeInv, TypeOK
<1>1. StateType'
  BY KeepState, AcquireKeeps
<1>2. astray' \in BOOLEAN
  BY DEF Acquire, LockName, LockId, KeepLocks, FaultType
<1>3. LocalType' /\ FaultType'
  BY <1>2, ProceedType, AcquireKeeps DEF FaultType
<1>4. ControlType'
  BY AcquireKeeps DEF Acquire, LockName, LockId, Goto, ControlType, Labels, locks
<1>5. Filled(p) /\ rid' = rid /\ rec' = rec /\ op' = op
  BY AcquireKeeps DEF Proceed, KeepLocals
<1>6. Filled(p)'
  BY <1>5 DEF Acquire, LockName, LockId, At, Goto, ControlType, Filled, Owning, Working
<1> QED
  BY <1>1, <1>3, <1>4, <1>6

LEMMA EnvironmentType ==
  ASSUME TypeInv, Environment
  PROVE  TypeInv'
<1> USE DEF TypeInv, TypeOK
<1>1. CASE Crash
  <2>1. StateType' /\ FaultType'
    BY <1>1, KeepState, FaultStep DEF Crash, FaultType
  <2>2. ControlType' /\ LocalType'
    BY <1>1 DEF Crash, ControlType, LocalType, Labels, Plans
  <2>3. \A p \in Handlers : Filled(p)'
    BY <1>1 DEF Crash, Filled, Owning, Working
  <2> QED
    BY <2>1, <2>2, <2>3
<1>2. ASSUME NEW n \in Names, AgentRegisters(n)
      PROVE  TypeInv'
  <2>1. [runner |-> ctr[n].wd, bak |-> vol[n].bak] \in Volume
    BY <1>2 DEF AgentRegisters, StateType, Container, Volume
  <2>2. StateType'
    BY <1>2, <2>1, VolUpdate DEF AgentRegisters, StateType
  <2> QED
    BY <1>2, <2>2 DEF AgentRegisters, KeepLocks, locks, locals, ControlType, LocalType, FaultType, Filled
<1>3. ASSUME NEW n \in Names, AgentExits(n)
      PROVE  TypeInv'
  <2>1. With(ctr[n], FALSE) \in Container
    BY <1>3, WithType DEF AgentExits, StateType
  <2>2. StateType'
    BY <1>3, <2>1, CtrUpdate DEF AgentExits, StateType
  <2>3. FaultType'
    BY <1>3, FaultStep DEF AgentExits, NobodyClean, KeepLocks, FaultType
  <2> QED
    BY <1>3, <2>2, <2>3 DEF AgentExits, KeepLocks, locks, KeepLocals, ControlType, LocalType, Filled
<1>4. ASSUME NEW n \in Names, DockerReset(n)
      PROVE  TypeInv'
  <2>1. StateType'
    BY <1>4 DEF DockerReset, StateType
  <2>2. FaultType'
    BY <1>4, FaultStep DEF DockerReset, NobodyClean, KeepLocks, FaultType
  <2> QED
    BY <1>4, <2>1, <2>2 DEF DockerReset, KeepLocks, locks, KeepLocals, ControlType, LocalType, Filled
<1> QED
  BY <1>1, <1>2, <1>3, <1>4 DEF Environment

LEMMA InitTypeInv == Init => TypeInv
<1> SUFFICES ASSUME Init PROVE TypeInv
  OBVIOUS
<1>1. TypeOK
  <2>1. StateType /\ ControlType
    BY DEF Init, StateType, ControlType, Labels
  <2>2. LocalType
    BY DEF Init, LocalType, Plans
  <2>3. FaultType
    <3>1. clean \in [Handlers -> BOOLEAN] /\ astray \in BOOLEAN
      BY DEF Init
    <3>2. faults \in 0..MaxFaults
      BY ConstantsOK DEF Init
    <3> QED
      BY <3>1, <3>2 DEF FaultType
  <2> QED
    BY <2>1, <2>2, <2>3 DEF TypeOK
<1> QED
  BY <1>1 DEF Init, TypeInv, Filled, Owning, Working

LEMMA NextTypeInv == TypeInv /\ [Next]_vars => TypeInv'
<1> SUFFICES ASSUME TypeInv, [Next]_vars PROVE TypeInv'
  OBVIOUS
<1>1. ASSUME NEW p \in Handlers, Request(p) \/ Acquire(p) \/ Step(p)
      PROVE  TypeInv'
  <2>1. TypeOK' /\ Filled(p)'
    BY <1>1, RequestType, AcquireType, StepControl, StepLocals, StepFaults,
       StepState DEF TypeOK
  <2>2. ASSUME NEW q \in Handlers, q # p
        PROVE  Filled(q)'
    BY <1>1, <2>2, OthersStand DEF TypeInv, Stands, Filled
  <2> QED
    BY <2>1, <2>2 DEF TypeInv
<1>2. CASE UNCHANGED vars
  BY <1>2 DEF vars, locks, locals, TypeInv, TypeOK, StateType, ControlType, LocalType,
     FaultType, Filled
<1> QED
  BY <1>1, <1>2, EnvironmentType DEF Next

\* The variables keep their types and a handler never uses an id or a row that
\* it has not filled in, recreate-missing and every fault included.
THEOREM TypeCorrect == Spec => []TypeInv
BY InitTypeInv, NextTypeInv, PTL DEF Spec

(* What a step of p changes: its own row, and the container and volume of its *)
(* own name.                                                                  *)

LEMMA RowFrame ==
  ASSUME TypeInv, NEW p \in Handlers, Step(p)
  PROVE  /\ used \subseteq used'
         /\ \A i \in Ids : \/ rows'[i] = rows[i]
                           \/ i = rid[p] /\ pc[p] \in {"add", "get", "rm_row", "act"}
<1> USE DEF TypeInv, TypeOK, StateType
<1>1. CASE CreateAdd(p) \/ Get(p) \/ DeleteRow(p) \/ PatchRow(p)
  BY <1>1 DEF CreateAdd, Get, DeleteRow, PatchRow, At
<1>2. CASE rows' = rows
  BY <1>2, StepKinds DEF Keep, CreateCheck, CreateAdd, Get, DeleteRow, RemoveOld,
     CfgDrop, CfgRemove, RemoveContainer, RemoveVolume, Backup, Clear, Restore,
     CfgCreate, RunCreate, Launch, RollbackKeep, PrepareFails, RemoveFails, PatchRow,
     StartStop
<1> QED
  BY <1>1, <1>2, StepKinds DEF Keep, CreateCheck, RemoveOld, CfgDrop, CfgRemove,
     RemoveContainer, RemoveVolume, Backup, Clear, Restore, CfgCreate, RunCreate,
     Launch, RollbackKeep, PrepareFails, RemoveFails, StartStop

LEMMA DockerFrame ==
  ASSUME TypeInv, NEW p \in Handlers, Step(p), NEW n \in Names
  PROVE  \/ ctr'[n] = ctr[n] /\ vol'[n] = vol[n]
         \/ /\ pc[p] \in Working \ {"rm_row"} /\ n = NameOf(p)
            /\ ctr'[n] # None => \/ ctr'[n].owner = rid[p]
                                 \/ ctr[n] # None /\ ctr'[n].owner = ctr[n].owner
            /\ rows' = rows
<1> USE DEF TypeInv, TypeOK, StateType
<1>1. CASE \/ Keep \/ CreateCheck(p) \/ CreateAdd(p) \/ Get(p) \/ DeleteRow(p)
        \/ PatchRow(p)
  BY <1>1 DEF Keep, CreateCheck, CreateAdd, Get, DeleteRow, PatchRow
<1>2. CASE \/ RemoveOld(p) \/ CfgDrop(p) \/ CfgRemove(p) \/ RemoveContainer(p)
        \/ PrepareFails(p) \/ RemoveFails(p) \/ StartStop(p)
  BY <1>2 DEF RemoveOld, CfgDrop, CfgRemove, RemoveContainer, PrepareFails,
     RemoveFails, HalfRemoved, StartStop, SetRunning, With, At, Working
<1>3. CASE RemoveVolume(p) \/ Backup(p) \/ Clear(p) \/ Restore(p)
  BY <1>3 DEF RemoveVolume, Backup, Clear, Restore, At, Working
<1>4. CASE CfgCreate(p) \/ RunCreate(p)
  <2>1. PICK token \in BOOLEAN, next \in {"cfg_wait", "verify", "listen"} :
          Launch(p, token, next)
    BY <1>4 DEF CfgCreate, RunCreate
  <2>2. vol' = vol \/ vol' = EnsuredVolume(NameOf(p))
    BY <2>1 DEF Launch
  <2>3. n # NameOf(p) => ctr'[n] = ctr[n] /\ vol'[n] = vol[n]
    BY <2>1, <2>2 DEF Launch, EnsuredVolume
  <2>4. ASSUME n = NameOf(p), ctr'[n] # None
        PROVE  \/ ctr'[n].owner = rid[p]
               \/ ctr[n] # None /\ ctr'[n].owner = ctr[n].owner
    <3>1. CASE ctr' = ctr
      BY <2>4, <3>1
    <3>2. ASSUME NEW up \in BOOLEAN, ctr' = [ctr EXCEPT ![n] = Worker(p, token, up)]
          PROVE  ctr'[n].owner = rid[p]
      BY <3>2 DEF Worker
    <3>3. ASSUME ctr[n] # None, ctr' = [ctr EXCEPT ![n] = With(ctr[n], TRUE)]
          PROVE  ctr'[n].owner = ctr[n].owner
      BY <3>3 DEF With
    <3>4. CASE ctr' = [ctr EXCEPT ![n] = None]
      BY <2>4, <3>4
    <3> QED
      BY <2>1, <2>4, <3>1, <3>2, <3>3, <3>4, LaunchEffect
  <2> QED
    BY <1>4, <2>1, <2>3, <2>4 DEF CfgCreate, RunCreate, At, Working, Launch
<1>5. CASE RollbackKeep(p)
  BY <1>5 DEF RollbackKeep, HalfRemoved, With, At, Working
<1> QED
  BY <1>1, <1>2, <1>3, <1>4, <1>5, StepKinds

\* A handler comes to hold a runner that nobody else holds: its id is fresh, or it
\* has waited and has not gone astray.
LEMMA HoldsAlone ==
  ASSUME IInv, NEW p \in Handlers, Request(p) \/ Acquire(p) \/ Step(p), ~ astray',
         NEW q \in Handlers, q # p, pc[q] \in Owning, pc'[p] \in Owning
  PROVE  rid'[p] # rid[q]
<1> USE DEF IInv, TypeInv, TypeOK, ControlType, Goto
<1>1. rid[q] \in Ids /\ rid[q] \in used
  BY DEF Filled, Owns
<1>2. ASSUME pc[p] \in Owning, rid'[p] = rid[p]
      PROVE  rid'[p] # rid[q]
  BY <1>2 DEF Exclusive
<1>3. CASE Moves(p)
  BY <1>2, <1>3 DEF Moves, Owning
<1>4. CASE Finish(p) \/ MissingNext(p) \/ Forget(p)
  BY <1>4 DEF Finish, MissingNext, Arrive, Forget, Leave, Owning, Working
<1>5. CASE CreateCheck(p)
  BY <1>1, <1>5 DEF CreateCheck, LocalType
<1>6. CASE Load(p)
  BY <1>2, <1>6 DEF Load, At, Owning
<1>7. CASE LockName(p)
  BY <1>7 DEF LockName, Owning, Working
<1>8. CASE LockId(p)
  <2>1. ~ HasRunner(q, rid[p])
    BY <1>8 DEF LockId
  <2>2. rid' = rid
    BY <1>8 DEF LockId, Proceed, KeepLocals
  <2> QED
    BY <2>1, <2>2 DEF HasRunner
<1>9. CASE Request(p)
  BY <1>9, RequestKeeps DEF Owning, Working
<1> QED
  BY <1>3, <1>4, <1>5, <1>6, <1>7, <1>8, <1>9, StepShape DEF Acquire

LEMMA StepExclusive ==
  ASSUME IInv, NEW p \in Handlers, Request(p) \/ Acquire(p) \/ Step(p), ~ astray'
  PROVE  Exclusive'
<1> SUFFICES ASSUME NEW q1 \in Handlers, NEW q2 \in Handlers, q1 # q2,
                    pc'[q1] \in Owning, pc'[q2] \in Owning
             PROVE  rid'[q1] # rid'[q2]
  BY DEF Exclusive
<1>1. \A q \in Handlers : q # p => pc'[q] = pc[q] /\ rid'[q] = rid[q]
  BY OthersStand DEF Stands, IInv, TypeInv
<1>2. CASE q1 # p /\ q2 # p
  BY <1>1, <1>2 DEF IInv, Exclusive
<1>3. CASE q1 = p
  BY <1>1, <1>3, HoldsAlone
<1>4. CASE q2 = p
  BY <1>1, <1>4, HoldsAlone
<1> QED
  BY <1>2, <1>3, <1>4

(* While no handler has gone astray, a working one owns its runner.           *)

LEMMA OwnersDiffer ==
  ASSUME IInv, NEW p \in Handlers, NEW q \in Handlers, p # q,
         pc[p] \in Owning, pc[q] \in Owning
  PROVE  /\ rid[p] # rid[q]
         /\ pc[p] \in Working /\ pc[q] \in Working => NameOf(p) # NameOf(q)
<1>1. rid[p] # rid[q]
  BY DEF IInv, Exclusive
<1>2. rid[p] \in Ids /\ rid[q] \in Ids
  BY DEF IInv, TypeInv, Filled
<1>3. ASSUME pc[p] \in Working, pc[q] \in Working, NameOf(p) = NameOf(q)
      PROVE  FALSE
  BY <1>1, <1>2, <1>3 DEF IInv, Owns, RowsInv
<1> QED
  BY <1>1, <1>3

LEMMA RowNotNone == \A n \in Names, w \in Workdirs : [name |-> n, wd |-> w] # None
BY ConstantsOK DEF Row

\* The rows of a store with unique names and known ids keep both.
LEMMA StepRows ==
  ASSUME IInv, NEW p \in Handlers, Step(p)
  PROVE  RowsInv'
<1> USE DEF IInv, TypeInv, TypeOK, StateType
<1>0. pc[p] \in {"add", "get", "rm_row", "act"} =>
        /\ rid[p] \in Ids /\ rid[p] \in used /\ rec[p] \in Row /\ rec[p] # None
        /\ pc[p] \in {"get", "act"} => rows[rid[p]] # None /\ rows[rid[p]].name = NameOf(p)
  BY ConstantsOK DEF Filled, Owns, Owning, Working
<1>1. CASE CreateAdd(p)
  <2>1. rows' = [rows EXCEPT ![rid[p]] = rec[p]] /\ ~ NameTaken(rec[p].name) /\ used' = used
    BY <1>1 DEF CreateAdd, NameOf
  <2> QED
    BY <1>0, <1>1, <2>1 DEF CreateAdd, At, NameTaken, RowsInv
<1>2. CASE Get(p) \/ PatchRow(p)
  <2>1. \/ rows' = rows
        \/ \E r \in Row : r.name = NameOf(p) /\ rows' = [rows EXCEPT ![rid[p]] = r]
    <3>1. NameOf(p) \in Names /\ rec[p] \in Row
      BY <1>0, <1>2 DEF Get, PatchRow, At, NameOf, Row
    <3>2. \A w \in Workdirs : [name |-> NameOf(p), wd |-> w] \in Row
      BY <3>1 DEF Row
    <3> QED
      BY <1>2, <3>1, <3>2 DEF Get, PatchRow, NameOf
  <2>2. pc[p] \in {"get", "act"} /\ used' = used
    BY <1>2 DEF Get, PatchRow, At
  <2>3. \A i \in Ids : (rows'[i] # None) = (rows[i] # None)
                       /\ (rows[i] # None => rows'[i].name = rows[i].name)
    BY <1>0, <2>1, <2>2, ConstantsOK DEF NameOf
  <2> QED
    BY <2>2, <2>3 DEF RowsInv
<1>3. CASE DeleteRow(p)
  BY <1>3 DEF DeleteRow, RowsInv
<1>4. CASE rows' = rows
  <2>1. used \subseteq used'
    BY RowFrame
  <2> QED
    BY <1>4, <2>1 DEF RowsInv
<1> QED
  BY <1>1, <1>2, <1>3, <1>4, StepKinds DEF Keep, CreateCheck, RemoveOld, CfgDrop,
     CfgRemove, RemoveContainer, RemoveVolume, Backup, Clear, Restore, CfgCreate,
     RunCreate, Launch, RollbackKeep, PrepareFails, RemoveFails, StartStop

LEMMA StepAttached ==
  ASSUME IInv, NEW p \in Handlers, Step(p)
  PROVE  Attached'
<1> USE DEF IInv, TypeInv, TypeOK, StateType
<1>1. SUFFICES ASSUME NEW n \in Names
               PROVE  /\ ctr'[n] # None => /\ rows'[ctr'[n].owner] # None
                                           /\ rows'[ctr'[n].owner].name = n
                      /\ vol'[n] # None => NameTaken(n)'
  BY DEF Attached
<1>2. CASE ctr'[n] = ctr[n] /\ vol'[n] = vol[n]
  <2>1. /\ ctr[n] # None => /\ ctr[n].owner \in Ids /\ rows[ctr[n].owner] # None
                            /\ rows[ctr[n].owner].name = n
        /\ vol[n] # None => \E i \in Ids : rows[i] # None /\ rows[i].name = n
    BY DEF Attached, NameTaken, Container
  <2>2. ASSUME NEW i \in Ids, rows[i] # None, rows[i].name = n,
               ctr[n] # None \/ vol[n] # None
        PROVE  rows'[i] # None /\ rows'[i].name = n
    <3>1. CASE rows'[i] = rows[i]
      BY <2>2, <3>1
    <3>2. CASE i = rid[p] /\ pc[p] = "add"
      BY <2>2, <3>2 DEF Owns
    <3>3. CASE i = rid[p] /\ pc[p] = "rm_row"
      BY <2>2, <3>3 DEF Owns, Working
    <3>4. CASE i = rid[p] /\ pc[p] \in {"get", "act"}
      <4>1. Get(p) \/ PatchRow(p) \/ rows' = rows
        BY <3>4 DEF Step, CreateCheck, CreateAdd, CreateConflict, Load, LoadNotFound,
           Refuse, MissingNext, MakePlan, RemoveOld, Backup, Clear, PrepareFails,
           CfgCreate, CfgWait, CfgWaitFails, CfgDrop, CfgRemove, RunCreate, ListenOK,
           ListenFails, Verify, VerifyFails, Failed, Restore, RollbackKeep,
           RollbackInspectFails, RollbackRemove, RemoveContainer, RemoveVolume,
           RemoveFails, DeleteRow, StartStop, Forget, Arrive, At, Keep, Launch
      <4>2. rec[p] \in Row /\ rec[p] # None /\ rec[p].name = n
        BY <2>2, <3>4, ConstantsOK DEF Filled, Owns, Working, NameOf
      <4> QED
        <5>1. CASE Get(p) \/ rows' = rows
          BY <2>2, <3>4, <4>2, <5>1 DEF Get
        <5>2. CASE PatchRow(p)
          <6>1. PICK w \in Workdirs : rows' = [rows EXCEPT ![rid[p]] = [name |-> n, wd |-> w]]
            BY <4>2, <5>2 DEF PatchRow, NameOf
          <6> QED
            BY <2>2, <3>4, <6>1, RowNotNone
        <5> QED
          BY <4>1, <5>1, <5>2
    <3> QED
      BY <3>1, <3>2, <3>3, <3>4, RowFrame
  <2> QED
    BY <1>2, <2>1, <2>2 DEF NameTaken
<1>3. CASE /\ pc[p] \in Working /\ n = NameOf(p) /\ rows' = rows
           /\ ctr'[n] # None => \/ ctr'[n].owner = rid[p]
                                \/ ctr[n] # None /\ ctr'[n].owner = ctr[n].owner
  <2>1. rid[p] \in Ids /\ rows[rid[p]] # None /\ rows[rid[p]].name = n
    BY <1>3 DEF Filled, Owning, Owns
  <2> QED
    BY <1>3, <2>1 DEF Attached, NameTaken
<1> QED
  BY <1>2, <1>3, DockerFrame

\* What the others own is still theirs after a step of p.
LEMMA OthersOwn ==
  ASSUME IInv, NEW p \in Handlers, NEW q \in Handlers, p # q,
         Request(p) \/ Acquire(p) \/ Step(p)
  PROVE  Owns(q)'
<1> USE DEF IInv, TypeInv, TypeOK
<1>1. Stands(q) /\ Owns(q) /\ Filled(q)
  BY OthersStand
<1>3. CASE Step(p)
  <2>1. used \subseteq used'
    BY <1>3, RowFrame
  <2>2. ASSUME pc[q] \in Owning PROVE rows'[rid[q]] = rows[rid[q]]
    <3>1. rid[q] \in Ids
      BY <1>1, <2>2 DEF Filled
    <3>2. rid[q] = rid[p] => pc[p] \notin Owning
      BY <2>2, OwnersDiffer
    <3> QED
      BY <1>3, <3>1, <3>2, RowFrame DEF Owning, Working
  <2>3. ASSUME pc[q] \in {"backup", "clear", "rm_row"}
        PROVE  ctr'[NameOf(q)] = ctr[NameOf(q)] /\ vol'[NameOf(q)] = vol[NameOf(q)]
    <3>1. NameOf(q) \in Names
      BY <1>1, <2>3 DEF Filled, Working, NameOf, Row
    <3>2. pc[p] \in Working => NameOf(p) # NameOf(q)
      BY <2>3, OwnersDiffer DEF Owning, Working
    <3> QED
      BY <1>3, <3>1, <3>2, DockerFrame
  <2> QED
    BY <1>1, <2>1, <2>2, <2>3 DEF Stands, Owns, Owning, Working, NameOf
<1>4. CASE Request(p) \/ Acquire(p)
  <2>1. Keep
    BY <1>4, RequestKeeps, AcquireKeeps
  <2> QED
    BY <1>1, <2>1 DEF Keep, Stands, Owns, NameOf
<1> QED
  BY <1>3, <1>4

LEMMA MovesOwn ==
  ASSUME IInv, NEW p \in Handlers, Step(p), Moves(p)
  PROVE  Owns(p)'
<1> USE DEF IInv, TypeInv, TypeOK
<1>1. Owns(p) /\ Filled(p) /\ pc[p] \in Owning
  BY DEF Moves, Owning
<1>2. rid[p] \in Ids /\ rid[p] \in used /\ rec[p] \in Row
  BY <1>1 DEF Filled, Owns, Owning, Moves
<1>3. PICK l \in Working : pc' = [pc EXCEPT ![p] = l]
  BY DEF Moves, Goto
<1>4. pc'[p] = l /\ l \notin {"next", "lockid", "load", "add"}
  BY <1>3 DEF ControlType, Working
<1>5. (\A t \in todo'[p] : t[1] \in used') /\ rid'[p] \in used'
  BY <1>1, <1>2, RowFrame DEF Moves, Owns
<1>6. rows'[rid'[p]] # None /\ rows'[rid'[p]].name = NameOf(p)'
  <2>1. CASE CreateAdd(p)
    BY <1>2, <2>1, ConstantsOK DEF CreateAdd, StateType, Moves, NameOf
  <2>2. CASE pc[p] \in Working /\ rows'[rid[p]] = rows[rid[p]]
    BY <1>1, <2>2 DEF Owns, Moves, NameOf
  <2>3. pc[p] = "add" => CreateAdd(p)
    <3>1. ASSUME CreateConflict(p) PROVE FALSE
      BY <1>1, <1>3, <1>4, <3>1 DEF CreateConflict, Finish, Leave, Goto, ControlType, Working
    <3> QED
      BY <3>1 DEF Step, CreateCheck, Load, LoadNotFound, Refuse, MissingNext, MakePlan,
         RemoveOld, Backup, Clear, PrepareFails, CfgCreate, CfgWait, CfgWaitFails,
         CfgDrop, CfgRemove, RunCreate, ListenOK, ListenFails, Verify, VerifyFails,
         Get, Failed, Restore, RollbackKeep, RollbackInspectFails, RollbackRemove,
         RemoveContainer, RemoveVolume, RemoveFails, DeleteRow, PatchRow, StartStop,
         Forget, At
  <2>4. CASE pc[p] \in {"get", "rm_row", "act"}
    <3>1. Finish(p)
      BY <2>4 DEF Step, CreateCheck, CreateAdd, CreateConflict, Load, LoadNotFound,
         Refuse, MissingNext, MakePlan, RemoveOld, Backup, Clear, PrepareFails,
         CfgCreate, CfgWait, CfgWaitFails, CfgDrop, CfgRemove, RunCreate, ListenOK,
         ListenFails, Verify, VerifyFails, Get, Failed, Restore, RollbackKeep,
         RollbackInspectFails, RollbackRemove, RemoveContainer, RemoveVolume,
         RemoveFails, DeleteRow, PatchRow, StartStop, Forget, At
    <3> QED
      BY <1>3, <1>4, <3>1 DEF Finish, Leave, Goto, ControlType, Working
  <2> QED
    BY <1>2, <2>1, <2>2, <2>3, <2>4, RowFrame DEF Moves
<1>7. ASSUME l = "rm_row"
      PROVE  ctr'[NameOf(p)'] = None /\ vol'[NameOf(p)'] = None
  <2>1. plan[p] \in Plans
    BY DEF LocalType
  <2>2. RemoveVolume(p)
    BY <1>3, <1>4, <1>7, <2>1 DEF Step, CreateCheck, CreateAdd, CreateConflict, Load,
       LoadNotFound, Refuse, MissingNext, MakePlan, ContinueWith, AfterRemove, PlanFor,
       RemoveOld, Backup, Clear, PrepareFails, CfgCreate, CfgWait, CfgWaitFails,
       CfgDrop, CfgRemove, RunCreate, Launch, ListenOK, ListenFails, Verify,
       VerifyFails, Get, Failed, Restore, RollbackKeep, RollbackInspectFails,
       RollbackRemove, RemoveContainer, RemoveFails, DeleteRow, PatchRow, StartStop,
       Forget, Arrive, Finish, Leave, Goto, ControlType, Plans
  <2>3. NameOf(p) \in Names /\ NameOf(p)' = NameOf(p)
    BY <1>2 DEF NameOf, Row, Moves
  <2> QED
    BY <2>2, <2>3 DEF RemoveVolume, StateType
<1>8. ASSUME l \in {"backup", "clear"}
      PROVE  /\ ctr'[NameOf(p)'] = None
             /\ l = "clear" => BackedUp(vol'[NameOf(p)'])
  <2>1. plan[p] \in Plans
    BY DEF LocalType
  <2>2. NameOf(p) \in Names /\ NameOf(p)' = NameOf(p)
    BY <1>2 DEF NameOf, Row, Moves
  <2>3. MakePlan(p) \/ RemoveOld(p) \/ Backup(p)
    BY <1>3, <1>4, <1>8, <2>1 DEF Step, CreateCheck, CreateAdd, CreateConflict, Load, LoadNotFound, Refuse,
       MissingNext, ContinueWith, AfterRemove, Clear, PrepareFails, CfgCreate,
       CfgWait, CfgWaitFails, CfgDrop, CfgRemove, RunCreate, Launch, ListenOK,
       ListenFails, Verify, VerifyFails, Get, Failed, Restore, RollbackKeep,
       RollbackInspectFails, RollbackRemove, RemoveContainer, RemoveVolume,
       RemoveFails, DeleteRow, PatchRow, StartStop, Forget, Arrive, Finish, Leave, Goto,
       ControlType, Plans
  <2>4. CASE MakePlan(p)
    <3>1. PICK pl \in Plans : ContinueWith(p, pl)
      BY <2>4 DEF MakePlan, PlanFor, Plans
    <3> QED
      BY <1>3, <1>4, <1>8, <2>2, <2>4, <3>1 DEF MakePlan, ContinueWith, AfterRemove,
         Plans, Goto, ControlType, Keep
  <2>5. CASE RemoveOld(p)
    BY <1>3, <1>4, <1>8, <2>1, <2>2, <2>5 DEF RemoveOld, AfterRemove, Plans, Goto,
       ControlType, StateType
  <2>6. CASE Backup(p)
    <3>1. ctr'[NameOf(p)] = None
      BY <1>1, <2>6 DEF Backup, At, Owns
    <3>2. BackedUp(vol'[NameOf(p)])
      BY <2>2, <2>6 DEF Backup, BackedUp, StateType
    <3> QED
      BY <2>2, <3>1, <3>2
  <2> QED
    BY <2>3, <2>4, <2>5, <2>6
<1> QED
  BY <1>4, <1>5, <1>6, <1>7, <1>8 DEF Owns

\* A request, and the lists of recreate-missing, name ids that have been handed out.
LEMMA BegunOwns ==
  ASSUME IInv, NEW p \in Handlers, Request(p)
  PROVE  Owns(p)'
<1> USE DEF IInv, TypeInv, TypeOK, ControlType, LocalType
<1>1. used' = used
  BY RequestKeeps DEF Keep
<1>2. CASE CreateBegin(p)
  <2>1. pc'[p] = "lockname" /\ todo'[p] = {}
    BY <1>2 DEF CreateBegin, Goto, SetLocals
  <2> QED
    BY <2>1 DEF Owns, Owning, Working
<1>3. CASE MissingBegin(p)
  <2> DEFINE list == {<<i, rows[i]>> :
                        i \in {j \in Ids : rows[j] # None /\ ctr[rows[j].name] = None}}
  <2>1. todo'[p] = list /\ pc'[p] = "next"
    BY <1>3 DEF MissingBegin, Goto, SetLocals
  <2>2. \A t \in list : t[1] \in used
    BY DEF RowsInv
  <2> HIDE DEF list
  <2> QED
    BY <1>1, <2>1, <2>2 DEF Owns, Owning, Working
<1>4. ASSUME NEW o, NEW i \in used, NEW r, SetLocals(p, o, i, r, "reuse", {}), Arrive(p, i)
      PROVE  Owns(p)'
  <2>1. pc'[p] = "lockid" /\ rid'[p] = i /\ todo'[p] = {}
    BY <1>4 DEF Arrive, Goto, SetLocals
  <2> QED
    BY <1>1, <2>1 DEF Owns, Owning, Working
<1> QED
  BY <1>2, <1>3, <1>4, RequestKinds

LEMMA LockedOwns ==
  ASSUME IInv, NEW p \in Handlers, LockId(p), ~ astray'
  PROVE  Owns(p)'
<1> USE DEF IInv, TypeInv, TypeOK
<1>1. /\ rid[p] \in Ids /\ rid[p] \in used
      /\ \A t \in todo[p] : t[1] \in used
  BY DEF LockId, At, Filled, Owns
<1>2. UNCHANGED <<op, rid, rec, todo, rows, used>>
  BY DEF LockId, Proceed, KeepLocals, Keep
<1>3. pc'[p] = IF op[p] = "missing" THEN "gate" ELSE "load"
  BY DEF LockId, Goto, ControlType
<1>4. CASE op[p] = "missing"
  <2>1. rows[rid[p]] # None /\ rows[rid[p]].name = NameOf(p)
    BY <1>4 DEF LockId, Stale
  <2> QED
    BY <1>1, <1>2, <1>3, <1>4, <2>1 DEF Owns, NameOf
<1>5. CASE op[p] # "missing"
  BY <1>1, <1>2, <1>3, <1>5 DEF Owns, Working
<1> QED
  BY <1>4, <1>5

LEMMA HandlerOwns ==
  ASSUME IInv, NEW p \in Handlers, Request(p) \/ Acquire(p) \/ Step(p), ~ astray'
  PROVE  Owns(p)'
<1> USE DEF IInv, TypeInv, TypeOK
<1>0. Owns(p) /\ Filled(p)
  OBVIOUS
<1>1. CASE Step(p) /\ Moves(p)
  BY <1>1, MovesOwn
<1>2. CASE Step(p) /\ (Finish(p) \/ Forget(p))
  <2>1. pc'[p] \in {"idle", "unlocked", "next"} /\ todo'[p] \in {todo[p], {}}
    BY <1>2 DEF Finish, Forget, Leave, Goto, SetLocals, locals, ControlType, LocalType
  <2>2. used \subseteq used'
    BY <1>2, RowFrame
  <2> QED
    BY <1>0, <2>1, <2>2 DEF Owns, Owning, Working
<1>3. CASE CreateCheck(p)
  <2>1. PICK i \in Ids \ used : used' = used \cup {i} /\ rid' = [rid EXCEPT ![p] = i]
    BY <1>3 DEF CreateCheck
  <2>2. rows'[i] = None
    BY <1>3, <2>1 DEF CreateCheck, RowsInv
  <2>3. pc'[p] = "add" /\ todo'[p] = todo[p] /\ rid'[p] = i
    BY <1>3, <2>1 DEF CreateCheck, Goto, ControlType, LocalType
  <2> QED
    BY <1>0, <2>1, <2>2, <2>3 DEF Owns, Working
<1>4. CASE Load(p)
  <2>1. rid[p] \in Ids /\ rid[p] \in used /\ rows[rid[p]] # None
    BY <1>0, <1>4 DEF Load, At, Filled, Owns, Owning
  <2>2. rec'[p].name = rows[rid[p]].name
    BY <1>4 DEF Load, LocalType
  <2>3. /\ pc'[p] \in {"rm_ctr", "gate", "act"} /\ todo' = todo /\ rid' = rid
        /\ rows' = rows /\ used' = used
    BY <1>4 DEF Load, Goto, ControlType, Keep
  <2> QED
    BY <1>0, <2>1, <2>2, <2>3 DEF Owns, NameOf
<1>5. CASE MissingNext(p)
  <2>1. PICK t \in todo[p] : /\ rid' = [rid EXCEPT ![p] = t[1]]
                             /\ todo' = [todo EXCEPT ![p] = todo[p] \ {t}]
    BY <1>5 DEF MissingNext
  <2>2. /\ pc'[p] = "lockid" /\ rid'[p] = t[1] /\ todo'[p] = todo[p] \ {t}
        /\ used' = used
    BY <1>5, <2>1 DEF MissingNext, Arrive, Keep, Goto, ControlType, LocalType
  <2> QED
    BY <1>0, <2>1, <2>2 DEF Owns, Working
<1>6. CASE LockName(p)
  BY <1>0, <1>6 DEF LockName, At, Proceed, KeepLocals, Keep, Goto, ControlType, Owns,
     Owning, Working
<1> QED
  BY <1>1, <1>2, <1>3, <1>4, <1>5, <1>6, BegunOwns, LockedOwns, StepShape DEF Acquire

LEMMA EnvironmentOwns ==
  ASSUME IInv, Environment
  PROVE  RowsInv' /\ Attached' /\ Exclusive' /\ \A p \in Handlers : Owns(p)'
<1> USE DEF IInv, TypeInv, TypeOK, StateType
<1>1. CASE Crash
  BY <1>1 DEF Crash, Keep, RowsInv, Attached, NameTaken, Exclusive, Owns, Owning, Working
<1>2. ASSUME UNCHANGED <<rows, used, pc, op, rid, rec, todo>>,
             \A n \in Names : /\ ctr'[n] # None => /\ ctr[n] # None
                                                   /\ ctr'[n].owner = ctr[n].owner
                              /\ vol'[n] # None => vol[n] # None
                              /\ vol'[n] \in {vol[n], None} \/ ctr[n] # None
      PROVE  RowsInv' /\ Attached' /\ Exclusive' /\ \A p \in Handlers : Owns(p)'
  <2>1. Attached'
    BY <1>2 DEF Attached, NameTaken
  <2>2. ASSUME NEW p \in Handlers
        PROVE  Owns(p)'
    <3>1. pc[p] \in {"backup", "clear", "rm_row"} => NameOf(p) \in Names
      BY DEF Filled, Working, NameOf, Row
    <3>2. pc[p] \in {"backup", "clear", "rm_row"} => ctr'[NameOf(p)] = None
      BY <1>2, <3>1 DEF Owns
    <3>3. pc[p] = "clear" => BackedUp(vol'[NameOf(p)])
      BY <1>2, <3>1 DEF Owns, BackedUp
    <3>4. pc[p] = "rm_row" => vol'[NameOf(p)] = None
      BY <1>2, <3>1 DEF Owns
    <3>5. NameOf(p)' = NameOf(p)
      BY <1>2 DEF NameOf
    <3> QED
      BY <1>2, <3>2, <3>3, <3>4, <3>5 DEF Owns
  <2> QED
    BY <1>2, <2>1, <2>2 DEF RowsInv, Exclusive
<1>3. ASSUME NEW m \in Names, AgentRegisters(m) \/ AgentExits(m) \/ DockerReset(m)
      PROVE  RowsInv' /\ Attached' /\ Exclusive' /\ \A p \in Handlers : Owns(p)'
  <2>1. \A n \in Names : ctr'[n] # None => ctr[n] # None /\ ctr'[n].owner = ctr[n].owner
    BY <1>3 DEF AgentRegisters, AgentExits, DockerReset, With
  <2>2. \A n \in Names : /\ vol'[n] # None => vol[n] # None
                         /\ vol'[n] \in {vol[n], None} \/ ctr[n] # None
    BY <1>3 DEF AgentRegisters, AgentExits, DockerReset
  <2> QED
    BY <1>2, <1>3, <2>1, <2>2 DEF AgentRegisters, AgentExits, DockerReset, locals,
       KeepLocals
<1> QED
  BY <1>1, <1>3 DEF Environment

LEMMA InitIInv == Init => IInv
BY InitTypeInv DEF Init, IInv, RowsInv, Attached, Exclusive, Owns, Owning, Working

LEMMA AstrayStays == TypeInv /\ [Next]_vars /\ ~ astray' => ~ astray
<1> SUFFICES ASSUME TypeInv, [Next]_vars PROVE astray => astray'
  OBVIOUS
<1>1. ASSUME NEW p \in Handlers, Request(p) \/ Step(p)
      PROVE  astray' = astray
  BY <1>1, RequestKeeps, StepAstray
<1>2. ASSUME NEW p \in Handlers, Acquire(p)
      PROVE  astray => astray'
  BY <1>2 DEF Acquire, LockName, LockId, KeepLocks
<1>3. CASE Environment
  BY <1>3 DEF Environment, AgentRegisters, AgentExits, DockerReset, Crash, KeepLocks
<1>4. CASE UNCHANGED vars
  BY <1>4 DEF vars
<1> QED
  BY <1>1, <1>2, <1>3, <1>4 DEF Next

LEMMA NextIInv == IInv /\ [Next]_vars /\ ~ astray' => IInv'
<1> SUFFICES ASSUME IInv, [Next]_vars, ~ astray' PROVE IInv'
  OBVIOUS
<1>1. TypeInv'
  BY NextTypeInv DEF IInv
<1>2. ASSUME NEW p \in Handlers, Request(p) \/ Acquire(p) \/ Step(p)
      PROVE  RowsInv' /\ Attached' /\ Exclusive' /\ \A q \in Handlers : Owns(q)'
  <2>1. RowsInv' /\ Attached'
    <3>1. CASE Step(p)
      BY <3>1, StepRows, StepAttached
    <3>2. CASE Request(p) \/ Acquire(p)
      <4>1. Keep
        BY <3>2, RequestKeeps, AcquireKeeps
      <4> QED
        BY <4>1 DEF Keep, IInv, RowsInv, Attached, NameTaken
    <3> QED
      BY <1>2, <3>1, <3>2
  <2>2. Exclusive' /\ \A q \in Handlers : Owns(q)'
    BY <1>2, StepExclusive, HandlerOwns, OthersOwn
  <2> QED
    BY <2>1, <2>2
<1>3. CASE UNCHANGED vars
  <2>1. /\ rows' = rows /\ used' = used /\ ctr' = ctr /\ vol' = vol
        /\ pc' = pc /\ op' = op /\ rid' = rid /\ rec' = rec /\ todo' = todo
    BY <1>3 DEF vars, locals
  <2>2. RowsInv' /\ Attached' /\ Exclusive'
    BY <2>1 DEF IInv, RowsInv, Attached, NameTaken, Exclusive
  <2>3. ASSUME NEW p \in Handlers PROVE Owns(p)'
    <3>1. Owns(p)
      BY DEF IInv
    <3> QED
      BY <2>1, <3>1 DEF Owns, NameOf
  <2> QED
    BY <1>1, <2>2, <2>3 DEF IInv
<1> QED
  BY <1>1, <1>2, <1>3, EnvironmentOwns DEF Next, IInv

\* The inductive invariant.
OwnershipInv == TypeInv /\ (~ astray => IInv)

\* As long as no runner has had two holders and no listed row has gone, a handler that
\* holds a runner is alone with it and owns its row and name.
THEOREM Ownership == Spec => []OwnershipInv
<1>1. Init => OwnershipInv
  BY InitIInv, InitTypeInv DEF OwnershipInv
<1>2. OwnershipInv /\ [Next]_vars => OwnershipInv'
  BY NextTypeInv, AstrayStays, NextIInv DEF OwnershipInv
<1> QED
  BY <1>1, <1>2, PTL DEF Spec

\* However calls fail and whenever the manager is killed, no container and no data
\* volume outlives its stored runner (Create, rollback, Recreate, RecreateMissing,
\* Delete), unless two handlers have held one runner at a time or RecreateMissing has
\* recreated a row that had gone.
THEOREM NothingOrphaned == Spec => []NoOrphan
<1>1. OwnershipInv => NoOrphan
  BY DEF OwnershipInv, IInv, NoOrphan
<1> QED
  BY <1>1, Ownership, PTL

\* Two handlers never work on one container, although Create locks the name, under a
\* key that is forgotten while others wait, and the other operations lock the id;
\* under the same condition.
THEOREM OneWorker == Spec => []OneWorkerPerName
<1>1. IInv => \A p, q \in Handlers :
        p # q /\ pc[p] \in Working /\ pc[q] \in Working => NameOf(p) # NameOf(q)
  <2> SUFFICES ASSUME IInv, NEW p \in Handlers, NEW q \in Handlers, p # q,
                      pc[p] \in Working, pc[q] \in Working
               PROVE  NameOf(p) # NameOf(q)
    OBVIOUS
  <2> QED
    BY OwnersDiffer DEF Owning
<1>2. OwnershipInv => OneWorkerPerName
  BY <1>1 DEF OwnershipInv, OneWorkerPerName
<1> QED
  BY <1>2, Ownership, PTL

LEMMA NextKeepsRegistration == IInv /\ [Next]_vars => [KeepsRegistration]_vars
<1> SUFFICES ASSUME IInv, Next, NEW n \in Names, Holds(vol[n]), vol'[n] # None
             PROVE  Holds(vol'[n])
  BY DEF KeepsRegistration
<1> USE DEF IInv, TypeInv, TypeOK, StateType
<1>1. CASE vol'[n] = vol[n]
  BY <1>1
<1>2. ASSUME NEW p \in Handlers, Step(p)
      PROVE  Holds(vol'[n])
  <2>1. CASE Clear(p)
    <3>1. BackedUp(vol[NameOf(p)])
      BY <2>1 DEF Clear, At, Owns
    <3> QED
      BY <2>1, <3>1 DEF Clear, BackedUp, Holds
  <2>2. CASE Backup(p) \/ Restore(p)
    BY <2>2 DEF Backup, Restore, Holds
  <2>3. CASE RemoveVolume(p)
    BY <2>3 DEF RemoveVolume
  <2>4. CASE CfgCreate(p) \/ RunCreate(p)
    BY <2>4 DEF CfgCreate, RunCreate, Launch, EnsuredVolume, Holds
  <2>5. CASE vol' = vol
    BY <2>5
  <2> QED
    BY <1>2, <2>1, <2>2, <2>3, <2>4, <2>5, StepKinds DEF Keep, CreateCheck, CreateAdd,
       Get, DeleteRow, RemoveOld, CfgDrop, CfgRemove, RemoveContainer, RollbackKeep,
       PrepareFails, RemoveFails, PatchRow, StartStop
<1>3. ASSUME NEW p \in Handlers, Request(p) \/ Acquire(p)
      PROVE  vol' = vol
  BY <1>3, RequestKeeps, AcquireKeeps DEF Keep
<1>5. ASSUME NEW m \in Names, AgentRegisters(m)
      PROVE  Holds(vol'[n])
  <2>1. CASE m = n
    <3>1. ctr[n].wd \in Workdirs
      BY <1>5, <2>1 DEF AgentRegisters, Container
    <3> QED
      BY <1>5, <2>1, <3>1, ConstantsOK DEF AgentRegisters, Holds
  <2>2. CASE m # n
    BY <1>1, <1>5, <2>2 DEF AgentRegisters
  <2> QED
    BY <2>1, <2>2
<1>6. ASSUME NEW m \in Names, AgentExits(m) \/ DockerReset(m)
      PROVE  Holds(vol'[n])
  BY <1>1, <1>6 DEF AgentExits, DockerReset
<1>7. CASE Crash
  BY <1>7 DEF Crash, Keep
<1> QED
  BY <1>1, <1>2, <1>3, <1>5, <1>6, <1>7 DEF Next, Environment

\* No step, whatever fails, and no crash loses the registration of a volume that
\* stays: .runner is cleared only when .runner.bak has a copy; under the same condition.
THEOREM RegistrationNeverLost == Spec => RegistrationKept
<1>1. OwnershipInv /\ [Next]_vars => [~ astray => KeepsRegistration]_vars
  BY NextKeepsRegistration DEF OwnershipInv
<1> QED
  BY <1>1, Ownership, PTL DEF Spec, RegistrationKept

(* A clean run of a create, recreate or apply, and what a rollback removes.   *)

\* Attached and unique names: the container that bears a working handler's name
\* is its own runner's.
LEMMA OwnContainer ==
  ASSUME IInv, NEW p \in Handlers, pc[p] \in Working, ctr[NameOf(p)] # None
  PROVE  ctr[NameOf(p)].owner = rid[p]
<1> USE DEF IInv, TypeInv, TypeOK, StateType
<1>1. NameOf(p) \in Names /\ rid[p] \in Ids
  BY DEF Filled, Owning, NameOf, Row
<1>2. ctr[NameOf(p)].owner \in Ids
  BY <1>1 DEF Container
<1>3. rows[rid[p]] # None /\ rows[rid[p]].name = NameOf(p)
  BY DEF Owns
<1>4. /\ rows[ctr[NameOf(p)].owner] # None
      /\ rows[ctr[NameOf(p)].owner].name = NameOf(p)
  BY <1>1 DEF Attached
<1> QED
  BY <1>1, <1>2, <1>3, <1>4 DEF RowsInv

LEMMA FinishKeepsPlan ==
  ASSUME TypeOK, NEW p \in Handlers, NEW q \in Handlers, p # q, Finish(p)
  PROVE  clean'[q] = clean[q] /\ plan'[q] = plan[q]
BY DEF Finish, Leave, SetLocals, locals, TypeOK, LocalType, FaultType

LEMMA OthersKeepPlan ==
  ASSUME TypeOK, NEW p \in Handlers, NEW q \in Handlers, p # q,
         Request(p) \/ Acquire(p) \/ Step(p)
  PROVE  clean'[q] = clean[q] /\ plan'[q] = plan[q]
<1> USE DEF TypeOK, LocalType, FaultType, Proceed, KeepLocals, FaultOf
<1>1. CASE Finish(p)
  BY <1>1, FinishKeepsPlan
<1>2. CASE Request(p)
  BY <1>2, RequestKinds DEF CreateBegin, MissingBegin, SetLocals
<1>3. CASE Acquire(p)
  BY <1>3, AcquireKeeps
<1>4. CASE CfgCreate(p) \/ RunCreate(p)
  BY <1>4 DEF CfgCreate, RunCreate, Launch
<1>5. CASE MakePlan(p)
  BY <1>5 DEF MakePlan, ContinueWith
<1>6. CASE \/ CreateCheck(p) \/ CreateAdd(p) \/ Load(p) \/ MissingNext(p)
           \/ RemoveOld(p) \/ Backup(p) \/ Clear(p) \/ CfgWait(p) \/ CfgWaitFails(p)
           \/ CfgDrop(p) \/ CfgRemove(p) \/ ListenOK(p) \/ ListenFails(p)
           \/ Verify(p) \/ VerifyFails(p) \/ RollbackRemove(p)
           \/ RemoveContainer(p) \/ RemoveVolume(p) \/ Forget(p)
  BY <1>6 DEF CreateCheck, CreateAdd, Load, MissingNext, RemoveOld, Backup, Clear,
     CfgWait, CfgWaitFails, CfgDrop, CfgRemove, ListenOK, ListenFails, Verify,
     VerifyFails, RollbackRemove, RemoveContainer, RemoveVolume, Forget, Leave, SetLocals
<1>7. CASE Failed(p)
  BY <1>1, <1>7 DEF Failed
<1> QED
  BY <1>1, <1>2, <1>3, <1>4, <1>5, <1>6, <1>7 DEF Step, CreateConflict, LoadNotFound,
     Refuse, PrepareFails, Get, Restore, RollbackKeep, RollbackInspectFails,
     RemoveFails, DeleteRow, PatchRow, StartStop

\* The rules of q speak of q and of the container and volume of its name.
LEMMA CourseFrame ==
  ASSUME NEW q \in Handlers, Stands(q), plan'[q] = plan[q],
         pc[q] \in Working => /\ ctr'[NameOf(q)] = ctr[NameOf(q)]
                              /\ vol'[NameOf(q)] = vol[NameOf(q)]
  PROVE  (OnTrack(q) => OnTrack(q)') /\ (Undoing(q) => Undoing(q)')
<1>1. NameOf(q)' = NameOf(q)
  BY DEF Stands, NameOf
<1>2. CASE pc[q] \in Working
  BY <1>1, <1>2 DEF Stands, OnTrack, Undoing, HasWorker, Configured, Registered, Running
<1>3. CASE pc[q] \notin Working
  BY <1>3 DEF Stands, OnTrack, Undoing, Working
<1> QED
  BY <1>2, <1>3

LEMMA OthersOnCourse ==
  ASSUME IInv, NEW p \in Handlers, NEW q \in Handlers, p # q,
         Request(p) \/ Acquire(p) \/ Step(p), clean[q] => OnTrack(q), Undoing(q)
  PROVE  (clean'[q] => OnTrack(q)') /\ Undoing(q)'
<1>1. Stands(q) /\ clean'[q] = clean[q] /\ plan'[q] = plan[q]
  BY OthersStand, OthersKeepPlan DEF IInv, TypeInv
<1>2. ASSUME pc[q] \in Working
      PROVE  /\ ctr'[NameOf(q)] = ctr[NameOf(q)]
             /\ vol'[NameOf(q)] = vol[NameOf(q)]
  <2>1. CASE Step(p)
    <3>1. NameOf(q) \in Names
      BY <1>2 DEF IInv, TypeInv, Filled, NameOf, Row
    <3>2. pc[p] \in Working => NameOf(p) # NameOf(q)
      BY <1>2, OwnersDiffer DEF Owning
    <3> QED
      BY <2>1, <3>1, <3>2, DockerFrame DEF IInv
  <2>2. CASE Request(p) \/ Acquire(p)
    BY <2>2, RequestKeeps, AcquireKeeps DEF Keep
  <2> QED
    BY <2>1, <2>2
<1> QED
  BY <1>1, <1>2, CourseFrame

\* The steps at which OnTrack says something.
Tracked == {"rm_old", "cfg_create", "cfg_wait", "cfg_drop", "cfg_remove", "run_create",
            "listen", "verify", "get", "failed", "restore", "rollback"}

LEMMA UntrackedStep ==
  ASSUME TypeInv, NEW p \in Handlers, Step(p)
  PROVE  \/ pc'[p] \notin Tracked
         \/ ~ clean'[p]
         \/ CreateAdd(p) \/ MakePlan(p) \/ RemoveOld(p) \/ Clear(p) \/ CfgCreate(p)
         \/ CfgWait(p) \/ CfgWaitFails(p) \/ CfgDrop(p) \/ CfgRemove(p)
         \/ RunCreate(p) \/ ListenOK(p) \/ ListenFails(p) \/ Verify(p)
         \/ VerifyFails(p) \/ Failed(p)
<1> USE DEF TypeInv, TypeOK, ControlType, Goto
<1>1. CASE Finish(p)
  BY <1>1 DEF Finish, Leave, Tracked
<1>2. CASE \/ CreateCheck(p) \/ Load(p) \/ MissingNext(p) \/ Backup(p)
           \/ RollbackRemove(p) \/ RemoveContainer(p) \/ RemoveVolume(p) \/ Forget(p)
  BY <1>2 DEF CreateCheck, Load, MissingNext, Arrive, Backup, RollbackRemove,
     RemoveContainer, RemoveVolume, Forget, Leave, Tracked
<1> QED
  BY <1>1, <1>2 DEF Step, CreateConflict, LoadNotFound, Refuse, PrepareFails, Get,
     Restore, RollbackKeep, RollbackInspectFails, RemoveFails, DeleteRow, PatchRow,
     StartStop

LEMMA RemovedOnTrack ==
  ASSUME IInv, NEW p \in Handlers, clean[p] => OnTrack(p),
         RemoveOld(p) \/ Clear(p), clean'[p]
  PROVE  OnTrack(p)'
<1> USE DEF IInv, TypeInv, TypeOK, StateType, ControlType, LocalType
<1>1. /\ NameOf(p) \in Names /\ NameOf(p)' = NameOf(p) /\ clean[p]
      /\ rec' = rec /\ rid' = rid /\ plan' = plan
  BY DEF RemoveOld, Clear, At, Filled, Working, NameOf, Row, Proceed, KeepLocals
<1>2. CASE RemoveOld(p)
  <2>1. ctr'[NameOf(p)] = None /\ vol' = vol
    BY <1>1, <1>2 DEF RemoveOld
  <2>2. CASE plan[p] = "reuse"
    <3>1. pc'[p] = "run_create"
      BY <1>2, <2>2 DEF RemoveOld, AfterRemove, Goto
    <3>2. Configured(p)
      BY <1>1, <1>2, <2>2 DEF RemoveOld, At, OnTrack
    <3> QED
      BY <1>1, <2>1, <3>1, <3>2 DEF OnTrack, Configured
  <2>3. CASE plan[p] = "fresh"
    <3>1. pc'[p] = "cfg_create"
      BY <1>2, <2>3 DEF RemoveOld, AfterRemove, Goto
    <3>2. vol[NameOf(p)] = None
      BY <1>1, <1>2, <2>3 DEF RemoveOld, At, OnTrack
    <3> QED
      BY <1>1, <2>1, <3>1, <3>2 DEF OnTrack, Registered
  <2>4. CASE plan[p] = "reconfigure"
    <3>1. pc'[p] = "backup"
      BY <1>2, <2>4 DEF RemoveOld, AfterRemove, Goto
    <3> QED
      BY <3>1 DEF OnTrack
  <2> QED
    BY <2>2, <2>3, <2>4 DEF Plans
<1>3. CASE Clear(p)
  <2>1. pc'[p] = "cfg_create" /\ ctr'[NameOf(p)] = None
    BY <1>1, <1>3 DEF Clear, At, Goto, Owns
  <2>2. ~ Registered(NameOf(p))'
    BY <1>1, <1>3 DEF Clear, Registered
  <2> QED
    BY <1>1, <2>1, <2>2 DEF OnTrack
<1> QED
  BY <1>2, <1>3

LEMMA PlannedOnTrack ==
  ASSUME IInv, NEW p \in Handlers, MakePlan(p), clean'[p]
  PROVE  OnTrack(p)'
<1> USE DEF IInv, TypeInv, TypeOK, StateType, ControlType, LocalType
<1>1. /\ NameOf(p) \in Names /\ NameOf(p)' = NameOf(p)
      /\ rec' = rec /\ rid' = rid /\ ctr' = ctr /\ vol' = vol
  BY DEF MakePlan, At, Filled, Working, NameOf, Row, Keep
<1>2. ContinueWith(p, PlanFor(NameOf(p), rec[p].wd))
  BY DEF MakePlan, FaultOf, FaultType
<1> DEFINE pl == PlanFor(NameOf(p), rec[p].wd)
<1>3. /\ plan'[p] = pl
      /\ pc'[p] = IF ctr[NameOf(p)] # None THEN "rm_old" ELSE AfterRemove(pl)
  BY <1>2 DEF ContinueWith, Goto
<1>4. /\ pl \in Plans
      /\ pl = "fresh" => vol[NameOf(p)] = None
      /\ pl = "reuse" => Configured(p)
  BY DEF PlanFor, Configured, Plans
<1>5. Configured(p)' = Configured(p)
  BY <1>1 DEF Configured
<1> HIDE DEF pl
<1>6. CASE ctr[NameOf(p)] # None
  BY <1>1, <1>3, <1>4, <1>5, <1>6 DEF OnTrack
<1>7. CASE ctr[NameOf(p)] = None
  <2>1. CASE pl = "fresh"
    BY <1>1, <1>3, <1>4, <1>7, <2>1 DEF OnTrack, AfterRemove, Registered
  <2>2. CASE pl = "reuse"
    BY <1>1, <1>3, <1>4, <1>5, <1>7, <2>2 DEF OnTrack, AfterRemove
  <2>3. CASE pl = "reconfigure"
    BY <1>3, <1>7, <2>3 DEF OnTrack, AfterRemove
  <2> QED
    BY <1>4, <2>1, <2>2, <2>3 DEF Plans
<1> QED
  BY <1>6, <1>7

\* A name that no row has bears neither a container nor a volume.
LEMMA AddedOnTrack ==
  ASSUME IInv, NEW p \in Handlers, CreateAdd(p)
  PROVE  OnTrack(p)'
<1> USE DEF IInv, TypeInv, TypeOK, StateType, ControlType, LocalType
<1>1. /\ NameOf(p) \in Names /\ NameOf(p)' = NameOf(p) /\ ctr' = ctr /\ vol' = vol
      /\ pc'[p] = "cfg_create"
  BY DEF CreateAdd, At, Filled, NameOf, Row, Proceed, KeepLocals, Goto
<1>2. ~ NameTaken(NameOf(p))
  BY DEF CreateAdd
<1>3. vol[NameOf(p)] = None
  BY <1>1, <1>2 DEF Attached
<1>4. ASSUME ctr[NameOf(p)] # None PROVE FALSE
  <2>1. ctr[NameOf(p)].owner \in Ids
    BY <1>1, <1>4 DEF Container
  <2> QED
    BY <1>1, <1>2, <1>4, <2>1 DEF Attached, NameTaken
<1> QED
  BY <1>1, <1>3, <1>4 DEF OnTrack, Registered

LEMMA LaunchedOnTrack ==
  ASSUME IInv, NEW p \in Handlers, clean[p] => OnTrack(p),
         CfgCreate(p) \/ RunCreate(p), clean'[p]
  PROVE  OnTrack(p)'
<1> USE DEF IInv, TypeInv, TypeOK, StateType, ControlType, LocalType, FaultType
<1>1. PICK token \in BOOLEAN, next \in {"cfg_wait", "verify", "listen"} :
        /\ Launch(p, token, next)
        /\ token = (pc[p] = "cfg_create")
        /\ next = "cfg_wait" <=> token
        /\ pc[p] \in {"cfg_create", "run_create"}
  BY DEF CfgCreate, RunCreate, At
<1>2. /\ NameOf(p) \in Names /\ NameOf(p)' = NameOf(p)
      /\ rec' = rec /\ rid' = rid
  BY <1>1 DEF Filled, Working, NameOf, Row, Launch, KeepLocals
<1>3. clean[p] /\ clean' = clean
  BY <1>1 DEF Launch, FaultOf
<1>4. /\ ctr[NameOf(p)] = None
      /\ token => ~ Registered(NameOf(p))
      /\ ~ token => Configured(p)
  BY <1>1, <1>3 DEF OnTrack
<1>5. /\ vol' = EnsuredVolume(NameOf(p))
      /\ ctr' = [ctr EXCEPT ![NameOf(p)] = Worker(p, token, TRUE)]
      /\ pc'[p] = next
  BY <1>1, <1>3, <1>4 DEF Launch, Managed, FaultOf, Goto
<1>6. ctr'[NameOf(p)] = Worker(p, token, TRUE) /\ Worker(p, token, TRUE) # None
  <2>1. Worker(p, token, TRUE) \in Container
    BY <1>1, WorkerType DEF Filled, Owning, Working
  <2> QED
    BY <1>2, <1>5, <2>1, ConstantsOK
<1>7. HasWorker(p, token)' /\ Running(NameOf(p))'
  BY <1>2, <1>6 DEF HasWorker, Running, Worker
<1>8. CASE token
  <2>1. ~ Registered(NameOf(p))'
    BY <1>2, <1>4, <1>5, <1>8 DEF EnsuredVolume, EmptyVolume, Registered
  <2> QED
    BY <1>1, <1>2, <1>5, <1>7, <1>8, <2>1 DEF OnTrack
<1>9. CASE ~ token
  <2>1. vol' = vol
    BY <1>4, <1>5, <1>9 DEF EnsuredVolume, Configured
  <2>2. Configured(p)'
    BY <1>2, <1>4, <1>9, <2>1 DEF Configured
  <2> QED
    BY <1>1, <1>2, <1>5, <1>7, <1>9, <2>2 DEF OnTrack
<1> QED
  BY <1>8, <1>9

LEMMA WaitedOnTrack ==
  ASSUME IInv, NEW p \in Handlers, clean[p] => OnTrack(p),
         \/ CfgWait(p) \/ CfgWaitFails(p) \/ CfgDrop(p) \/ CfgRemove(p)
         \/ ListenOK(p) \/ ListenFails(p) \/ Verify(p) \/ VerifyFails(p) \/ Failed(p),
         clean'[p], pc'[p] \in Tracked
  PROVE  OnTrack(p)'
<1> USE DEF IInv, TypeInv, TypeOK, StateType, ControlType, LocalType, FaultType
<1>1. NameOf(p) \in Names
  BY DEF CfgWait, CfgWaitFails, CfgDrop, CfgRemove, ListenOK, ListenFails, Verify,
     VerifyFails, Failed, At, Working, Filled, NameOf, Row
<1>2. ~ Failed(p)
  <2>1. ASSUME Failed(p), ~ Finish(p) PROVE FALSE
    BY <2>1 DEF Failed, At, OnTrack, Proceed
  <2>2. ASSUME Failed(p), Finish(p) PROVE FALSE
    BY <2>2 DEF Finish, Leave, Goto, Tracked
  <2> QED
    BY <2>1, <2>2
<1>3. clean[p]
  BY <1>2 DEF CfgWait, CfgWaitFails, CfgDrop, CfgRemove, ListenOK, ListenFails, Verify,
     VerifyFails, Proceed, FaultOf
<1>4. OnTrack(p)
  BY <1>3
<1>5. ~ CfgWaitFails(p) /\ ~ CfgDrop(p) /\ ~ ListenFails(p) /\ ~ VerifyFails(p)
  <2>1. ~ CfgDrop(p)
    BY <1>4 DEF CfgDrop, At, OnTrack
  <2>2. ASSUME CfgWaitFails(p) PROVE FALSE
    <3>1. HasWorker(p, TRUE) /\ (Configured(p) \/ Running(NameOf(p)))
      BY <1>4, <2>2 DEF CfgWaitFails, At, OnTrack
    <3>2. ctr[NameOf(p)] # None /\ rec[p].wd # None
      BY <1>1, <2>2, <3>1, ConstantsOK DEF HasWorker, CfgWaitFails, At, Filled, Working, Row
    <3>3. Running(NameOf(p))
      BY <2>2, <3>1, <3>2 DEF CfgWaitFails, Configured, Registered
    <3> QED
      BY <1>1, <2>2, <3>3 DEF CfgWaitFails
  <2>3. pc[p] \in {"listen", "verify"} => Serving(NameOf(p)) /\ Verified(p)
    <3>1. pc[p] \in {"listen", "verify"} => rec[p].wd # None
      BY ConstantsOK DEF Filled, Working, Row
    <3> QED
      BY <1>4, <3>1 DEF OnTrack, HasWorker, Configured, Serving, Verified, Registered
  <2>4. ~ ListenFails(p) /\ ~ VerifyFails(p)
    BY <2>3 DEF ListenFails, VerifyFails, At, FaultOf
  <2> QED
    BY <2>1, <2>2, <2>4
<1>6. rec' = rec /\ rid' = rid /\ vol' = vol
  BY <1>2, <1>5 DEF CfgWait, CfgRemove, ListenOK, Verify, Proceed, KeepLocals, Keep
<1>7. NameOf(p)' = NameOf(p) /\ Configured(p)' = Configured(p)
  BY <1>6 DEF NameOf, Configured
<1>8. CASE CfgWait(p)
  <2>1. HasWorker(p, TRUE)' = HasWorker(p, TRUE)
    BY <1>6, <1>7, <1>8 DEF HasWorker, CfgWait, Keep
  <2>2. HasWorker(p, TRUE) /\ Configured(p)
    BY <1>4, <1>8 DEF CfgWait, At, OnTrack
  <2>3. pc'[p] = "cfg_remove"
    BY <1>8 DEF CfgWait, Goto
  <2> QED
    BY <1>7, <2>1, <2>2, <2>3 DEF OnTrack
<1>9. CASE CfgRemove(p)
  <2>1. ctr'[NameOf(p)] = None /\ pc'[p] = "run_create"
    BY <1>1, <1>3, <1>9 DEF CfgRemove, FaultOf, Goto
  <2>2. Configured(p)
    BY <1>4, <1>9 DEF CfgRemove, At, OnTrack
  <2> QED
    BY <1>7, <2>1, <2>2 DEF OnTrack
<1>10. CASE ListenOK(p) \/ Verify(p)
  <2>1. HasWorker(p, FALSE)' = HasWorker(p, FALSE) /\ Running(NameOf(p))' = Running(NameOf(p))
    BY <1>6, <1>7, <1>10 DEF HasWorker, Running, ListenOK, Verify, Keep
  <2>2. HasWorker(p, FALSE) /\ Running(NameOf(p)) /\ Configured(p)
    BY <1>4, <1>10 DEF ListenOK, Verify, At, OnTrack
  <2>3. pc'[p] \in {"verify", "get"}
    BY <1>10 DEF ListenOK, Verify, Goto
  <2> QED
    BY <1>7, <2>1, <2>2, <2>3 DEF OnTrack
<1> QED
  BY <1>2, <1>5, <1>8, <1>9, <1>10

LEMMA StepOnTrack ==
  ASSUME IInv, NEW p \in Handlers, clean[p] => OnTrack(p), Step(p), clean'[p]
  PROVE  OnTrack(p)'
<1>1. CASE pc'[p] \notin Tracked
  BY <1>1 DEF Tracked, OnTrack
<1>2. CASE pc'[p] \in Tracked
  BY <1>2, UntrackedStep, AddedOnTrack, PlannedOnTrack, RemovedOnTrack, LaunchedOnTrack,
     WaitedOnTrack DEF IInv
<1> QED
  BY <1>1, <1>2

LEMMA StepUndoing ==
  ASSUME IInv, NEW p \in Handlers, Undoing(p), Step(p)
  PROVE  Undoing(p)'
<1> USE DEF IInv, TypeInv, TypeOK, StateType, ControlType, LocalType
<1>1. CASE pc'[p] \notin {"rollback", "rm_ctr", "rm_vol"}
  BY <1>1 DEF Undoing
<1>2. CASE pc'[p] \in {"rollback", "rm_ctr", "rm_vol"}
  <2>1. plan[p] \in Plans
    OBVIOUS
  <2>2. Failed(p) \/ Load(p) \/ RollbackRemove(p) \/ RemoveContainer(p)
    <3>1. ~ Finish(p)
      BY <1>2 DEF Finish, Leave, Goto
    <3>2. CASE CfgCreate(p) \/ RunCreate(p)
      BY <1>2, <3>2 DEF CfgCreate, RunCreate, Launch, Goto
    <3>3. CASE MakePlan(p)
      <4>1. PICK pl \in Plans : ContinueWith(p, pl)
        BY <3>3 DEF MakePlan, PlanFor, Plans
      <4> QED
        BY <1>2, <4>1 DEF ContinueWith, AfterRemove, Plans, Goto
    <3>4. CASE RemoveOld(p)
      BY <1>2, <2>1, <3>4 DEF RemoveOld, AfterRemove, Plans, Goto
    <3> QED
      BY <1>2, <3>1, <3>2, <3>3, <3>4 DEF Step, CreateCheck, CreateAdd, CreateConflict,
         LoadNotFound, Refuse, MissingNext, Arrive, Forget, Leave, Backup, Clear, PrepareFails, CfgWait,
         CfgWaitFails, CfgDrop, CfgRemove, ListenOK, ListenFails, Verify, VerifyFails,
         Get, Restore, RollbackKeep, RollbackInspectFails, RemoveVolume, RemoveFails,
         DeleteRow, PatchRow, StartStop, Goto
  <2>3. CASE Failed(p)
    BY <1>2, <2>3 DEF Failed, Finish, Leave, Goto, Undoing, Proceed, KeepLocals
  <2>4. CASE Load(p)
    BY <1>2, <2>4 DEF Load, Goto, Undoing
  <2>5. CASE RollbackRemove(p)
    <3>1. op[p] = "create" /\ op' = op /\ pc'[p] = "rm_ctr" /\ NameOf(p)' = NameOf(p)
          /\ ctr' = ctr /\ vol' = vol
      BY <2>5 DEF RollbackRemove, At, Undoing, Goto, Proceed, KeepLocals, NameOf, Keep
    <3>2. ctr[NameOf(p)] = None
      BY <2>5, OwnContainer DEF RollbackRemove, At, Managed, Working
    <3>3. "volumeRead" \notin FaultKinds => ~ Registered(NameOf(p))
      BY <2>5 DEF RollbackRemove, FaultOf, Fault
    <3> QED
      BY <3>1, <3>2, <3>3 DEF Undoing, Registered
  <2>6. CASE RemoveContainer(p)
    <3>1. op' = op /\ pc'[p] = "rm_vol" /\ NameOf(p)' = NameOf(p) /\ vol' = vol
          /\ pc[p] = "rm_ctr" /\ NameOf(p) \in Names
      BY <2>6 DEF RemoveContainer, At, Goto, Proceed, KeepLocals, NameOf, Filled, Working, Row
    <3>2. ctr'[NameOf(p)] = None
      BY <2>6, <3>1 DEF RemoveContainer
    <3> QED
      BY <3>1, <3>2 DEF Undoing, Registered
  <2> QED
    BY <2>2, <2>3, <2>4, <2>5, <2>6
<1> QED
  BY <1>1, <1>2

LEMMA BegunOnCourse ==
  ASSUME TypeInv, NEW p \in Handlers, Request(p) \/ Acquire(p)
  PROVE  OnTrack(p)' /\ Undoing(p)'
<1> USE DEF TypeInv, TypeOK, ControlType, Goto
<1>1. pc'[p] \in {"lockname", "lockid", "next", "check", "load", "gate"}
  BY RequestKeeps DEF Acquire, LockName, LockId
<1> QED
  BY <1>1 DEF OnTrack, Undoing

\* The agent registers with the workdir of its own container.
LEMMA RegisterOnCourse ==
  ASSUME IInv, NEW m \in Names, AgentRegisters(m), NEW p \in Handlers,
         pc[p] \in Working, NameOf(p) = m
  PROVE  (OnTrack(p) => OnTrack(p)') /\ (Undoing(p) => Undoing(p)')
<1> USE DEF IInv, TypeInv, TypeOK, StateType
<1>1. rec[p] \in Row /\ rec[p].wd # None
  BY ConstantsOK DEF Filled, Row
<1>2. /\ pc' = pc /\ op' = op /\ rid' = rid /\ rec' = rec /\ plan' = plan /\ ctr' = ctr
      /\ NameOf(p)' = m
  BY DEF AgentRegisters, locals, NameOf
<1>3. /\ ctr[m] # None /\ ctr[m].token /\ vol[m] # None /\ vol[m].runner = None
      /\ vol'[m] # None /\ vol'[m].runner = ctr[m].wd
  <2>1. vol'[m] = [runner |-> ctr[m].wd, bak |-> vol[m].bak]
    BY DEF AgentRegisters
  <2>2. vol'[m] \in Volume
    BY <2>1 DEF AgentRegisters, Volume, Container
  <2> QED
    BY <2>1, <2>2, ConstantsOK DEF AgentRegisters
<1>4. Undoing(p) => Undoing(p)'
  <2>1. pc[p] \in {"rm_ctr", "rm_vol"} /\ op[p] # "delete" /\ Undoing(p)
           => "volumeRead" \in FaultKinds /\ op[p] = "create"
    BY <1>3 DEF Undoing
  <2> QED
    BY <1>2, <2>1 DEF Undoing
<1>5. ASSUME OnTrack(p) PROVE OnTrack(p)'
  <2>1. ~ Configured(p)
    BY <1>1, <1>3 DEF Configured
  <2>2. pc[p] \notin {"cfg_remove", "run_create", "listen", "verify", "get", "cfg_create"}
    BY <1>3, <1>5, <2>1 DEF OnTrack
  <2>3. pc[p] = "rm_old" => plan[p] # "fresh" /\ plan[p] # "reuse"
    BY <1>3, <1>5, <2>1 DEF OnTrack
  <2>4. pc[p] = "cfg_wait" => HasWorker(p, TRUE)
    BY <1>5 DEF OnTrack
  <2>5. HasWorker(p, TRUE)' = HasWorker(p, TRUE)
    BY <1>2 DEF HasWorker
  <2>6. HasWorker(p, TRUE) => Configured(p)'
    BY <1>2, <1>3 DEF HasWorker, Configured
  <2>7. pc[p] \notin {"cfg_drop", "failed", "restore", "rollback"}
    BY <1>5 DEF OnTrack
  <2> QED
    BY <1>2, <2>2, <2>3, <2>4, <2>5, <2>6, <2>7 DEF OnTrack
<1> QED
  BY <1>4, <1>5

\* A configure container that ends before it is registered is a failure.
LEMMA ExitOnCourse ==
  ASSUME IInv, NEW m \in Names, AgentExits(m), NEW p \in Handlers,
         pc[p] \in Working, NameOf(p) = m
  PROVE  (OnTrack(p) /\ clean'[p] => OnTrack(p)') /\ (Undoing(p) => Undoing(p)')
<1> USE DEF IInv, TypeInv, TypeOK, StateType
<1>1. /\ pc' = pc /\ op' = op /\ rid' = rid /\ rec' = rec /\ plan' = plan /\ vol' = vol
      /\ NameOf(p)' = m
  BY DEF AgentExits, KeepLocals, NameOf
<1>2. /\ ctr[m] # None /\ ctr[m].token
      /\ ctr'[m] = With(ctr[m], FALSE)
  BY DEF AgentExits
<1>3. ctr'[m] # None
  <2>1. With(ctr[m], FALSE) \in Container
    BY <1>2, WithType
  <2> QED
    BY <1>2, <2>1, ConstantsOK
<1>4. clean'[p] => Registered(m)
  BY DEF AgentExits, NobodyClean
<1>5. Undoing(p) => Undoing(p)'
  BY <1>1, <1>2 DEF Undoing, Registered
<1>6. HasWorker(p, TRUE)' = HasWorker(p, TRUE) /\ ~ HasWorker(p, FALSE)
  BY <1>1, <1>2, <1>3 DEF HasWorker, With
<1>7. Configured(p)' = Configured(p) /\ Registered(m)' = Registered(m)
  BY <1>1 DEF Configured, Registered
<1>8. ASSUME OnTrack(p), clean'[p] PROVE OnTrack(p)'
  <2>1. pc[p] \notin {"cfg_create", "run_create", "listen", "verify", "get"}
    BY <1>2, <1>6, <1>8 DEF OnTrack
  <2>2. pc[p] = "cfg_wait" => Configured(p)
    BY <1>4, <1>8 DEF OnTrack
  <2> QED
    BY <1>1, <1>6, <1>7, <1>8, <2>1, <2>2 DEF OnTrack
<1> QED
  BY <1>5, <1>8

LEMMA EnvironmentOnCourse ==
  ASSUME IInv, OnCourse, Environment
  PROVE  OnCourse'
<1> SUFFICES ASSUME NEW p \in Handlers PROVE (clean'[p] => OnTrack(p)') /\ Undoing(p)'
  BY DEF OnCourse
<1>0. (clean[p] => OnTrack(p)) /\ Undoing(p)
  BY DEF OnCourse
<1>a. pc[p] \in Working => NameOf(p) \in Names
  BY DEF IInv, TypeInv, Filled, NameOf, Row
<1>1. CASE Crash
  BY <1>1 DEF Crash, OnTrack, Undoing
<1>2. ASSUME NEW m \in Names, AgentRegisters(m) \/ AgentExits(m),
             ~ (pc[p] \in Working /\ NameOf(p) = m)
      PROVE  (clean'[p] => OnTrack(p)') /\ Undoing(p)'
  <2>1. Stands(p) /\ plan'[p] = plan[p] /\ (clean'[p] => clean[p])
    BY <1>2 DEF AgentRegisters, AgentExits, locals, KeepLocals, NobodyClean, Stands
  <2>2. pc[p] \in Working => /\ ctr'[NameOf(p)] = ctr[NameOf(p)]
                             /\ vol'[NameOf(p)] = vol[NameOf(p)]
    BY <1>2, <1>a DEF AgentRegisters, AgentExits, IInv, TypeInv, TypeOK, StateType
  <2> QED
    BY <1>0, <2>1, <2>2, CourseFrame
<1>3. ASSUME NEW m \in Names, AgentRegisters(m) \/ AgentExits(m),
             pc[p] \in Working, NameOf(p) = m
      PROVE  (clean'[p] => OnTrack(p)') /\ Undoing(p)'
  <2>1. clean'[p] => clean[p]
    BY <1>3 DEF AgentRegisters, AgentExits, locals, NobodyClean
  <2> QED
    BY <1>0, <1>3, <2>1, RegisterOnCourse, ExitOnCourse
<1>4. ASSUME NEW m \in Names, DockerReset(m)
      PROVE  (clean'[p] => OnTrack(p)') /\ Undoing(p)'
  <2>1. ~ clean'[p]
    BY <1>4 DEF DockerReset, NobodyClean
  <2>2. /\ pc' = pc /\ op' = op /\ NameOf(p)' = NameOf(p)
        /\ \A n \in Names : /\ ctr'[n] \in {ctr[n], None}
                            /\ vol'[n] \in {vol[n], None}
    BY <1>4 DEF DockerReset, KeepLocals, NameOf, IInv, TypeInv, TypeOK, StateType
  <2>3. Undoing(p)'
    BY <1>0, <1>a, <2>2 DEF Undoing, Registered, Working
  <2> QED
    BY <2>1, <2>3
<1> QED
  BY <1>1, <1>2, <1>3, <1>4 DEF Environment

LEMMA NextOnCourse == IInv /\ OnCourse /\ [Next]_vars => OnCourse'
<1> SUFFICES ASSUME IInv, OnCourse, [Next]_vars PROVE OnCourse'
  OBVIOUS
<1>1. ASSUME NEW p \in Handlers, Request(p) \/ Acquire(p) \/ Step(p)
      PROVE  OnCourse'
  <2>1. (clean'[p] => OnTrack(p)') /\ Undoing(p)'
    BY <1>1, BegunOnCourse, StepOnTrack, StepUndoing DEF IInv, OnCourse
  <2>2. ASSUME NEW q \in Handlers, q # p
        PROVE  (clean'[q] => OnTrack(q)') /\ Undoing(q)'
    BY <1>1, <2>2, OthersOnCourse DEF OnCourse
  <2> QED
    BY <2>1, <2>2 DEF OnCourse
<1>2. CASE UNCHANGED vars
  BY <1>2 DEF vars, locals, OnCourse, OnTrack, Undoing, HasWorker, Configured, Registered,
     Running, NameOf
<1> QED
  BY <1>1, <1>2, EnvironmentOnCourse DEF Next

\* While nothing fails for a handler its container and volume are what its next
\* step needs, whatever the other handlers and the agents do meanwhile, unless two
\* handlers have held one runner or RecreateMissing has recreated a row that had gone.
THEOREM CleanRuns == Spec => []CourseInv
<1>1. Init => CourseInv
  BY InitIInv, InitTypeInv DEF Init, CourseInv, OnCourse, OnTrack, Undoing
<1>2. CourseInv /\ [Next]_vars => CourseInv'
  BY NextTypeInv, AstrayStays, NextIInv, NextOnCourse DEF CourseInv
<1> QED
  BY <1>1, <1>2, PTL DEF Spec

\* A create, recreate or apply that reports success, and for which nothing failed,
\* leaves a listener of this runner, on the requested workdir, without RUNNER_TOKEN;
\* under the same condition.
THEOREM SuccessServes == Spec => []SuccessIsServing
<1>1. CourseInv => SuccessIsServing
  BY DEF CourseInv, OnCourse, OnTrack, HasWorker, Configured, SuccessIsServing, At
<1> QED
  BY <1>1, CleanRuns, PTL

\* Recreate, apply and each runner of recreate-missing fail only when something fails
\* while they run: from whatever earlier failures and crashes left behind they reach
\* the end; under the same condition.
THEOREM RecreateAlwaysRecovers == Spec => []RecreateRecovers
<1>1. CourseInv => RecreateRecovers
  BY DEF CourseInv, OnCourse, OnTrack, RecreateRecovers, At
<1> QED
  BY <1>1, CleanRuns, PTL

\* The rollback of a create never removes a registration, unless .runner cannot be
\* read (run rollback_read): only Delete does; under the same condition.
THEOREM RollbackKeepsRegistrations ==
  "volumeRead" \notin FaultKinds => (Spec => OnlyDeleteUnregisters)
<1> SUFFICES ASSUME "volumeRead" \notin FaultKinds
             PROVE  Spec => OnlyDeleteUnregisters
  OBVIOUS
<1> DEFINE Removal == ~ astray =>
                        \A p \in Handlers :
                          At(p, "rm_vol") /\ RemoveVolume(p) /\ Registered(NameOf(p))
                            => op[p] = "delete"
<1>1. CourseInv => Removal
  BY DEF CourseInv, OnCourse, Undoing, At
<1>2. CourseInv /\ [Next]_vars => [Removal]_vars
  BY <1>1
<1>3. (Spec => []CourseInv) => (Spec => [][Removal]_vars)
  <2> HIDE DEF Removal
  <2> QED
    BY <1>2, PTL DEF Spec
<1> QED
  BY <1>3, CleanRuns DEF OnlyDeleteUnregisters

(* Without Delete and RecreateMissing nobody goes astray: the keys that are    *)
(* forgotten then are those of names, and the mutex of an id stays the one its  *)
(* holder and its waiters have.                                                 *)

LaterOps == {"delete", "missing"}
Waiting == {"lockid"} \cup Owning
TrueTo(p) ==
  /\ pc[p] \in Waiting => Bound(p) /\ idMu[p] \in Mutexes
  /\ op[p] \notin LaterOps
  /\ pc[p] = "unlocked" => op[p] = "create"
SettledInv == TypeInv /\ IInv /\ ~ astray /\ \A p \in Handlers : TrueTo(p)

\* The mutex found is the one of the key, if it has one.
LEMMA FoundThere ==
  ASSUME NEW k, table[k] # None, NEW m \in Found(k)
  PROVE  m = table[k]
BY DEF Found

LEMMA ArriveKeepsMutex ==
  ASSUME SettledInv, NEW p \in Handlers, NEW i \in Ids, Arrive(p, i),
         NEW q \in Handlers, pc[q] \in Waiting
  PROVE  table'[rid[q]] = table[rid[q]]
<1> USE DEF SettledInv, TypeInv, TypeOK, ControlType
<1>1. rid[q] \in Ids
  BY DEF Filled, Waiting
<1>2. table[rid[q]] # None
  BY ConstantsOK DEF TrueTo, Bound, Waiting
<1>3. PICK m \in Found(i) : table' = [table EXCEPT ![i] = m]
  BY DEF Arrive
<1>4. CASE i = rid[q]
  <2>1. m = table[rid[q]]
    BY <1>2, <1>4, FoundThere
  <2> QED
    BY <1>1, <1>3, <1>4, <2>1
<1>5. CASE i # rid[q]
  BY <1>3, <1>5
<1> QED
  BY <1>4, <1>5

LEMMA KeepsMutex ==
  ASSUME SettledInv, NEW p \in Handlers, Request(p) \/ Acquire(p) \/ Step(p),
         NEW q \in Handlers, pc[q] \in Waiting
  PROVE  table'[rid[q]] = table[rid[q]]
<1> USE DEF SettledInv, TypeInv, TypeOK, ControlType, LocalType
<1>1. rid[q] \in Ids /\ rid[q] \in used
  BY DEF Filled, IInv, Owns, Waiting
<1>2. CASE Moves(p) \/ Finish(p) \/ Load(p) \/ Acquire(p)
  BY <1>2, AcquireKeeps DEF Moves, Finish, Load, KeepLocks, locks
<1>3. CASE CreateCheck(p)
  BY <1>1, <1>3 DEF CreateCheck
<1>4. CASE MissingNext(p)
  <2>1. PICK t \in todo[p] : Arrive(p, t[1])
    BY <1>4 DEF MissingNext
  <2>2. t[1] \in Ids
    BY <2>1
  <2> QED
    BY <2>1, <2>2, ArriveKeepsMutex
<1>5. CASE Forget(p)
  <2>1. op[p] = "create" /\ rec[p] \in Row
    BY <1>5 DEF Forget, At, TrueTo, Filled
  <2>2. NameOf(p) \in Names /\ NameOf(p) # rid[q]
    BY <1>1, <2>1, ConstantsOK DEF NameOf, Row
  <2>3. table' = table \/ table' = [table EXCEPT ![NameOf(p)] = None]
    BY <1>5, <2>1 DEF Forget
  <2> DEFINE n == NameOf(p)
  <2> HIDE DEF n
  <2>4. n # rid[q] /\ (table' = table \/ table' = [table EXCEPT ![n] = None])
    BY <2>2, <2>3 DEF n
  <2> QED
    BY <1>1, <2>4
<1>6. CASE CreateBegin(p)
  <2>1. PICK n \in Names : \E m : table' = [table EXCEPT ![n] = m]
    BY <1>6 DEF CreateBegin, Row
  <2>2. n # rid[q]
    BY <1>1, ConstantsOK
  <2> QED
    BY <2>1, <2>2
<1>7. CASE MissingBegin(p)
  BY <1>7 DEF MissingBegin, KeepLocks, locks
<1>8. ASSUME NEW i \in used, Arrive(p, i)
      PROVE  table'[rid[q]] = table[rid[q]]
  BY <1>8, ArriveKeepsMutex DEF StateType
<1> QED
  BY <1>2, <1>3, <1>4, <1>5, <1>6, <1>7, <1>8, StepShape, RequestKinds

\* A handler finds its own mutex, and leaves those of the others alone.
LEMMA OwnMutexOnly ==
  ASSUME TypeInv, NEW p \in Handlers, Request(p) \/ Acquire(p) \/ Step(p),
         NEW q \in Handlers, q # p
  PROVE  idMu'[q] = idMu[q]
<1> USE DEF TypeInv, TypeOK, ControlType
<1>1. CASE Moves(p) \/ Finish(p) \/ Load(p) \/ Acquire(p) \/ Forget(p)
  BY <1>1, AcquireKeeps DEF Moves, Finish, Load, Forget, Leave, KeepLocks, locks
<1>2. CASE CreateCheck(p) \/ MissingNext(p)
  BY <1>2 DEF CreateCheck, MissingNext, Arrive
<1>3. CASE Request(p)
  BY <1>3, RequestKinds DEF CreateBegin, MissingBegin, Arrive, KeepLocks, locks
<1> QED
  BY <1>1, <1>2, <1>3, StepShape

LEMMA ArriveBinds ==
  ASSUME TypeInv, NEW p \in Handlers, NEW i \in Ids, Arrive(p, i), rid'[p] = i
  PROVE  pc'[p] = "lockid" /\ Bound(p)' /\ idMu'[p] \in Mutexes
<1> USE DEF TypeInv, TypeOK, ControlType
<1>1. PICK m \in Found(i) : /\ table' = [table EXCEPT ![i] = m]
                            /\ idMu' = [idMu EXCEPT ![p] = m]
  BY DEF Arrive
<1>2. m \in Mutexes
  BY <1>1, FoundType
<1> QED
  BY <1>1, <1>2 DEF Arrive, Goto, Bound

LEMMA HandlerTrue ==
  ASSUME SettledInv, Ops \cap LaterOps = {}, NEW p \in Handlers,
         Request(p) \/ Acquire(p) \/ Step(p)
  PROVE  TrueTo(p)'
<1> USE DEF SettledInv, TypeInv, TypeOK, ControlType, LocalType
<1>0. TrueTo(p)
  OBVIOUS
<1>1. ASSUME pc[p] \in Waiting, pc'[p] \in Waiting, UNCHANGED <<idMu, rid, op>>
      PROVE  TrueTo(p)'
  <2>1. table'[rid[p]] = table[rid[p]]
    BY <1>1, KeepsMutex
  <2> QED
    BY <1>0, <1>1, <2>1 DEF TrueTo, Bound, Waiting, Owning, Working
<1>2. CASE Moves(p)
  BY <1>1, <1>2 DEF Moves, KeepLocks, locks, Goto, Waiting, Owning
<1>3. CASE Load(p)
  BY <1>1, <1>3 DEF Load, At, KeepLocks, locks, Goto, Waiting, Owning, Working
<1>4. CASE Finish(p)
  BY <1>0, <1>4 DEF Finish, Leave, ForgetsKey, SetLocals, locals, Goto, TrueTo, Bound,
     LaterOps, Waiting, Owning, Working
<1>5. CASE Forget(p)
  BY <1>5 DEF Forget, Leave, SetLocals, Goto, TrueTo, LaterOps, Waiting, Owning, Working
<1>6. CASE CreateCheck(p)
  <2>1. PICK i \in Ids : \E m \in Found(i) : /\ rid' = [rid EXCEPT ![p] = i]
                                            /\ table' = [table EXCEPT ![i] = m]
                                            /\ idMu' = [idMu EXCEPT ![p] = m]
    BY <1>6 DEF CreateCheck
  <2>2. PICK m \in Found(i) : /\ rid' = [rid EXCEPT ![p] = i]
                              /\ table' = [table EXCEPT ![i] = m]
                              /\ idMu' = [idMu EXCEPT ![p] = m]
    BY <2>1
  <2>3. m \in Mutexes
    BY <2>2, FoundType
  <2>4. pc'[p] = "add" /\ op' = op
    BY <1>6 DEF CreateCheck, Goto
  <2> QED
    BY <1>0, <2>2, <2>3, <2>4 DEF TrueTo, Bound
<1>7. CASE MissingNext(p)
  <2>1. PICK t \in todo[p] : Arrive(p, t[1]) /\ rid' = [rid EXCEPT ![p] = t[1]]
    BY <1>7 DEF MissingNext
  <2>2. t[1] \in Ids /\ rid'[p] = t[1] /\ op' = op
    BY <1>7, <2>1 DEF MissingNext
  <2>3. pc'[p] = "lockid" /\ Bound(p)' /\ idMu'[p] \in Mutexes
    BY <2>1, <2>2, ArriveBinds
  <2> QED
    BY <1>0, <2>2, <2>3 DEF TrueTo
<1>8. CASE LockName(p)
  BY <1>0, <1>8 DEF LockName, Goto, Proceed, KeepLocals, TrueTo, Waiting, Owning, Working
<1>9. CASE LockId(p)
  BY <1>1, <1>9 DEF LockId, At, locks, Proceed, KeepLocals, Goto, Waiting, Owning, Working
<1>10. CASE Request(p)
  <2>1. ~ MissingBegin(p)
    BY DEF MissingBegin, LaterOps
  <2>2. CASE CreateBegin(p)
    BY <2>2 DEF CreateBegin, SetLocals, Goto, TrueTo, LaterOps, Waiting, Owning, Working
  <2>3. ASSUME NEW o \in IdOps, o \in Ops, NEW i \in used, NEW r,
               SetLocals(p, o, i, r, "reuse", {}), Arrive(p, i)
        PROVE  TrueTo(p)'
    <3>1. o \notin LaterOps /\ i \in Ids
      BY <2>3 DEF StateType
    <3>2. op'[p] = o /\ rid'[p] = i
      BY <2>3 DEF SetLocals
    <3>3. pc'[p] = "lockid" /\ Bound(p)' /\ idMu'[p] \in Mutexes
      BY <2>3, <3>1, <3>2, ArriveBinds
    <3> QED
      BY <3>1, <3>2, <3>3 DEF TrueTo
  <2> QED
    BY <1>10, <2>1, <2>2, <2>3, RequestKinds
<1> QED
  BY <1>2, <1>3, <1>4, <1>5, <1>6, <1>7, <1>8, <1>9, <1>10, StepShape DEF Acquire

LEMMA NotAstray ==
  ASSUME SettledInv, NEW p \in Handlers, Request(p) \/ Acquire(p) \/ Step(p)
  PROVE  ~ astray'
<1>1. CASE Request(p) \/ Step(p)
  BY <1>1, RequestKeeps, StepAstray DEF SettledInv
<1>2. CASE LockName(p)
  BY <1>2 DEF LockName, KeepLocks, SettledInv
<1>3. CASE LockId(p)
  <2>1. pc[p] = "lockid" /\ op[p] # "missing"
    BY <1>3 DEF LockId, At, SettledInv, TrueTo, LaterOps
  <2>2. ASSUME NEW q \in Handlers \ {p}, HasRunner(q, rid[p])
        PROVE  idMu[q] = idMu[p]
    BY <2>1, <2>2 DEF HasRunner, SettledInv, TrueTo, Bound, Waiting
  <2> QED
    BY <1>3, <2>1, <2>2 DEF LockId, Stale, SettledInv
<1> QED
  BY <1>1, <1>2, <1>3 DEF Acquire

LEMMA NextSettled == Ops \cap LaterOps = {} /\ SettledInv /\ [Next]_vars => SettledInv'
<1> SUFFICES ASSUME Ops \cap LaterOps = {}, SettledInv, [Next]_vars
             PROVE  SettledInv'
  OBVIOUS
<1>1. SUFFICES ~ astray' /\ \A q \in Handlers : TrueTo(q)'
  BY NextTypeInv, NextIInv DEF SettledInv
<1>2. ASSUME NEW p \in Handlers, Request(p) \/ Acquire(p) \/ Step(p)
      PROVE  ~ astray' /\ \A q \in Handlers : TrueTo(q)'
  <2>1. ASSUME NEW q \in Handlers, q # p
        PROVE  TrueTo(q)'
    <3>1. Stands(q) /\ idMu'[q] = idMu[q]
      BY <1>2, <2>1, OthersStand, OwnMutexOnly DEF SettledInv, TypeInv
    <3>2. pc[q] \in Waiting => table'[rid[q]] = table[rid[q]]
      BY <1>2, KeepsMutex
    <3> QED
      BY <3>1, <3>2 DEF SettledInv, TrueTo, Bound, Stands, Waiting
  <2> QED
    BY <1>2, <2>1, HandlerTrue, NotAstray
<1>3. CASE Crash
  BY <1>3 DEF Crash, SettledInv, TrueTo, LaterOps, Waiting, Owning, Working
<1>4. ASSUME NEW n \in Names, AgentRegisters(n) \/ AgentExits(n) \/ DockerReset(n)
      PROVE  ~ astray' /\ \A q \in Handlers : TrueTo(q)'
  <2>1. UNCHANGED <<pc, op, rid, idMu, table, astray>>
    BY <1>4 DEF AgentRegisters, AgentExits, DockerReset, KeepLocks, locks, locals, KeepLocals
  <2> QED
    BY <2>1 DEF SettledInv, TrueTo, Bound
<1>5. CASE UNCHANGED vars
  BY <1>5 DEF vars, locks, locals, SettledInv, TrueTo, Bound
<1> QED
  BY <1>2, <1>3, <1>4, <1>5 DEF Next, Environment

\* Creates, recreates, applies, patches, starts and stops never meet on one runner,
\* whatever fails and whenever the manager is killed: the condition of the theorems
\* above needs a Delete that forgets the key, or a RecreateMissing.
THEOREM SingleHolders == Ops \cap LaterOps = {} => (Spec => [](~ astray))
<1> SUFFICES ASSUME Ops \cap LaterOps = {} PROVE Spec => [](~ astray)
  OBVIOUS
<1>1. Init => SettledInv
  BY InitTypeInv, InitIInv DEF Init, SettledInv, TrueTo, LaterOps, Waiting, Owning, Working
<1>2. SettledInv /\ [Next]_vars => SettledInv'
  BY NextSettled
<1>3. SettledInv => ~ astray
  BY DEF SettledInv
<1> QED
  BY <1>1, <1>2, <1>3, PTL DEF Spec

(* A registration token lives only in the container of a configure phase.     *)

Configuring == {"cfg_wait", "cfg_drop", "cfg_remove"}

LEMMA StepCountsFaults ==
  ASSUME NEW p \in Handlers, Step(p)
  PROVE  UNCHANGED faults \/ \E k \in AllFaults : Fault(k)
<1> USE DEF Proceed, FaultOf, AllFaults
<1>1. CASE CfgCreate(p) \/ RunCreate(p)
  BY <1>1 DEF CfgCreate, RunCreate, Launch
<1>2. CASE \/ CreateConflict(p) \/ MakePlan(p) \/ PrepareFails(p) \/ CfgDrop(p)
           \/ CfgRemove(p) \/ ListenFails(p) \/ VerifyFails(p) \/ Get(p) \/ Restore(p)
           \/ RollbackInspectFails(p) \/ RollbackRemove(p) \/ RemoveFails(p)
           \/ DeleteRow(p) \/ StartStop(p)
  BY <1>2 DEF CreateConflict, MakePlan, PrepareFails, CfgDrop, CfgRemove, ListenFails,
     VerifyFails, Get, Restore, RollbackInspectFails, RollbackRemove, RemoveFails, DeleteRow,
     StartStop
<1>3. CASE RollbackKeep(p)
  BY <1>3 DEF RollbackKeep
<1> QED
  BY <1>1, <1>2, <1>3 DEF Step, CreateCheck, CreateAdd, Load, LoadNotFound, Refuse,
     MissingNext, Arrive, Forget, PatchRow, RemoveOld, Backup, Clear, CfgWait, CfgWaitFails, ListenOK, Verify,
     Failed, RemoveContainer, RemoveVolume

\* The step from which a handler leaves the configure phase has removed the
\* container; otherwise a call has failed.
LEMMA ConfiguringStays ==
  ASSUME TypeInv, NEW p \in Handlers, Step(p), pc[p] \in Configuring, faults' = 0
  PROVE  /\ NameOf(p)' = NameOf(p)
         /\ pc'[p] \in Configuring \/ ctr'[NameOf(p)] = None
<1> USE DEF TypeInv, TypeOK, ControlType, FaultType
<1>1. NameOf(p) \in Names
  BY DEF Configuring, Filled, Working, NameOf, Row
<1>2. CfgWait(p) \/ CfgWaitFails(p) \/ CfgDrop(p) \/ CfgRemove(p)
  BY DEF Configuring, Step, CreateCheck, CreateAdd, CreateConflict, Load, LoadNotFound,
     Refuse, MissingNext, MakePlan, RemoveOld, Backup, Clear, PrepareFails, CfgCreate,
     RunCreate, ListenOK, ListenFails, Verify, VerifyFails, Get, Failed, Restore,
     RollbackKeep, RollbackInspectFails, RollbackRemove, RemoveContainer, RemoveVolume,
     RemoveFails, DeleteRow, PatchRow, StartStop, Forget, At
<1>3. NameOf(p)' = NameOf(p)
  BY <1>2 DEF CfgWait, CfgWaitFails, CfgDrop, CfgRemove, Proceed, KeepLocals, NameOf
<1>4. CASE CfgWait(p) \/ CfgWaitFails(p)
  BY <1>3, <1>4 DEF CfgWait, CfgWaitFails, Goto, Configuring
<1>5. CASE CfgDrop(p) \/ CfgRemove(p)
  <2>1. ASSUME FaultOf(p, "call") PROVE FALSE
    BY <2>1 DEF FaultOf, Fault
  <2>2. ctr' = [ctr EXCEPT ![NameOf(p)] = None]
    BY <1>5, <2>1 DEF CfgDrop, CfgRemove
  <2> QED
    BY <1>1, <1>3, <2>2 DEF StateType
<1> QED
  BY <1>2, <1>4, <1>5

\* A token comes into a container only from the configure phase of its name.
LEMMA TokenOrigin ==
  ASSUME TypeInv, NEW p \in Handlers, Step(p), faults' = 0, NEW n \in Names,
         ctr'[n] # None, ctr'[n].token
  PROVE  \/ ctr[n] # None /\ ctr[n].token
         \/ pc'[p] = "cfg_wait" /\ NameOf(p)' = n
<1> USE DEF TypeInv, TypeOK, StateType, ControlType, FaultType
<1>0. ~ FaultOf(p, "call")
  BY DEF FaultOf, Fault
<1>1. CASE ctr' = ctr
  BY <1>1
<1>2. CASE \/ RemoveOld(p) \/ CfgDrop(p) \/ CfgRemove(p) \/ RemoveContainer(p)
           \/ PrepareFails(p) \/ RemoveFails(p) \/ RollbackKeep(p) \/ StartStop(p)
  BY <1>2 DEF RemoveOld, CfgDrop, CfgRemove, RemoveContainer, PrepareFails, RemoveFails,
     RollbackKeep, StartStop, SetRunning, HalfRemoved, With
<1>3. CASE CfgCreate(p)
  <2>1. \/ ctr' = ctr
        \/ /\ pc'[p] = "cfg_wait" /\ NameOf(p)' = NameOf(p)
           /\ \E c : ctr' = [ctr EXCEPT ![NameOf(p)] = c]
    BY <1>0, <1>3 DEF CfgCreate, Launch, Goto, KeepLocals, NameOf
  <2> QED
    BY <2>1
<1>4. CASE RunCreate(p)
  <2>1. \/ ctr' = ctr
        \/ ctr' = [ctr EXCEPT ![NameOf(p)] = Worker(p, FALSE, TRUE)]
        \/ /\ ctr[NameOf(p)] # None
           /\ ctr' = [ctr EXCEPT ![NameOf(p)] = With(ctr[NameOf(p)], TRUE)]
    BY <1>0, <1>4 DEF RunCreate, Launch, Managed
  <2> QED
    BY <2>1 DEF Worker, With
<1> QED
  BY <1>1, <1>2, <1>3, <1>4, StepKinds DEF Keep, CreateCheck, CreateAdd, Get, DeleteRow,
     RemoveVolume, Backup, Clear, Restore, PatchRow

LEMMA NextTokens ==
  TypeInv /\ TokenOnlyWhileConfiguring /\ [Next]_vars => TokenOnlyWhileConfiguring'
<1> SUFFICES ASSUME TypeInv, TokenOnlyWhileConfiguring, [Next]_vars, NEW n \in Names,
                    (ctr[n] # None /\ ctr[n].token /\ faults = 0)'
             PROVE  \E q \in Handlers : pc'[q] \in Configuring /\ NameOf(q)' = n
  BY DEF TokenOnlyWhileConfiguring, Configuring
<1> USE DEF TypeInv, TypeOK, StateType, FaultType
<1>1. ctr[n] # None /\ ctr[n].token /\ faults = 0
        => \E q \in Handlers : pc[q] \in Configuring /\ NameOf(q) = n
  BY DEF TokenOnlyWhileConfiguring, Configuring
<1>2. ASSUME NEW p \in Handlers, Step(p)
      PROVE  \E q \in Handlers : pc'[q] \in Configuring /\ NameOf(q)' = n
  <2>1. faults = 0
    <3>1. CASE UNCHANGED faults
      BY <3>1
    <3>2. ASSUME NEW k, Fault(k) PROVE FALSE
      BY <3>2 DEF Fault
    <3> QED
      BY <1>2, <3>1, <3>2, StepCountsFaults
  <2>2. CASE pc'[p] = "cfg_wait" /\ NameOf(p)' = n
    BY <2>2 DEF Configuring
  <2>3. CASE ctr[n] # None /\ ctr[n].token
    <3>1. PICK q \in Handlers : pc[q] \in Configuring /\ NameOf(q) = n
      BY <1>1, <2>1, <2>3
    <3>2. CASE q = p
      BY <1>2, <3>1, <3>2, ConfiguringStays
    <3>3. CASE q # p
      <4>1. Stands(q)
        BY <1>2, <3>3, OthersStand
      <4> QED
        BY <3>1, <4>1 DEF Stands, NameOf
    <3> QED
      BY <3>2, <3>3
  <2> QED
    BY <1>2, <2>2, <2>3, TokenOrigin
<1>3. ASSUME faults = 0, ctr[n] # None, ctr[n].token,
             \A q \in Handlers : pc[q] \in Configuring => Stands(q)
      PROVE  \E q \in Handlers : pc'[q] \in Configuring /\ NameOf(q)' = n
  BY <1>1, <1>3 DEF Stands, NameOf
<1>4. ASSUME NEW p \in Handlers, Request(p) \/ Acquire(p)
      PROVE  \E q \in Handlers : pc'[q] \in Configuring /\ NameOf(q)' = n
  <2>1. ctr' = ctr /\ faults' = faults
    BY <1>4, RequestKeeps, AcquireKeeps DEF Keep, Proceed
  <2>2. pc[p] \notin Configuring
    BY <1>4, RequestKeeps, AcquireKeeps DEF At, Configuring
  <2> QED
    BY <1>3, <1>4, <2>1, <2>2, OthersStand
<1>5. CASE Environment
  <2>1. ~ Crash /\ \A m \in Names : ~ DockerReset(m)
    BY DEF Crash, DockerReset, Fault
  <2>2. PICK m \in Names : AgentRegisters(m) \/ AgentExits(m)
    BY <1>5, <2>1 DEF Environment
  <2>3. UNCHANGED <<faults, pc, op, rid, rec, todo>>
    <3>1. ~ Fault("agent")
      BY DEF Fault
    <3> QED
      BY <2>2, <3>1 DEF AgentRegisters, AgentExits, KeepLocals, locals
  <2>4. ctr[n] # None /\ ctr[n].token
    BY <2>2 DEF AgentRegisters, AgentExits, With
  <2> QED
    BY <1>3, <2>3, <2>4 DEF Stands
<1>6. CASE UNCHANGED vars
  BY <1>3, <1>6 DEF vars, locals, Stands
<1> QED
  BY <1>2, <1>4, <1>5, <1>6 DEF Next

\* Until something fails every container with RUNNER_TOKEN in its environment is
\* the configure container of a handler at work, whoever holds which lock.
THEOREM TokensAreShortLived == Spec => []TokenOnlyWhileConfiguring
<1>1. Init => TokenOnlyWhileConfiguring
  BY DEF Init, TokenOnlyWhileConfiguring
<1> QED
  BY <1>1, InitTypeInv, NextTypeInv, NextTokens, PTL DEF Spec

===============================================================================
