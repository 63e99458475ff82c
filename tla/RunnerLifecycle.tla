--------------------------- MODULE RunnerLifecycle ---------------------------
(***************************************************************************)
(* The lifecycle of a runner: the handlers of runner.Manager that create,  *)
(* patch, recreate, start, stop and delete runners, step by step, over the *)
(* three places that hold a runner's state:                                *)
(*                                                                         *)
(*   rows   the expected configuration, in runners.json (package store)    *)
(*   ctr    the worker container that carries the runner's name (Docker)   *)
(*   vol    its data volume, with the registration written by config.sh    *)
(*          (.runner) and the manager's backup of it (.runner.bak)         *)
(*                                                                         *)
(* None of the three is transactional with the others: a handler makes     *)
(* one Docker or store call after another under a per-name and a per-id    *)
(* mutex, any call may fail, the process may be killed between two calls,  *)
(* and Docker may be reset behind its back.                                *)
(*                                                                         *)
(* A Docker call is one step.  Early returns that leave everything         *)
(* unchanged (validation, busy gate, rate limit, no token) are the action  *)
(* Refuse.                                                                 *)
(*                                                                         *)
(* The mutexes are those of lockRunnerOpt (KeyLock): a request looks its   *)
(* mutex up when it comes in and waits for that one, while the end of a    *)
(* Create or Delete may forget the key, so that the next request gets a    *)
(* new mutex beside the waiters of the old one.  Two handlers can so hold  *)
(* one runner; astray remembers that it has happened, and the properties   *)
(* say of each hazard whether it needs this or not.                        *)
(***************************************************************************)
EXTENDS Naturals

CONSTANTS
  Handlers,    \* concurrent API requests
  Ids,         \* runner ids (uuid.NewString never repeats: see used)
  Names,       \* runner names; container and volume names derive from them
  Workdirs,    \* host workdir paths, the configuration fixed at configure time
  Ops,         \* the operations a model offers, a subset of AllOps
  FaultKinds,  \* the failures a model offers, a subset of AllFaults
  MaxFaults,   \* bound on failures in a behaviour
  Mutexes,     \* *sync.Mutex values of a key, one for each handler at least
  None         \* absent row, container, volume, file, id or owner

AllOps == {"create", "recreate", "apply", "missing", "delete",
           "patch", "start", "stop"}

\* call: an Engine call or a store write fails; volumeRead: a volume helper fails to read
\* .runner; agent: config.sh exits without registering; reset: containers
\* (and volumes) vanish behind the manager; crash: the manager is killed.
AllFaults == {"call", "volumeRead", "agent", "reset", "crash"}

VARIABLES
  rows,        \* id -> stored row
  used,        \* ids already handed out
  ctr,         \* name -> container
  vol,         \* name -> data volume
  table,       \* runnerLocks: name (create:<containerName>) or id -> mutex
  nameMu,      \* handler -> the mutex it found for the name it creates
  idMu,        \* handler -> the mutex it found for its runner id
  pc,          \* handler -> next step
  op,          \* handler -> the operation requested
  rid,         \* handler -> the runner id it works on
  rec,         \* handler -> its copy of the row
  plan,        \* handler -> how recreate treats the registration (Plans)
  clean,       \* handler -> has nothing failed since the request came in?
  todo,        \* handler -> what recreate-missing has still to visit
  faults,      \* failures so far
  astray       \* history: has a runner had two holders, or was it recreated
               \* from a list after its row had gone?

locals == <<op, rid, rec, plan, clean, todo>>
locks == <<table, nameMu, idMu>>
vars == <<rows, used, ctr, vol, locks, pc, locals, faults, astray>>

Row == [name : Names, wd : Workdirs]
Container == [owner : Ids, wd : Workdirs, token : BOOLEAN, running : BOOLEAN]
Volume == [runner : Workdirs \cup {None}, bak : Workdirs \cup {None}]

\* Reuse the registration, configure a fresh volume, or back up and clear
\* .runner first.
Plans == {"reuse", "fresh", "reconfigure"}

ASSUME ConstantsOK ==
  /\ Ops \subseteq AllOps
  /\ FaultKinds \subseteq AllFaults
  /\ MaxFaults \in Nat
  /\ None \notin Handlers \cup Ids \cup Names \cup Workdirs \cup Mutexes
  /\ Ids \cap Names = {}
  /\ None \notin Row \cup Container \cup Volume

EmptyVolume == [runner |-> None, bak |-> None]

Init ==
  /\ rows = [i \in Ids |-> None]
  /\ used = {}
  /\ ctr = [n \in Names |-> None]
  /\ vol = [n \in Names |-> None]
  /\ table = [k \in Ids \cup Names |-> None]
  /\ nameMu = [p \in Handlers |-> None]
  /\ idMu = [p \in Handlers |-> None]
  /\ pc = [p \in Handlers |-> "idle"]
  /\ op = [p \in Handlers |-> "none"]
  /\ rid = [p \in Handlers |-> None]
  /\ rec = [p \in Handlers |-> None]
  /\ plan = [p \in Handlers |-> "reuse"]
  /\ clean = [p \in Handlers |-> TRUE]
  /\ todo = [p \in Handlers |-> {}]
  /\ faults = 0
  /\ astray = FALSE

-----------------------------------------------------------------------------
(* Steps of a handler.                                                     *)

NameOf(p) == rec[p].name
With(c, up) == [owner |-> c.owner, wd |-> c.wd,
                token |-> c.token, running |-> up]
At(p, label) == pc[p] = label
Goto(p, label) == pc' = [pc EXCEPT ![p] = label]

Keep == UNCHANGED <<rows, used, ctr, vol>>
KeepLocks == UNCHANGED <<locks, astray>>

Fault(kind) ==
  /\ kind \in FaultKinds
  /\ faults < MaxFaults
  /\ faults' = faults + 1

\* The call of p that fails is the end of p's clean run.
FaultOf(p, kind) ==
  /\ Fault(kind)
  /\ clean' = [clean EXCEPT ![p] = FALSE]

KeepLocals == UNCHANGED <<op, rid, rec, plan, todo>>
Proceed == KeepLocals /\ UNCHANGED <<clean, faults>>

\* The locals of p become those of a new request, or of none.
SetLocals(p, o, i, r, pl, td) ==
  /\ op' = [op EXCEPT ![p] = o]
  /\ rid' = [rid EXCEPT ![p] = i]
  /\ rec' = [rec EXCEPT ![p] = r]
  /\ plan' = [plan EXCEPT ![p] = pl]
  /\ todo' = [todo EXCEPT ![p] = td]
  /\ clean' = [clean EXCEPT ![p] = TRUE]

(* lockRunnerOpt: who holds, or waits for, which mutex.                    *)

\* A handler has the lock of its runner from the steps of Owning on, and a create
\* that of its name until it unlocks it.
Working == {"gate", "rm_old", "backup", "clear", "cfg_create", "cfg_wait",
            "cfg_drop", "cfg_remove", "run_create", "listen", "verify", "get",
            "failed", "restore", "rollback", "rm_ctr", "rm_vol", "rm_row", "act"}
Owning == {"load", "add"} \cup Working
HasRunner(q, i) == pc[q] \in Owning /\ rid[q] = i
HasName(q, n) == op[q] = "create" /\ pc[q] \notin {"lockname", "unlocked"}
                   /\ NameOf(q) = n

\* LoadOrStore: the mutex of the key, or a new one, to which no earlier caller with
\* this key refers (it does not matter which).
Found(k) ==
  LET free == {m \in Mutexes : \A q \in Handlers :
                 /\ rid[q] = k => idMu[q] # m
                 /\ nameMu[q] = m => NameOf(q) # k}
  IN IF table[k] = None THEN {m \in free : m = CHOOSE l \in free : TRUE}
     ELSE {table[k]}

ForgetsKey(p) == op[p] \in {"create", "delete"}

Leave(p) ==
  /\ Goto(p, "idle")
  /\ SetLocals(p, "none", None, None, "reuse", {})
  /\ nameMu' = [nameMu EXCEPT ![p] = None]
  /\ idMu' = [idMu EXCEPT ![p] = None]

\* The deferred unlocks run, those of Create and Delete up to their TryLock;
\* recreate-missing goes on with its next runner.
Finish(p) ==
  /\ \/ /\ ForgetsKey(p)
        /\ Goto(p, "unlocked")
        /\ SetLocals(p, op[p], rid[p],
                     IF op[p] = "create" THEN rec[p] ELSE None, "reuse", {})
        /\ UNCHANGED <<nameMu, idMu>>
     \/ ~ ForgetsKey(p) /\ todo[p] = {} /\ Leave(p)
     \/ /\ ~ ForgetsKey(p) /\ todo[p] # {}
        /\ Goto(p, "next")
        /\ idMu' = [idMu EXCEPT ![p] = None]
        /\ UNCHANGED <<nameMu, locals>>
  /\ UNCHANGED <<table, astray>>

SameMutex(p, q) ==
  IF op[p] = "create" THEN nameMu[q] = nameMu[p] ELSE idMu[q] = idMu[p]
Holding(q, p) ==
  IF op[p] = "create" THEN HasName(q, NameOf(p)) ELSE HasRunner(q, rid[p])
Forgetting(q, p) ==
  /\ At(q, "unlocked") /\ op[q] = op[p]
  /\ IF op[p] = "create" THEN NameOf(q) = NameOf(p) ELSE rid[q] = rid[p]

\* TryLock, and if the mutex is free the key goes, whatever mutex it has by now.
\* TryLock fails beside a holder, or the TryLock of somebody who forgets as well.
Forget(p) ==
  /\ At(p, "unlocked")
  /\ \/ /\ ~ \E q \in Handlers \ {p} : Holding(q, p) /\ SameMutex(p, q)
        /\ table' = [table EXCEPT
                      ![IF op[p] = "create" THEN NameOf(p) ELSE rid[p]] = None]
     \/ /\ \E q \in Handlers \ {p} :
             (Holding(q, p) \/ Forgetting(q, p)) /\ SameMutex(p, q)
        /\ UNCHANGED table
  /\ Leave(p)
  /\ Keep /\ UNCHANGED <<faults, astray>>

-----------------------------------------------------------------------------
(* Create, up to the store row.                                            *)

CreateBegin(p) ==
  /\ "create" \in Ops /\ At(p, "idle")
  /\ \E r \in Row : \E m \in Found(r.name) :
       /\ SetLocals(p, "create", None, r, "fresh", {})
       /\ table' = [table EXCEPT ![r.name] = m]
       /\ nameMu' = [nameMu EXCEPT ![p] = m]
  /\ Goto(p, "lockname")
  /\ Keep /\ UNCHANGED <<idMu, faults, astray>>

LockName(p) ==
  /\ At(p, "lockname")
  /\ \A q \in Handlers \ {p} : HasName(q, NameOf(p)) => nameMu[q] # nameMu[p]
  /\ Goto(p, "check")
  /\ Keep /\ KeepLocks /\ Proceed

NameTaken(n) == \E i \in Ids : rows[i] # None /\ rows[i].name = n

\* Store.List finds no clash, the token and the quota are granted, and the
\* new id is locked; it is fresh, so nobody can hold or wait for its mutex.
CreateCheck(p) ==
  /\ At(p, "check")
  /\ ~ NameTaken(NameOf(p))
  /\ \E i \in Ids \ used : \E m \in Found(i) :
       /\ used' = used \cup {i}
       /\ rid' = [rid EXCEPT ![p] = i]
       /\ table' = [table EXCEPT ![i] = m]
       /\ idMu' = [idMu EXCEPT ![p] = m]
  /\ Goto(p, "add")
  /\ UNCHANGED <<rows, ctr, vol, nameMu, faults, astray>>
  /\ UNCHANGED <<op, rec, plan, clean, todo>>

\* Slip: Store.Add trusts the check that Create has made.
CreateAddUnchecked(p) ==
  /\ At(p, "add")
  /\ rows' = [rows EXCEPT ![rid[p]] = rec[p]]
  /\ Goto(p, "cfg_create")
  /\ UNCHANGED <<used, ctr, vol>> /\ KeepLocks /\ Proceed

\* Store.Add checks for a clash again, under the store's own mutex.
CreateAdd(p) ==
  /\ At(p, "add")
  /\ ~ NameTaken(NameOf(p))
  /\ rows' = [rows EXCEPT ![rid[p]] = rec[p]]
  /\ Goto(p, "cfg_create")
  /\ UNCHANGED <<used, ctr, vol>> /\ KeepLocks /\ Proceed

CreateConflict(p) ==
  /\ \/ (At(p, "check") \/ At(p, "add")) /\ NameTaken(NameOf(p)) /\ UNCHANGED faults
     \/ At(p, "add") /\ Fault("call")
  /\ Finish(p)
  /\ Keep

-----------------------------------------------------------------------------
(* Requests on an existing runner, and recreate-missing.                   *)

\* A request looks its mutex up as soon as it comes in.
Arrive(p, i) ==
  /\ \E m \in Found(i) : /\ table' = [table EXCEPT ![i] = m]
                               /\ idMu' = [idMu EXCEPT ![p] = m]
  /\ Goto(p, "lockid")
  /\ Keep /\ UNCHANGED <<nameMu, faults, astray>>

Begin(p, o) ==
  /\ o \in Ops /\ At(p, "idle")
  /\ \E i \in used : SetLocals(p, o, i, None, "reuse", {}) /\ Arrive(p, i)

\* Patch with apply edits the workdir of the row it is about to read.
ApplyBegin(p) ==
  /\ "apply" \in Ops /\ At(p, "idle")
  /\ \E i \in used, r \in Row :
       SetLocals(p, "apply", i, r, "reuse", {}) /\ Arrive(p, i)

\* The row that recreate-missing has listed is there no more (a row keeps its name).
Stale(p) == op[p] = "missing"
              /\ (rows[rid[p]] = None \/ rows[rid[p]].name # NameOf(p))

LockId(p) ==
  LET others == {q \in Handlers \ {p} : HasRunner(q, rid[p])}
  IN /\ At(p, "lockid")
     /\ \A q \in others : idMu[q] # idMu[p]
     /\ astray' = (astray \/ Stale(p) \/ others # {})
     /\ Goto(p, IF op[p] = "missing" THEN "gate" ELSE "load")
     /\ Keep /\ Proceed /\ UNCHANGED locks

\* Store.Get; Delete goes on to its own steps, the others to recreateRec.
Load(p) ==
  LET row == rows[rid[p]]
  IN /\ At(p, "load") /\ row # None
     /\ rec' = [rec EXCEPT ![p] =
          IF op[p] = "apply" THEN [name |-> row.name, wd |-> rec[p].wd] ELSE row]
     /\ Goto(p, CASE op[p] = "delete" -> "rm_ctr"
                  [] op[p] \in {"patch", "start", "stop"} -> "act"
                  [] OTHER -> "gate")
     /\ Keep /\ KeepLocks
     /\ UNCHANGED <<op, rid, plan, clean, todo, faults>>

LoadNotFound(p) ==
  /\ At(p, "load") /\ rows[rid[p]] = None
  /\ Finish(p)
  /\ Keep /\ UNCHANGED faults

\* Every early return that has changed nothing yet: validation, no token, PAT
\* mint failed, quota exhausted, busy gate, Docker unavailable.
Refuse(p) ==
  /\ \/ At(p, "check") \/ At(p, "gate") \/ At(p, "act")
     \/ At(p, "rm_ctr") /\ op[p] = "delete"
  /\ Finish(p)
  /\ Keep /\ UNCHANGED faults

\* RecreateMissing lists once and then visits that snapshot, row by row,
\* without reading the store again.
MissingBegin(p) ==
  LET gone == {i \in Ids : rows[i] # None /\ ctr[rows[i].name] = None}
  IN /\ "missing" \in Ops /\ At(p, "idle")
     /\ gone # {}
     /\ SetLocals(p, "missing", None, None, "reuse", {<<i, rows[i]>> : i \in gone})
     /\ Goto(p, "next")
     /\ Keep /\ KeepLocks /\ UNCHANGED faults

\* Slip: the row stays in the list.
MissingAgain(p) ==
  /\ At(p, "next")
  /\ \E t \in todo[p] : /\ rid' = [rid EXCEPT ![p] = t[1]]
                        /\ rec' = [rec EXCEPT ![p] = t[2]]
                        /\ Arrive(p, t[1])
  /\ plan' = [plan EXCEPT ![p] = "reuse"]
  /\ clean' = [clean EXCEPT ![p] = TRUE]
  /\ UNCHANGED <<op, todo>>

MissingNext(p) ==
  /\ At(p, "next")
  /\ \E t \in todo[p] : /\ rid' = [rid EXCEPT ![p] = t[1]]
                        /\ rec' = [rec EXCEPT ![p] = t[2]]
                        /\ todo' = [todo EXCEPT ![p] = @ \ {t}]
                        /\ Arrive(p, t[1])
  /\ plan' = [plan EXCEPT ![p] = "reuse"]
  /\ clean' = [clean EXCEPT ![p] = TRUE]
  /\ UNCHANGED <<op>>

-----------------------------------------------------------------------------
(* recreateRec, up to the start of the container.                          *)

\* Slip: a volume without .runner counts as configured.
PlanByVolume(n, wd) ==
  IF vol[n] = None THEN "fresh"
  ELSE IF vol[n].runner \in {wd, None} THEN "reuse" ELSE "reconfigure"

PlanFor(n, wd) ==
  IF vol[n] = None THEN "fresh"
  ELSE IF vol[n].runner = wd THEN "reuse" ELSE "reconfigure"

\* The step after the old container is gone.
AfterRemove(pl) ==
  CASE pl = "reuse" -> "run_create"
    [] pl = "fresh" -> "cfg_create"
    [] pl = "reconfigure" -> "backup"

\* Inspect, read .runner, decide whether config.sh must run again, and get a
\* token if so (a token that cannot be had is among the reasons of Refuse).
ContinueWith(p, pl) ==
  /\ plan' = [plan EXCEPT ![p] = pl]
  /\ Goto(p, IF ctr[NameOf(p)] # None THEN "rm_old" ELSE AfterRemove(pl))

MakePlan(p) ==
  /\ At(p, "gate")
  /\ \/ ContinueWith(p, PlanFor(NameOf(p), rec[p].wd)) /\ UNCHANGED <<clean, faults>>
     \/ /\ vol[NameOf(p)] # None         \* "unable to read .runner"
        /\ ContinueWith(p, "reconfigure") /\ FaultOf(p, "volumeRead")
  /\ Keep /\ KeepLocks /\ UNCHANGED <<op, rid, rec, todo>>

\* A removal that fails has left the container as it was, or stopped it.
HalfRemoved(n) ==
  \/ UNCHANGED ctr
  \/ ctr[n] # None /\ ctr' = [ctr EXCEPT ![n] = With(ctr[n], FALSE)]

RemoveOld(p) ==
  /\ At(p, "rm_old")
  /\ ctr' = [ctr EXCEPT ![NameOf(p)] = None]
  /\ Goto(p, AfterRemove(plan[p]))
  /\ UNCHANGED <<rows, used, vol>> /\ KeepLocks /\ Proceed

\* Slip: a missing .runner replaces an older backup.
BackupOfNothing(p) ==
  LET n == NameOf(p)
  IN /\ At(p, "backup")
     /\ vol' = IF vol[n] = None THEN vol
               ELSE [vol EXCEPT ![n] = [runner |-> @.runner, bak |-> @.runner]]
     /\ Goto(p, "clear")
     /\ UNCHANGED <<rows, used, ctr>> /\ KeepLocks /\ Proceed

\* A .runner that is not there leaves an older backup as it is.
Backup(p) ==
  LET n == NameOf(p)
  IN /\ At(p, "backup")
     /\ vol' = IF vol[n] = None \/ vol[n].runner = None THEN vol
               ELSE [vol EXCEPT ![n] = [runner |-> @.runner, bak |-> @.runner]]
     /\ Goto(p, "clear")
     /\ UNCHANGED <<rows, used, ctr>> /\ KeepLocks /\ Proceed

Clear(p) ==
  LET n == NameOf(p)
  IN /\ At(p, "clear")
     /\ vol' = IF vol[n] = None THEN vol ELSE [vol EXCEPT ![n] = [runner |-> None, bak |-> @.bak]]
     /\ Goto(p, "cfg_create")
     /\ UNCHANGED <<rows, used, ctr>> /\ KeepLocks /\ Proceed

\* An Engine call before the pipeline fails and the error is returned at once.
PrepareFails(p) ==
  /\ \/ At(p, "rm_old") /\ HalfRemoved(NameOf(p))
     \/ (At(p, "backup") \/ At(p, "clear")) /\ UNCHANGED ctr
  /\ Fault("call")
  /\ Finish(p)
  /\ UNCHANGED <<rows, used, vol>>

-----------------------------------------------------------------------------
(* startContainer: configure phase (with a token), then the listener.      *)

\* Slip: the listener keeps RUNNER_TOKEN.
WorkerWithToken(p, token, up) == [owner |-> rid[p], wd |-> rec[p].wd,
                                  token |-> TRUE, running |-> up]

Worker(p, token, up) == [owner |-> rid[p], wd |-> rec[p].wd,
                         token |-> token, running |-> up]
Managed(p) == ctr[NameOf(p)] # None /\ ctr[NameOf(p)].owner = rid[p]

EnsuredVolume(n) ==
  IF vol[n] = None THEN [vol EXCEPT ![n] = EmptyVolume] ELSE vol

\* CreateAndStart and adoptExisting.  A name conflict with a container of the
\* same runner adopts it, or replaces it when it still holds the token and the
\* listener is being started; any other conflict is an error.
Launch(p, token, next) ==
  LET n == NameOf(p)
      OK(c) == /\ ctr' = [ctr EXCEPT ![n] = c]
               /\ Goto(p, next) /\ UNCHANGED <<clean, faults>>
      Fails == Goto(p, "failed") /\ FaultOf(p, "call")
  IN /\ \/ /\ vol' = EnsuredVolume(n)
           /\ \/ ctr[n] = None /\ OK(Worker(p, token, TRUE))
              \/ /\ Managed(p) /\ ctr[n].token /\ ~ token
                 /\ OK(Worker(p, token, TRUE))
              \/ /\ Managed(p) /\ (token \/ ~ ctr[n].token)
                 /\ OK(With(ctr[n], TRUE))
              \/ /\ ctr[n] # None /\ ~ Managed(p)
                 /\ Goto(p, "failed") /\ UNCHANGED <<ctr, clean, faults>>
        \/ UNCHANGED <<ctr, vol>> /\ Fails          \* no image, no volume
        \/ /\ \/ ctr[n] = None                      \* created, never started
              \/ Managed(p) /\ ctr[n].token /\ ~ token
           /\ vol' = EnsuredVolume(n)
           /\ \E c \in {None, Worker(p, token, FALSE)} :
                ctr' = [ctr EXCEPT ![n] = c]
           /\ Fails
     /\ UNCHANGED <<rows, used>> /\ KeepLocks /\ KeepLocals

CfgCreate(p) == At(p, "cfg_create") /\ Launch(p, TRUE, "cfg_wait")
RunCreate(p) ==
  /\ At(p, "run_create")
  /\ Launch(p, FALSE, IF plan[p] = "reuse" THEN "verify" ELSE "listen")

Registered(n) == vol[n] # None /\ vol[n].runner # None

Running(n) == ctr[n] # None /\ ctr[n].running

\* waitForConfigure reads .runner through the container.
CfgWait(p) ==
  LET n == NameOf(p)
  IN /\ At(p, "cfg_wait")
     /\ ctr[n] # None /\ Registered(n)
     /\ Goto(p, "cfg_remove")
     /\ Keep /\ KeepLocks /\ Proceed

\* It gives up when the container has exited without a .runner, or on a failure
\* marker or after 90 seconds while the container still runs (not clean).
CfgWaitFails(p) ==
  /\ At(p, "cfg_wait")
  /\ ctr[NameOf(p)] = None \/ ~ Registered(NameOf(p))
  /\ clean' = [clean EXCEPT ![p] = @ /\ ~ Running(NameOf(p))]
  /\ Goto(p, "cfg_drop")
  /\ Keep /\ KeepLocks /\ KeepLocals /\ UNCHANGED faults

\* The failed configure container is removed, best effort.
CfgDrop(p) ==
  /\ At(p, "cfg_drop")
  /\ \/ ctr' = [ctr EXCEPT ![NameOf(p)] = None] /\ Proceed
     \/ HalfRemoved(NameOf(p)) /\ FaultOf(p, "call") /\ KeepLocals
  /\ Goto(p, "failed")
  /\ UNCHANGED <<rows, used, vol>> /\ KeepLocks

\* Slip: the configure container is left for the run phase to replace.
CfgLeave(p) ==
  /\ At(p, "cfg_remove")
  /\ Goto(p, "run_create") /\ Proceed
  /\ Keep /\ KeepLocks

CfgRemove(p) ==
  /\ At(p, "cfg_remove")
  /\ \/ /\ ctr' = [ctr EXCEPT ![NameOf(p)] = None]
        /\ Goto(p, "run_create") /\ Proceed
     \/ /\ HalfRemoved(NameOf(p)) /\ KeepLocals
        /\ Goto(p, "failed") /\ FaultOf(p, "call")
  /\ UNCHANGED <<rows, used, vol>> /\ KeepLocks

\* A listener needs the registration on its volume.
Serving(n) == Running(n) /\ Registered(n)

ListenOK(p) ==
  /\ At(p, "listen") /\ Serving(NameOf(p))
  /\ Goto(p, "verify")
  /\ Keep /\ KeepLocks /\ Proceed

\* Exit, failure marker, or 90 seconds without a success marker.
ListenFails(p) ==
  /\ At(p, "listen")
  /\ \/ ~ Serving(NameOf(p)) /\ Proceed
     \/ FaultOf(p, "agent") /\ KeepLocals
  /\ Goto(p, "failed")
  /\ Keep /\ KeepLocks

\* verifyAgentWorkdir: the workFolder that the container reports is the
\* configured one; 45 seconds of anything else is an error.
Verified(p) == /\ ctr[NameOf(p)] # None /\ Registered(NameOf(p))
               /\ vol[NameOf(p)].runner = rec[p].wd

Verify(p) ==
  /\ At(p, "verify") /\ Verified(p)
  /\ Goto(p, "get")
  /\ Keep /\ KeepLocks /\ Proceed

VerifyFails(p) ==
  /\ At(p, "verify")
  /\ \/ ~ Verified(p) /\ Proceed
     \/ FaultOf(p, "call") /\ KeepLocals
  /\ Goto(p, "failed")
  /\ Keep /\ KeepLocks

-----------------------------------------------------------------------------
(* The end of create, recreate and apply.                                  *)

\* Get fails with ErrNotFound when the row has gone; apply writes the row it
\* applied only now.
Get(p) ==
  /\ At(p, "get")
  /\ \/ /\ op[p] = "apply" /\ rows[rid[p]] # None
        /\ \/ rows' = [rows EXCEPT ![rid[p]] = rec[p]] /\ UNCHANGED faults
           \/ UNCHANGED rows /\ Fault("call")
     \/ /\ op[p] # "apply" \/ rows[rid[p]] = None
        /\ UNCHANGED <<rows, faults>>
  /\ Finish(p)
  /\ UNCHANGED <<used, ctr, vol>>

\* startContainer returned an error.
Failed(p) ==
  /\ At(p, "failed")
  /\ \/ op[p] = "create" /\ Goto(p, "rollback") /\ KeepLocks /\ Proceed
     \/ /\ op[p] # "create" /\ plan[p] = "reconfigure"
        /\ Goto(p, "restore") /\ KeepLocks /\ Proceed
     \/ /\ op[p] # "create" /\ plan[p] # "reconfigure"
        /\ Finish(p) /\ UNCHANGED faults
  /\ Keep

\* Put the backup back over whatever .runner there is; an error is only logged.
Restore(p) ==
  LET n == NameOf(p)
  IN /\ At(p, "restore")
     /\ \/ /\ vol' = IF vol[n] # None /\ vol[n].bak # None
                       THEN [vol EXCEPT ![n] = [runner |-> @.bak, bak |-> @.bak]]
                       ELSE vol
           /\ UNCHANGED faults
        \/ UNCHANGED vol /\ Fault("call")
     /\ Finish(p)
     /\ UNCHANGED <<rows, used, ctr>>

\* rollbackFailedCreate: keep row and volume when the container is ours or a
\* .runner was written, otherwise remove everything.  A .runner that cannot be
\* read counts as none.
RollbackKeep(p) ==
  LET n == NameOf(p)
      c == ctr[n]
      removed == [ctr EXCEPT ![n] = None]
      started == [ctr EXCEPT ![n] = With(c, TRUE)]
  IN /\ At(p, "rollback")
     /\ Managed(p) \/ Registered(n)
     /\ \/ c # None /\ c.token /\ ctr' = removed /\ UNCHANGED faults
        \/ c # None /\ ~ c.token /\ Managed(p) /\ ctr' = started /\ UNCHANGED faults
        \/ c # None /\ ~ c.token /\ ~ Managed(p) /\ UNCHANGED <<ctr, faults>>
        \/ c = None /\ UNCHANGED <<ctr, faults>>
        \/ c # None /\ c.token /\ HalfRemoved(n) /\ Fault("call")
        \/ /\ c # None /\ ~ c.token /\ Managed(p) /\ ~ c.running
           /\ UNCHANGED ctr /\ Fault("call")
     /\ Finish(p)
     /\ UNCHANGED <<rows, used, vol>>

RollbackInspectFails(p) ==
  /\ At(p, "rollback") /\ Fault("call")
  /\ Finish(p)
  /\ Keep

\* Slip: the rollback does not look for a .runner.
RollbackBlind(p) ==
  /\ At(p, "rollback") /\ ~ Managed(p)
  /\ Goto(p, "rm_ctr")
  /\ Keep /\ KeepLocks /\ Proceed

\* Slip: the row goes first.
RollbackRowFirst(p) ==
  /\ At(p, "rollback") /\ ~ Managed(p) /\ ~ Registered(NameOf(p))
  /\ Goto(p, "rm_row")
  /\ Keep /\ KeepLocks /\ Proceed

RollbackRemove(p) ==
  /\ At(p, "rollback") /\ ~ Managed(p)
  /\ \/ ~ Registered(NameOf(p)) /\ Proceed
     \/ Registered(NameOf(p)) /\ FaultOf(p, "volumeRead") /\ KeepLocals
  /\ Goto(p, "rm_ctr")
  /\ Keep /\ KeepLocks

-----------------------------------------------------------------------------
(* Removal, shared by Delete and the rollback: container, volume, row.     *)

\* Slip: the volume is forgotten.
RemoveContainerOnly(p) ==
  /\ At(p, "rm_ctr")
  /\ ctr' = [ctr EXCEPT ![NameOf(p)] = None]
  /\ Goto(p, "rm_row")
  /\ UNCHANGED <<rows, used, vol>> /\ KeepLocks /\ Proceed

RemoveContainer(p) ==
  /\ At(p, "rm_ctr")
  /\ ctr' = [ctr EXCEPT ![NameOf(p)] = None]
  /\ Goto(p, "rm_vol")
  /\ UNCHANGED <<rows, used, vol>> /\ KeepLocks /\ Proceed

\* The Engine refuses to remove a volume that a container mounts.
RemoveVolume(p) ==
  /\ At(p, "rm_vol") /\ ctr[NameOf(p)] = None
  /\ vol' = [vol EXCEPT ![NameOf(p)] = None]
  /\ Goto(p, "rm_row")
  /\ UNCHANGED <<rows, used, ctr>> /\ KeepLocks /\ Proceed

RemoveFails(p) ==
  /\ \/ At(p, "rm_ctr") /\ HalfRemoved(NameOf(p)) /\ Fault("call")
     \/ At(p, "rm_vol") /\ UNCHANGED ctr /\ Fault("call")
     \/ At(p, "rm_vol") /\ UNCHANGED ctr /\ ctr[NameOf(p)] # None /\ UNCHANGED faults
  /\ Finish(p)
  /\ UNCHANGED <<rows, used, vol>>

DeleteRow(p) ==
  /\ At(p, "rm_row")
  /\ \/ rows' = [rows EXCEPT ![rid[p]] = None] /\ UNCHANGED faults
     \/ UNCHANGED rows /\ Fault("call")
  /\ Finish(p)
  /\ UNCHANGED <<used, ctr, vol>>

-----------------------------------------------------------------------------
(* Patch without apply, Start, Stop and Restart: one effect each.          *)

\* Store.Update; the container does not change.
PatchRow(p) ==
  /\ At(p, "act") /\ op[p] = "patch" /\ rows[rid[p]] # None
  /\ \E w \in Workdirs :
       rows' = [rows EXCEPT ![rid[p]] = [name |-> NameOf(p), wd |-> w]]
  /\ Finish(p)
  /\ UNCHANGED <<used, ctr, vol, faults>>

SetRunning(p, value) ==
  ctr' = [ctr EXCEPT ![NameOf(p)] = With(ctr[NameOf(p)], value)]

\* Start and Restart act on whatever container bears the name; a restart may end
\* with the worker stopped.
StartStop(p) ==
  /\ At(p, "act") /\ ctr[NameOf(p)] # None
  /\ \/ op[p] = "start" /\ SetRunning(p, TRUE) /\ UNCHANGED faults
     \/ op[p] = "start" /\ SetRunning(p, FALSE) /\ Fault("call")
     \/ op[p] = "stop" /\ SetRunning(p, FALSE) /\ UNCHANGED faults
  /\ Finish(p)
  /\ UNCHANGED <<rows, used, vol>>

-----------------------------------------------------------------------------
(* The environment: the runner image, the Engine, the manager's process.   *)

\* entrypoint with RUNNER_TOKEN and no .runner: config.sh writes it.
AgentRegisters(n) ==
  /\ ctr[n] # None /\ ctr[n].token /\ ctr[n].running
  /\ vol[n] # None /\ vol[n].runner = None
  /\ vol' = [vol EXCEPT ![n] = [runner |-> ctr[n].wd, bak |-> vol[n].bak]]
  /\ UNCHANGED <<rows, used, ctr, pc, locals, faults>> /\ KeepLocks

NobodyClean == clean' = [p \in Handlers |-> FALSE]

\* CMD true: the configure container exits once it is configured, or when
\* config.sh fails.
AgentExits(n) ==
  /\ ctr[n] # None /\ ctr[n].token /\ ctr[n].running
  /\ \/ Registered(n) /\ UNCHANGED <<clean, faults>>
     \/ ~ Registered(n) /\ Fault("agent") /\ NobodyClean
  /\ ctr' = [ctr EXCEPT ![n] = With(ctr[n], FALSE)]
  /\ UNCHANGED <<rows, used, vol, pc>> /\ KeepLocals /\ KeepLocks

DockerReset(n) ==
  /\ Fault("reset")
  /\ ctr' = [ctr EXCEPT ![n] = None]
  /\ \E v \in {vol[n], None} : vol' = [vol EXCEPT ![n] = v]
  /\ NobodyClean
  /\ UNCHANGED <<rows, used, pc>> /\ KeepLocals /\ KeepLocks

Crash ==
  /\ Fault("crash")
  /\ table' = [k \in Ids \cup Names |-> None]
  /\ nameMu' = [p \in Handlers |-> None]
  /\ idMu' = [p \in Handlers |-> None]
  /\ pc' = [p \in Handlers |-> "idle"]
  /\ op' = [p \in Handlers |-> "none"]
  /\ rid' = [p \in Handlers |-> None]
  /\ rec' = [p \in Handlers |-> None]
  /\ plan' = [p \in Handlers |-> "reuse"]
  /\ clean' = [p \in Handlers |-> TRUE]
  /\ todo' = [p \in Handlers |-> {}]
  /\ Keep /\ UNCHANGED astray

-----------------------------------------------------------------------------
Request(p) ==
  \/ CreateBegin(p) \/ ApplyBegin(p) \/ MissingBegin(p)
  \/ \E o \in {"recreate", "delete", "patch", "start", "stop"} : Begin(p, o)

Acquire(p) == LockName(p) \/ LockId(p)

Step(p) ==
  \/ CreateCheck(p) \/ CreateAdd(p) \/ CreateConflict(p)
  \/ Load(p) \/ LoadNotFound(p) \/ Refuse(p) \/ MissingNext(p)
  \/ MakePlan(p) \/ RemoveOld(p) \/ Backup(p) \/ Clear(p) \/ PrepareFails(p)
  \/ CfgCreate(p) \/ CfgWait(p) \/ CfgWaitFails(p) \/ CfgDrop(p) \/ CfgRemove(p)
  \/ RunCreate(p) \/ ListenOK(p) \/ ListenFails(p) \/ Verify(p) \/ VerifyFails(p)
  \/ Get(p) \/ Failed(p) \/ Restore(p)
  \/ RollbackKeep(p) \/ RollbackInspectFails(p) \/ RollbackRemove(p)
  \/ RemoveContainer(p) \/ RemoveVolume(p) \/ RemoveFails(p) \/ DeleteRow(p)
  \/ PatchRow(p) \/ StartStop(p) \/ Forget(p)

Environment ==
  \/ \E n \in Names : AgentRegisters(n) \/ AgentExits(n) \/ DockerReset(n)
  \/ Crash

Next ==
  \/ \E p \in Handlers : Request(p) \/ Acquire(p) \/ Step(p)
  \/ Environment

Spec == Init /\ [][Next]_vars

\* Go's mutexes hand the lock to a waiter in bounded time; every wait in a
\* handler has a deadline, so a handler that runs reaches its next step.
Fairness == \A p \in Handlers : WF_vars(Step(p)) /\ SF_vars(Acquire(p))
FairSpec == Spec /\ Fairness

-----------------------------------------------------------------------------
(* Properties.                                                             *)

Labels == {"idle", "lockname", "check", "add", "lockid", "load", "next",
           "gate", "rm_old", "backup", "clear", "cfg_create", "cfg_wait",
           "cfg_drop", "cfg_remove", "run_create", "listen", "verify", "get",
           "failed", "restore", "rollback", "rm_ctr", "rm_vol", "rm_row",
           "act", "unlocked"}

StateType ==
  /\ rows \in [Ids -> Row \cup {None}]
  /\ used \subseteq Ids
  /\ ctr \in [Names -> Container \cup {None}]
  /\ vol \in [Names -> Volume \cup {None}]

ControlType ==
  /\ table \in [Ids \cup Names -> Mutexes \cup {None}]
  /\ nameMu \in [Handlers -> Mutexes \cup {None}]
  /\ idMu \in [Handlers -> Mutexes \cup {None}]
  /\ pc \in [Handlers -> Labels]

LocalType ==
  /\ op \in [Handlers -> AllOps \cup {"none"}]
  /\ rid \in [Handlers -> Ids \cup {None}]
  /\ rec \in [Handlers -> Row \cup {None}]
  /\ plan \in [Handlers -> Plans]
  /\ todo \in [Handlers -> SUBSET (Ids \X Row)]

FaultType ==
  /\ clean \in [Handlers -> BOOLEAN]
  /\ faults \in 0..MaxFaults
  /\ astray \in BOOLEAN

\* Types of the variables (Manager, store.Runner, docker.InspectInfo).
TypeOK == StateType /\ ControlType /\ LocalType /\ FaultType

\* Every container and every data volume belongs to a stored runner.
Attached ==
  \A n \in Names :
    /\ ctr[n] # None => /\ rows[ctr[n].owner] # None
                        /\ rows[ctr[n].owner].name = n
    /\ vol[n] # None => NameTaken(n)

\* manager.go:1758 - no container and no data volume is left behind without a stored
\* runner that owns it, whatever fails or crashes in Create, its rollback, Recreate
\* and Delete (the row is written first and removed last), while no runner has had
\* two holders and recreate-missing has found its rows there.
NoOrphan == ~ astray => Attached

\* manager.go:729 - two handlers never work on the same container name, although
\* Create is serialised by name, under a mutex that may be forgotten while others
\* wait for it, and every other operation by id; while ids have single holders.
OneWorkerPerName ==
  ~ astray =>
    \A p, q \in Handlers :
      p # q /\ pc[p] \in Working /\ pc[q] \in Working => NameOf(p) # NameOf(q)

\* manager.go:1599 - a create, recreate or apply that is about to report success and
\* during which nothing failed has left a listener of this runner, on the requested
\* workdir, registered for that workdir, and without RUNNER_TOKEN in its environment;
\* while ids have single holders and no listed row has gone.
SuccessIsServing ==
  ~ astray =>
    \A p \in Handlers : At(p, "get") /\ clean[p] =>
      LET n == NameOf(p)
      IN /\ ctr[n] # None /\ ctr[n].owner = rid[p]
         /\ ~ ctr[n].token /\ ctr[n].wd = rec[p].wd
         /\ vol[n].runner = ctr[n].wd

\* manager.go:1530 - a recreate, an apply and each runner of recreate-missing succeed
\* from every state that earlier failures and crashes can leave, if nothing fails
\* while they run, a token can be had when needed, ids have single holders and no
\* listed row has gone.
RecreateRecovers ==
  ~ astray =>
    \A p \in Handlers :
      At(p, "failed") /\ op[p] \in {"recreate", "apply", "missing"} => ~ clean[p]

Holds(v) == v # None /\ (v.runner # None \/ v.bak # None)
KeepsRegistration ==
  \A n \in Names : Holds(vol[n]) /\ vol'[n] # None => Holds(vol'[n])

\* manager.go:1581 - as long as the volume stays, the registration on it is there or
\* its backup is: no step of a reconfigure, failed or interrupted, loses both, while
\* ids have single holders and no listed row has gone.
RegistrationKept == [][~ astray => KeepsRegistration]_vars

\* manager.go:829 - a volume with a registration goes away only because the runner is
\* deleted or Docker was reset, never as the rollback of a create, while ids have
\* single holders and no listed row has gone.
OnlyDeleteUnregisters ==
  [][~ astray =>
       \A p \in Handlers :
         At(p, "rm_vol") /\ RemoveVolume(p) /\ Registered(NameOf(p))
           => op[p] = "delete"]_vars

\* manager.go:933 - a token stays in the environment of a container only while a
\* handler is configuring the runner, or because something failed; whoever holds
\* what.
TokenOnlyWhileConfiguring ==
  \A n \in Names : ctr[n] # None /\ ctr[n].token /\ faults = 0 =>
    \E p \in Handlers :
      /\ pc[p] \in {"cfg_wait", "cfg_drop", "cfg_remove"}
      /\ NameOf(p) = n

(* Why this holds: a working handler owns the id, the id owns the row, the  *)
(* row owns the name.                                                      *)

\* What a handler has filled in at each step.
Filled(p) ==
  /\ pc[p] = "lockid" \/ pc[p] \in Owning => rid[p] \in Ids
  /\ pc[p] \in {"lockname", "check", "add"} \cup Working => rec[p] \in Row
  /\ pc[p] \in {"lockid", "load"} /\ op[p] \in {"apply", "missing"} => rec[p] \in Row
  /\ pc[p] = "unlocked" /\ op[p] = "create" => rec[p] \in Row
  /\ pc[p] = "unlocked" /\ op[p] # "create" => rid[p] \in Ids
  /\ pc[p] \in {"lockname", "check", "add"} => op[p] = "create"
  /\ pc[p] \in {"next", "lockid", "load"} => op[p] # "create"

TypeInv == TypeOK /\ \A p \in Handlers : Filled(p)

\* Store.Add and Store.Update keep names unique, and rows have used ids.
RowsInv ==
  /\ \A i, j \in Ids : rows[i] # None /\ rows[j] # None
                         /\ rows[i].name = rows[j].name => i = j
  /\ \A i \in Ids : rows[i] # None => i \in used

\* No two handlers hold one runner.
Exclusive ==
  \A p, q \in Handlers :
    p # q /\ pc[p] \in Owning /\ pc[q] \in Owning => rid[p] # rid[q]

BackedUp(v) == v # None /\ v.runner # None => v.bak # None

\* What a handler may rely on at each step.
Owns(p) ==
  /\ \A t \in todo[p] : t[1] \in used
  /\ pc[p] = "lockid" \/ pc[p] \in Owning => rid[p] \in used
  /\ pc[p] = "add" => rows[rid[p]] = None
  /\ pc[p] \in Working => /\ rows[rid[p]] # None
                          /\ rows[rid[p]].name = NameOf(p)
  /\ pc[p] \in {"backup", "clear", "rm_row"} => ctr[NameOf(p)] = None
  /\ pc[p] = "clear" => BackedUp(vol[NameOf(p)])
  /\ pc[p] = "rm_row" => vol[NameOf(p)] = None

IInv == TypeInv /\ RowsInv /\ Attached /\ Exclusive /\ \A p \in Handlers : Owns(p)

(* Why a clean recreate succeeds and what a rollback may remove: the state  *)
(* of container and volume at each step.  Nobody else works on the name, so *)
(* only the agent in the container and the Engine can change them.          *)

HasWorker(p, token) ==
  LET c == ctr[NameOf(p)]
  IN c # None /\ c.owner = rid[p] /\ c.wd = rec[p].wd /\ c.token = token

Configured(p) == LET v == vol[NameOf(p)] IN v # None /\ v.runner = rec[p].wd

\* What a handler finds at each step while nothing has failed for it.
OnTrack(p) ==
  LET n == NameOf(p)
  IN /\ pc[p] = "rm_old" => /\ plan[p] = "fresh" => vol[n] = None
                            /\ plan[p] = "reuse" => Configured(p)
     /\ pc[p] = "cfg_create" => ~ Registered(n)
     /\ pc[p] \in {"cfg_create", "run_create"} => ctr[n] = None
     /\ pc[p] \in {"cfg_wait", "cfg_remove"} => HasWorker(p, TRUE)
     /\ pc[p] = "cfg_wait" => Configured(p) \/ (~ Registered(n) /\ Running(n))
     /\ pc[p] \in {"cfg_remove", "run_create", "listen", "verify", "get"} => Configured(p)
     /\ pc[p] \in {"listen", "verify", "get"} => HasWorker(p, FALSE) /\ Running(n)
     /\ pc[p] \notin {"cfg_drop", "failed", "restore", "rollback"}

\* Only Delete and the rollback remove a volume, and the rollback removes one
\* that it has read and found without .runner, under no container.
Undoing(p) ==
  /\ pc[p] = "rollback" => op[p] = "create"
  /\ pc[p] \in {"rm_ctr", "rm_vol"} /\ op[p] # "delete" =>
       /\ op[p] = "create"
       /\ "volumeRead" \notin FaultKinds =>
            ctr[NameOf(p)] = None /\ ~ Registered(NameOf(p))

\* The steps of a handler for which nothing has failed lead to a listener; a
\* rollback only undoes what its create has done.
OnCourse == \A p \in Handlers : (clean[p] => OnTrack(p)) /\ Undoing(p)

\* manager.go:813, :1758 - while no runner has had two holders and no listed row has
\* gone: a working handler has the id to itself and owns row and name, nothing is
\* without a stored runner, and what nothing has failed for is on course.
CourseInv == TypeInv /\ (~ astray => IInv /\ OnCourse)

\* The mutex that a handler waits for or holds is the one its runner id has.
Bound(p) == pc[p] = "lockid" \/ pc[p] \in Owning => idMu[p] = table[rid[p]]

\* manager.go:165 - every accepted request ends, also when it waits for a mutex that
\* has been forgotten, or goes through a list of runners and their locks.
RequestsEnd == \A p \in Handlers : pc[p] # "idle" ~> pc[p] = "idle"

=============================================================================
