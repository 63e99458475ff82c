------------------------------- MODULE BusyGate -------------------------------
(******************************************************************************)
(* The busy gate of one runner: recreate, apply and delete must not tear down *)
(* an agent in the middle of a job.  The agent's job hooks tell by writing    *)
(* status.json in the workdir the container has; the gate (errIfBusy) reads   *)
(* the one in the workdir of the record it is given, which an apply, or a     *)
(* patch without apply before it, may have moved.  The gate, the lists and    *)
(* the details of the UI see file and container through two caches of two     *)
(* seconds: that of the Docker client still shows a container as it was after *)
(* it has died or Docker has started it again (InspectCache).  The requests   *)
(* on a runner hold its lock; reads of the UI hold none.                      *)
(******************************************************************************)
CONSTANTS
  Readers,     \* concurrent List and Get calls
  Workdirs,    \* host workdirs of the runner, each with its status.json
  None

Contents == {"none", "idle", "busy", "stale"}     \* stale: no fresh updated_at
Reads == Contents \cup {"error"}
Ops == {"delete", "recreate", "apply", "start", "restart", "stop"}
Gated == {"delete", "recreate", "apply"}
States == {"missing", "created", "stopped", "running"}  \* created: never started

ASSUME GateOK == None \notin Reads \cup States \cup Workdirs

VARIABLES
  ctr,         \* the worker container
  wd,          \* the workdir it was created with, where its hooks write
  job,         \* none, told (the started hook wrote the file), untold (it could not)
  shown,       \* what the inspect cache, or a flight that has read, says of ctr, or None
  row,         \* the workdir in the store
  file,        \* workdir -> what its status.json says
  cache,       \* workdir -> jobStatusCache of that file: what was read, or None
  pc, op, rec, \* the request that holds the runner's lock, the workdir of its record
  seen,        \* what its gate has read
  rpc, rwd, rseen,  \* reader -> next step, workdir of its view, what it has read
  busyAll,     \* history: ToldBusy since the request began
  downAll,     \* history: Down since it began
  quiet,       \* history: no reader held an earlier read of its file when it began
  wiped        \* history: a start or restart seeded the file during the job

worker == <<ctr, wd, job>>
request == <<pc, op, rec, seen>>
readers == <<rpc, rwd, rseen>>
history == <<busyAll, downAll, quiet, wiped>>
vars == <<worker, shown, row, file, cache, request, readers, history>>

Init ==
  /\ row \in Workdirs /\ wd = row /\ rec = row
  /\ ctr = "missing" /\ job = "none" /\ shown = None
  /\ file = [w \in Workdirs |-> "none"] /\ cache = [w \in Workdirs |-> None]
  /\ pc = "idle" /\ op = "delete" /\ seen = None
  /\ rpc = [r \in Readers |-> "idle"]
  /\ rwd = [r \in Readers |-> None] /\ rseen = [r \in Readers |-> None]
  /\ busyAll = FALSE /\ downAll = FALSE /\ quiet = TRUE /\ wiped = FALSE

\* A job runs whose hook has written the file that belongs to the record, and no
\* inspect from before denies that the container runs.
ToldBusy == job = "told" /\ wd = rec /\ file[rec] = "busy" /\ shown \in {None, "running"}

\* The container does not run, and no inspect from before says it does.
Down == ctr # "running" /\ shown # "running"

\* A step of a request that is under way, or of anybody else.
Track == /\ busyAll' = (busyAll /\ ToldBusy')
         /\ downAll' = (downAll /\ Down')
         /\ UNCHANGED quiet

--------------------------------------------------------------------------------
(* errIfBusy, for delete, recreate and apply.                                 *)

\* InspectByName answers from the cache, or joins a flight, or reads.
Shown == IF shown = None THEN ctr ELSE shown
Inspect == shown' = Shown

Begin(o) ==
  /\ pc = "idle"
  /\ pc' = "inspect" /\ op' = o /\ seen' = None
  /\ rec' \in IF o = "apply" THEN Workdirs ELSE {row}
  /\ UNCHANGED <<worker, shown, row, file, cache, readers, wiped>>
  /\ busyAll' = ToldBusy' /\ downAll' = Down'
  /\ quiet' = ~ \E r \in Readers : rpc[r] = "put" /\ rwd[r] = rec'

\* Slip: the file counts although the container is down.
GateInspectNothing ==
  /\ pc = "inspect" /\ op \in Gated
  /\ pc' = "invalidate" /\ Inspect
  /\ UNCHANGED <<worker, row, file, cache, op, rec, seen, readers, wiped>>
  /\ Track

\* containerIsRunning; a failed inspect fails closed.
GateInspect ==
  /\ pc = "inspect" /\ op \in Gated
  /\ \/ Inspect /\ pc' = IF Shown = "running" THEN "invalidate" ELSE "remove"
     \/ UNCHANGED shown /\ pc' = "idle"
  /\ UNCHANGED <<worker, row, file, cache, op, rec, seen, readers, wiped>>
  /\ Track

\* Slip: the gate trusts the cache.
GateInvalidateNothing ==
  /\ pc = "invalidate"
  /\ pc' = "lookup"
  /\ UNCHANGED <<worker, shown, row, file, cache, op, rec, seen, readers, wiped>>
  /\ Track

GateInvalidate ==
  /\ pc = "invalidate"
  /\ cache' = [cache EXCEPT ![rec] = None]
  /\ pc' = "lookup"
  /\ UNCHANGED <<worker, shown, row, file, op, rec, seen, readers, wiped>>
  /\ Track

\* readJobStatusBytes, live: the cache, else the container's or the host's file.
GateLookup ==
  /\ pc = "lookup"
  /\ IF cache[rec] = None THEN pc' = "fetch" /\ UNCHANGED seen
                          ELSE pc' = "decide" /\ seen' = cache[rec]
  /\ UNCHANGED <<worker, shown, row, file, cache, op, rec, readers, wiped>>
  /\ Track

GateFetch ==
  /\ pc = "fetch"
  /\ seen' \in {file[rec], "error"}
  /\ pc' = "put"
  /\ UNCHANGED <<worker, shown, row, file, cache, op, rec, readers, wiped>>
  /\ Track

GatePut ==
  /\ pc = "put"
  /\ cache' = [cache EXCEPT ![rec] = seen]
  /\ pc' = "decide"
  /\ UNCHANGED <<worker, shown, row, file, op, rec, seen, readers, wiped>>
  /\ Track

\* Busy, unknown and unreadable are all refused.
Decide ==
  /\ pc = "decide"
  /\ pc' = IF seen = "idle" THEN "remove" ELSE "refused"
  /\ UNCHANGED <<worker, shown, row, file, cache, op, rec, seen, readers, wiped>>
  /\ Track

Refused ==
  /\ pc = "refused" /\ pc' = "idle"
  /\ UNCHANGED <<worker, shown, row, file, cache, op, rec, seen, readers, wiped>>
  /\ Track

--------------------------------------------------------------------------------
(* What the requests do once they are let through.                            *)

\* A call that takes the container down, or fails and has at most stopped it; what
\* has changed the container drops what the inspects know.
TakenDown == ctr' = "missing" /\ job' = "none" /\ shown' = None /\ wiped' = FALSE
HalfDone ==
  \/ UNCHANGED <<ctr, job, wiped>> /\ shown' \in {shown, None}
  \/ /\ ctr = "running" /\ ctr' = "stopped" /\ job' = "none"
     /\ shown' = None /\ wiped' = FALSE

\* Slip: the hooks are installed before the old container is gone.
RemoveAfterSeed ==
  /\ pc = "remove"
  /\ pc' = "seed"
  /\ UNCHANGED <<worker, shown, row, wiped, file, cache, op, rec, seen, readers>>
  /\ Track

\* What an inspect takes for missing, up to two seconds old, is left alone.
Remove ==
  /\ pc = "remove"
  /\ \/ /\ IF Shown = "missing" THEN Inspect /\ UNCHANGED <<ctr, job, wiped>>
           ELSE TakenDown
        /\ pc' = IF op = "delete" THEN "idle" ELSE "seed"
     \/ HalfDone /\ pc' = "idle"
  /\ UNCHANGED <<wd, row, file, cache, op, rec, seen, readers>>
  /\ Track

Recreates == op \in {"recreate", "apply"}

\* seedIdleJobStatus, before a recreated container starts and after a start or
\* a restart.  When the write fails a recreate ends, a start does not mind.
Seed ==
  /\ pc = "seed"
  /\ \/ /\ file' = [file EXCEPT ![rec] = "idle"] /\ pc' = "drop"
        /\ wiped' = (wiped \/ (~ Recreates /\ job # "none" /\ rec = wd))
     \/ UNCHANGED <<file, wiped>> /\ pc' = "idle"
  /\ UNCHANGED <<worker, shown, row, cache, op, rec, seen, readers>>
  /\ Track

SeedDrop ==
  /\ pc = "drop"
  /\ cache' = [cache EXCEPT ![rec] = None]
  /\ pc' = IF Recreates THEN "launch" ELSE "idle"
  /\ UNCHANGED <<worker, shown, row, file, op, rec, seen, readers, wiped>>
  /\ Track

\* The new container runs, or does not, or is left behind unstarted, of which the
\* inspect cache is not told; one that an earlier launch has left behind is adopted as
\* it is, if an inspect finds it.  The apply that succeeds stores its record.
Launch ==
  /\ pc = "launch"
  /\ \/ /\ \/ ctr = "missing" /\ wd' = rec
           \/ ctr = "created" /\ Shown # "missing" /\ UNCHANGED wd
        /\ ctr' = "running" /\ shown' = None
        /\ row' \in IF op = "apply" THEN {row, rec} ELSE {row}
     \/ ctr = "missing" /\ ctr' = "created" /\ wd' = rec /\ UNCHANGED <<shown, row>>
     \/ UNCHANGED <<ctr, wd, shown, row>>
  /\ pc' = "idle"
  /\ UNCHANGED <<job, file, cache, op, rec, seen, readers, wiped>>
  /\ Track

\* ensureHooksThenStart and ensureHooksThenRestart inspect first: a start leaves
\* a running container and its file alone, and neither creates a missing one.
StartInspect ==
  /\ pc = "inspect" /\ op \in {"start", "restart"}
  /\ \/ /\ Inspect
        /\ pc' = IF Shown = "missing" \/ (op = "start" /\ Shown = "running")
                  THEN "idle" ELSE "start"
     \/ UNCHANGED shown /\ pc' = "idle"
  /\ UNCHANGED <<worker, row, file, cache, op, rec, seen, readers, wiped>>
  /\ Track

\* The Engine leaves a running container alone when it is asked to start it.
Start ==
  /\ pc = "start"
  /\ \/ /\ ctr # "missing" /\ ctr' = "running" /\ shown' = None /\ pc' = "seed"
        /\ \/ op = "start" /\ ctr = "running" /\ UNCHANGED <<job, wiped>>
           \/ (op = "restart" \/ ctr # "running") /\ job' = "none" /\ wiped' = FALSE
     \/ HalfDone /\ pc' = "idle"
  /\ UNCHANGED <<wd, row, file, cache, op, rec, seen, readers>>
  /\ Track

Stop ==
  /\ pc = "inspect" /\ op = "stop"
  /\ HalfDone
  /\ pc' = "idle"
  /\ UNCHANGED <<wd, row, file, cache, op, rec, seen, readers>>
  /\ Track

\* Patch without apply moves the workdir in the store, and only there.
Patch ==
  /\ pc = "idle" /\ row' \in Workdirs \ {row}
  /\ UNCHANGED <<worker, shown, file, cache, request, readers, wiped>>
  /\ Track

Request ==
  \/ GateInspect \/ GateInvalidate \/ GateLookup \/ GateFetch \/ GatePut
  \/ Decide \/ Refused \/ Remove \/ Seed \/ SeedDrop \/ Launch
  \/ StartInspect \/ Start \/ Stop \/ Patch

--------------------------------------------------------------------------------
(* applyJobStatus in a list or a detail of the UI.                            *)

\* InspectByName for a detail.
ReadInspect ==
  /\ shown = None /\ shown' = ctr
  /\ UNCHANGED <<worker, row, file, cache, request, readers, wiped>>
  /\ Track

\* The view says that the runner runs: the Engine's list does, or an inspect.
ReadView(r) ==
  /\ rpc[r] = "idle" /\ "running" \in {ctr, shown}
  /\ rpc' = [rpc EXCEPT ![r] = "lookup"]
  /\ rwd' = [rwd EXCEPT ![r] = row]
  /\ UNCHANGED <<worker, shown, row, file, cache, request, rseen, wiped>>
  /\ Track

ReadLookup(r) ==
  /\ rpc[r] = "lookup"
  /\ \/ /\ cache[rwd[r]] = None
        /\ rpc' = [rpc EXCEPT ![r] = "fetch"] /\ UNCHANGED rwd
     \/ /\ cache[rwd[r]] # None
        /\ rpc' = [rpc EXCEPT ![r] = "idle"] /\ rwd' = [rwd EXCEPT ![r] = None]
  /\ UNCHANGED <<worker, shown, row, file, cache, request, rseen, wiped>>
  /\ Track

ReadFetch(r) ==
  /\ rpc[r] = "fetch"
  /\ \E v \in {file[rwd[r]], "error"} : rseen' = [rseen EXCEPT ![r] = v]
  /\ rpc' = [rpc EXCEPT ![r] = "put"]
  /\ UNCHANGED <<worker, shown, row, file, cache, request, rwd, wiped>>
  /\ Track

ReadPut(r) ==
  /\ rpc[r] = "put"
  /\ cache' = [cache EXCEPT ![rwd[r]] = rseen[r]]
  /\ rseen' = [rseen EXCEPT ![r] = None]
  /\ rpc' = [rpc EXCEPT ![r] = "idle"]
  /\ rwd' = [rwd EXCEPT ![r] = None]
  /\ UNCHANGED <<worker, shown, row, file, request, wiped>>
  /\ Track

\* The two seconds of an entry are over.
Expire ==
  /\ \/ /\ \E w \in Workdirs : cache[w] # None /\ cache' = [cache EXCEPT ![w] = None]
        /\ UNCHANGED shown
     \/ shown # None /\ shown' = None /\ UNCHANGED cache
  /\ UNCHANGED <<worker, row, file, request, readers, wiped>>
  /\ Track

Read == \/ ReadInspect \/ Expire
        \/ \E r \in Readers : ReadView(r) \/ ReadLookup(r) \/ ReadFetch(r) \/ ReadPut(r)

--------------------------------------------------------------------------------
(* The agent and its hooks, which always exit 0, also when they cannot write. *)

JobStarts ==
  /\ ctr = "running" /\ job = "none"
  /\ \/ file' = [file EXCEPT ![wd] = "busy"] /\ job' = "told"
     \/ UNCHANGED file /\ job' = "untold"
  /\ UNCHANGED <<ctr, wd, shown, row, cache, request, readers, wiped>>
  /\ Track

JobEnds ==
  /\ job # "none"
  /\ \E v \in {"idle", file[wd]} : file' = [file EXCEPT ![wd] = v]
  /\ job' = "none" /\ wiped' = FALSE
  /\ UNCHANGED <<ctr, wd, shown, row, cache, request, readers>>
  /\ Track

\* The container exits, is started again by Docker (unless-stopped) or by hand once it
\* has run, or is lost in a reset of Docker; nothing tells the inspect cache.
Dies ==
  /\ \/ ctr = "running" /\ ctr' \in {"missing", "stopped", "running"}
     \/ ctr = "stopped" /\ ctr' \in {"missing", "running"}
     \/ ctr = "created" /\ ctr' = "missing"
  /\ job' = "none" /\ wiped' = FALSE
  /\ UNCHANGED <<wd, shown, row, file, cache, request, readers>>
  /\ Track

\* jobBusyStaleAfter, or a job that writes what it likes.
Ages ==
  /\ \E w \in Workdirs : file[w] = "busy" /\ file' = [file EXCEPT ![w] = "stale"]
  /\ UNCHANGED <<worker, shown, row, cache, request, readers, wiped>>
  /\ Track

Agent == JobStarts \/ JobEnds \/ Dies \/ Ages

--------------------------------------------------------------------------------
Next == (\E o \in Ops : Begin(o)) \/ Request \/ Read \/ Agent

Spec == Init /\ [][Next]_vars

TypeOK ==
  /\ ctr \in States /\ shown \in States \cup {None} /\ job \in {"none", "told", "untold"}
  /\ wd \in Workdirs /\ row \in Workdirs /\ rec \in Workdirs
  /\ file \in [Workdirs -> Contents] /\ cache \in [Workdirs -> Reads \cup {None}]
  /\ pc \in {"idle", "inspect", "invalidate", "lookup", "fetch", "put", "decide",
             "refused", "remove", "seed", "drop", "launch", "start"}
  /\ op \in Ops /\ seen \in Reads \cup {None}
  /\ rpc \in [Readers -> {"idle", "lookup", "fetch", "put"}]
  /\ rwd \in [Readers -> Workdirs \cup {None}]
  /\ rseen \in [Readers -> Reads \cup {None}]

\* "POST recreate, DELETE and PATCH with apply=true return 409 RUNNER_BUSY when
\* the managed container is running and status.json reports busy": a request
\* during all of which that is so, of the status.json in the workdir of its record,
\* and of which no inspect from before says that the container is down, never gets
\* to the removal.
BusyRefused == pc = "remove" => ~ busyAll

\* jobhooks.go:133 - the same, when no reader held an older read of that file as the
\* request began: only a put of such a read, after the gate's invalidation, opens
\* the gate.
BusyRefusedWhenQuiet == pc = "remove" /\ quiet => ~ busyAll

\* jobhooks.go:125 - "Missing or exited containers do not 409 from leftover host
\* status.json": a runner that is down throughout the request, and of which the
\* inspect cache does not say for up to two seconds more that it runs, is never
\* refused.
DownNeverRefused == pc = "refused" => ~ downAll

\* jobhooks.go:273 - recreate seeds idle before the container starts and a start leaves
\* a running container's file alone, so that a running job whose hook wrote the file is
\* reported idle only if it began before the seed of a start or restart, or if the
\* start took the container for stopped.
OnlyStartWipes == job = "told" /\ file[wd] = "idle" => wiped

(* Why BusyRefusedWhenQuiet holds: after the invalidation of a quiet request  *)
(* with a job throughout, every read of the file that is around says busy.    *)

Fresh(v) == v \in {None, "busy", "error"}
PastInspect == {"invalidate", "lookup", "fetch", "put", "decide", "refused", "remove"}

\* Nothing older than the request is left once the gate has invalidated.
OnlyBusyReads ==
  /\ pc # "remove" /\ Fresh(seen)
  /\ \A r \in Readers : rwd[r] = rec => Fresh(rseen[r])
  /\ pc \in {"lookup", "fetch", "put", "decide"} => Fresh(cache[rec])

BasicInv ==
  /\ TypeOK
  /\ pc \in PastInspect => op \in Gated
  /\ job # "none" => ctr = "running"
  /\ \A r \in Readers : rpc[r] # "put" => rseen[r] = None
  /\ \A r \in Readers : rpc[r] # "idle" => rwd[r] \in Workdirs

GateInv ==
  /\ BasicInv
  /\ busyAll => ToldBusy
  /\ pc \in {"inspect"} \cup PastInspect /\ quiet /\ busyAll => OnlyBusyReads

(* Why DownNeverRefused and OnlyStartWipes hold: the gate reads the file of a *)
(* container only that an inspect says runs, and a recreate seeds while there *)
(* is no container that was ever started.                                     *)
NeverRun == {"missing", "created"}

SeedInv ==
  /\ BasicInv
  /\ downAll => Down /\ pc \notin PastInspect \ {"remove"}
  /\ pc = "start" => op \in {"start", "restart"}
  /\ pc \in {"seed", "drop", "launch"} /\ Recreates => ctr \in NeverRun
  /\ shown = "missing" => ctr \in NeverRun
  /\ OnlyStartWipes

================================================================================
