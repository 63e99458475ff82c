---------------------------- MODULE BusyGate_proofs ----------------------------
(* The busy gate with any numbers of readers and workdirs: a request during   *)
(* all of which a job runs that the file of its record tells of is let        *)
(* through only when an inspect from before denied that the container runs,   *)
(* or a reader held an older read of the file as the request began.           *)
EXTENDS BusyGate, TLAPS

LEMMA InitGateInv == Init => GateInv
BY DEF Init, GateInv, BasicInv, TypeOK, ToldBusy, Reads, Contents, Ops, States, PastInspect

(* BasicInv does not speak of the history.                                    *)

LEMMA BeginBasic == BasicInv /\ (\E o \in Ops : Begin(o)) => BasicInv'
BY DEF BasicInv, TypeOK, Begin, PastInspect, Ops, readers, worker

LEMMA GateBasic ==
  ASSUME BasicInv, GateInspect \/ GateInvalidate \/ GateLookup \/ GateFetch \/ GatePut \/ Decide \/ Refused
  PROVE  BasicInv'
<1> USE DEF BasicInv, TypeOK, PastInspect, Reads, Contents, States, Gated, readers, worker
<1>1. CASE GateInspect
  BY <1>1 DEF GateInspect, Inspect, Shown
<1>2. CASE GateInvalidate
  BY <1>2 DEF GateInvalidate
<1>3. CASE GateLookup
  BY <1>3 DEF GateLookup
<1>4. CASE GateFetch
  BY <1>4 DEF GateFetch
<1>5. CASE GatePut
  BY <1>5 DEF GatePut
<1>6. CASE Decide
  BY <1>6, GateOK DEF Decide
<1>7. CASE Refused
  BY <1>7 DEF Refused
<1> QED
  BY <1>1, <1>2, <1>3, <1>4, <1>5, <1>6, <1>7

LEMMA WorkBasic ==
  ASSUME BasicInv, Remove \/ Seed \/ SeedDrop \/ Launch \/ StartInspect \/ Start \/ Stop \/ Patch
  PROVE  BasicInv'
<1> USE DEF BasicInv, TypeOK, PastInspect, Reads, Contents, States, Gated, readers, worker
<1>1. CASE Remove
  BY <1>1 DEF Remove, HalfDone, TakenDown, Shown, Inspect
<1>2. CASE Seed
  BY <1>2 DEF Seed
<1>3. CASE SeedDrop
  BY <1>3 DEF SeedDrop
<1>4. CASE Launch
  BY <1>4 DEF Launch
<1>5. CASE StartInspect
  BY <1>5 DEF StartInspect, Inspect, Shown
<1>6. CASE Start
  BY <1>6 DEF Start, HalfDone
<1>7. CASE Stop
  BY <1>7 DEF Stop, HalfDone
<1>8. CASE Patch
  BY <1>8 DEF Patch, request
<1> QED
  BY <1>1, <1>2, <1>3, <1>4, <1>5, <1>6, <1>7, <1>8

LEMMA ReadBasic ==
  ASSUME BasicInv, Read
  PROVE  BasicInv'
<1> USE DEF BasicInv, TypeOK, PastInspect, Reads, Contents, States, Gated, request, readers, worker
<1>1. ASSUME NEW r \in Readers, ReadLookup(r) PROVE BasicInv'
  BY <1>1 DEF ReadLookup
<1>2. ASSUME NEW r \in Readers, ReadFetch(r) PROVE BasicInv'
  BY <1>2 DEF ReadFetch
<1>3. ASSUME NEW r \in Readers, ReadPut(r) PROVE BasicInv'
  BY <1>3 DEF ReadPut
<1>4. CASE Expire
  BY <1>4 DEF Expire
<1>5. ASSUME NEW r \in Readers, ReadView(r) PROVE BasicInv'
  BY <1>5 DEF ReadView
<1>6. CASE ReadInspect
  BY <1>6 DEF ReadInspect
<1> QED
  BY <1>1, <1>2, <1>3, <1>4, <1>5, <1>6 DEF Read

LEMMA AgentBasic ==
  ASSUME BasicInv, JobStarts \/ JobEnds \/ Dies \/ Ages
  PROVE  BasicInv'
<1> USE DEF BasicInv, TypeOK, PastInspect, Reads, Contents, States, Gated, request, readers, worker
<1>1. CASE JobStarts
  BY <1>1 DEF JobStarts
<1>2. CASE JobEnds
  BY <1>2 DEF JobEnds
<1>3. CASE Dies
  BY <1>3 DEF Dies
<1>4. CASE Ages
  BY <1>4 DEF Ages
<1> QED
  BY <1>1, <1>2, <1>3, <1>4

(* While a job runs that the file tells of, every new read says busy.         *)

Phases == {"inspect"} \cup PastInspect

LEMMA GateQuiet ==
  ASSUME BasicInv, ToldBusy, ToldBusy', pc \in Phases => OnlyBusyReads, pc' \in Phases,
         GateInspect \/ GateInvalidate \/ GateLookup \/ GateFetch \/ GatePut \/ Decide \/ Refused
  PROVE  OnlyBusyReads'
<1> USE DEF BasicInv, TypeOK, ToldBusy, OnlyBusyReads, Fresh, PastInspect, Phases, readers, worker
<1>1. CASE GateInspect
  BY <1>1 DEF GateInspect, Inspect, Shown
<1>2. CASE GateInvalidate
  BY <1>2 DEF GateInvalidate
<1>3. CASE GateLookup
  BY <1>3 DEF GateLookup
<1>4. CASE GateFetch
  BY <1>4 DEF GateFetch
<1>5. CASE GatePut
  BY <1>5 DEF GatePut
<1>6. CASE Decide
  BY <1>6, GateOK DEF Decide, Reads, Contents
<1>7. CASE Refused
  BY <1>7 DEF Refused
<1> QED
  BY <1>1, <1>2, <1>3, <1>4, <1>5, <1>6, <1>7

LEMMA WorkQuiet ==
  ASSUME BasicInv, ToldBusy, ToldBusy', pc \in Phases => OnlyBusyReads, pc' \in Phases,
         Remove \/ Seed \/ SeedDrop \/ Launch \/ StartInspect \/ Start \/ Stop \/ Patch
  PROVE  OnlyBusyReads'
<1> USE DEF BasicInv, TypeOK, ToldBusy, OnlyBusyReads, Fresh, PastInspect, Phases, readers, worker
<1>1. CASE Remove
  BY <1>1 DEF Remove, HalfDone, TakenDown
<1>2. CASE Seed
  BY <1>2 DEF Seed
<1>3. CASE SeedDrop
  BY <1>3 DEF SeedDrop
<1>4. CASE Launch
  BY <1>4 DEF Launch
<1>5. CASE StartInspect
  BY <1>5 DEF StartInspect, Inspect, Shown
<1>6. CASE Start
  BY <1>6 DEF Start, HalfDone
<1>7. CASE Stop
  BY <1>7 DEF Stop, HalfDone
<1>8. CASE Patch
  BY <1>8 DEF Patch, request
<1> QED
  BY <1>1, <1>2, <1>3, <1>4, <1>5, <1>6, <1>7, <1>8

LEMMA ReadQuiet ==
  ASSUME BasicInv, ToldBusy, ToldBusy', pc \in Phases => OnlyBusyReads, pc' \in Phases, Read
  PROVE  OnlyBusyReads'
<1> USE DEF BasicInv, TypeOK, ToldBusy, OnlyBusyReads, Fresh, PastInspect, Phases, request, readers, worker
<1>1. ASSUME NEW r \in Readers, ReadLookup(r) PROVE OnlyBusyReads'
  BY <1>1 DEF ReadLookup
<1>2. ASSUME NEW r \in Readers, ReadFetch(r) PROVE OnlyBusyReads'
  BY <1>2 DEF ReadFetch
<1>3. ASSUME NEW r \in Readers, ReadPut(r) PROVE OnlyBusyReads'
  BY <1>3 DEF ReadPut
<1>4. CASE Expire
  BY <1>4 DEF Expire
<1>5. ASSUME NEW r \in Readers, ReadView(r) PROVE OnlyBusyReads'
  BY <1>5 DEF ReadView
<1>6. CASE ReadInspect
  BY <1>6 DEF ReadInspect
<1> QED
  BY <1>1, <1>2, <1>3, <1>4, <1>5, <1>6 DEF Read

LEMMA AgentQuiet ==
  ASSUME BasicInv, ToldBusy, ToldBusy', pc \in Phases => OnlyBusyReads, pc' \in Phases,
         JobStarts \/ JobEnds \/ Dies \/ Ages
  PROVE  OnlyBusyReads'
<1> USE DEF BasicInv, TypeOK, ToldBusy, OnlyBusyReads, Fresh, PastInspect, Phases, request, readers, worker
<1>1. CASE JobStarts
  BY <1>1 DEF JobStarts
<1>2. CASE JobEnds
  BY <1>2 DEF JobEnds
<1>3. CASE Dies
  BY <1>3 DEF Dies
<1>4. CASE Ages
  BY <1>4 DEF Ages
<1> QED
  BY <1>1, <1>2, <1>3, <1>4

LEMMA Tracked == Track => quiet' = quiet /\ (busyAll' => busyAll /\ ToldBusy')
BY Zenon DEF Track

LEMMA AllTrack == Request \/ Read \/ Agent => Track
BY DEF Request, Read, Agent, GateInspect, GateInvalidate, GateLookup, GateFetch, GatePut,
       Decide, Refused, Remove, Seed, SeedDrop, Launch, StartInspect, Start, Stop, Patch,
       ReadInspect, ReadView, ReadLookup, ReadFetch, ReadPut, Expire, JobStarts, JobEnds, Dies, Ages

LEMMA BeginInv == GateInv /\ (\E o \in Ops : Begin(o)) => GateInv'
<1> SUFFICES ASSUME GateInv, NEW o \in Ops, Begin(o) PROVE GateInv'
  OBVIOUS
<1>1. BasicInv'
  BY BeginBasic DEF GateInv
<1>2. busyAll' => ToldBusy'
  BY Zenon DEF Begin
<1>3. quiet' => OnlyBusyReads'
  <2>1. pc' = "inspect" /\ seen' = None /\ rpc' = rpc /\ rwd' = rwd /\ rseen' = rseen
    BY DEF Begin, readers
  <2>2. quiet' => ~ \E r \in Readers : rpc[r] = "put" /\ rwd[r] = rec'
    BY Zenon DEF Begin
  <2>3. \A r \in Readers : rpc[r] = "put" \/ rseen[r] = None
    BY DEF GateInv, BasicInv
  <2> QED
    BY <2>1, <2>2, <2>3 DEF OnlyBusyReads, Fresh
<1> QED
  BY <1>1, <1>2, <1>3 DEF GateInv

LEMMA StepInv == GateInv /\ (Request \/ Read \/ Agent) => GateInv'
<1> SUFFICES ASSUME GateInv, Request \/ Read \/ Agent PROVE GateInv'
  OBVIOUS
<1>1. BasicInv'
  BY GateBasic, WorkBasic, ReadBasic, AgentBasic DEF GateInv, Request, Agent
<1>2. quiet' = quiet /\ (busyAll' => busyAll /\ ToldBusy')
  BY AllTrack, Tracked
<1>3. ASSUME pc' \in Phases, quiet, busyAll, ToldBusy' PROVE OnlyBusyReads'
  <2>1. BasicInv /\ ToldBusy /\ (pc \in Phases => OnlyBusyReads)
    BY <1>3 DEF GateInv, Phases
  <2> QED
    BY <1>3, <2>1, GateQuiet, WorkQuiet, ReadQuiet, AgentQuiet DEF Request, Agent
<1> QED
  BY <1>1, <1>2, <1>3 DEF GateInv, Phases

\* The invariant of the gate.
THEOREM GateInvariant == Spec => []GateInv
<1>1. GateInv /\ UNCHANGED vars => GateInv'
  BY DEF vars, worker, request, readers, history, GateInv, BasicInv, TypeOK, ToldBusy, Fresh, OnlyBusyReads
<1>2. GateInv /\ [Next]_vars => GateInv'
  BY <1>1, BeginInv, StepInv DEF Next
<1> QED
  BY <1>2, InitGateInv, PTL DEF Spec

\* errIfBusy refuses a request during all of which a job runs, the status.json in
\* the workdir of its record says busy and no inspect from before says that the
\* container is down, if no List or Get was between its read of that file and its
\* put as the request began.
THEOREM QuietGateRefuses == Spec => []BusyRefusedWhenQuiet
<1>1. GateInv => BusyRefusedWhenQuiet
  BY DEF GateInv, BusyRefusedWhenQuiet, OnlyBusyReads, PastInspect
<1> QED
  BY <1>1, GateInvariant, PTL

--------------------------------------------------------------------------------
(* What happens while the container is down, and who may seed the file.       *)

Gate == PastInspect \ {"remove"}

LEMMA DownTracked == Track => (downAll' => downAll /\ Down')
BY Zenon DEF Track

\* Only an inspect that says running lets a request go on to the file.
LEMMA GateEntered ==
  ASSUME Request \/ Read \/ Agent, pc' \in Gate
  PROVE  pc \in Gate \/ shown' = "running"
<1> USE DEF Gate, PastInspect
<1>1. CASE Request
  BY <1>1 DEF Request, GateInspect, GateInvalidate, GateLookup, GateFetch, GatePut, Decide,
     Refused, Remove, Seed, SeedDrop, Launch, StartInspect, Start, Stop, Patch, Inspect, request
<1>2. CASE Read
  BY <1>2 DEF Read, ReadInspect, ReadView, ReadLookup, ReadFetch, ReadPut, Expire, request
<1>3. CASE Agent
  BY <1>3 DEF Agent, JobStarts, JobEnds, Dies, Ages, request
<1> QED
  BY <1>1, <1>2, <1>3

\* A recreate is between the removal of the old container and the start of the
\* new one when it seeds, and what an inspect takes for missing was never started.
Seeding ==
  /\ pc = "start" => op \in {"start", "restart"}
  /\ pc \in {"seed", "drop", "launch"} /\ Recreates => ctr \in NeverRun
  /\ shown = "missing" => ctr \in NeverRun

LEMMA RequestSeeding == BasicInv /\ Seeding /\ Request => Seeding'
<1> SUFFICES ASSUME BasicInv, Seeding, Request PROVE Seeding'
  OBVIOUS
<1> USE DEF Seeding, Recreates, worker, NeverRun, Shown, Inspect
<1>1. CASE Remove
  BY <1>1, GateOK DEF Remove, TakenDown, HalfDone, BasicInv, TypeOK, Ops, States
<1>2. CASE Seed \/ SeedDrop \/ Launch
  BY <1>2, GateOK DEF Seed, SeedDrop, Launch, States
<1>3. CASE StartInspect \/ Stop \/ Patch
  BY <1>3, GateOK DEF StartInspect, Stop, HalfDone, Patch, request, States
<1>4. CASE Start
  BY <1>4, GateOK DEF Start, HalfDone, States
<1>5. CASE \/ GateInspect \/ GateInvalidate \/ GateLookup \/ GateFetch \/ GatePut
           \/ Decide \/ Refused
  BY <1>5 DEF GateInspect, GateInvalidate, GateLookup, GateFetch, GatePut, Decide, Refused
<1> QED
  BY <1>1, <1>2, <1>3, <1>4, <1>5 DEF Request

LEMMA OtherSeeding == Seeding /\ (Read \/ Agent) => Seeding'
<1> SUFFICES ASSUME Seeding, Read \/ Agent PROVE Seeding'
  OBVIOUS
<1> USE GateOK DEF Seeding, Recreates, NeverRun, States, request, worker
<1>1. CASE Read
  BY <1>1 DEF Read, ReadInspect, ReadView, ReadLookup, ReadFetch, ReadPut, Expire
<1>2. CASE Agent
  BY <1>2 DEF Agent, JobStarts, JobEnds, Dies, Ages
<1> QED
  BY <1>1, <1>2

\* The history of a job that a start or a restart has seeded over.
LEMMA StepWipes ==
  ASSUME BasicInv, Seeding, OnlyStartWipes, Request \/ Read \/ Agent
  PROVE  OnlyStartWipes'
<1> USE DEF OnlyStartWipes, worker
<1>1. CASE UNCHANGED <<wd, job, file, wiped>>
  BY <1>1
<1>2. CASE job' = "none"
  BY <1>2
<1>3. CASE Seed
  <2>1. Recreates /\ pc = "seed" => job = "none"
    BY DEF Seeding, BasicInv, NeverRun
  <2>2. CASE UNCHANGED <<file, wiped>>
    BY <1>3, <2>2 DEF Seed
  <2>3. CASE /\ file' = [file EXCEPT ![rec] = "idle"]
             /\ wiped' = (wiped \/ (~ Recreates /\ job # "none" /\ rec = wd))
    BY <1>3, <2>1, <2>3 DEF Seed, BasicInv, TypeOK
  <2> QED
    BY <1>3, <2>2, <2>3 DEF Seed
<1>4. CASE JobStarts
  BY <1>4 DEF JobStarts, BasicInv, TypeOK
<1>5. CASE Ages
  BY <1>5 DEF Ages, BasicInv, TypeOK
<1>6. CASE Request /\ ~ Seed /\ ~ Launch
  BY <1>1, <1>2, <1>6 DEF Request, GateInspect, GateInvalidate, GateLookup, GateFetch, GatePut,
     Decide, Refused, Remove, TakenDown, HalfDone, SeedDrop, StartInspect, Start, Stop, Patch
<1>7. CASE Read
  BY <1>1, <1>7 DEF Read, ReadInspect, ReadView, ReadLookup, ReadFetch, ReadPut, Expire
<1>8. CASE JobEnds \/ Dies
  BY <1>2, <1>8 DEF JobEnds, Dies
<1>9. CASE Launch
  <2>1. UNCHANGED <<wd, job, file, wiped>> \/ (job' = job /\ ctr # "running")
    BY <1>9 DEF Launch
  <2>2. ctr # "running" => job = "none"
    BY DEF BasicInv
  <2> QED
    BY <1>1, <1>2, <2>1, <2>2
<1> QED
  BY <1>3, <1>4, <1>5, <1>6, <1>7, <1>8, <1>9 DEF Agent

LEMMA NextSeedInv == SeedInv /\ [Next]_vars => SeedInv'
<1> SUFFICES ASSUME SeedInv, [Next]_vars PROVE SeedInv'
  OBVIOUS
<1>1. BasicInv /\ Seeding /\ OnlyStartWipes /\ (downAll => Down /\ pc \notin Gate)
  BY DEF SeedInv, Seeding, Gate
<1>2. CASE UNCHANGED vars
  BY <1>2 DEF vars, worker, request, readers, history, SeedInv, BasicInv, TypeOK, OnlyStartWipes, Down, Recreates
<1>3. CASE Request \/ Read \/ Agent
  <2>1. BasicInv'
    BY <1>1, <1>3, GateBasic, WorkBasic, ReadBasic, AgentBasic DEF Request, Agent
  <2>2. Seeding' /\ OnlyStartWipes'
    BY <1>1, <1>3, RequestSeeding, OtherSeeding, StepWipes
  <2>3. downAll' => downAll /\ Down'
    BY <1>3, AllTrack, DownTracked
  <2>4. pc' \in Gate => pc \in Gate \/ shown' = "running"
    BY <1>3, GateEntered
  <2> QED
    BY <1>1, <2>1, <2>2, <2>3, <2>4 DEF SeedInv, Seeding, Gate, Down
<1>4. ASSUME NEW o \in Ops, Begin(o) PROVE SeedInv'
  <2>1. BasicInv'
    BY <1>1, <1>4, BeginBasic
  <2>2. downAll' => Down'
    BY <1>4, Zenon DEF Begin
  <2>3. pc' = "inspect" /\ ctr' = ctr /\ shown' = shown /\ wd' = wd /\ job' = job /\ file' = file /\ wiped' = wiped
    BY <1>4 DEF Begin, worker
  <2> QED
    BY <1>1, <2>1, <2>2, <2>3 DEF SeedInv, OnlyStartWipes, PastInspect
<1> QED
  BY <1>2, <1>3, <1>4 DEF Next

\* The file is read only for a container that an inspect says runs, and a recreate
\* seeds it while there is no container that was ever started.
THEOREM SeedInvariant == Spec => []SeedInv
<1>1. Init => SeedInv
  BY InitGateInv, GateOK DEF Init, SeedInv, GateInv, OnlyStartWipes, States
<1> QED
  BY <1>1, NextSeedInv, PTL DEF Spec

\* Delete, recreate and apply of a runner whose container is down throughout, and of
\* which no inspect from before is left that says it runs, are never refused, whatever
\* status.json or its cache say.
THEOREM LeftoversDoNotRefuse == Spec => []DownNeverRefused
<1>1. SeedInv => DownNeverRefused
  BY DEF SeedInv, DownNeverRefused, PastInspect
<1> QED
  BY <1>1, SeedInvariant, PTL

\* A job whose hook has written the file is reported idle only when a start or restart
\* has seeded the file after the job began.
THEOREM RecreateDoesNotWipe == Spec => []OnlyStartWipes
<1>1. SeedInv => OnlyStartWipes
  BY DEF SeedInv
<1> QED
  BY <1>1, SeedInvariant, PTL

================================================================================
