--------------------------- MODULE FleetPage_proofs ----------------------------
(* Proofs about FleetPage, for any fleet, any number of chains and events.    *)
EXTENDS FleetPage, TLAPS

--------------------------------------------------------------------------------
\* The action and the form are apart from the chains that nobody waits for.
LEMMA Places ==
  /\ Action \in Tasks /\ Form \in Tasks /\ Action # Form
  /\ Background \subseteq Tasks /\ Action \notin Background /\ Form \notin Background
  /\ \A t \in Tasks : t \in Background \/ t = Action \/ t = Form
BY BoundAssumption DEF Tasks, Action, Form, Background

\* What follows a request in its chain.
LEMMA ChainFacts ==
  ASSUME NEW t \in Tasks, NEW c \in Chains(t), c # <<>>
  PROVE  /\ c \in Seq(Requests)
         /\ Tail(c) \in Chains(t)
         /\ Head(c) \in {"recover", "detail", "health"} => Tail(c) = <<>>
         /\ Head(c) = "health" => t \in Background
         /\ Head(c) = "detail" => c = <<"detail">>
         /\ Head(c) = "recover" => t \notin Background
         /\ Head(c) = "mutate" => /\ t \notin Background
                                  /\ Tail(c) # <<>> /\ Head(Tail(c)) = "list"
         /\ Head(c) = "list" => Tail(c) \in {<<>>, <<"detail">>, <<"health">>}
<1>1. CASE c = <<"mutate", "list", "detail">>
  <2>1. Head(c) = "mutate" /\ Tail(c) = <<"list", "detail">> /\ c \in Seq(Requests)
    BY <1>1 DEF Requests
  <2> QED BY <1>1, <2>1, Places DEF Chains
<1>2. CASE c = <<"mutate", "list">>
  <2>1. Head(c) = "mutate" /\ Tail(c) = <<"list">> /\ c \in Seq(Requests)
    BY <1>2 DEF Requests
  <2> QED BY <1>2, <2>1, Places DEF Chains
<1>3. CASE c = <<"list", "detail">>
  <2>1. Head(c) = "list" /\ Tail(c) = <<"detail">> /\ c \in Seq(Requests)
    BY <1>3 DEF Requests
  <2> QED BY <1>3, <2>1, Places DEF Chains
<1>4. CASE c = <<"list", "health">>
  <2>1. Head(c) = "list" /\ Tail(c) = <<"health">> /\ c \in Seq(Requests)
    BY <1>4 DEF Requests
  <2> QED BY <1>4, <2>1, Places DEF Chains
<1>5. CASE \E k \in {"list", "detail", "health", "recover"} : c = <<k>>
  <2>1. PICK k \in {"list", "detail", "health", "recover"} : c = <<k>>
    BY <1>5
  <2>2. Head(c) = k /\ Tail(c) = <<>> /\ c \in Seq(Requests)
    BY <2>1 DEF Requests
  <2> QED BY <2>1, <2>2, Places DEF Chains
<1> QED BY <1>1, <1>2, <1>3, <1>4, <1>5 DEF Chains

--------------------------------------------------------------------------------
(* The parts of the invariant.                                                *)

Served ==
  /\ past \in Seq([Runners -> Kinds]) /\ Len(past) > 0
  /\ seen \in [Runners -> 1 .. Len(past)]

Chained ==
  /\ todo \in [Tasks -> Seq(Requests)]
  /\ ans \in [Tasks -> {Partly, Failed, Unserved} \cup (1 .. Len(past))]
  /\ job \in [Tasks -> Jobs] /\ arg \in [Tasks -> Runners \cup {None}]
  /\ ChainsKept

Shown ==
  /\ err \in {None, "list", "mutation"} /\ spinning \in BOOLEAN
  /\ action \in Confirmed \cup {"lifecycle", None}
  /\ dialog \in Confirmed \cup {"create", "edit", None}
  /\ selected \in Runners \cup {None} /\ query \in Runners \cup {None}
  /\ polling \in BOOLEAN /\ events \in Nat

IInv == Served /\ Chained /\ Shown /\ AddressKept /\ SpinnerHonest /\ GateHonest

\* The invariant is what the runs check.
LEMMA Parts == IInv <=> PageInv /\ GateHonest
BY DEF IInv, PageInv, TypeOK, Served, Chained, Shown

\* A chain of task t goes on with rest: the chains are as they should be, those of
\* the other tasks as they were.
LEMMA GoesKeeps ==
  ASSUME Served, Chained, UNCHANGED past,
         NEW t \in Tasks, Running(t), NEW rest \in Chains(t), Goes(t, rest),
         rest = <<"detail">> => selected' \in Runners
  PROVE  /\ Chained'
         /\ todo'[t] = rest
         /\ t \notin Background /\ rest # <<>> => job'[t] = job[t]
         /\ \A u \in Tasks \ {t} : todo'[u] = todo[u] /\ job'[u] = job[u]
<1>1. /\ todo \in [Tasks -> Seq(Requests)] /\ job \in [Tasks -> Jobs]
      /\ ans \in [Tasks -> {Partly, Failed, Unserved} \cup (1 .. Len(past))]
      /\ arg \in [Tasks -> Runners \cup {None}]
      /\ Len(past) \in Nat \ {0}
  BY DEF Chained, Served
<1>2. rest \in Seq(Requests)
  <2>1. CASE rest = <<>>
    BY <2>1
  <2> QED BY <2>1, ChainFacts
<1>3. job[t] \in Purposes(t)
  BY DEF Chained, ChainsKept
<1>4. /\ todo' = [todo EXCEPT ![t] = rest]
      /\ todo'[t] = rest /\ \A u \in Tasks \ {t} : todo'[u] = todo[u]
  BY <1>1 DEF Goes
<1>5. /\ \A u \in Tasks \ {t} : job'[u] = job[u] /\ ans'[u] = ans[u] /\ arg'[u] = arg[u]
      /\ ans'[t] = IF rest = <<>> THEN Unserved ELSE Len(past)
      /\ rest # <<>> => ans'[t] > 0
  BY <1>1 DEF Goes
<1>6. /\ rest # <<>> => job'[t] \in Purposes(t)
      /\ t \notin Background /\ rest # <<>> => job'[t] = job[t]
      /\ job'[t] \in Jobs
  BY <1>1, <1>3, Places DEF Goes, Purposes, Jobs
<1>7. rest # <<>> /\ Head(rest) = "detail" => arg'[t] \in Runners
  <2> SUFFICES ASSUME rest # <<>>, Head(rest) = "detail" PROVE arg'[t] \in Runners
    OBVIOUS
  <2>1. rest = <<"detail">>
    BY ChainFacts
  <2> QED BY <1>1, <2>1 DEF Goes
<1>8. /\ todo' \in [Tasks -> Seq(Requests)] /\ job' \in [Tasks -> Jobs]
      /\ ans' \in [Tasks -> {Partly, Failed, Unserved} \cup (1 .. Len(past))]
  BY <1>1, <1>2 DEF Goes, Jobs
<1>9. arg' \in [Tasks -> Runners \cup {None}]
  BY <1>1 DEF Goes
<1>10. ChainsKept'
  <2> SUFFICES ASSUME NEW u \in Tasks
               PROVE  /\ todo'[u] \in Chains(u)
                      /\ Running(u)' => job'[u] \in Purposes(u)
                      /\ Awaits(u, Requests \ {"mutate"})' => ans'[u] > 0
                      /\ Awaits(u, {"detail"})' => arg'[u] \in Runners
    BY DEF ChainsKept, Chains, Purposes
  <2>1. CASE u = t
    BY <2>1, <1>4, <1>5, <1>6, <1>7 DEF Awaits, Running
  <2>2. CASE u # t
    BY <2>2, <1>4, <1>5 DEF Chained, ChainsKept, Awaits, Running
  <2> QED BY <2>1, <2>2
<1> QED BY <1>4, <1>5, <1>6, <1>8, <1>9, <1>10 DEF Chained

\* A chain that starts leaves the others alone.
LEMMA StartKeeps ==
  ASSUME Served, Chained, UNCHANGED past,
         NEW t \in Tasks, NEW j \in Purposes(t), NEW r \in Runners \cup {None},
         NEW chain \in Chains(t) \ {<<>>}, Start(t, j, r, chain),
         t \in Background \/ Head(chain) = "mutate",
         Head(chain) = "detail" => r \in Runners
  PROVE  /\ Chained' /\ ~ Running(t)
         /\ todo'[t] = chain /\ job'[t] = j
         /\ \A u \in Tasks \ {t} : todo'[u] = todo[u] /\ job'[u] = job[u]
<1>1. /\ todo \in [Tasks -> Seq(Requests)] /\ job \in [Tasks -> Jobs]
      /\ ans \in [Tasks -> {Partly, Failed, Unserved} \cup (1 .. Len(past))]
      /\ arg \in [Tasks -> Runners \cup {None}]
      /\ Len(past) \in Nat \ {0}
  BY DEF Chained, Served
<1>2. chain \in Seq(Requests)
  BY ChainFacts
<1>3. j \in Jobs
  BY DEF Purposes, Jobs
<1>4. /\ ~ Running(t) /\ todo' = [todo EXCEPT ![t] = chain]
      /\ todo'[t] = chain /\ \A u \in Tasks \ {t} : todo'[u] = todo[u]
  BY <1>1 DEF Start
<1>5. /\ \A u \in Tasks \ {t} : job'[u] = job[u] /\ ans'[u] = ans[u] /\ arg'[u] = arg[u]
      /\ job'[t] = j /\ arg'[t] = r
      /\ Head(chain) = "mutate" \/ ans'[t] > 0
  BY <1>1 DEF Start
<1>6. /\ todo' \in [Tasks -> Seq(Requests)] /\ job' \in [Tasks -> Jobs]
      /\ ans' \in [Tasks -> {Partly, Failed, Unserved} \cup (1 .. Len(past))]
      /\ arg' \in [Tasks -> Runners \cup {None}]
  BY <1>1, <1>2, <1>3 DEF Start
<1>7. ChainsKept'
  <2> SUFFICES ASSUME NEW u \in Tasks
               PROVE  /\ todo'[u] \in Chains(u)
                      /\ Running(u)' => job'[u] \in Purposes(u)
                      /\ Awaits(u, Requests \ {"mutate"})' => ans'[u] > 0
                      /\ Awaits(u, {"detail"})' => arg'[u] \in Runners
    BY DEF ChainsKept, Chains, Purposes
  <2>1. CASE u = t
    BY <2>1, <1>4, <1>5 DEF Awaits, Running
  <2>2. CASE u # t
    BY <2>2, <1>4, <1>5 DEF Chained, ChainsKept, Awaits, Running
  <2> QED BY <2>1, <2>2
<1> QED BY <1>4, <1>5, <1>6, <1>7 DEF Chained

\* refreshSelected asks for the detail of a runner, or not at all.
LEMMA FollowFacts ==
  ASSUME NEW t \in Tasks, NEW rest \in Chains(t), selected' \in Runners \cup {None}
  PROVE  /\ Follow(rest) \in Chains(t)
         /\ Follow(rest) = <<"detail">> => selected' \in Runners
         /\ Follow(rest) \in {<<>>, rest}
<1>1. Follow(rest) \in {<<>>, rest} /\ <<>> \in Chains(t)
  BY DEF Follow, Chains
<1>2. ASSUME Follow(rest) = <<"detail">> PROVE selected' \in Runners
  <2>1. rest = <<"detail">>
    BY <1>1, <1>2
  <2>2. WantsDetail'
    BY <1>2, <2>1 DEF Follow
  <2> QED BY <2>2 DEF WantsDetail
<1> QED BY <1>1, <1>2

\* A task that does not wait for a list takes none from the spinner.
LEMMA SpinnerKept ==
  ASSUME SpinnerHonest, UNCHANGED spinning, NEW t \in Tasks,
         ~ Awaits(t, {"list", "recover"}),
         \A u \in Tasks \ {t} : todo'[u] = todo[u]
  PROVE  SpinnerHonest'
BY DEF SpinnerHonest, Awaits, Running

\* The finally of an action gives the buttons back with the end of its chain.
LEMMA GatePassed ==
  ASSUME GateHonest, NEW t \in Tasks, Running(t), Release(t),
         t \notin Background /\ todo'[t] # <<>> => job'[t] = job[t],
         \A u \in Tasks \ {t} : todo'[u] = todo[u] /\ job'[u] = job[u]
  PROVE  GateHonest'
<1>1. CASE t = Action
  BY <1>1, Places DEF GateHonest, Release, Running
<1>2. CASE t # Action
  BY <1>2, Places DEF GateHonest, Release, Running
<1> QED BY <1>1, <1>2

\* The other tasks do not touch the gate.
LEMMA GateKept ==
  ASSUME GateHonest, UNCHANGED action,
         todo'[Action] = todo[Action], job'[Action] = job[Action]
  PROVE  GateHonest'
BY DEF GateHonest, Running

--------------------------------------------------------------------------------
(* The server.                                                                *)

\* A job makes a fleet of a fleet.
LEMMA EffectsTyped ==
  ASSUME NEW j, NEW r, NEW f \in [Runners -> Kinds]
  PROVE  Effects(j, r, f) \subseteq [Runners -> Kinds]
<1>1. CASE j = "create"
  BY <1>1 DEF Effects, Kinds
<1>2. CASE j = "recreate-missing"
  BY <1>2 DEF Effects, Kinds
<1>3. CASE j \notin {"create", "recreate-missing"}
  BY <1>3 DEF Effects, Kinds
<1> QED BY <1>1, <1>2, <1>3

\* The versions only grow.
LEMMA RecordKeeps ==
  ASSUME Served, NEW f \in [Runners -> Kinds], Record(f), UNCHANGED seen
  PROVE  Served' /\ Len(past) <= Len(past')
<1>1. past \in Seq([Runners -> Kinds]) /\ Len(past) \in Nat \ {0}
  BY DEF Served
<1>2. past' \in Seq([Runners -> Kinds]) /\ Len(past') \in {Len(past), Len(past) + 1}
  BY <1>1 DEF Record
<1> QED BY <1>1, <1>2 DEF Served

\* The last version is a fleet.
LEMMA NowTyped == Served => Now \in [Runners -> Kinds]
BY DEF Served, Now

\* The server's steps touch no chain but for the end of a mutation.
LEMMA ServerKeeps ==
  ASSUME IInv, Served', Len(past) <= Len(past'), UNCHANGED <<todo, job, arg>>,
         UNCHANGED <<err, spinning, action, dialog, view, polling>>, events' \in Nat,
         \/ UNCHANGED ans
         \/ \E t \in Tasks : /\ Awaits(t, {"mutate"})
                            /\ \E a \in {Failed, Partly, Len(past')} : ans' = [ans EXCEPT ![t] = a]
  PROVE  IInv'
<1>1. /\ Len(past) \in Nat \ {0} /\ Len(past') \in Nat \ {0}
      /\ ans \in [Tasks -> {Partly, Failed, Unserved} \cup (1 .. Len(past))]
  BY DEF IInv, Served, Chained
<1>2. ans' \in [Tasks -> {Partly, Failed, Unserved} \cup (1 .. Len(past'))]
  BY <1>1 DEF Unserved, Failed, Partly
<1>3. \A u \in Tasks : Awaits(u, Requests \ {"mutate"}) => ans'[u] = ans[u]
  BY <1>1 DEF Awaits
<1>4. ChainsKept'
  BY <1>3 DEF IInv, Chained, ChainsKept, Chains, Purposes, Awaits, Running
<1> QED BY <1>2, <1>4 DEF IInv, Chained, Shown, AddressKept, SpinnerHonest, GateHonest,
                          Awaits, Running, view

\* The server does the mutation, or refuses it.
LEMMA ServeMutationKeeps ==
  ASSUME IInv, NEW t \in Tasks, ServeMutation(t)
  PROVE  IInv'
<1> DEFINE E == Effects(job[t], arg[t], Now)
<1>1. E \subseteq [Runners -> Kinds]
  BY NowTyped, EffectsTyped DEF IInv
<1>2. /\ UNCHANGED <<seen, todo, job, arg, err, spinning, action, dialog, view, polling, events>>
      /\ Awaits(t, {"mutate"})
      /\ UNCHANGED past \/ \E f \in E : Record(f)
      /\ \E a \in {Failed, Partly, Len(past')} : ans' = [ans EXCEPT ![t] = a]
  BY DEF ServeMutation
<1>3. Served' /\ Len(past) <= Len(past')
  BY <1>1, <1>2, RecordKeeps DEF IInv, Served
<1> QED BY <1>2, <1>3, ServerKeeps DEF IInv, Shown

\* It is lost on the way.
LEMMA MutationLostKeeps ==
  ASSUME IInv, NEW t \in Tasks, MutationLost(t)
  PROVE  IInv'
<1> DEFINE E == Effects(job[t], arg[t], Now)
<1>1. E \subseteq [Runners -> Kinds]
  BY NowTyped, EffectsTyped DEF IInv
<1>2. /\ UNCHANGED <<seen, todo, job, arg, err, spinning, action, dialog, view, polling, events>>
      /\ Awaits(t, {"mutate"})
      /\ UNCHANGED past \/ \E f \in E : Record(f)
      /\ ans' = [ans EXCEPT ![t] = Failed]
  BY DEF MutationLost
<1>3. Served' /\ Len(past) <= Len(past')
  BY <1>1, <1>2, RecordKeeps DEF IInv, Served
<1> QED BY <1>2, <1>3, ServerKeeps DEF IInv, Shown

\* Somebody else changes the fleet.
LEMMA FleetChangesKeeps ==
  ASSUME IInv, FleetChanges
  PROVE  IInv'
<1>1. PICK r \in Runners, k \in Kinds : Record([Now EXCEPT ![r] = k])
  BY DEF FleetChanges, Kinds
<1>2. Served' /\ Len(past) <= Len(past')
  BY <1>1, NowTyped, RecordKeeps DEF IInv, FleetChanges
<1>3. events' \in Nat
  BY DEF IInv, Shown, FleetChanges, Event
<1> QED BY <1>2, <1>3, ServerKeeps DEF FleetChanges, requests

--------------------------------------------------------------------------------
(* Answers and failures.                                                      *)

\* What is left of a running chain is one of its task.
LEMMA ChainInFlight ==
  ASSUME IInv, NEW t \in Tasks, Running(t)
  PROVE  todo[t] \in Chains(t) /\ todo[t] # <<>> /\ Tail(todo[t]) \in Chains(t)
BY ChainFacts DEF IInv, Chained, ChainsKept, Running

\* What a read shows is a version that there was.
LEMMA ReadTyped ==
  ASSUME IInv, NEW t \in Tasks, Awaits(t, Requests \ {"mutate"}), NEW v \in ans[t] .. Len(past)
  PROVE  v \in 1 .. Len(past)
<1>1. Len(past) \in Nat /\ ans[t] \in {Partly, Failed, Unserved} \cup (1 .. Len(past))
  BY DEF IInv, Served, Chained
<1>2. ans[t] > 0
  BY DEF IInv, Chained, ChainsKept
<1> QED BY <1>1, <1>2 DEF Unserved, Failed, Partly

\* A list shows one version for all runners.
LEMMA ShowListKeeps ==
  ASSUME IInv, NEW t \in Tasks, Awaits(t, {"list", "recover"}), ShowList(t), UNCHANGED past
  PROVE  Served'
<1>1. PICK v \in ans[t] .. Len(past) : seen' = [r \in Runners |-> v]
  BY DEF ShowList
<1>2. v \in 1 .. Len(past)
  BY ReadTyped DEF Awaits, Requests
<1> QED BY <1>1, <1>2 DEF IInv, Served

\* A chain that goes on by its next request, or ends.
LEMMA AdvanceKeeps ==
  ASSUME IInv, NEW t \in Tasks, Running(t), Advance(t), Release(t), UNCHANGED past,
         selected' \in Runners \cup {None}
  PROVE  /\ Chained' /\ GateHonest'
         /\ \A u \in Tasks \ {t} : todo'[u] = todo[u] /\ job'[u] = job[u]
<1> DEFINE rest == Follow(Tail(todo[t]))
<1>1. rest \in Chains(t) /\ (rest = <<"detail">> => selected' \in Runners)
  BY ChainInFlight, FollowFacts
<1>2. /\ Chained' /\ todo'[t] = rest
      /\ t \notin Background /\ rest # <<>> => job'[t] = job[t]
      /\ \A u \in Tasks \ {t} : todo'[u] = todo[u] /\ job'[u] = job[u]
  BY <1>1, GoesKeeps DEF IInv, Advance
<1> QED BY <1>2, GatePassed DEF IInv

\* The gate's value is one of its type.
LEMMA ReleaseTyped ==
  ASSUME IInv, NEW t \in Tasks, Release(t)
  PROVE  action' \in Confirmed \cup {"lifecycle", None}
BY DEF IInv, Shown, Release

\* The spinner ends with the list, and the selection with its runner.
LEMMA ListAnswersKeeps ==
  ASSUME IInv, NEW t \in Tasks, ListAnswers(t)
  PROVE  IInv'
<1>1. /\ Awaits(t, {"list", "recover"}) /\ Running(t) /\ ShowList(t)
      /\ spinning' = FALSE /\ UNCHANGED <<past, err, events, polling>>
      /\ dialog' \in {None, dialog} /\ Advance(t) /\ Release(t)
  BY DEF ListAnswers, CloseIf, Awaits
<1>2. \/ selected' = None /\ ((query' = query /\ selected = None) \/ query' = None)
      \/ UNCHANGED view
  BY DEF ListAnswers, ShowSelection
<1>3. /\ selected' \in Runners \cup {None} /\ query' \in Runners \cup {None}
      /\ AddressKept'
  BY <1>1, <1>2, NoneAssumption DEF IInv, Shown, AddressKept, view, Targeted, Jobs, Confirmed
<1>4. Served'
  BY <1>1, ShowListKeeps
<1>5. Chained' /\ GateHonest'
  BY <1>1, <1>3, AdvanceKeeps
<1>6. SpinnerHonest'
  BY <1>1 DEF SpinnerHonest
<1> QED BY <1>1, <1>3, <1>4, <1>5, <1>6, ReleaseTyped DEF IInv, Shown

\* A detail that comes late changes one row only.
LEMMA DetailAnswersKeeps ==
  ASSUME IInv, NEW t \in Tasks, DetailAnswers(t)
  PROVE  IInv'
<1>1. /\ Awaits(t, {"detail"}) /\ Running(t) /\ Advance(t) /\ Release(t)
      /\ UNCHANGED <<selected, query, past, err, spinning, dialog, polling, events>>
  BY DEF DetailAnswers, Awaits, view
<1>2. PICK v \in ans[t] .. Len(past) : seen' = [seen EXCEPT ![arg[t]] = v]
  BY DEF DetailAnswers
<1>3. v \in 1 .. Len(past)
  BY <1>1, ReadTyped DEF Awaits, Requests
<1>4. Served'
  BY <1>1, <1>2, <1>3 DEF IInv, Served
<1>5. selected' \in Runners \cup {None}
  BY <1>1 DEF IInv, Shown
<1>6. /\ Chained' /\ GateHonest'
      /\ \A u \in Tasks \ {t} : todo'[u] = todo[u] /\ job'[u] = job[u]
  BY <1>1, <1>5, AdvanceKeeps
<1>7. SpinnerHonest'
  BY <1>1, <1>6, SpinnerKept DEF IInv, Awaits
<1> QED BY <1>1, <1>4, <1>6, <1>7, ReleaseTyped DEF IInv, Shown, AddressKept

\* A mutation that is done leads to a list: the gate stays closed.
LEMMA MutationAnswersKeeps ==
  ASSUME IInv, NEW t \in Tasks, MutationAnswers(t)
  PROVE  IInv'
<1> DEFINE rest == IF ans[t] = Partly THEN <<"list">> ELSE Tail(todo[t])
<1>1. /\ Awaits(t, {"mutate"}) /\ Running(t) /\ Head(todo[t]) = "mutate"
      /\ err' = None /\ spinning' = TRUE /\ Goes(t, rest)
      /\ UNCHANGED <<selected, query, past, seen, action, dialog, polling, events>>
  BY DEF MutationAnswers, Awaits, view
<1>2. /\ t \notin Background /\ Tail(todo[t]) \in Chains(t)
      /\ Tail(todo[t]) # <<>> /\ Head(Tail(todo[t])) = "list"
  BY <1>1, ChainInFlight, ChainFacts
<1>3. rest \in Chains(t) /\ rest # <<>> /\ Head(rest) = "list" /\ rest # <<"detail">>
  <2>1. t = Action \/ t = Form
    BY <1>2, Places
  <2>2. <<"list">> \in Chains(t)
    BY <2>1, Places DEF Chains
  <2>3. CASE ans[t] = Partly
    BY <2>2, <2>3
  <2>4. CASE ans[t] # Partly
    <3>1. Head(<<"detail">>) # "list"
      OBVIOUS
    <3> QED BY <1>2, <2>4, <3>1
  <2> QED BY <2>3, <2>4
<1>4. /\ Chained' /\ todo'[t] = rest /\ job'[t] = job[t]
      /\ \A u \in Tasks \ {t} : todo'[u] = todo[u] /\ job'[u] = job[u]
  BY <1>1, <1>2, <1>3, GoesKeeps DEF IInv
<1>5. SpinnerHonest'
  BY <1>3, <1>4 DEF SpinnerHonest, Awaits, Running
<1>6. GateHonest'
  BY <1>1, <1>3, <1>4, Places DEF IInv, GateHonest, Running
<1> QED BY <1>1, <1>4, <1>5, <1>6 DEF IInv, Served, Shown, AddressKept

\* So does one that failed.
LEMMA MutationFailsKeeps ==
  ASSUME IInv, NEW t \in Tasks, MutationFails(t)
  PROVE  IInv'
<1>1. /\ t \notin Background /\ Running(t) /\ Awaits(t, {"mutate", "list"})
      /\ err' = "mutation" /\ spinning' = TRUE /\ Goes(t, <<"recover">>)
      /\ UNCHANGED seen \/ (Awaits(t, {"list"}) /\ ShowList(t))
      /\ UNCHANGED <<selected, query, past, action, dialog, polling, events>>
  BY DEF MutationFails, Broken, Awaits, view
<1>2. /\ <<"recover">> \in Chains(t) /\ <<"recover">> # <<>> /\ <<"recover">> # <<"detail">>
      /\ Head(<<"recover">>) = "recover"
  BY <1>1, Places DEF Chains
<1>3. /\ Chained' /\ todo'[t] = <<"recover">> /\ job'[t] = job[t]
      /\ \A u \in Tasks \ {t} : todo'[u] = todo[u] /\ job'[u] = job[u]
  BY <1>1, <1>2, GoesKeeps DEF IInv
<1>4. Served'
  BY <1>1, ShowListKeeps DEF IInv, Served, Awaits
<1>5. SpinnerHonest'
  BY <1>2, <1>3 DEF SpinnerHonest, Awaits, Running
<1>6. GateHonest'
  BY <1>1, <1>2, <1>3, Places DEF IInv, GateHonest, Running
<1> QED BY <1>1, <1>3, <1>4, <1>5, <1>6 DEF IInv, Shown, AddressKept

\* A list that fails ends its chain, but for the mount.
LEMMA ListFailsKeeps ==
  ASSUME IInv, NEW t \in Tasks, ListFails(t)
  PROVE  IInv'
<1> DEFINE rest == IF job[t] = "mount" THEN <<"health">> ELSE <<>>
<1>1. /\ Running(t) /\ err' = "list" /\ spinning' = FALSE /\ Goes(t, rest) /\ Release(t)
      /\ UNCHANGED <<selected, query, past, seen, dialog, polling, events>>
  BY DEF ListFails, Broken, Awaits, view
<1>2. job[t] = "mount" => t \in Background
  BY <1>1, Places DEF IInv, Chained, ChainsKept, Purposes, Confirmed
<1>3. rest \in Chains(t) /\ rest # <<"detail">>
  BY <1>2, Places DEF Chains
<1>4. /\ Chained' /\ todo'[t] = rest
      /\ t \notin Background /\ rest # <<>> => job'[t] = job[t]
      /\ \A u \in Tasks \ {t} : todo'[u] = todo[u] /\ job'[u] = job[u]
  BY <1>1, <1>3, GoesKeeps DEF IInv
<1>5. GateHonest'
  BY <1>1, <1>4, GatePassed DEF IInv
<1>6. SpinnerHonest'
  BY <1>1 DEF SpinnerHonest
<1> QED BY <1>1, <1>4, <1>5, <1>6, ReleaseTyped DEF IInv, Served, Shown, AddressKept

\* A detail that fails ends its chain.
LEMMA DetailFailsKeeps ==
  ASSUME IInv, NEW t \in Tasks, DetailFails(t)
  PROVE  IInv'
<1>1. /\ Running(t) /\ Awaits(t, {"detail"}) /\ Goes(t, <<>>) /\ Release(t)
      /\ UNCHANGED <<selected, query, past, seen, err, spinning, dialog, polling, events>>
  BY DEF DetailFails, Broken, Awaits, view
<1>2. <<>> \in Chains(t) /\ <<>> # <<"detail">>
  BY DEF Chains
<1>3. /\ Chained' /\ todo'[t] = <<>>
      /\ \A u \in Tasks \ {t} : todo'[u] = todo[u] /\ job'[u] = job[u]
  BY <1>1, <1>2, GoesKeeps DEF IInv
<1>4. GateHonest'
  BY <1>1, <1>3, GatePassed DEF IInv
<1>5. SpinnerHonest'
  BY <1>1, <1>3, SpinnerKept DEF IInv, Awaits
<1> QED BY <1>1, <1>3, <1>4, <1>5, ReleaseTyped DEF IInv, Served, Shown, AddressKept

\* A click on what is selected deselects it; the address follows.
LEMMA ToggledShown ==
  ASSUME IInv, NEW r \in Runners, ShowSelection(Toggled(r))
  PROVE  selected' \in Runners \cup {None} /\ query' = selected'
BY NoneAssumption DEF ShowSelection, Toggled

\* The end of the mount selects what the address names, or deselects it.
LEMMA MountedKeeps ==
  ASSUME IInv, NEW t \in Tasks, Mounted(t)
  PROVE  IInv'
<1> DEFINE rest == IF selected' # selected THEN Follow(<<"detail">>) ELSE <<>>
<1>1. /\ Running(t) /\ Awaits(t, {"health"}) /\ Head(todo[t]) = "health"
      /\ Goes(t, rest) /\ polling' = TRUE
      /\ UNCHANGED <<past, seen, err, spinning, action, dialog, events>>
      /\ \/ query # None /\ ShowSelection(Toggled(query))
         \/ UNCHANGED <<selected, query>>
  BY DEF Mounted, Awaits, view
<1>2. t \in Background /\ t # Action
  BY <1>1, ChainInFlight, ChainFacts, Places
<1>3. /\ selected' \in Runners \cup {None} /\ query' \in Runners \cup {None}
      /\ AddressKept'
  <2>1. CASE UNCHANGED <<selected, query>>
    BY <1>1, <2>1 DEF IInv, Shown, AddressKept
  <2>2. CASE query # None /\ ShowSelection(Toggled(query))
    <3>1. query \in Runners
      BY <2>2 DEF IInv, Shown
    <3>2. selected' \in Runners \cup {None} /\ query' = selected'
      BY <2>2, <3>1, ToggledShown
    <3> QED BY <3>2 DEF AddressKept
  <2> QED BY <1>1, <2>1, <2>2
<1>4. <<>> \in Chains(t) /\ <<"detail">> \in Chains(t)
  BY <1>2, Places DEF Chains
<1>5. rest \in Chains(t) /\ (rest = <<"detail">> => selected' \in Runners)
  BY <1>3, <1>4, FollowFacts
<1>6. /\ Chained'
      /\ \A u \in Tasks \ {t} : todo'[u] = todo[u] /\ job'[u] = job[u]
  BY <1>1, <1>5, GoesKeeps DEF IInv
<1>7. SpinnerHonest'
  BY <1>1, <1>6, SpinnerKept DEF IInv, Awaits
<1>8. GateHonest'
  BY <1>1, <1>2, <1>6, GateKept, Places DEF IInv
<1> QED BY <1>1, <1>3, <1>6, <1>7, <1>8 DEF IInv, Served, Shown

--------------------------------------------------------------------------------
(* The user and the interval.                                                 *)

\* A poll or a refresh brings its spinner and its list.
LEMMA PollKeeps ==
  ASSUME IInv, StartBackground(Poll, None), spinning' = TRUE,
         UNCHANGED <<past, seen, err, action, dialog, selected, query, polling, events>>
  PROVE  IInv'
<1>1. PICK b \in Background : Start(b, "background", None, Poll)
  BY DEF StartBackground
<1>2. /\ b \in Tasks /\ b # Action /\ Poll \in Chains(b) \ {<<>>}
      /\ "background" \in Purposes(b)
  BY Places DEF Chains, Poll, Purposes
<1>3. Head(Poll) = "list"
  BY DEF Poll
<1>4. /\ Chained' /\ todo'[b] = Poll
      /\ \A u \in Tasks \ {b} : todo'[u] = todo[u] /\ job'[u] = job[u]
  BY <1>1, <1>2, <1>3, StartKeeps DEF IInv
<1>5. SpinnerHonest'
  BY <1>2, <1>3, <1>4 DEF SpinnerHonest, Awaits, Running
<1>6. GateHonest'
  BY <1>2, <1>4, GateKept, Places DEF IInv
<1> QED BY <1>4, <1>5, <1>6 DEF IInv, Served, Shown, AddressKept

\* A click on a row asks for its detail, or for none.
LEMMA SelectKeeps ==
  ASSUME IInv, NEW r \in Runners, Select(r)
  PROVE  IInv'
<1>1. /\ ShowSelection(Toggled(r))
      /\ UNCHANGED <<past, seen, err, spinning, action, dialog, polling, events>>
      /\ UNCHANGED <<todo, ans, job, arg>> \/ StartBackground(<<"detail">>, r)
  BY DEF Select, requests
<1>2. selected' \in Runners \cup {None} /\ query' = selected'
  BY <1>1, ToggledShown
<1>3. CASE UNCHANGED <<todo, ans, job, arg>>
  BY <1>1, <1>2, <1>3 DEF IInv, Served, Chained, Shown, AddressKept, SpinnerHonest, GateHonest,
                          ChainsKept, Chains, Purposes, Awaits, Running
<1>4. CASE StartBackground(<<"detail">>, r)
  <2>1. PICK b \in Background : Start(b, "background", r, <<"detail">>)
    BY <1>4 DEF StartBackground
  <2>2. /\ b \in Tasks /\ b # Action /\ <<"detail">> \in Chains(b) \ {<<>>}
        /\ "background" \in Purposes(b)
    BY Places DEF Chains, Purposes
  <2>3. /\ Chained' /\ ~ Running(b)
        /\ \A u \in Tasks \ {b} : todo'[u] = todo[u] /\ job'[u] = job[u]
    BY <1>1, <2>1, <2>2, StartKeeps DEF IInv
  <2>4. SpinnerHonest'
    BY <1>1, <2>2, <2>3, SpinnerKept DEF IInv, Awaits
  <2>5. GateHonest'
    BY <1>1, <2>2, <2>3, GateKept, Places DEF IInv
  <2> QED BY <1>1, <1>2, <2>3, <2>4, <2>5 DEF IInv, Served, Shown, AddressKept
<1> QED BY <1>1, <1>3, <1>4

\* An action of the page takes the gate for itself.
LEMMA ActionKeeps ==
  ASSUME IInv, NEW j \in Purposes(Action),
         NEW chain \in {<<"mutate", "list">>, <<"mutate", "list", "detail">>},
         Start(Action, j, selected, chain), action' = j, events' \in Nat,
         UNCHANGED <<past, seen, err, spinning, dialog, selected, query, polling>>
  PROVE  IInv'
<1>1. /\ Action \in Tasks /\ chain \in Chains(Action) \ {<<>>} /\ Head(chain) = "mutate"
      /\ selected \in Runners \cup {None}
  BY Places DEF Chains, IInv, Shown
<1>2. /\ Chained' /\ ~ Running(Action) /\ todo'[Action] = chain /\ job'[Action] = j
      /\ \A u \in Tasks \ {Action} : todo'[u] = todo[u] /\ job'[u] = job[u]
  BY <1>1, StartKeeps DEF IInv
<1>3. SpinnerHonest'
  BY <1>1, <1>2, SpinnerKept DEF IInv, Awaits
<1>4. GateHonest'
  BY <1>1, <1>2 DEF GateHonest, Running
<1>5. action' \in Confirmed \cup {"lifecycle"}
  BY Places DEF Purposes
<1> QED BY <1>2, <1>3, <1>4, <1>5 DEF IInv, Served, Shown, AddressKept

\* Start, stop or restart.
LEMMA RunActionKeeps == IInv /\ RunAction => IInv'
<1> SUFFICES ASSUME IInv, RunAction PROVE IInv'
  OBVIOUS
<1>1. "lifecycle" \in Purposes(Action) /\ events' \in Nat
  BY Places DEF Purposes, IInv, Shown, RunAction, Event
<1> QED BY <1>1, ActionKeeps DEF RunAction, view

\* A dialog that is confirmed.
LEMMA ConfirmKeeps == IInv /\ Confirm => IInv'
<1> SUFFICES ASSUME IInv, Confirm PROVE IInv'
  OBVIOUS
<1> DEFINE chain == IF dialog = "delete" THEN <<"mutate", "list">>
                                         ELSE <<"mutate", "list", "detail">>
<1>1. dialog \in Purposes(Action) /\ events' \in Nat
  BY Places DEF Purposes, IInv, Shown, Confirm, Event
<1>2. /\ Start(Action, dialog, selected, chain) /\ action' = dialog
      /\ UNCHANGED <<past, seen, err, spinning, dialog, selected, query, polling>>
  BY DEF Confirm, view
<1>3. chain \in {<<"mutate", "list">>, <<"mutate", "list", "detail">>}
  OBVIOUS
<1> QED BY <1>1, <1>2, <1>3, ActionKeeps

\* A form is not the business of the gate.
LEMMA SubmitKeeps == IInv /\ Submit => IInv'
<1> SUFFICES ASSUME IInv, Submit PROVE IInv'
  OBVIOUS
<1> DEFINE r == IF dialog = "edit" THEN selected ELSE None
           chain == <<"mutate", "list">>
<1>1. /\ Start(Form, dialog, r, chain) /\ dialog \in {"create", "edit"} /\ events' \in Nat
      /\ UNCHANGED <<past, seen, err, spinning, action, dialog, selected, query, polling>>
  BY DEF Submit, view, Event, IInv, Shown
<1>2. /\ Form \in Tasks /\ Form # Action /\ dialog \in Purposes(Form)
      /\ r \in Runners \cup {None} /\ chain \in Chains(Form) \ {<<>>}
  BY <1>1, Places DEF Purposes, Chains, IInv, Shown
<1>3. Head(chain) = "mutate"
  OBVIOUS
<1> HIDE DEF r, chain
<1>4. /\ Chained' /\ ~ Running(Form)
      /\ \A u \in Tasks \ {Form} : todo'[u] = todo[u] /\ job'[u] = job[u]
  BY <1>1, <1>2, <1>3, StartKeeps DEF IInv
<1>5. SpinnerHonest'
  BY <1>1, <1>2, <1>4, SpinnerKept DEF IInv, Awaits
<1>6. GateHonest'
  BY <1>1, <1>2, <1>4, GateKept, Places DEF IInv
<1> QED BY <1>1, <1>4, <1>5, <1>6 DEF IInv, Served, Shown, AddressKept

\* What opens or closes a dialog, takes the error away or does nothing.
LEMMA DialogKeeps ==
  ASSUME IInv, err' \in {None, err},
         UNCHANGED <<past, seen, todo, ans, job, arg, spinning, action, selected, query>>,
         UNCHANGED <<polling, events>>,
         dialog' \in Confirmed \cup {"create", "edit", None},
         dialog' \in Targeted => dialog' = dialog \/ selected # None
  PROVE  IInv'
BY DEF IInv, Served, Chained, Shown, AddressKept, SpinnerHonest, GateHonest,
       ChainsKept, Chains, Purposes, Awaits, Running

\* A dialog about a runner opens on the selected one.
LEMMA OpenDialogKeeps ==
  ASSUME IInv, NEW d \in Confirmed \cup {"create", "edit"}, OpenDialog(d)
  PROVE  IInv'
<1>1. d \in Targeted => selected # None
  BY DEF OpenDialog, ChangeButtons, Selectable, Targeted
<1> QED BY <1>1, DialogKeeps DEF OpenDialog, requests, view

\* Closing a dialog.
LEMMA DismissKeeps == IInv /\ Dismiss => IInv'
<1> SUFFICES ASSUME IInv, Dismiss PROVE IInv'
  OBVIOUS
<1>1. None \notin Targeted
  BY NoneAssumption DEF Targeted, Jobs, Confirmed
<1> QED BY <1>1, DialogKeeps DEF Dismiss, CloseIf, requests, view

\* Closing the error.
LEMMA CloseErrorKeeps == IInv /\ CloseError => IInv'
<1> SUFFICES ASSUME IInv, CloseError PROVE IInv'
  OBVIOUS
<1>1. dialog' \in Confirmed \cup {"create", "edit", None}
  BY DEF IInv, Shown, CloseError
<1> QED BY <1>1, DialogKeeps DEF CloseError, requests, view

--------------------------------------------------------------------------------
\* When the page is opened the mount has sent its list.
LEMMA InitInv == Init => IInv
<1> SUFFICES ASSUME Init PROVE IInv
  OBVIOUS
<1>1. /\ 1 \in Background /\ 1 \in Tasks /\ 1 # Action
  BY BoundAssumption DEF Background, Tasks, Action, Form
<1>2. Nothing \in [Runners -> Kinds] /\ Fleet \in [Runners -> Kinds]
  BY InitialAssumption DEF Nothing, Kinds
<1>3. past \in Seq([Runners -> Kinds]) /\ Len(past) = 2
  BY <1>2 DEF Init
<1>4. Served
  BY <1>3 DEF Init, Served
<1>5. /\ todo[1] = <<"list", "health">> /\ Head(todo[1]) = "list" /\ Running(1)
      /\ \A t \in Tasks \ {1} : todo[t] = <<>> /\ ~ Running(t)
      /\ todo \in [Tasks -> Seq(Requests)]
  <2> DEFINE chain == <<"list", "health">>
  <2>1. chain \in Seq(Requests) /\ Head(chain) = "list" /\ chain # <<>>
    BY DEF Requests
  <2> HIDE DEF chain
  <2>2. todo = [t \in Tasks |-> IF t = 1 THEN chain ELSE <<>>]
    BY DEF Init, chain
  <2>3. todo[1] = chain /\ \A t \in Tasks \ {1} : todo[t] = <<>>
    BY <1>1, <2>2
  <2>4. todo \in [Tasks -> Seq(Requests)]
    BY <2>1, <2>2
  <2> QED BY <2>1, <2>3, <2>4 DEF Running, chain
<1>6. /\ ans[1] = 2 /\ job[1] = "mount"
      /\ ans \in [Tasks -> {Partly, Failed, Unserved} \cup (1 .. Len(past))]
      /\ job \in [Tasks -> Jobs] /\ arg \in [Tasks -> Runners \cup {None}]
  BY <1>1, <1>3, <1>5 DEF Init, Jobs
<1>7. ChainsKept
  <2> SUFFICES ASSUME NEW t \in Tasks
               PROVE  /\ todo[t] \in Chains(t)
                      /\ Running(t) => job[t] \in Purposes(t)
                      /\ Awaits(t, Requests \ {"mutate"}) => ans[t] > 0
                      /\ Awaits(t, {"detail"}) => arg[t] \in Runners
    BY DEF ChainsKept
  <2>1. CASE t = 1
    BY <2>1, <1>1, <1>5, <1>6, Places DEF Chains, Purposes, Awaits
  <2>2. CASE t # 1
    BY <2>2, <1>5 DEF Chains, Awaits
  <2> QED BY <2>1, <2>2
<1>8. SpinnerHonest
  BY <1>1, <1>5 DEF SpinnerHonest, Awaits
<1>9. AddressKept
  BY NoneAssumption DEF Init, AddressKept, Targeted, Jobs, Confirmed
<1>10. GateHonest
  BY <1>1, <1>5, Places DEF Init, GateHonest
<1>11. Shown
  BY InitialAssumption DEF Init, Shown
<1> QED BY <1>4, <1>5, <1>6, <1>7, <1>8, <1>9, <1>10, <1>11 DEF IInv, Chained

\* Every step keeps it.
LEMMA NextInv == IInv /\ [Next]_vars => IInv'
<1> SUFFICES ASSUME IInv, [Next]_vars PROVE IInv'
  OBVIOUS
<1>1. CASE User
  <2>1. CASE Refresh
    BY <2>1, PollKeeps DEF Refresh, view
  <2> QED BY <1>1, <2>1, DismissKeeps, RunActionKeeps, ConfirmKeeps, SubmitKeeps,
             CloseErrorKeeps, SelectKeeps, OpenDialogKeeps DEF User
<1>2. CASE Tick
  BY <1>2, PollKeeps DEF Tick, view
<1>3. CASE FleetChanges
  BY <1>3, FleetChangesKeeps
<1>4. CASE \E t \in Tasks : ServeMutation(t) \/ MutationLost(t)
  BY <1>4, ServeMutationKeeps, MutationLostKeeps
<1>5. CASE \E t \in Tasks : Answers(t)
  BY <1>5, ListAnswersKeeps, DetailAnswersKeeps, MutationAnswersKeeps, MountedKeeps DEF Answers
<1>6. CASE \E t \in Tasks : Fails(t)
  BY <1>6, MutationFailsKeeps, ListFailsKeeps, DetailFailsKeeps DEF Fails
<1>7. CASE UNCHANGED vars
  <2>1. dialog' \in Confirmed \cup {"create", "edit", None}
    BY <1>7 DEF IInv, Shown, vars
  <2> QED BY <1>7, <2>1, DialogKeeps DEF vars, requests, view
<1> QED BY <1>1, <1>2, <1>3, <1>4, <1>5, <1>6, <1>7 DEF Next

\* RunnersPage.vue:396 and index.js:73 - the invariant that holds all the rest:
\* chains, address, spinner and gate.
THEOREM PageSafe == Spec => []IInv
<1>1. Init => IInv
  BY InitInv
<1>2. IInv /\ [Next]_vars => IInv'
  BY NextInv
<1> QED BY <1>1, <1>2, PTL DEF Spec

\* index.js:83 - chains that overlap and fail leave no spinner behind, and the
\* address names what is selected.
THEOREM PageKept == Spec => []PageInv
<1>1. IInv => PageInv
  BY Parts
<1> QED BY <1>1, PageSafe, PTL

\* RunnersPage.vue:517 - the buttons are dead exactly while an action runs.
THEOREM GateKeeps == Spec => []GateHonest
<1>1. IInv => GateHonest
  BY DEF IInv
<1> QED BY <1>1, PageSafe, PTL

--------------------------------------------------------------------------------
(* What a step may not do.                                                    *)

\* Who changes the selection under a dialog.
LEMMA TargetStep ==
  IInv /\ [Next]_vars =>
    [dialog' = dialog /\ dialog \in Targeted => selected' \in {selected, None}]_vars
<1> SUFFICES ASSUME IInv, Next, dialog \in Targeted PROVE selected' \in {selected, None}
  BY DEF vars
<1>1. dialog # None /\ query = selected
  BY NoneAssumption DEF Targeted, Jobs, Confirmed, IInv, AddressKept
<1>2. CASE \E t \in Tasks : ListAnswers(t)
  BY <1>2 DEF ListAnswers, ShowSelection, view
<1>3. CASE \E t \in Tasks : Mounted(t)
  BY <1>1, <1>3 DEF Mounted, ShowSelection, Toggled, view
<1>4. CASE \E r \in Runners : Select(r)
  BY <1>1, <1>4 DEF Select
<1>5. CASE UNCHANGED selected
  BY <1>5
<1>6. CASE User
  BY <1>4, <1>5, <1>6 DEF User, Refresh, Dismiss, RunAction, Confirm, Submit, CloseError,
                          OpenDialog, view
<1>7. CASE Tick \/ FleetChanges
  BY <1>5, <1>7 DEF Tick, FleetChanges, view
<1>8. CASE \E t \in Tasks : ServeMutation(t) \/ MutationLost(t) \/ Answers(t) \/ Fails(t)
  BY <1>2, <1>3, <1>5, <1>8 DEF ServeMutation, MutationLost, Answers, Fails, DetailAnswers,
                          MutationAnswers, MutationFails, ListFails, DetailFails, view
<1> QED BY <1>6, <1>7, <1>8 DEF Next

\* RunnersPage.vue:567 - no step puts another runner under an open delete,
\* recreate or edit.
THEOREM DialogKeepsTarget == Spec => DialogTarget
<1>1. IInv /\ [Next]_vars =>
        [dialog' = dialog /\ dialog \in Targeted => selected' \in {selected, None}]_vars
  BY TargetStep
<1> QED BY <1>1, PageSafe, PTL DEF Spec, DialogTarget

\* Who takes the error away.
LEMMA ErrorStep ==
  IInv /\ [Next]_vars =>
    [err = "mutation" /\ err' = None =>
       CloseError \/ \E t \in {Action, Form} : MutationAnswers(t)]_vars
<1> SUFFICES ASSUME IInv, Next, err = "mutation", err' = None
             PROVE  CloseError \/ \E t \in {Action, Form} : MutationAnswers(t)
  BY DEF vars
<1>1. err' # err /\ err' \notin {"list", "mutation"}
  BY NoneAssumption
<1>2. ASSUME NEW t \in Tasks, MutationAnswers(t) PROVE t \in {Action, Form}
  <2>1. Running(t) /\ Head(todo[t]) = "mutate"
    BY <1>2 DEF MutationAnswers, Awaits
  <2> QED BY <2>1, ChainInFlight, ChainFacts, Places
<1>3. CASE User
  BY <1>1, <1>3 DEF User, Refresh, Dismiss, RunAction, Confirm, Submit, Select, OpenDialog
<1>4. CASE Tick \/ FleetChanges
  BY <1>1, <1>4 DEF Tick, FleetChanges
<1>5. CASE \E t \in Tasks : ServeMutation(t) \/ MutationLost(t) \/ Answers(t) \/ Fails(t)
  BY <1>1, <1>2, <1>5 DEF ServeMutation, MutationLost, Answers, Fails, ListAnswers,
                    DetailAnswers, Mounted, MutationFails, ListFails, DetailFails
<1> QED BY <1>3, <1>4, <1>5 DEF Next

\* index.js:4 - polls and other successes leave a mutation's error on the page.
THEOREM MutationErrorKept == Spec => MutationErrorStays
<1>1. IInv /\ [Next]_vars =>
        [err = "mutation" /\ err' = None =>
           CloseError \/ \E t \in {Action, Form} : MutationAnswers(t)]_vars
  BY ErrorStep
<1> QED BY <1>1, PageSafe, PTL DEF Spec, MutationErrorStays

================================================================================
