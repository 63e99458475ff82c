------------------------------ MODULE FleetPage -------------------------------
(******************************************************************************)
(* The page with the fleet (RunnersPage.vue, store/index.js): a list that is  *)
(* polled, a selection with details, and mutations that are followed by a new *)
(* list.  Every task is a chain of requests with one in flight; the tasks     *)
(* overlap freely.  A request takes effect at the server in one step and its  *)
(* answer is applied in a later one, together with all that runs before the   *)
(* next await.  A read is answered with any version of the fleet from the     *)
(* time it was sent to now.                                                   *)
(******************************************************************************)
EXTENDS Integers, Sequences

CONSTANTS
  Runners,
  None,
  Fleet,           \* the fleet when the page is opened
  Address,         \* the runner in the address then, or None
  MaxBackground,   \* chains that read only and are in flight at once
  MaxEvents        \* mutations of the user and changes by others, together

Kinds == {"none", "up", "busy", "down", "missing"}   \* none: no such runner

ASSUME InitialAssumption == Fleet \in [Runners -> Kinds] /\ Address \in Runners \cup {None}
ASSUME BoundAssumption == MaxBackground \in Nat \ {0} /\ MaxEvents \in Nat

\* The tasks that can be under way: an action of the page, a form that is
\* submitted, and chains that nobody waits for.
Action == 0
Form == MaxBackground + 1
Background == 1 .. MaxBackground
Tasks == Action .. Form
Targeted == {"delete", "recreate", "edit"}       \* dialogs about the selected runner
Confirmed == {"recreate", "delete", "recreate-missing"}
Jobs == Confirmed \cup {"lifecycle", "create", "edit", "background", "mount"}
Requests == {"list", "health", "detail", "mutate", "recover"}

ASSUME NoneAssumption == None \notin Runners \cup Jobs \cup {"list", "mutation"}

VARIABLES
  past,         \* the versions of the fleet at the server
  seen,         \* runner -> the version of its row that the page shows
  todo,         \* task -> its request in flight and those after it
  ans,          \* task -> of a read: the version when it was sent; of a mutation: its end
  job, arg,     \* task -> what it is for, on which runner
  err,          \* store.error: None, or where it is from
  spinning,     \* loading or initialLoading
  action,       \* actionLoading
  dialog,       \* the dialog that is open
  selected, query,   \* selectedId, route.query.id
  polling,      \* the interval runs
  events        \* mutations and changes by others so far

requests == <<todo, ans, job, arg>>
view == <<selected, query>>
vars == <<past, seen, requests, err, spinning, action, dialog, view, polling, events>>

Now == past[Len(past)]
Row(r) == past[seen[r]][r]
Rows == [r \in Runners |-> Row(r)]
Running(t) == todo[t] # <<>>

\* The first version is the empty fleet that the store begins with.
Nothing == [r \in Runners |-> "none"]

\* The end of a mutation: not yet, it failed, or it was done for some rows only
\* (recreate-missing); or the version it made.
Unserved == 0
Failed == -1
Partly == -2

Init ==
  /\ past = <<Nothing, Fleet>>
  /\ seen = [r \in Runners |-> 1]
  /\ todo = [t \in Tasks |-> IF t = 1 THEN <<"list", "health">> ELSE <<>>]
  /\ job = [t \in Tasks |-> IF Running(t) THEN "mount" ELSE "background"]
  /\ ans = [t \in Tasks |-> IF Running(t) THEN Len(past) ELSE Unserved]
  /\ arg = [t \in Tasks |-> None]
  /\ err = None /\ spinning = TRUE /\ action = None /\ dialog = None
  /\ selected = None /\ query = Address /\ polling = FALSE
  /\ events = 0

--------------------------------------------------------------------------------
(* The server.                                                                *)

\* What a job makes of the fleet f, on runner r; the empty set: it is refused.
Effects(j, r, f) ==
  CASE j = "create" -> {[f EXCEPT ![n] = "up"] : n \in {n \in Runners : f[n] = "none"}}
    [] j = "recreate-missing" ->
         {[n \in Runners |-> IF n \in S THEN "up" ELSE f[n]] :
            S \in SUBSET {n \in Runners : f[n] = "missing"}}
    [] f[r] = "none" -> {}
    [] j = "delete" -> IF f[r] = "busy" THEN {} ELSE {[f EXCEPT ![r] = "none"]}
    [] j = "recreate" -> IF f[r] = "busy" THEN {} ELSE {[f EXCEPT ![r] = "up"]}
    [] j = "edit" -> {f} \cup (IF f[r] = "busy" THEN {} ELSE {[f EXCEPT ![r] = "up"]})
    [] f[r] = "missing" -> {}
    [] OTHER -> {[f EXCEPT ![r] = k] : k \in {"up", "down"}}

Record(f) == past' = IF f = Now THEN past ELSE Append(past, f)

Event == events < MaxEvents /\ events' = events + 1

Awaits(t, kinds) == Running(t) /\ Head(todo[t]) \in kinds

\* recreate-missing is told of the rows it could not do.
ServeMutation(t) ==
  /\ Awaits(t, {"mutate"}) /\ ans[t] = Unserved
  /\ LET E == Effects(job[t], arg[t], Now)
     IN  \/ /\ E = {} /\ UNCHANGED past
            /\ ans' = [ans EXCEPT ![t] = Failed]
         \/ \E f \in E : /\ Record(f)
                         /\ ans' = [ans EXCEPT ![t] =
                              IF job[t] = "recreate-missing" /\ \E r \in Runners : f[r] = "missing"
                                THEN Partly ELSE Len(past')]
  /\ UNCHANGED <<seen, todo, job, arg, err, spinning, action, dialog, view, polling, events>>

\* A mutation that fails on the way, before or after it had its effect.
MutationLost(t) ==
  /\ Awaits(t, {"mutate"}) /\ ans[t] = Unserved
  /\ ans' = [ans EXCEPT ![t] = Failed]
  /\ UNCHANGED past \/ \E f \in Effects(job[t], arg[t], Now) : Record(f)
  /\ UNCHANGED <<seen, todo, job, arg, err, spinning, action, dialog, view, polling, events>>

\* Jobs, agents, Docker and other clients.
FleetChanges ==
  /\ Event
  /\ \E r \in Runners :
       /\ Now[r] # "none"
       /\ \E k \in {"none", "missing", IF Now[r] = "up" THEN "busy" ELSE "up"} \ {Now[r]} :
            Record([Now EXCEPT ![r] = k])
  /\ UNCHANGED <<seen, requests, err, spinning, action, dialog, view, polling>>

--------------------------------------------------------------------------------
(* Chains of requests.                                                        *)

\* refreshSelected asks for every selected row but a missing one.
WantsDetail == selected # None /\ Row(selected) # "missing"

Follow(rest) == IF rest = <<"detail">> /\ ~ WantsDetail' THEN <<>> ELSE rest

\* Task t goes on with these requests; one that ends is as good as new.
Goes(t, rest) ==
  /\ todo' = [todo EXCEPT ![t] = rest]
  /\ ans' = [ans EXCEPT ![t] = IF rest = <<>> THEN Unserved ELSE Len(past)]
  /\ job' = [job EXCEPT ![t] = IF rest # <<>> /\ (t \in {Action, Form} \/ rest = <<"health">>)
                                   THEN job[t] ELSE "background"]
  /\ arg' = [arg EXCEPT ![t] = CASE rest = <<>> -> None
                                 [] rest = <<"detail">> -> selected'
                                 [] OTHER -> arg[t]]

\* Task t sends the next request of its chain, or ends.
Advance(t) == Goes(t, Follow(Tail(todo[t])))

Start(t, j, r, chain) ==
  /\ ~ Running(t)
  /\ todo' = [todo EXCEPT ![t] = chain]
  /\ ans' = [ans EXCEPT ![t] = IF t \in Background /\ chain # <<>> THEN Len(past) ELSE Unserved]
  /\ job' = [job EXCEPT ![t] = j]
  /\ arg' = [arg EXCEPT ![t] = IF chain = <<>> THEN None ELSE r]

\* Slip: the action is given back at the end of the try, not in a finally.
ReleaseOnSuccess(t) ==
  action' = IF t = Action /\ todo'[t] = <<>> /\ ~ Awaits(t, {"recover"}) THEN None ELSE action

\* The finally of the actions.
Release(t) == action' = IF t = Action /\ todo'[t] = <<>> THEN None ELSE action

\* Slip: the selection is not put into the address.
ShowSelectionOnly(r) ==
  /\ selected' = r
  /\ UNCHANGED query

\* clear and select of useListDetailsPane, and the watcher that puts the
\* selection into the address.
ShowSelection(r) ==
  /\ selected' = r
  /\ query' = IF r = selected THEN query ELSE r

Toggled(r) == IF r = selected THEN None ELSE r

CloseIf(c) == dialog' = IF c THEN None ELSE dialog

\* What closes with the list after a mutation, if it is still open: the form; the
\* delete; the recreates, unless they could not do all.
Closes(t) == CASE t = Form -> {"create", "edit"}
               [] job[t] = "delete" -> {"delete"}
               [] Tail(todo[t]) = <<"detail">> -> {job[t]}
               [] OTHER -> {}

ShowList(t) == \E v \in ans[t] .. Len(past) : seen' = [r \in Runners |-> v]

\* setRunners: the answer of a list, and of the one after a failed mutation.  With
\* it comes the health that follows it, but for the mount.  A delete that is done
\* clears the selection if it is of the runner.
ListAnswers(t) ==
  /\ Awaits(t, {"list", "recover"})
  /\ ShowList(t) /\ spinning' = FALSE
  /\ UNCHANGED <<past, err, events>>
  /\ CloseIf(Awaits(t, {"list"}) /\ dialog \in Closes(t))
  /\ IF job[t] = "delete" /\ Awaits(t, {"list"}) /\ selected = arg[t]
       THEN ShowSelection(None)
       ELSE UNCHANGED view
  /\ UNCHANGED polling
  /\ Advance(t) /\ Release(t)

\* Slip: any answer takes the error away.
DetailAnswersClearing(t) ==
  /\ Awaits(t, {"detail"})
  /\ \E v \in ans[t] .. Len(past) : past[v][arg[t]] # "none" /\ seen' = [seen EXCEPT ![arg[t]] = v]
  /\ err' = None
  /\ UNCHANGED <<view, past, spinning, dialog, polling, events>>
  /\ Advance(t) /\ Release(t)

\* upsertRunner: also of a runner that is not listed.
DetailAnswers(t) ==
  /\ Awaits(t, {"detail"})
  /\ \E v \in ans[t] .. Len(past) : past[v][arg[t]] # "none" /\ seen' = [seen EXCEPT ![arg[t]] = v]
  /\ UNCHANGED <<view, past, err, spinning, dialog, polling, events>>
  /\ Advance(t) /\ Release(t)

\* mutateRunner, after the mutation: the list is sent.
MutationAnswers(t) ==
  /\ Awaits(t, {"mutate"}) /\ ans[t] \notin {Unserved, Failed}
  /\ err' = None /\ spinning' = TRUE
  /\ Goes(t, IF ans[t] = Partly THEN <<"list">> ELSE Tail(todo[t]))
  /\ UNCHANGED <<view, past, seen, action, dialog, polling, events>>

\* The request in flight fails: the server has refused it, or a read is lost.
Broken(t, kinds) ==
  /\ Awaits(t, kinds)
  /\ Head(todo[t]) = "mutate" => ans[t] = Failed
  /\ UNCHANGED events

\* The catch of mutateRunner: also for the list that follows, and for the health
\* after that list has been applied.
MutationFails(t) ==
  /\ t \notin Background /\ Broken(t, {"mutate", "list"})
  /\ err' = "mutation" /\ spinning' = TRUE
  /\ UNCHANGED seen \/ (Awaits(t, {"list"}) /\ ShowList(t))
  /\ Goes(t, <<"recover">>)
  /\ UNCHANGED <<view, past, action, dialog, polling>>

\* Slip: the end of the loading is not in a finally.
ListFailsLoading(t) ==
  /\ Broken(t, IF t \in Background THEN {"list"} ELSE {"recover"})
  /\ err' = "list"
  /\ UNCHANGED <<past, seen, spinning, dialog, view, polling>>
  /\ Goes(t, IF job[t] = "mount" THEN <<"health">> ELSE <<>>) /\ Release(t)

\* A list that no mutation waits for, or the one after a failed mutation.
ListFails(t) ==
  /\ Broken(t, IF t \in Background THEN {"list"} ELSE {"recover"})
  /\ err' = "list" /\ spinning' = FALSE
  /\ UNCHANGED <<past, seen, dialog, view, polling>>
  /\ Goes(t, IF job[t] = "mount" THEN <<"health">> ELSE <<>>) /\ Release(t)

\* A detail that fails ends its chain without a word, and so does the health of a
\* poll.
DetailFails(t) ==
  /\ Broken(t, {"detail"})
  /\ Goes(t, <<>>) /\ Release(t)
  /\ UNCHANGED <<past, seen, err, spinning, dialog, view, polling>>

\* Slip: the interval is not begun when the address names no runner.
MountedIdle(t) ==
  /\ Awaits(t, {"health"})
  /\ UNCHANGED <<past, seen, err, spinning, action, dialog, events>>
  /\ IF query # None /\ Row(query) # "none"
       THEN ShowSelection(Toggled(query)) /\ polling' = TRUE
       ELSE UNCHANGED <<view, polling>>
  /\ Goes(t, IF selected' # selected THEN Follow(<<"detail">>) ELSE <<>>)

\* The end of onMounted, when the health too is there or has failed: what the
\* address names is selected, or deselected, if it is listed; the interval begins.
Mounted(t) ==
  /\ Awaits(t, {"health"})
  /\ UNCHANGED <<past, seen, err, spinning, action, dialog, events>>
  /\ IF query # None /\ Row(query) # "none"
       THEN ShowSelection(Toggled(query))
       ELSE UNCHANGED view
  /\ polling' = TRUE
  /\ Goes(t, IF selected' # selected THEN Follow(<<"detail">>) ELSE <<>>)

Answers(t) == ListAnswers(t) \/ DetailAnswers(t) \/ MutationAnswers(t) \/ Mounted(t)
Fails(t) == MutationFails(t) \/ ListFails(t) \/ DetailFails(t)

--------------------------------------------------------------------------------
(* The user.                                                                  *)

Poll == <<"list", "detail">>

\* A chain that nobody waits for takes the first slot that is free.
StartBackground(chain, r) ==
  \E b \in Background : /\ \A c \in Background : Running(c) \/ b <= c
                        /\ Start(b, "background", r, chain)

\* The interval: it does not ask whether the chain before has ended.
Tick ==
  /\ polling
  /\ StartBackground(Poll, None)
  /\ spinning' = TRUE
  /\ UNCHANGED <<past, seen, err, action, dialog, view, polling, events>>

\* The button is dead to the pointer while anything loads, and not to the keyboard.
Refresh ==
  /\ dialog = None
  /\ StartBackground(Poll, None)
  /\ spinning' = TRUE
  /\ UNCHANGED <<past, seen, err, action, dialog, view, polling, events>>

\* A click on a row, or on the details of a small screen; the watcher of the
\* selection asks for the detail.
Select(r) ==
  /\ dialog = None /\ Row(r) # "none"
  /\ ShowSelection(Toggled(r))
  /\ UNCHANGED <<past, seen, err, spinning, action, dialog, polling, events>>
  /\ IF Follow(<<"detail">>) = <<>> THEN UNCHANGED requests
                                    ELSE StartBackground(<<"detail">>, r)

Selectable == selected # None /\ Row(selected) # "none"

\* RunnerActions: some of start, stop and restart.
LifecycleButtons == action = None /\ Selectable /\ Row(selected) # "missing"

\* RunnerDetailsHeader, and the button that recreates.
ChangeButtons == action = None /\ Selectable /\ Row(selected) # "busy"

\* runAction.
RunAction ==
  /\ dialog = None /\ LifecycleButtons
  /\ Start(Action, "lifecycle", selected, <<"mutate", "list", "detail">>)
  /\ action' = "lifecycle" /\ Event
  /\ UNCHANGED <<past, seen, err, spinning, dialog, view, polling>>

\* openEdit, openDelete, openRecreate, openRecreateMissing, and the button for
\* a new runner, which only the first list holds back.
OpenDialog(d) ==
  /\ dialog = None
  /\ CASE d = "create" -> \A b \in Background : job[b] = "mount" => Awaits(b, {"health"})
       [] d = "recreate-missing" -> action = None /\ \E r \in Runners : Row(r) = "missing"
       [] OTHER -> ChangeButtons
  /\ dialog' = d
  /\ UNCHANGED <<past, seen, requests, err, spinning, action, view, polling, events>>

\* Cancel, Escape or a click outside.  Only a form that is being submitted stays.
Dismiss ==
  /\ dialog # None
  /\ dialog \in {"create", "edit"} => ~ Running(Form)
  /\ CloseIf(TRUE)
  /\ UNCHANGED <<past, seen, requests, err, spinning, action, view, polling, events>>

\* confirmRecreate, confirmRecreateMissing, confirmDelete.
Confirm ==
  /\ dialog \in Confirmed /\ action = None
  /\ dialog = "recreate-missing" \/ Selectable
  /\ Start(Action, dialog, selected,
           IF dialog = "delete" THEN <<"mutate", "list">>
                                ELSE <<"mutate", "list", "detail">>)
  /\ action' = dialog /\ Event
  /\ UNCHANGED <<past, seen, err, spinning, dialog, view, polling>>

\* submit of the two forms.
Submit ==
  /\ dialog \in {"create", "edit"}
  /\ dialog = "edit" => Selectable
  /\ Start(Form, dialog, IF dialog = "edit" THEN selected ELSE None, <<"mutate", "list">>)
  /\ Event
  /\ UNCHANGED <<past, seen, err, spinning, action, dialog, view, polling>>

CloseError ==
  /\ err # None /\ dialog = None
  /\ err' = None
  /\ UNCHANGED <<past, seen, requests, spinning, action, dialog, view, polling, events>>

User ==
  \/ Refresh \/ Dismiss \/ RunAction \/ Confirm \/ Submit \/ CloseError
  \/ \E r \in Runners : Select(r)
  \/ \E d \in Confirmed \cup {"create", "edit"} : OpenDialog(d)

Next ==
  \/ User \/ Tick \/ FleetChanges
  \/ \E t \in Tasks :
       ServeMutation(t) \/ MutationLost(t) \/ Answers(t) \/ Fails(t)

\* Every request is answered and every answer is applied, and a list that is asked
\* for again and again does not fail each time.  The interval goes on: strong
\* fairness, as only the bound on chains can make a tick wait.
Fairness ==
  /\ SF_vars(Tick)
  /\ \A t \in Background : SF_vars(ListAnswers(t))
  /\ \A t \in Tasks : WF_vars(ServeMutation(t) \/ Answers(t) \/ Fails(t))

Spec == Init /\ [][Next]_vars
FairSpec == Spec /\ Fairness

--------------------------------------------------------------------------------
TypeOK ==
  /\ past \in Seq([Runners -> Kinds]) /\ Len(past) > 0
  /\ seen \in [Runners -> 1 .. Len(past)]
  /\ todo \in [Tasks -> Seq(Requests)]
  /\ ans \in [Tasks -> {Partly, Failed, Unserved} \cup (1 .. Len(past))]
  /\ job \in [Tasks -> Jobs] /\ arg \in [Tasks -> Runners \cup {None}]
  /\ err \in {None, "list", "mutation"} /\ spinning \in BOOLEAN
  /\ action \in Confirmed \cup {"lifecycle", None}
  /\ dialog \in Confirmed \cup {"create", "edit", None}
  /\ selected \in Runners \cup {None} /\ query \in Runners \cup {None}
  /\ polling \in BOOLEAN /\ events \in Nat

\* index.js:83 - whatever chains overlap and fail, the page only shows that it
\* loads while a list is on its way.
SpinnerHonest ==
  spinning => \E t \in Tasks : Awaits(t, {"list", "recover"})

\* What is left of the chain of each task, and what it can be for.
Chains(t) ==
  {<<>>} \cup
    CASE t = Action -> {<<"mutate", "list", "detail">>, <<"mutate", "list">>, <<"list", "detail">>,
                        <<"list">>, <<"detail">>, <<"recover">>}
      [] t = Form -> {<<"mutate", "list">>, <<"list">>, <<"recover">>}
      [] OTHER -> {<<"list", "health">>, <<"health">>, <<"list", "detail">>, <<"detail">>}

Purposes(t) == CASE t = Action -> Confirmed \cup {"lifecycle"}
                 [] t = Form -> {"create", "edit"}
                 [] OTHER -> {"background", "mount"}

ChainsKept ==
  \A t \in Tasks : /\ todo[t] \in Chains(t)
                   /\ Running(t) => job[t] \in Purposes(t)
                   /\ Awaits(t, Requests \ {"mutate"}) => ans[t] > 0
                   /\ Awaits(t, {"detail"}) => arg[t] \in Runners

\* The address names what is selected, and under the dialog of a runner nothing
\* else than that runner.
AddressKept == selected # None \/ dialog \in Targeted => query = selected

\* index.js:73 - the chains, the address and the spinner.
PageInv == TypeOK /\ ChainsKept /\ AddressKept /\ SpinnerHonest

\* RunnersPage.vue:396 - the gate of the actions is closed exactly while an action
\* runs: no end, good or bad, leaves the buttons dead or frees them early.
GateHonest == action = (IF Running(Action) THEN job[Action] ELSE None)

\* RunnersPage.vue:567 - a delete, recreate or edit is for the runner its dialog
\* was opened for, or for none: no late answer, poll or end of the mount puts
\* another one under an open dialog.
DialogTarget ==
  [][dialog' = dialog /\ dialog \in Targeted => selected' \in {selected, None}]_vars

\* index.js:4 - a mutation's error stays when other chains succeed; only a newer
\* mutation, a list that fails or the user takes it away.
MutationErrorStays ==
  [][err = "mutation" /\ err' = None =>
       CloseError \/ \E t \in {Action, Form} : MutationAnswers(t)]_vars

\* RunnersPage.vue:596 - once the fleet changes no more, the page comes to show
\* it, whatever stale answers are applied on the way.
Converges == <>[](Rows = Now)

\* RunnersPage.vue:517 - every action ends and gives the buttons back.
ActionsEnd == (action # None) ~> (action = None)
================================================================================
