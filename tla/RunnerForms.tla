----------------------------- MODULE RunnerForms ------------------------------
(******************************************************************************)
(* The forms that create and edit a runner (CreateRunnerDialog.vue,           *)
(* EditRunnerDialog.vue, RunnerConfigFields.vue), with one runner at the      *)
(* server, other clients that change it, and a page that polls it.            *)
(*                                                                            *)
(* The edit form asks whether a submit is under way, the create form does     *)
(* not: its button only shows that it is loading, and the keyboard can press  *)
(* it again.  Creates can so overlap; overlap remembers that they do, and     *)
(* the properties say what holds of a create only while they do not.          *)
(******************************************************************************)
EXTENDS RunnerConfig

CONSTANTS
  None,
  Entries,      \* field -> what is typed or chosen there
  Records,      \* what other clients make of the runner
  Requests,     \* requests that can be in flight at once
  MaxEdits,     \* fields that are changed, over all forms
  MaxFaults     \* changes by other clients, requests that fail, and creates that are
                \* sent beside another, together

Fields == DOMAIN NewForm
CacheTypes == {"bind", "volume"}

ASSUME NoneAssumption == None \notin {"create", "edit", "save", "apply", "done", "failed"}
\* What the inputs give: chips, a number, lines, paths, a switch, and one of the two
\* types of a cache that are offered.
Inputs ==
  [labels |-> Seq(STRING), limit |-> Int, env |-> Seq(Lines), host |-> Paths, target |-> Paths,
   cacheEnabled |-> BOOLEAN, cacheType |-> CacheTypes]
ASSUME EntriesAssumption ==
  /\ DOMAIN Entries \subseteq Fields
  /\ \A f \in DOMAIN Entries \cap DOMAIN Inputs : \A v \in Entries[f] : v \in Inputs[f]
\* The server validates and normalises what it stores, for every client.
ASSUME RecordsAssumption == \A rec \in Records : AsStored(rec)
ASSUME BoundAssumption == MaxEdits \in Nat /\ MaxFaults \in Nat

VARIABLES
  stored,       \* the record at the server, as its views show it, or None
  row,          \* the record that the page shows (props.runner), or None
  dialog,       \* "create", "edit" or None
  loaded,       \* history: the record that the edit form was loaded with
  form,
  named,        \* name and URL are filled in
  apply, token, \* the toggle of an edit; a token is typed
  pat,          \* githubPatConfigured
  creating,     \* submitting of the create form
  acting,       \* submittingAction of the edit form: None, "save" or "apply"
  flights,      \* request -> kind (None when it is not in use), form and token it was
                \* made of, and what the server did (reply: None, "done" or "failed")
  overlap,      \* history: has a create been sent beside one that is still in flight?
  error,        \* the alert of the form
  edits, faults

inputs == <<form, named, apply, token>>
request == <<creating, acting, flights, overlap>>
bounds == <<edits, faults>>
Fault == faults < MaxFaults /\ faults' = faults + 1 /\ UNCHANGED edits
vars == <<stored, row, dialog, loaded, inputs, pat, request, error, bounds>>

\* A request that is not in use.
Landed == [kind |-> None, form |-> NewForm, token |-> FALSE, reply |-> None]

Init ==
  /\ stored \in Records \cup {None} /\ row = stored
  /\ dialog = None /\ loaded = None
  /\ form = NewForm /\ named = FALSE /\ apply = FALSE /\ token = FALSE
  /\ pat \in BOOLEAN
  /\ creating = FALSE /\ acting = None /\ overlap = FALSE
  /\ flights = [q \in Requests |-> Landed]
  /\ error = FALSE
  /\ edits = 0 /\ faults = 0

--------------------------------------------------------------------------------
(* Filling in.  The fields are disabled while the form is submitted.          *)

Idle == IF dialog = "create" THEN ~ creating ELSE acting = None

\* The watchers of the two dialogs: a form has its fields set when it is opened.
\* What a closed one still holds is lost then, and is lost here when it closes.
Emptied == form' = NewForm /\ named' = FALSE /\ apply' = FALSE /\ token' = FALSE
Shut == dialog' = None /\ loaded' = None /\ error' = FALSE /\ Emptied

OpenCreate ==
  /\ dialog = None
  /\ dialog' = "create" /\ Emptied
  /\ UNCHANGED <<stored, row, loaded, pat, request, error, bounds>>

OpenEdit ==
  /\ dialog = None /\ row # None
  /\ dialog' = "edit" /\ form' = FormOf(row) /\ loaded' = row
  /\ UNCHANGED <<stored, row, named, apply, token, pat, request, error, bounds>>

\* Cancel, Escape, the cross or a click outside: not while it is submitted.
Close ==
  /\ dialog # None /\ Idle /\ Shut
  /\ UNCHANGED <<stored, row, pat, request, bounds>>

\* The fields of a cache are there when one is enabled, for its type.
Offered(f) ==
  /\ f \in {"cacheType", "readOnly"} => form.cacheEnabled
  /\ f \in {"volume", "target"} => form.cacheEnabled /\ form.cacheType = "volume"
  /\ f = "host" => form.cacheEnabled /\ form.cacheType = "bind"

\* Slip: the fields are not disabled.
TypeAlways(f) ==
  /\ dialog # None /\ Offered(f) /\ edits < MaxEdits
  /\ \E v \in Entries[f] \ {form[f]} : form' = [form EXCEPT ![f] = v]
  /\ edits' = edits + 1
  /\ UNCHANGED <<stored, row, dialog, loaded, named, apply, token, pat, request, error, faults>>

Type(f) ==
  /\ dialog # None /\ Idle /\ Offered(f) /\ edits < MaxEdits
  /\ \E v \in Entries[f] \ {form[f]} : form' = [form EXCEPT ![f] = v]
  /\ edits' = edits + 1
  /\ UNCHANGED <<stored, row, dialog, loaded, named, apply, token, pat, request, error, faults>>

TypeName ==
  /\ dialog = "create" /\ Idle /\ ~ named
  /\ named' = TRUE
  /\ UNCHANGED <<stored, row, dialog, loaded, form, apply, token, pat, request, error, bounds>>

\* The field for the token is there in an edit that applies.
TypeToken ==
  /\ dialog = "create" \/ (dialog = "edit" /\ apply)
  /\ Idle /\ token' = ~ token
  /\ UNCHANGED <<stored, row, dialog, loaded, form, named, apply, pat, request, error, bounds>>

ToggleApply ==
  /\ dialog = "edit" /\ Idle
  /\ apply' = ~ apply
  /\ UNCHANGED <<stored, row, dialog, loaded, form, named, token, pat, request, error, bounds>>

--------------------------------------------------------------------------------
(* Submitting.                                                                *)

Sent(q) == flights[q].kind # None

\* A request that is made of the form: one that is not in use, no matter which.
Launch(kind) ==
  /\ \E q \in Requests : ~ Sent(q)
  /\ flights' = [flights EXCEPT ![CHOOSE q \in Requests : ~ Sent(q)] =
                   [kind |-> kind, form |-> form, token |-> token /\ kind # "save", reply |-> None]]

\* submit of CreateRunnerDialog, also while it is loading.  The rules ask for a token
\* unless there is a PAT; an environment that does not parse ends the loading.
SubmitCreate ==
  /\ dialog = "create"
  /\ \/ /\ ~ (named /\ (token \/ pat))
        /\ error' = TRUE /\ UNCHANGED <<creating, flights, overlap, bounds>>
     \/ /\ named /\ (token \/ pat) /\ Parses(form.env)
        /\ Launch("create")
        /\ creating' = TRUE /\ error' = FALSE
        /\ IF \E q \in Requests : flights[q].kind = "create"
             THEN overlap' = TRUE /\ Fault ELSE UNCHANGED <<overlap, bounds>>
     \/ /\ named /\ (token \/ pat) /\ ~ Parses(form.env)
        /\ creating' = FALSE /\ error' = TRUE /\ UNCHANGED <<flights, overlap, bounds>>
  /\ UNCHANGED <<stored, row, dialog, loaded, inputs, pat, acting>>

\* submit of EditRunnerDialog, and Enter; nothing happens when the runner is gone.
SubmitEdit(force) ==
  /\ dialog = "edit" /\ acting = None
  /\ \/ /\ row = None \/ (~ force /\ apply)
        /\ error' = FALSE /\ UNCHANGED <<acting, flights>>
     \/ /\ row # None /\ (force \/ ~ apply) /\ Parses(form.env)
        /\ Launch(IF force THEN "apply" ELSE "save")
        /\ acting' = (IF force THEN "apply" ELSE "save") /\ error' = FALSE
     \/ /\ row # None /\ (force \/ ~ apply) /\ ~ Parses(form.env)
        /\ error' = TRUE /\ UNCHANGED <<acting, flights>>
  /\ UNCHANGED <<stored, row, dialog, loaded, inputs, pat, creating, overlap, bounds>>

Waiting(q) == Sent(q) /\ flights[q].reply = None
Replied(q, reply) == Sent(q) /\ flights[q].reply = reply
Reply(q, reply) == flights' = [flights EXCEPT ![q] = [flights[q] EXCEPT !.reply = reply]]
Payload(q) == buildRuntimePayload(flights[q].form)

\* A name is taken, or there is nothing to edit; then the configuration is asked.
Possible(q) == (flights[q].kind = "create") = (stored = None)

Serve(q) ==
  /\ Waiting(q)
  /\ IF Possible(q) /\ Accepts(Payload(q))
       THEN stored' = Stored(Payload(q)) /\ Reply(q, "done")
       ELSE UNCHANGED stored /\ Reply(q, "failed")
  /\ UNCHANGED <<row, dialog, loaded, inputs, pat, creating, acting, overlap, error, bounds>>

\* GitHub or Docker fails, or the answer is lost.
ServeFails(q) ==
  /\ Waiting(q) /\ Fault
  /\ Reply(q, "failed")
  /\ \/ UNCHANGED stored
     \/ Possible(q) /\ Accepts(Payload(q)) /\ stored' = Stored(Payload(q))
  /\ UNCHANGED <<row, dialog, loaded, inputs, pat, creating, acting, overlap, error>>

DialogOf(kind) == IF kind = "create" THEN "create" ELSE "edit"

\* The finally of submit, which for a create ends the loading of any other too.
EndSubmit(q) ==
  /\ flights' = [flights EXCEPT ![q] = Landed]
  /\ IF flights[q].kind = "create"
       THEN /\ creating' = FALSE /\ UNCHANGED acting
            /\ overlap' = (overlap /\ \E o \in Requests \ {q} : flights[o].kind = "create")
       ELSE acting' = None /\ UNCHANGED <<creating, overlap>>

\* The dialog that sent the request closes if it is open; which it can be again.
ShutOf(q) ==
  IF dialog = DialogOf(flights[q].kind) THEN Shut
  ELSE UNCHANGED <<dialog, loaded, error, inputs>>

\* Slip: the dialog closes in the finally.
AnswerClosing(q) ==
  /\ Replied(q, "done") \/ Replied(q, "failed")
  /\ EndSubmit(q) /\ ShutOf(q)
  /\ row' = stored
  /\ UNCHANGED <<stored, pat, bounds>>

\* mutateRunner refreshes the list, and submit closes the dialog.
Answer(q) ==
  /\ Replied(q, "done") /\ EndSubmit(q) /\ ShutOf(q)
  /\ row' = stored
  /\ UNCHANGED <<stored, pat, bounds>>

ErrorOf(q) ==
  IF dialog = DialogOf(flights[q].kind) THEN error' = TRUE ELSE UNCHANGED error

\* Slip: there is no finally.
AnswerFailsBusy(q) ==
  /\ Replied(q, "failed")
  /\ flights' = [flights EXCEPT ![q] = Landed] /\ UNCHANGED <<creating, acting, overlap>>
  /\ ErrorOf(q)
  /\ row' = stored
  /\ UNCHANGED <<stored, dialog, loaded, inputs, pat, bounds>>

\* The catch of submit: after a failed request, or a list that fails after it.
AnswerFails(q) ==
  /\ \/ Replied(q, "failed") /\ UNCHANGED bounds
     \/ Replied(q, "done") /\ Fault
  /\ EndSubmit(q) /\ ErrorOf(q)
  /\ row' \in {row, stored}
  /\ UNCHANGED <<stored, dialog, loaded, inputs, pat>>

--------------------------------------------------------------------------------
(* The rest of the world.                                                     *)

Elsewhere ==
  /\ Fault
  /\ stored' \in (Records \cup {None}) \ {stored}
  /\ UNCHANGED <<row, dialog, loaded, inputs, pat, request, error>>

Poll ==
  /\ row' = stored /\ row # stored
  /\ UNCHANGED <<stored, dialog, loaded, inputs, pat, request, error, bounds>>

User ==
  \/ OpenCreate \/ OpenEdit \/ Close \/ TypeName \/ TypeToken \/ ToggleApply
  \/ SubmitCreate
  \/ \E f \in DOMAIN Entries : Type(f)
  \/ \E force \in BOOLEAN : SubmitEdit(force)

Server == \E q \in Requests : Serve(q) \/ ServeFails(q) \/ Answer(q) \/ AnswerFails(q)

Next == User \/ Server \/ Elsewhere \/ Poll

\* Every request is served and its answer applied.
Fairness ==
  \A q \in Requests : WF_vars(Serve(q)) /\ WF_vars(Answer(q) \/ AnswerFails(q))

Spec == Init /\ [][Next]_vars
FairSpec == Spec /\ Fairness

--------------------------------------------------------------------------------
\* What is stored of a form is what was typed in it.
StoredAsTyped(typed) ==
  LET payload == buildRuntimePayload(typed)
      rec == Stored(payload)
      path == PathClean(IF typed.cacheType = "bind" THEN typed.host
                        ELSE IF typed.target = NoPath THEN CachePath ELSE typed.target)
  IN  /\ rec.cache.enabled = typed.cacheEnabled
      /\ typed.cacheEnabled => (Accepts(payload) <=> MountPath(path))
      /\ typed.cacheEnabled /\ MountPath(path) =>
           /\ rec.cache.target = path
           /\ typed.cacheType = "bind" => rec.cache.host = path
      /\ \A k \in Keys :
           LET lines == {i \in DOMAIN typed.env :
                           typed.env[i].kind = "pair" /\ typed.env[i].key = k}
           IN  IF lines = {} THEN rec.env[k] = Unset
               ELSE \E i \in lines : /\ rec.env[k] = Trimmed[typed.env[i].value]
                                     /\ \A j \in lines : j <= i

\* runnerConfig.js:46 - the server stores what was typed, or refuses it for what
\* was typed: the cache at the path that Go would make of the text, a bind at the
\* same path on both sides, and of the environment the last line of each name.
SavedAsTyped == \A q \in Requests : Waiting(q) => StoredAsTyped(flights[q].form)

\* runnerConfig.js:78 - an edit in which nothing is changed saves what it was
\* loaded with: no field is lost between the record and the form, and of the values
\* of the environment no more than the spaces at their ends.
UntouchedSaveKeeps ==
  dialog = "edit" /\ form = FormOf(loaded) =>
    /\ Parses(form.env) /\ Accepts(buildRuntimePayload(form))
    /\ Stored(buildRuntimePayload(form)) =
         [loaded EXCEPT !.env =
            [k \in Keys |-> IF @[k] = Unset THEN Unset ELSE Trimmed[@[k]]]]

\* EditRunnerDialog.vue:184, CreateRunnerDialog.vue:40 - what is in flight is what the
\* form still holds, under disabled fields: of an edit always, of a create while no
\* other is in flight with it.  A save carries no token; an apply has the one that the
\* form holds, also when the toggle has hidden it since it was typed.
SentAsHeld ==
  \A q \in Requests : Sent(q) =>
    LET sent == flights[q]
    IN  /\ sent.kind \in {"save", "apply"} \/ ~ overlap =>
             /\ dialog = DialogOf(sent.kind) /\ ~ Idle
             /\ sent.form = form
             /\ sent.kind # "save" => sent.token = token
        /\ sent.kind \in {"save", "apply"} => acting = sent.kind
        /\ sent.kind = "save" => ~ apply /\ ~ sent.token
        /\ sent.kind = "create" /\ ~ overlap => named /\ (token \/ pat)

\* runnerConfig.js:108 - a form warns of a volume that siblings do not see exactly
\* when the server will, and of the same path.
WarnsAlike ==
  dialog # None /\ Parses(form.env) /\ Accepts(buildRuntimePayload(form)) =>
    cacheSiblingPathWarning(form) = ServerWarning(Stored(buildRuntimePayload(form)))

\* CreateRunnerDialog.vue:226 - an answer closes the form that waits for it only when the
\* server has done what was asked; else the form stays as it is, with an error.  (It
\* also stays, with the error, when the list after a mutation that was done fails.)  So
\* it is for every edit, and for a create while no other is in flight with it.
ClosesOnlyWhenDone ==
  [][\A q \in Requests :
       /\ Sent(q) /\ ~ Sent(q)'
       /\ flights[q].kind = "create" => ~ overlap
       => \/ dialog' = None /\ flights[q].reply = "done"
          \/ dialog' = dialog /\ UNCHANGED inputs /\ error']_vars

\* CreateRunnerDialog.vue:229 - every submit ends, also among creates that overlap, and
\* the form can be closed.
SubmitsEnd == (creating ~> ~ creating) /\ (acting # None ~> acting = None)
================================================================================
