------------------------------ MODULE LogDialog -------------------------------
(******************************************************************************)
(* The dialog with the container log of a runner (RunnerLogsDialog.vue).      *)
(* Follow on: a WebSocket that subscribes to the log and is opened again when *)
(* it fails.  Follow off: one snapshot over REST.  streamLogs is asynchronous *)
(* and nothing stops a call that is under way when the next one begins; what  *)
(* runs between two awaits is one step here.  A slot stands for one call of   *)
(* streamLogs and for the WebSocket it opens.                                 *)
(******************************************************************************)
EXTENDS Integers, FiniteSets

CONSTANTS
  Runners,
  None,
  MaxStreams,   \* calls of streamLogs and sockets that exist at once
  MaxActs,      \* what the user does
  MaxFaults     \* failures, and polls that change the list

ASSUME NoneAssumption == None \notin Runners /\ None \notin Nat
ASSUME BoundAssumption == MaxStreams \in Nat /\ MaxActs \in Nat /\ MaxFaults \in Nat

Slots == 1 .. MaxStreams
Phases == {"free",
           "get",          \* ensureRunner waits for the runner
           "fetch",        \* loadSnapshot waits for the log
           "connecting",   \* the WebSocket is not open yet
           "live",         \* it is open and subscribed, the server sends lines
           "mute",         \* it is open and subscribed, the server has no more
           "idle"}         \* it is open and never subscribed

VARIABLES
  open, rid, follow,    \* modelValue, runnerId, the switch
  listed,               \* the runners in the store
  at, of,               \* slot -> phase, the runner it is about
  socket, timer,        \* the current socket, reconnectTimer
  connecting, error,    \* the spinner, the alert
  shown,                \* the lines: live or snapshot, and of which runner
  overtaken,            \* history: a new call or a close met a call that still waited
  acts, faults          \* bounds

props == <<open, rid, follow>>
streams == <<at, of, socket, timer>>
display == <<connecting, error, shown>>
bounds == <<acts, faults>>
vars == <<props, listed, streams, display, overtaken, bounds>>

Init ==
  /\ open = FALSE /\ rid = None /\ follow = TRUE
  /\ listed = Runners
  /\ at = [s \in Slots |-> "free"] /\ of = [s \in Slots |-> None]
  /\ socket = None /\ timer = FALSE
  /\ connecting = FALSE /\ error = FALSE /\ shown = {}
  /\ overtaken = FALSE
  /\ acts = 0 /\ faults = 0

Waiting(s) == at[s] \in {"get", "fetch"}
Act == acts < MaxActs /\ acts' = acts + 1 /\ UNCHANGED faults
Fault == faults < MaxFaults /\ faults' = faults + 1 /\ UNCHANGED acts

--------------------------------------------------------------------------------
(* streamLogs, up to its first wait.                                          *)

\* Slip: the socket is forgotten and stays open.
StoppedOpen == at

\* stopStream closes the socket that is known.
Stopped == [s \in Slots |-> IF s = socket THEN "free" ELSE at[s]]

Overtake == overtaken' = (overtaken \/ \E s \in Slots : Waiting(s))

\* A call takes the lowest slot that is free.
Lowest(S) == /\ \A s \in S : Stopped[s] = "free"
             /\ \A t \in Slots \ S : Stopped[t] = "free" => \A s \in S : s < t

\* What a call waits for first: ensureRunner asks for a runner only if the
\* store does not list it.
First(r, f) == IF r \notin listed THEN "get" ELSE IF f THEN "connecting" ELSE "fetch"

\* Slip: a reconnect that is due stays due.
LaunchKeepingTimer(S, r, f) ==
  /\ Lowest(S)
  /\ at' = [s \in Slots |-> IF s \in S THEN First(r, f) ELSE Stopped[s]]
  /\ of' = [s \in Slots |-> IF s \in S THEN r ELSE of[s]]
  /\ \E s \in S : /\ \A t \in S : t <= s
                  /\ socket' = IF First(r, f) = "connecting" THEN s ELSE None
  /\ connecting' = TRUE
  /\ UNCHANGED timer
  /\ Overtake

\* Calls for runner r in one tick, one for each slot of S: all have stopped the
\* old socket before the first of them opens a new one, and of the new sockets
\* the last one is known.
Launch(S, r, f) ==
  /\ Lowest(S)
  /\ at' = [s \in Slots |-> IF s \in S THEN First(r, f) ELSE Stopped[s]]
  /\ of' = [s \in Slots |-> IF s \in S THEN r ELSE of[s]]
  /\ \E s \in S : /\ \A t \in S : t <= s
                  /\ socket' = IF First(r, f) = "connecting" THEN s ELSE None
  /\ timer' = FALSE /\ connecting' = TRUE
  /\ Overtake

\* Slip: the lines stay.
ClearError == error' = FALSE /\ UNCHANGED shown

\* What a call with clear does first; the one of the timer has no clear.
Clear == error' = FALSE /\ shown' = {}

--------------------------------------------------------------------------------
(* The user.                                                                  *)

\* openLogs of the page: it sets the runner and opens the dialog.  Both watchers
\* fire when both have changed, and each calls streamLogs.
Open(r) ==
  /\ ~ open /\ r \in listed
  /\ open' = TRUE /\ rid' = r
  /\ \E S \in SUBSET Slots : /\ Cardinality(S) = IF r = rid THEN 1 ELSE 2
                             /\ Launch(S, r, follow)
  /\ Clear /\ Act
  /\ UNCHANGED <<follow, listed>>

\* Slip: the stream goes on behind the closed dialog.
CloseOnly ==
  /\ open
  /\ open' = FALSE
  /\ Clear /\ Overtake
  /\ UNCHANGED <<rid, follow, listed, streams, connecting, bounds>>

\* The watcher of modelValue, when the dialog is closed.
Close ==
  /\ open
  /\ open' = FALSE
  /\ at' = Stopped /\ socket' = None /\ timer' = FALSE
  /\ Clear /\ Overtake
  /\ UNCHANGED <<rid, follow, listed, of, connecting, bounds>>

ToggleFollow ==
  /\ open
  /\ follow' = ~ follow
  /\ \E s \in Slots : Launch({s}, rid, ~ follow)
  /\ Clear /\ Act
  /\ UNCHANGED <<open, rid, listed>>

\* The button is dead to the pointer while it connects, and not to the keyboard.
Reconnect ==
  /\ open
  /\ \E s \in Slots : Launch({s}, rid, follow)
  /\ Clear /\ Act
  /\ UNCHANGED <<props, listed>>

ClearLines ==
  /\ open
  /\ shown' = {}
  /\ UNCHANGED <<props, listed, streams, connecting, error, overtaken, bounds>>

--------------------------------------------------------------------------------
(* Timers, answers and messages.                                              *)

\* scheduleReconnect.
Schedule == timer' = (timer \/ (open /\ follow))

TimerFires ==
  /\ timer
  /\ \E s \in Slots : Launch({s}, rid, follow)
  /\ UNCHANGED <<props, listed, error, shown, bounds>>

\* The catch of streamLogs: of the runner, or of the snapshot.
CallFails(s) ==
  /\ Waiting(s)
  /\ at' = [at EXCEPT ![s] = "free"]
  /\ error' = TRUE /\ connecting' = FALSE
  /\ Schedule
  /\ Fault
  /\ UNCHANGED <<props, listed, of, socket, shown, overtaken>>

\* ensureRunner puts the runner into the store; follow and runnerId are read
\* after the wait.
RunnerAnswers(s) ==
  /\ at[s] = "get"
  /\ listed' = listed \cup {of[s]}
  /\ at' = [at EXCEPT ![s] = IF follow THEN "connecting" ELSE "fetch"]
  /\ of' = [of EXCEPT ![s] = rid]
  /\ socket' = IF follow THEN s ELSE socket
  /\ UNCHANGED <<props, timer, display, overtaken, bounds>>

SnapshotAnswers(s) ==
  /\ at[s] = "fetch"
  /\ at' = [at EXCEPT ![s] = "free"]
  /\ shown' = shown \cup {<<"snapshot", of[s]>>}
  /\ connecting' = FALSE
  /\ UNCHANGED <<props, listed, of, socket, timer, error, overtaken, bounds>>

\* onopen subscribes, if this is still the known socket.
SocketOpens(s) ==
  /\ at[s] = "connecting"
  /\ at' = [at EXCEPT ![s] = IF s = socket THEN "live" ELSE "idle"]
  /\ of' = [of EXCEPT ![s] = rid]
  /\ IF s = socket THEN error' = FALSE /\ connecting' = FALSE
                   ELSE UNCHANGED <<error, connecting>>
  /\ UNCHANGED <<props, listed, socket, timer, shown, overtaken, bounds>>

\* Slip: a socket that never opened is not opened again.
SocketFailsForGood(s) ==
  /\ at[s] = "connecting"
  /\ at' = [at EXCEPT ![s] = "free"]
  /\ IF s = socket THEN socket' = None /\ error' = TRUE /\ connecting' = FALSE
                   ELSE UNCHANGED <<socket, error, connecting>>
  /\ Fault
  /\ UNCHANGED <<props, listed, of, timer, shown, overtaken>>

\* onerror and onclose before onopen: the catch and onclose both schedule.
\* The call of a socket that is not known any more never ends.
SocketFails(s) ==
  /\ at[s] = "connecting"
  /\ at' = [at EXCEPT ![s] = "free"]
  /\ IF s = socket
       THEN /\ socket' = None /\ error' = TRUE /\ connecting' = FALSE
            /\ Schedule
       ELSE UNCHANGED <<socket, timer, error, connecting>>
  /\ Fault
  /\ UNCHANGED <<props, listed, of, shown, overtaken>>

\* Slip: the end of the connection is not noticed.
SocketClosesSilently(s) ==
  /\ at[s] \in {"live", "mute", "idle"}
  /\ at' = [at EXCEPT ![s] = "free"]
  /\ socket' = IF s = socket THEN None ELSE socket
  /\ Fault
  /\ UNCHANGED <<props, listed, of, timer, display, overtaken>>

\* onclose of an open socket.
SocketCloses(s) ==
  /\ at[s] \in {"live", "mute", "idle"}
  /\ at' = [at EXCEPT ![s] = "free"]
  /\ socket' = IF s = socket THEN None ELSE socket
  /\ IF s = socket /\ open /\ follow THEN error' = TRUE /\ Schedule
                                     ELSE UNCHANGED <<error, timer>>
  /\ Fault
  /\ UNCHANGED <<props, listed, of, connecting, shown, overtaken>>

\* Slip: onmessage does not ask which socket the line is from.
LineComesAnyway(s) ==
  /\ at[s] = "live"
  /\ shown' = shown \cup {<<"live", of[s]>>}
  /\ UNCHANGED <<props, listed, streams, connecting, error, overtaken, bounds>>

\* onmessage with a line.
LineComes(s) ==
  /\ at[s] = "live"
  /\ shown' = IF s = socket THEN shown \cup {<<"live", of[s]>>} ELSE shown
  /\ UNCHANGED <<props, listed, streams, connecting, error, overtaken, bounds>>

\* The server's stream ends: the client hears of an error, not of an end.
LogEnds(s) ==
  /\ at[s] = "live"
  /\ at' = [at EXCEPT ![s] = "mute"]
  /\ error' \in {error, error \/ s = socket}
  /\ UNCHANGED <<props, listed, of, socket, timer, connecting, shown, overtaken, bounds>>

\* The page's poll, a delete or a create elsewhere.
ListChanges ==
  /\ listed' \in SUBSET Runners
  /\ Fault
  /\ UNCHANGED <<props, streams, display, overtaken>>

User == Close \/ ToggleFollow \/ Reconnect \/ ClearLines \/ \E r \in Runners : Open(r)
Answers(s) == RunnerAnswers(s) \/ SnapshotAnswers(s) \/ SocketOpens(s)
Fails(s) == CallFails(s) \/ SocketFails(s) \/ SocketCloses(s)

Next ==
  \/ User \/ TimerFires \/ ListChanges
  \/ \E s \in Slots : Answers(s) \/ Fails(s) \/ LineComes(s) \/ LogEnds(s)

\* The browser answers every request, and fires every timer.
Fairness == WF_vars(TimerFires) /\ \A s \in Slots : WF_vars(Answers(s))

Spec == Init /\ [][Next]_vars
FairSpec == Spec /\ Fairness

--------------------------------------------------------------------------------
TypeOK ==
  /\ open \in BOOLEAN /\ follow \in BOOLEAN /\ rid \in Runners \cup {None}
  /\ listed \in SUBSET Runners
  /\ at \in [Slots -> Phases] /\ of \in [Slots -> Runners \cup {None}]
  /\ socket \in Slots \cup {None} /\ timer \in BOOLEAN
  /\ connecting \in BOOLEAN /\ error \in BOOLEAN
  /\ shown \subseteq {"live", "snapshot"} \X Runners
  /\ overtaken \in BOOLEAN /\ acts \in Nat /\ faults \in Nat

\* The known socket opens or is subscribed to the runner of the dialog; every
\* call in a slot is for some runner.
SocketCurrent ==
  /\ socket # None => /\ at[socket] \in {"connecting", "live", "mute"}
                      /\ of[socket] = rid
  /\ \A s \in Slots : at[s] # "free" => of[s] # None /\ rid # None
  /\ open => rid # None
  /\ timer => open /\ follow

\* While nothing was overtaken there is one call or one known socket; what else
\* is open was never subscribed.
OneCall ==
  ~ overtaken =>
    /\ \A s \in Slots : at[s] \in {"live", "mute"} => s = socket
    /\ \A s \in Slots : Waiting(s) => open /\ of[s] = rid /\ socket = None
    /\ \A s \in Slots : at[s] = "fetch" => ~ follow
    /\ \A s, t \in Slots : at[s] = "get" /\ Waiting(t) => s = t
    /\ timer => socket = None /\ \A s \in Slots : ~ Waiting(s)
    /\ ~ open => socket = None

\* RunnerLogsDialog.vue:220 - the bookkeeping of streamLogs, connectWS and
\* stopStream: which socket the dialog knows, and what else can be open.
DialogInv == TypeOK /\ SocketCurrent /\ OneCall

\* RunnerLogsDialog.vue:165 - while the dialog follows, there is always a socket,
\* a reconnect that is due, or a call that will lead to one, whatever the order of
\* answers, failures and clicks.  A socket counts also when it is mute: when the server
\* has no more to send but leaves it open (LogEnds), nothing revives the log.
FollowAlive ==
  open /\ follow => socket # None \/ timer \/ \E s \in Slots : at[s] = "get"

\* RunnerLogsDialog.vue:242 - a line that came over a WebSocket is of the runner
\* in the title, whatever sockets of earlier runners are still open.
LiveLinesOfRunner == \A r \in Runners : <<"live", r>> \in shown => r = rid

\* RunnerLogsDialog.vue:217 - so is a snapshot, if no call was overtaken while
\* it waited.
SnapshotOfRunner ==
  ~ overtaken => \A r \in Runners : <<"snapshot", r>> \in shown => r = rid

\* RunnerLogsDialog.vue:175 - if no call was overtaken, the server sends the log
\* once at most, and to a dialog that is open; nothing is due when it is closed.
OneFeed ==
  ~ overtaken => /\ Cardinality({s \in Slots : at[s] = "live"}) <= 1
                 /\ ~ open => ~ timer /\ \A s \in Slots : at[s] # "live"

\* RunnerLogsDialog.vue:170 - if no call was overtaken, a reconnect is due only
\* after the user was told and while no socket is there that it would tear down.
ReconnectWhenDown == ~ overtaken /\ timer => socket = None /\ error

\* RunnerLogsDialog.vue:259 - a dialog that follows is subscribed again in the
\* end, once the network fails no more.
FollowReconnects ==
  (open /\ follow) ~> (~ open \/ ~ follow \/ \E s \in Slots : s = socket /\ at[s] \in {"live", "mute"})
================================================================================
