--------------------------- MODULE LogDialog_proofs ---------------------------
(******************************************************************************)
(* Proofs about the log dialog, for any runners, any number of calls at once  *)
(* and any number of clicks and failures.                                     *)
(******************************************************************************)
EXTENDS LogDialog, FiniteSetTheorems, TLAPS

\* What the steps preserve together: a line is shown by a socket or a call that
\* SocketCurrent and OneCall tie to the runner of the dialog.
Kept == /\ DialogInv
        /\ FollowAlive /\ LiveLinesOfRunner /\ SnapshotOfRunner /\ ReconnectWhenDown

\* streamLogs, before its first wait, brings streams and history into a state
\* that fits runner r and switch f, whatever went before.
LEMMA LaunchKeeps ==
  ASSUME Kept, NEW S \in SUBSET Slots, NEW r \in Runners, NEW f \in BOOLEAN,
         Launch(S, r, f), rid' = r, follow' = f, open', listed' = listed,
         Cardinality(S) = 1 \/ r \in listed
  PROVE  /\ at' \in [Slots -> Phases] /\ of' \in [Slots -> Runners \cup {None}]
         /\ socket' \in Slots \cup {None} /\ timer' \in BOOLEAN
         /\ connecting' \in BOOLEAN /\ overtaken' \in BOOLEAN
         /\ SocketCurrent' /\ OneCall'
         /\ (open' /\ follow' => socket' # None \/ \E s \in Slots : at'[s] = "get")
         /\ ~ timer'
         /\ overtaken => overtaken'
<1> USE NoneAssumption DEF Slots
<1>0. PICK s \in S : /\ \A t \in S : t <= s
                     /\ socket' = IF First(r, f) = "connecting" THEN s ELSE None
                     /\ timer' = FALSE /\ connecting' = TRUE
  BY DEF Launch
<1>1. First(r, f) \in {"get", "connecting", "fetch"}
  BY DEF First
<1>2. /\ at' = [t \in Slots |-> IF t \in S THEN First(r, f) ELSE Stopped[t]]
      /\ of' = [t \in Slots |-> IF t \in S THEN r ELSE of[t]]
      /\ overtaken' = (overtaken \/ \E t \in Slots : Waiting(t))
  BY DEF Launch, Overtake
<1>3. \A t \in Slots : Stopped[t] = "free" \/ (Stopped[t] = at[t] /\ t # socket)
  BY DEF Stopped
<1>4. at' \in [Slots -> Phases] /\ of' \in [Slots -> Runners \cup {None}]
  BY <1>1, <1>2, <1>3 DEF Kept, DialogInv, TypeOK, Phases
<1>5. \A t \in Slots : t # None
  BY DEF Slots
<1>6. SocketCurrent'
  BY <1>0, <1>1, <1>2, <1>3, <1>5 DEF Kept, DialogInv, TypeOK, SocketCurrent
<1>7. First(r, f) = "get" => \E t \in Slots : S = {t}
  <2>1. IsFiniteSet(S)
    <3>1. IsFiniteSet(1 .. MaxStreams)
      BY FS_Interval, BoundAssumption, 1 \in Int, MaxStreams \in Int
    <3> QED BY <3>1, FS_Subset
  <2>2. Cardinality(S) = 1 => \E t \in Slots : S = {t}
    BY <2>1, FS_Singleton
  <2> QED BY <2>2 DEF First
<1>8. OneCall'
  <2>1. SUFFICES ASSUME ~ overtaken' PROVE OneCall'
    BY DEF OneCall
  <2>2. ~ overtaken /\ \A t \in Slots : ~ Waiting(t)
    BY <2>1, <1>2
  <2>3. \A t \in Slots \ S : ~ Waiting(t)' /\ at'[t] # "live" /\ at'[t] # "mute"
    BY <2>2, <1>2, <1>3 DEF Waiting, Kept, DialogInv, OneCall
  <2>4. \A t \in S : at'[t] = First(r, f) /\ of'[t] = r
    BY <1>2
  <2> QED
    BY <2>3, <2>4, <1>0, <1>1, <1>7, <2>1 DEF OneCall, Waiting, First
<1>9. f => socket' # None \/ \E t \in Slots : at'[t] = "get"
  BY <1>0, <1>2, <1>5 DEF First
<1> QED
  BY <1>0, <1>2, <1>4, <1>6, <1>8, <1>9 DEF Kept, DialogInv, TypeOK

LEMMA InitKept == Init => Kept
<1> SUFFICES ASSUME Init PROVE Kept
  OBVIOUS
<1>1. TypeOK
  BY BoundAssumption DEF Init, TypeOK, Phases
<1>2. SocketCurrent /\ OneCall
  BY NoneAssumption DEF Init, SocketCurrent, OneCall, Waiting
<1> QED
  BY <1>1, <1>2 DEF Init, Kept, DialogInv, FollowAlive, LiveLinesOfRunner,
     SnapshotOfRunner, ReconnectWhenDown

\* The steps that call streamLogs.
LEMMA UserKeeps == ASSUME Kept, User PROVE Kept'
<1> USE NoneAssumption
<1>a. acts' \in Nat /\ faults' \in Nat
  BY DEF User, Open, Close, ToggleFollow, Reconnect, ClearLines, Act, Kept, DialogInv,
         TypeOK, bounds
<1>1. ASSUME NEW r \in Runners, Open(r) PROVE Kept'
  <2>1. PICK S \in SUBSET Slots : Launch(S, r, follow)
    BY <1>1 DEF Open
  <2>2. r \in listed /\ rid' = r /\ open' /\ open' \in BOOLEAN /\ UNCHANGED <<follow, listed>>
        /\ ~ error' /\ error' \in BOOLEAN /\ shown' = {}
    BY <1>1 DEF Open, Clear
  <2>3. follow \in BOOLEAN
    BY DEF Kept, DialogInv, TypeOK
  <2> QED
    BY <1>a, <2>1, <2>2, <2>3, LaunchKeeps DEF Kept, DialogInv, TypeOK, FollowAlive,
       LiveLinesOfRunner, SnapshotOfRunner, ReconnectWhenDown
<1>2. CASE Close
  <2>1. at' \in [Slots -> Phases] /\ \A t \in Slots : at'[t] = "free" \/ (at'[t] = at[t] /\ t # socket)
    BY <1>2 DEF Close, Stopped, Kept, DialogInv, TypeOK, Phases
  <2>2. TypeOK' /\ SocketCurrent'
    BY <1>2, <1>a, <2>1 DEF Close, Clear, Overtake, Kept, DialogInv, TypeOK, SocketCurrent
  <2>3. OneCall'
    BY <1>2, <2>1 DEF Close, Overtake, Waiting, Kept, DialogInv, OneCall
  <2> QED
    BY <1>2, <2>2, <2>3 DEF Close, Clear, Kept, DialogInv, FollowAlive, LiveLinesOfRunner,
       SnapshotOfRunner, ReconnectWhenDown
<1>3. ASSUME NEW f \in BOOLEAN, NEW s \in Slots, open, UNCHANGED <<open, rid, listed>>,
             follow' = f, Launch({s}, rid, f), Clear
      PROVE Kept'
  <2>1. rid \in Runners /\ {s} \in SUBSET Slots /\ Cardinality({s}) = 1 /\ open \in BOOLEAN
    BY <1>3, FS_Singleton DEF Kept, DialogInv, TypeOK, SocketCurrent
  <2>2. ~ error' /\ error' \in BOOLEAN /\ shown' = {}
    BY <1>3 DEF Clear
  <2> QED
    BY <1>3, <1>a, <2>1, <2>2, LaunchKeeps DEF Kept, DialogInv, TypeOK, FollowAlive,
       LiveLinesOfRunner, SnapshotOfRunner, ReconnectWhenDown
<1>4. CASE ToggleFollow
  BY <1>4, <1>3 DEF ToggleFollow, Kept, DialogInv, TypeOK
<1>5. CASE Reconnect
  BY <1>5, <1>3 DEF Reconnect, props, Kept, DialogInv, TypeOK
<1>6. CASE ClearLines
  BY <1>6, <1>a DEF ClearLines, props, streams, bounds, Kept, DialogInv, TypeOK, SocketCurrent,
     OneCall, Waiting, FollowAlive, LiveLinesOfRunner, SnapshotOfRunner, ReconnectWhenDown
<1> QED BY <1>1, <1>2, <1>4, <1>5, <1>6 DEF User

\* A reconnect is only due in an open dialog that follows, so that the call it
\* makes is one of those of LaunchKeeps.
LEMMA TimerKeeps == ASSUME Kept, TimerFires PROVE Kept'
<1>1. PICK s \in Slots : Launch({s}, rid, follow)
  BY DEF TimerFires
<1>2. /\ open /\ rid \in Runners /\ {s} \in SUBSET Slots /\ Cardinality({s}) = 1
      /\ follow \in BOOLEAN /\ UNCHANGED <<open, rid, follow, listed, error, shown, acts, faults>>
  BY FS_Singleton DEF TimerFires, Kept, DialogInv, TypeOK, SocketCurrent, props, bounds
<1> QED
  BY <1>1, <1>2, LaunchKeeps DEF Kept, DialogInv, TypeOK, FollowAlive,
     LiveLinesOfRunner, SnapshotOfRunner, ReconnectWhenDown

\* The steps of one slot: answers, failures, lines and the end of a log.
LEMMA SlotKeeps ==
  ASSUME Kept, NEW s \in Slots, Answers(s) \/ Fails(s) \/ LineComes(s) \/ LogEnds(s)
  PROVE  Kept'
<1> USE NoneAssumption DEF Kept, DialogInv
<1>a. s # None
  BY DEF Slots
<1>b. Phases = {"free", "get", "fetch", "connecting", "live", "mute", "idle"}
  BY DEF Phases
<1>1. CASE RunnerAnswers(s)
  <2>0. rid \in Runners /\ of[s] \in Runners
    BY <1>1 DEF RunnerAnswers, TypeOK, SocketCurrent
  <2>1. TypeOK'
    BY <1>1, <1>b, <2>0 DEF RunnerAnswers, TypeOK, props, display, bounds
  <2>2. SocketCurrent'
    BY <1>1, <2>0 DEF RunnerAnswers, TypeOK, SocketCurrent, props
  <2>3. OneCall'
    <3>1. /\ at'[s] = (IF follow THEN "connecting" ELSE "fetch")
          /\ \A t \in Slots \ {s} : at'[t] = at[t] /\ of'[t] = of[t]
          /\ of'[s] = rid /\ at[s] = "get"
      BY <1>1 DEF RunnerAnswers, TypeOK
    <3>2. SUFFICES ASSUME ~ overtaken PROVE OneCall'
      BY <1>1 DEF RunnerAnswers, OneCall
    <3>3. open /\ socket = None /\ ~ timer
      BY <3>1, <3>2 DEF OneCall, Waiting
    <3>4. \A t \in Slots \ {s} : at[t] \notin {"get", "fetch", "live", "mute"}
      BY <3>1, <3>2, <3>3, <1>a DEF OneCall, Waiting, Slots
    <3>5. UNCHANGED <<open, rid, follow, timer>> /\ (follow \/ socket' = None)
      BY <1>1, <3>3 DEF RunnerAnswers, props
    <3> QED
      BY <3>1, <3>3, <3>4, <3>5 DEF OneCall, Waiting
  <2>4. FollowAlive' /\ LiveLinesOfRunner' /\ SnapshotOfRunner' /\ ReconnectWhenDown'
    BY <1>1, <1>a DEF RunnerAnswers, TypeOK, OneCall, Waiting, props, display,
       FollowAlive, LiveLinesOfRunner, SnapshotOfRunner, ReconnectWhenDown
  <2> QED BY <2>1, <2>2, <2>3, <2>4
<1>2. CASE SnapshotAnswers(s)
  <2>0. of[s] \in Runners /\ (~ overtaken => of[s] = rid)
    BY <1>2 DEF SnapshotAnswers, TypeOK, SocketCurrent, OneCall, Waiting
  <2>1. TypeOK' /\ SocketCurrent'
    <3>1. shown' \subseteq {"live", "snapshot"} \X Runners
      BY <1>2, <2>0 DEF SnapshotAnswers, TypeOK
    <3>2. at' \in [Slots -> Phases]
      BY <1>2, <1>b DEF SnapshotAnswers, TypeOK
    <3>3. TypeOK'
      BY <1>2, <3>1, <3>2 DEF SnapshotAnswers, TypeOK, props, bounds
    <3> QED BY <1>2, <1>a, <3>3 DEF SnapshotAnswers, TypeOK, SocketCurrent, props
  <2>3. OneCall'
    <3>1. at'[s] = "free" /\ \A t \in Slots \ {s} : at'[t] = at[t]
      BY <1>2 DEF SnapshotAnswers, TypeOK
    <3>2. UNCHANGED <<open, rid, follow, timer, socket, of, overtaken>>
      BY <1>2 DEF SnapshotAnswers, props
    <3>3. \A t \in Slots : at'[t] = at[t] \/ (t = s /\ at'[t] = "free")
      BY <3>1
    <3> QED
      BY <3>2, <3>3 DEF OneCall, Waiting
  <2>2. FollowAlive' /\ LiveLinesOfRunner' /\ SnapshotOfRunner' /\ ReconnectWhenDown'
    BY <1>2, <2>0 DEF SnapshotAnswers, TypeOK, props, FollowAlive, LiveLinesOfRunner,
       SnapshotOfRunner, ReconnectWhenDown
  <2> QED BY <2>1, <2>2, <2>3
<1>3. CASE SocketOpens(s)
  <2>1. TypeOK' /\ SocketCurrent'
    BY <1>3, <1>b DEF SocketOpens, TypeOK, SocketCurrent, props, bounds
  <2>2. OneCall'
    BY <1>3 DEF SocketOpens, TypeOK, OneCall, Waiting, props
  <2>3. FollowAlive' /\ LiveLinesOfRunner' /\ SnapshotOfRunner' /\ ReconnectWhenDown'
    BY <1>3, <1>a DEF SocketOpens, TypeOK, OneCall, props, FollowAlive, LiveLinesOfRunner,
       SnapshotOfRunner, ReconnectWhenDown
  <2> QED BY <2>1, <2>2, <2>3
<1>4. CASE CallFails(s)
  <2>0. TypeOK'
    <3>1. at' \in [Slots -> Phases] /\ acts' \in Nat /\ faults' \in Nat /\ timer' \in BOOLEAN
      BY <1>4, <1>b DEF CallFails, Schedule, Fault, TypeOK
    <3> QED BY <1>4, <3>1 DEF CallFails, TypeOK, props
  <2>1. TypeOK' /\ SocketCurrent'
    BY <1>4, <2>0 DEF CallFails, Schedule, Waiting, TypeOK, SocketCurrent, props
  <2>2. OneCall'
    BY <1>4 DEF CallFails, Schedule, TypeOK, OneCall, Waiting, props
  <2>3. FollowAlive' /\ LiveLinesOfRunner' /\ SnapshotOfRunner' /\ ReconnectWhenDown'
    BY <1>4 DEF CallFails, Schedule, Waiting, TypeOK, OneCall, props, FollowAlive,
       LiveLinesOfRunner, SnapshotOfRunner, ReconnectWhenDown
  <2> QED BY <2>1, <2>2, <2>3
<1>5. CASE SocketFails(s)
  <2>0. TypeOK'
    <3>1. at' \in [Slots -> Phases] /\ acts' \in Nat /\ faults' \in Nat /\ timer' \in BOOLEAN
      BY <1>5, <1>b DEF SocketFails, Schedule, Fault, TypeOK
    <3> QED BY <1>5, <3>1 DEF SocketFails, TypeOK, props
  <2>1. TypeOK' /\ SocketCurrent'
    BY <1>5, <2>0 DEF SocketFails, Schedule, TypeOK, SocketCurrent, props
  <2>2. OneCall'
    <3>1. at'[s] = "free" /\ \A t \in Slots \ {s} : at'[t] = at[t]
      BY <1>5 DEF SocketFails, TypeOK
    <3>2. ~ overtaken /\ s = socket => \A t \in Slots : ~ Waiting(t)
      BY <1>a DEF OneCall
    <3> QED
      BY <1>5, <3>1, <3>2 DEF SocketFails, Schedule, OneCall, Waiting, props
  <2>3. FollowAlive' /\ LiveLinesOfRunner' /\ SnapshotOfRunner' /\ ReconnectWhenDown'
    BY <1>5 DEF SocketFails, Schedule, TypeOK, OneCall, props, FollowAlive,
       LiveLinesOfRunner, SnapshotOfRunner, ReconnectWhenDown
  <2> QED BY <2>1, <2>2, <2>3
<1>6. CASE SocketCloses(s)
  <2>0. TypeOK'
    <3>1. at' \in [Slots -> Phases] /\ acts' \in Nat /\ faults' \in Nat /\ timer' \in BOOLEAN
      BY <1>6, <1>b DEF SocketCloses, Schedule, Fault, TypeOK
    <3> QED BY <1>6, <3>1 DEF SocketCloses, TypeOK, props
  <2>1. TypeOK' /\ SocketCurrent'
    BY <1>6, <2>0 DEF SocketCloses, Schedule, TypeOK, SocketCurrent, props
  <2>2. OneCall'
    <3>1. at'[s] = "free" /\ \A t \in Slots \ {s} : at'[t] = at[t]
      BY <1>6 DEF SocketCloses, TypeOK
    <3>2. ~ overtaken /\ s = socket => \A t \in Slots : ~ Waiting(t)
      BY <1>a DEF OneCall
    <3> QED
      BY <1>6, <3>1, <3>2 DEF SocketCloses, Schedule, OneCall, Waiting, props
  <2>3. FollowAlive' /\ LiveLinesOfRunner' /\ SnapshotOfRunner' /\ ReconnectWhenDown'
    BY <1>6 DEF SocketCloses, Schedule, TypeOK, OneCall, props, FollowAlive,
       LiveLinesOfRunner, SnapshotOfRunner, ReconnectWhenDown
  <2> QED BY <2>1, <2>2, <2>3
<1>7. CASE LineComes(s)
  <2>0. of[s] \in Runners /\ (s = socket => of[s] = rid)
    BY <1>7, <1>a DEF LineComes, TypeOK, SocketCurrent
  <2> QED
    BY <1>7, <2>0 DEF LineComes, TypeOK, SocketCurrent, OneCall, Waiting, props, streams,
       bounds, FollowAlive, LiveLinesOfRunner, SnapshotOfRunner, ReconnectWhenDown
<1>8. CASE LogEnds(s)
  <2>1. error' \in BOOLEAN /\ (error => error')
    BY <1>8 DEF LogEnds, TypeOK
  <2>2. TypeOK' /\ SocketCurrent' /\ OneCall'
    BY <1>8, <2>1, <1>b DEF LogEnds, TypeOK, SocketCurrent, OneCall, Waiting, props, bounds
  <2>3. FollowAlive' /\ LiveLinesOfRunner' /\ SnapshotOfRunner' /\ ReconnectWhenDown'
    BY <1>8, <2>1 DEF LogEnds, TypeOK, props, FollowAlive, LiveLinesOfRunner,
       SnapshotOfRunner, ReconnectWhenDown
  <2> QED BY <2>2, <2>3
<1> QED BY <1>1, <1>2, <1>3, <1>4, <1>5, <1>6, <1>7, <1>8 DEF Answers, Fails

LEMMA StepKeeps == ASSUME Kept, [Next]_vars PROVE Kept'
<1>1. CASE ListChanges
  BY <1>1 DEF ListChanges, Fault, props, streams, display, Kept, DialogInv, TypeOK,
     SocketCurrent, OneCall, Waiting, FollowAlive, LiveLinesOfRunner, SnapshotOfRunner,
     ReconnectWhenDown
<1>2. CASE UNCHANGED vars
  BY <1>2 DEF vars, props, streams, display, bounds, Kept, DialogInv, TypeOK,
     SocketCurrent, OneCall, Waiting, FollowAlive, LiveLinesOfRunner, SnapshotOfRunner,
     ReconnectWhenDown
<1> QED BY <1>1, <1>2, UserKeeps, TimerKeeps, SlotKeeps DEF Next

\* The lines, sockets, calls and reconnects of the dialog in every reachable
\* state: what the theorems below take from it.
THEOREM DialogKept == Spec => []Kept
<1>1. Init => Kept
  BY InitKept
<1>2. Kept /\ [Next]_vars => Kept'
  BY StepKeeps
<1> QED BY <1>1, <1>2, PTL DEF Spec

\* streamLogs, connectWS and stopStream keep their bookkeeping.
THEOREM DialogInvariant == Spec => []DialogInv
<1>1. Kept => DialogInv
  BY DEF Kept
<1> QED BY <1>1, DialogKept, PTL

\* A dialog that follows is never left without a socket, a reconnect or a call.
THEOREM NeverLeftAlone == Spec => []FollowAlive
<1>1. Kept => FollowAlive
  BY DEF Kept
<1> QED BY <1>1, DialogKept, PTL

\* Lines of a WebSocket are of the runner in the title.
THEOREM LiveLinesRight == Spec => []LiveLinesOfRunner
<1>1. Kept => LiveLinesOfRunner
  BY DEF Kept
<1> QED BY <1>1, DialogKept, PTL

\* Snapshots are of the runner in the title, if no call was overtaken.
THEOREM SnapshotsRight == Spec => []SnapshotOfRunner
<1>1. Kept => SnapshotOfRunner
  BY DEF Kept
<1> QED BY <1>1, DialogKept, PTL

\* A reconnect never tears down a socket, if no call was overtaken.
THEOREM ReconnectsRight == Spec => []ReconnectWhenDown
<1>1. Kept => ReconnectWhenDown
  BY DEF Kept
<1> QED BY <1>1, DialogKept, PTL

\* The server sends one log at most, and to an open dialog, if no call was
\* overtaken.
THEOREM FeedsOnce == Spec => []OneFeed
<1>1. Kept => OneFeed
  <2> SUFFICES ASSUME Kept, ~ overtaken PROVE OneFeed
    BY DEF OneFeed
  <2> DEFINE L == {s \in Slots : at[s] = "live"}
  <2>1. L = {} \/ L = {socket}
    BY DEF Kept, DialogInv, OneCall
  <2>2. Cardinality(L) <= 1
    <3>1. Cardinality(L) = 0 \/ Cardinality(L) = 1
      BY <2>1, FS_EmptySet, FS_Singleton
    <3> QED BY <3>1
  <2>3. ~ open => ~ timer /\ \A s \in Slots : at[s] # "live"
    BY NoneAssumption DEF Kept, DialogInv, OneCall, SocketCurrent, Slots
  <2> QED BY <2>2, <2>3 DEF OneFeed
<1> QED BY <1>1, DialogKept, PTL
================================================================================
