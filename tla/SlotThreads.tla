---------------------------- MODULE SlotThreads ----------------------------
(***************************************************************************)
(* The threads of the server in a game that lets players in: the main      *)
(* thread in ServerInterface::update, and for each slot a worker that      *)
(* reads its socket.  In every update the main thread puts an event on the *)
(* lists of the slots whose sockets can be read, signals their workers,    *)
(* waits until the events are completed, and then looks for clients that   *)
(* lag behind, to wait for them, or to drop them.                          *)
(*                                                                         *)
(* What Lockstep and InGameJoin take for granted, that a slot is read when *)
(* there is something to read, is the subject here.                        *)
(***************************************************************************)
EXTENDS Naturals, Sequences

CONSTANTS
  N,              \* the number of slots
  Id,             \* the event ids; those in use are different
  None,
  PauseForLagged, \* GameSettings::networkPauseGameForLaggedClients
  MaxInbox,       \* bound: the messages that wait in a socket
  MaxRaised       \* bound: the height of a semaphore at which updates wait

Slot == 1 .. N

ASSUME SizeAssumption == N \in Nat /\ MaxInbox \in Nat /\ MaxRaised \in Nat
ASSUME IdAssumption == None \notin Id /\ None \notin Slot
ASSUME PauseAssumption == PauseForLagged \in BOOLEAN

VARIABLES
  socket,         \* of each slot: none, open, or broken by the client
  phase,          \* its flags: new, then joining (gotIntro, skipLagCheck and
                  \* joinGameInProgress), then ready
  inbox,          \* the messages in the socket that have not been read
  lag,            \* how far the client is behind
  queue,          \* eventList: the events that are not completed, in order
  done,           \* eventList: the ids of the events that are completed
  semaphore,      \* semTaskSignalled
  worker,         \* ConnectionSlotThread::execute: place and eventCopy
  main,           \* ServerInterface::update: its place, the slot it is at, the
                  \* slot whose semaphore comes next, whether its loop goes
                  \* round again and has gone round before, and whether
                  \* LAG_CHECK_GRACE_PERIOD is over
  triggered,      \* socketTriggeredList, read once in an update
  mine,           \* the update's own eventList: its event of each slot, None if
                  \* the slot was not given one
  signalled,      \* mapSlotSignalledList
  finished,       \* slotsCompleted of the loop that is running
  gone,           \* the slots that lost their client since they were signalled
  owed            \* the slots with data when signalled, of which nothing is read

clientVars == <<socket, phase, inbox, lag>>
listVars == <<queue, done, semaphore>>
mainVars == <<main, triggered, mine, signalled, finished>>
vars == <<clientVars, listVars, worker, mainVars, gone, owed>>

(* In time; slow enough for the worker to wait (AutoClientLagCorrection);  *)
(* over maxFrameCountLagAllowed or maxClientLagTimeAllowed; over the limits*)
(* that hold ever.                                                         *)
InTime == 0
Slow == 1
Over == 2
Ever == 3

Event == [id : Id, triggered : BOOLEAN]
WorkerPlace == {"top", "wait", "woken", "update", "read", "linger", "report"}
WorkerState == [at : WorkerPlace, id : Id \cup {None}, triggered : BOOLEAN]
MainState ==
  [at : {"poll", "signal", "completed", "lag", "resignal", "grace"}, slot : 1 .. N + 1,
   post : Slot \cup {None}, again : BOOLEAN, late : BOOLEAN, due : BOOLEAN]

(* Every variable has its type.                                            *)
TypeOK ==
  /\ socket \in [Slot -> {"none", "open", "broken"}]
  /\ phase \in [Slot -> {"new", "joining", "ready"}]
  /\ inbox \in [Slot -> Nat]
  /\ lag \in [Slot -> InTime .. Ever]
  /\ queue \in [Slot -> Seq(Event)]
  /\ done \in [Slot -> SUBSET Id]
  /\ semaphore \in [Slot -> Nat]
  /\ worker \in [Slot -> WorkerState]
  /\ main \in MainState
  /\ triggered \subseteq Slot /\ signalled \subseteq Slot /\ finished \subseteq Slot
  /\ mine \in [Slot -> Id \cup {None}]
  /\ gone \subseteq Slot /\ owed \subseteq Slot

Resting == [at |-> "top", id |-> None, triggered |-> FALSE]
At(place) == [at |-> place, slot |-> 1, post |-> None, again |-> FALSE,
             late |-> FALSE, due |-> FALSE]

Init ==
  /\ socket = [s \in Slot |-> "open"]
  /\ phase = [s \in Slot |-> "ready"]
  /\ inbox = [s \in Slot |-> 0]
  /\ lag = [s \in Slot |-> InTime]
  /\ queue = [s \in Slot |-> << >>]
  /\ done = [s \in Slot |-> {}]
  /\ semaphore = [s \in Slot |-> 0]
  /\ worker = [s \in Slot |-> Resting]
  /\ main = At("poll")
  /\ triggered = {} /\ signalled = {} /\ finished = {}
  /\ mine = [s \in Slot |-> None]
  /\ gone = {} /\ owed = {}

(* ConnectionSlot::isConnected: a socket that the client has closed still  *)
(* counts while there is something to read from it.                        *)
Connected(s) == socket[s] = "open" \/ (socket[s] = "broken" /\ inbox[s] > 0)
SkipLagCheck(s) == phase[s] = "joining"

IdsOf(q) == {q[i].id : i \in 1 .. Len(q)}
Free(s) == Id \ (IdsOf(queue[s]) \cup done[s] \cup {worker[s].id})
Room(s) == Free(s) # {} /\ semaphore[s] < MaxRaised

(* ConnectionSlot::close, with setAllEventsCompleted.                      *)
Close(s) ==
  /\ socket' = [socket EXCEPT ![s] = "none"]
  /\ phase' = [phase EXCEPT ![s] = "new"]
  /\ inbox' = [inbox EXCEPT ![s] = 0]
  /\ lag' = [lag EXCEPT ![s] = InTime]
  /\ done' = [done EXCEPT ![s] = @ \cup IdsOf(queue[s])]
  /\ queue' = [queue EXCEPT ![s] = << >>]
  /\ gone' = gone \cup {s}
  /\ UNCHANGED <<semaphore, owed>>

-----------------------------------------------------------------------------
(* The worker of a slot.                                                   *)

Goes(s, place) == worker' = [worker EXCEPT ![s].at = place]

(* A slot without a client is updated again and again, without an event;   *)
(* otherwise the worker waits to be signalled.                             *)
Top(s) ==
  /\ worker[s].at = "top"
  /\ Goes(s, IF Connected(s) THEN "wait" ELSE "update")
  /\ UNCHANGED <<clientVars, listVars, mainVars, gone, owed>>

Wake(s) ==
  /\ worker[s].at = "wait" /\ semaphore[s] > 0
  /\ semaphore' = [semaphore EXCEPT ![s] = @ - 1]
  /\ Goes(s, "woken")
  /\ UNCHANGED <<clientVars, queue, done, mainVars, gone, owed>>

(* The first event that is not completed is copied.                        *)
TakeEvent(s) ==
  /\ worker[s].at = "woken"
  /\ worker' = [worker EXCEPT ![s] =
       IF queue[s] = << >> THEN Resting
       ELSE [at |-> "update", id |-> Head(queue[s]).id, triggered |-> Head(queue[s]).triggered]]
  /\ UNCHANGED <<clientVars, listVars, mainVars, gone, owed>>

(* ConnectionSlot::updateSlot, and purgeCompletedEvents at the start of    *)
(* ConnectionSlot::update.  Mutant: all events are purged.                 *)
PurgeAll(s) ==
  /\ done' = [done EXCEPT ![s] = {}]
  /\ queue' = [queue EXCEPT ![s] = << >>]
Purge(s) ==
  /\ done' = [done EXCEPT ![s] = {}]
  /\ UNCHANGED queue

StartUpdate(s) ==
  /\ worker[s].at = "update"
  /\ IF worker[s].triggered \/ ~Connected(s)
     THEN Purge(s) /\ Goes(s, "read")
     ELSE UNCHANGED <<queue, done>> /\ Goes(s, "report")
  /\ UNCHANGED <<clientVars, semaphore, mainVars, gone, owed>>

(* A player that calls is taken, if there is one.  The new socket may have *)
(* the number of the old one, by which socketTriggeredList goes.           *)
Accept(s) ==
  /\ worker[s].at = "read" /\ socket[s] = "none"
  /\ \/ /\ socket' = [socket EXCEPT ![s] = "open"]
        /\ triggered' \in {triggered, triggered \ {s}}
        /\ UNCHANGED <<phase, inbox, lag>>
     \/ UNCHANGED <<clientVars, triggered>>
  /\ Goes(s, "report")
  /\ UNCHANGED <<listVars, main, mine, signalled, finished, gone, owed>>

FindClosed(s) ==
  /\ worker[s].at = "read" /\ socket[s] # "none" /\ ~Connected(s)
  /\ Close(s) /\ Goes(s, "report")
  /\ UNCHANGED mainVars

(* validateConnection closes a slot whose handshake takes too long.        *)
FindNothing(s) ==
  /\ worker[s].at = "read" /\ socket[s] = "open" /\ inbox[s] = 0
  /\ Goes(s, "report")
  /\ \/ phase[s] = "new" /\ Close(s)
     \/ UNCHANGED <<clientVars, listVars, gone, owed>>
  /\ UNCHANGED mainVars

NextPhase(p) == IF p = "new" THEN "joining" ELSE "ready"

(* One message: the introduction, then nmtReady, then command lists, which *)
(* say how far the client is; the worker stays with a client that is slow. *)
Receive(s) ==
  /\ worker[s].at \in {"read", "linger"} /\ inbox[s] > 0
  /\ inbox' = [inbox EXCEPT ![s] = @ - 1]
  /\ phase' = [phase EXCEPT ![s] = NextPhase(@)]
  /\ \E l \in InTime .. lag[s] :
       /\ lag' = [lag EXCEPT ![s] = l]
       /\ Goes(s, IF phase'[s] = "ready" /\ l # InTime THEN "linger" ELSE "report")
  /\ owed' = owed \ {s}
  /\ UNCHANGED <<socket, listVars, mainVars, gone>>

(* A message that is cut, or that makes no sense, closes the slot.         *)
Refuse(s) ==
  /\ worker[s].at \in {"read", "linger"} /\ inbox[s] > 0
  /\ Close(s) /\ Goes(s, "report")
  /\ UNCHANGED mainVars

StopLingering(s) ==
  /\ worker[s].at = "linger" /\ (~Connected(s) \/ lag[s] = InTime)
  /\ Goes(s, "report")
  /\ UNCHANGED <<clientVars, listVars, mainVars, gone, owed>>

(* setTaskCompleted: the event is the first that is not completed, unless  *)
(* a close has completed them all.  Mutant: all events are completed.      *)
ReportAll(s) ==
  /\ worker[s].at = "report"
  /\ IF worker[s].id # None
     THEN /\ queue' = [queue EXCEPT ![s] = << >>]
          /\ done' = [done EXCEPT ![s] = @ \cup IdsOf(queue[s])]
     ELSE UNCHANGED <<queue, done>>
  /\ worker' = [worker EXCEPT ![s] = Resting]
  /\ UNCHANGED <<clientVars, semaphore, mainVars, gone, owed>>
Report(s) ==
  /\ worker[s].at = "report"
  /\ IF queue[s] # << >> /\ Head(queue[s]).id = worker[s].id
     THEN /\ queue' = [queue EXCEPT ![s] = Tail(@)]
          /\ done' = [done EXCEPT ![s] = @ \cup {worker[s].id}]
     ELSE UNCHANGED <<queue, done>>
  /\ worker' = [worker EXCEPT ![s] = Resting]
  /\ UNCHANGED <<clientVars, semaphore, mainVars, gone, owed>>

Worker(s) ==
  \/ Top(s) \/ Wake(s) \/ TakeEvent(s) \/ StartUpdate(s) \/ Accept(s) \/ FindClosed(s)
  \/ FindNothing(s) \/ Receive(s) \/ Refuse(s) \/ StopLingering(s) \/ Report(s)

-----------------------------------------------------------------------------
(* The main thread.                                                        *)

Idle(place) == main.at = place /\ main.post = None

(* validateConnectedClients.                                               *)
TooLate(s) ==
  /\ Idle("poll") /\ phase[s] = "new" /\ Connected(s)
  /\ Close(s)
  /\ UNCHANGED <<worker, mainVars>>

(* An update with something to read.  Bound: room for its events.          *)
Poll ==
  /\ Idle("poll")
  /\ triggered' = {s \in Slot : socket[s] = "broken" \/ inbox[s] > 0}
  /\ triggered' # {} /\ \A s \in triggered' : Room(s)
  /\ main' = At("signal")
  /\ mine' = [s \in Slot |-> None] /\ signalled' = {} /\ finished' = {}
  /\ UNCHANGED <<clientVars, listVars, worker, gone, owed>>

(* An update with nothing to read looks for clients that lag behind when   *)
(* LAG_CHECK_GRACE_PERIOD is over.                                         *)
PollQuiet ==
  /\ Idle("poll")
  /\ \A s \in Slot : socket[s] # "broken" /\ inbox[s] = 0
  /\ main' = [At("lag") EXCEPT !.due = TRUE]
  /\ triggered' = {} /\ mine' = [s \in Slot |-> None] /\ signalled' = {} /\ finished' = {}
  /\ UNCHANGED <<clientVars, listVars, worker, gone, owed>>

(* signalClientReceiveCommands.  The event is on the list before the       *)
(* semaphore is raised.  Bounds: there is an id for the event; a slot      *)
(* without a client leaves one free, so its events stop at the bound.      *)
(* Mutant: the semaphore is raised only for the first event.               *)
Triggered(s) == s \in triggered /\ socket[s] # "none"
Gets(s) ==
  \/ Triggered(s)
  \/ ~Connected(s) /\ Room(s) /\ \E i \in Free(s) : Free(s) # {i}

Signal(s) ==
  /\ Triggered(s) => Free(s) # {}
  /\ IF Gets(s)
     THEN LET i == CHOOSE i \in Free(s) : TRUE IN
          /\ queue' = [queue EXCEPT ![s] = Append(@, [id |-> i, triggered |-> Triggered(s)])]
          /\ mine' = [mine EXCEPT ![s] = i]
     ELSE UNCHANGED queue /\ mine' = [mine EXCEPT ![s] = None]
  /\ gone' = IF Connected(s) THEN gone \ {s} ELSE gone \cup {s}
  /\ owed' = IF inbox[s] > 0 THEN owed \cup {s} ELSE owed \ {s}
  /\ UNCHANGED <<clientVars, done, semaphore, worker, triggered, finished>>
PostsFirst(s) == IF Gets(s) /\ queue[s] = << >> THEN s ELSE None
Posts(s) == IF Gets(s) THEN s ELSE None

Raise ==
  /\ main.post # None
  /\ semaphore' = [semaphore EXCEPT ![main.post] = @ + 1]
  /\ main' = [main EXCEPT !.post = None]
  /\ UNCHANGED <<clientVars, queue, done, worker, triggered, mine, signalled, finished, gone, owed>>

(* signalClientsToRecieveData: the slots whose sockets can be read are the *)
(* ones that are waited for.                                               *)
SignalNext ==
  /\ Idle("signal") /\ main.slot \in Slot
  /\ Signal(main.slot)
  /\ signalled' = IF Triggered(main.slot) THEN signalled \cup {main.slot} ELSE signalled
  /\ main' = [main EXCEPT !.slot = @ + 1, !.post = Posts(main.slot)]

AllSignalled ==
  /\ Idle("signal") /\ main.slot = N + 1
  /\ main' = At("completed")
  /\ UNCHANGED <<clientVars, listVars, worker, triggered, mine, signalled, finished, gone, owed>>

(* checkForCompletedClients: round the slots until all are completed, or   *)
(* for MAX_SLOT_THREAD_WAIT_TIME.                                          *)
Awaited(s) == s \in signalled /\ Connected(s) /\ ~SkipLagCheck(s) /\ s \notin finished
Completed(s) == mine[s] \in done[s]

CheckCompleted ==
  /\ Idle("completed") /\ main.slot \in Slot
  /\ IF Awaited(main.slot) /\ ~Completed(main.slot)
     THEN main' = [At("completed") EXCEPT !.late = TRUE] /\ UNCHANGED finished
     ELSE /\ main' = [main EXCEPT !.slot = @ + 1]
          /\ finished' = finished \cup {s \in {main.slot} : Awaited(s)}
  /\ UNCHANGED <<clientVars, listVars, worker, triggered, mine, signalled, gone, owed>>

EndOfWait ==
  /\ Idle("completed") /\ (main.slot = N + 1 \/ (main.slot = 1 /\ main.late))
  /\ main' = At("lag") /\ finished' = {}
  /\ UNCHANGED <<clientVars, listVars, worker, triggered, mine, signalled, gone, owed>>

(* clientLagCheck.                                                         *)
Exceeds(s) == phase[s] = "ready" /\ Connected(s) /\ lag[s] >= Over
DropIfDue(s) ==
  IF Exceeds(s) /\ (~PauseForLagged \/ lag[s] = Ever)
  THEN Close(s) ELSE UNCHANGED <<clientVars, listVars, gone, owed>>

(* checkForLaggingClients, the part of a slot that was signalled.          *)
CheckLag ==
  /\ Idle("lag") /\ main.slot \in Slot
  /\ LET s == main.slot IN
     \/ /\ Awaited(s) /\ ~Completed(s)
        /\ main' = [At("lag") EXCEPT !.late = TRUE, !.due = main.due]
        /\ UNCHANGED <<clientVars, listVars, gone, owed, finished>>
     \/ /\ ~Awaited(s)
        /\ main' = [main EXCEPT !.at = "grace"]
        /\ UNCHANGED <<clientVars, listVars, gone, owed, finished>>
     \/ /\ Awaited(s) /\ Completed(s)
        /\ DropIfDue(s)
        /\ IF Exceeds(s) /\ PauseForLagged
           THEN /\ \/ main' = [main EXCEPT !.at = "resignal"] /\ Room(s)
                   \/ main' = [main EXCEPT !.at = "grace"]
                /\ UNCHANGED finished
           ELSE main' = [main EXCEPT !.at = "grace"] /\ finished' = finished \cup {s}
  /\ UNCHANGED <<worker, triggered, mine, signalled>>

(* The game is paused for a client for MAX_CLIENT_WAIT_SECONDS_FOR_PAUSE:  *)
(* its worker is signalled again, by what the sockets were at the start.   *)
(* Bound: while there is room for an event.                                *)
SignalAgain ==
  /\ Idle("resignal")
  /\ Signal(main.slot)
  /\ signalled' = IF Gets(main.slot) THEN signalled \cup {main.slot} ELSE signalled \ {main.slot}
  /\ main' = [main EXCEPT !.at = "grace", !.again = TRUE, !.post = Posts(main.slot)]

(* The part of every slot when LAG_CHECK_GRACE_PERIOD is over.  Mutants:   *)
(* only slots that were signalled are looked at; every other one is.       *)
CheckGraceAwaited ==
  /\ Idle("grace")
  /\ \E due \in {main.due, TRUE} :
       /\ IF due /\ main.slot \in signalled
          THEN DropIfDue(main.slot) ELSE UNCHANGED <<clientVars, listVars, gone, owed>>
       /\ main' = [main EXCEPT !.at = "lag", !.slot = @ + 1, !.due = due]
  /\ UNCHANGED <<worker, triggered, mine, signalled, finished>>
CheckGraceHalf ==
  /\ Idle("grace")
  /\ \E due \in {main.due, TRUE} :
       /\ IF due THEN DropIfDue(main.slot) ELSE UNCHANGED <<clientVars, listVars, gone, owed>>
       /\ main' = [main EXCEPT !.at = "lag", !.slot = @ + 2, !.due = due]
  /\ UNCHANGED <<worker, triggered, mine, signalled, finished>>
CheckGrace ==
  /\ Idle("grace")
  /\ \E due \in {main.due, TRUE} :
       /\ IF due THEN DropIfDue(main.slot) ELSE UNCHANGED <<clientVars, listVars, gone, owed>>
       /\ main' = [main EXCEPT !.at = "lag", !.slot = @ + 1, !.due = due]
  /\ UNCHANGED <<worker, triggered, mine, signalled, finished>>

EndOfRound ==
  /\ Idle("lag") /\ main.slot = N + 1
  /\ main' = IF main.again THEN [At("lag") EXCEPT !.late = TRUE, !.due = main.due] ELSE At("poll")
  /\ UNCHANGED <<clientVars, listVars, worker, triggered, mine, signalled, finished, gone, owed>>

EndOfLagCheck ==
  /\ Idle("lag") /\ main.slot = 1 /\ main.late
  /\ main' = At("poll")
  /\ UNCHANGED <<clientVars, listVars, worker, triggered, mine, signalled, finished, gone, owed>>

Main ==
  \/ Poll \/ PollQuiet \/ Raise \/ SignalNext \/ AllSignalled \/ CheckCompleted \/ EndOfWait
  \/ CheckLag \/ SignalAgain \/ CheckGrace \/ EndOfRound \/ EndOfLagCheck
  \/ \E s \in Slot : TooLate(s)

-----------------------------------------------------------------------------
(* The clients.                                                            *)

Send(s) ==
  /\ socket[s] = "open" /\ inbox[s] < MaxInbox
  /\ inbox' = [inbox EXCEPT ![s] = @ + 1]
  /\ UNCHANGED <<socket, phase, lag, listVars, worker, mainVars, gone, owed>>

(* What is under way may be lost with the connection.                      *)
Leave(s) ==
  /\ socket[s] = "open"
  /\ socket' = [socket EXCEPT ![s] = "broken"]
  /\ \E n \in 0 .. inbox[s] : inbox' = [inbox EXCEPT ![s] = n]
  /\ UNCHANGED <<phase, lag, listVars, worker, mainVars, gone, owed>>

FallBehind(s) ==
  /\ phase[s] = "ready" /\ socket[s] # "none" /\ lag[s] < Ever
  /\ lag' = [lag EXCEPT ![s] = @ + 1]
  /\ UNCHANGED <<socket, phase, inbox, listVars, worker, mainVars, gone, owed>>

Next ==
  \/ Main
  \/ \E s \in Slot : Worker(s) \/ Send(s) \/ Leave(s) \/ FallBehind(s)

Spec == Init /\ [][Next]_vars

(* The threads keep running.  A time-out that is looked at again and again *)
(* while time passes runs out in the end.                                  *)
Fairness ==
  /\ \A s \in Slot : WF_vars(Worker(s))
  /\ WF_vars(Main) /\ SF_vars(PollQuiet)
  /\ SF_vars(EndOfWait) /\ SF_vars(EndOfLagCheck)

FairSpec == Spec /\ Fairness

-----------------------------------------------------------------------------
(* For every event that is not completed the semaphore of its slot is      *)
(* raised, or about to be, or its worker is at work: the worker does not   *)
(* sleep while there is an event for it.                                   *)
NoLostWakeup ==
  \A s \in Slot :
    Len(queue[s]) <= semaphore[s]
      + (IF main.post = s THEN 1 ELSE 0)
      + (IF worker[s].at = "woken" \/ (queue[s] # << >> /\ worker[s].id = Head(queue[s]).id)
         THEN 1 ELSE 0)

(* While a client that the main thread has signalled is the same and       *)
(* connected, its event is on the list: no worker purges it before the     *)
(* main thread could see it completed.                                     *)
WaitsForItsEvent ==
  \A s \in signalled \ gone :
    Connected(s) => mine[s] \in IdsOf(queue[s]) \cup done[s]

(* When the main thread finds the event of a client completed, something   *)
(* of what made its socket readable has been read: the commands that it    *)
(* takes afterwards are those of this update.                              *)
ReadWhenDone == \A s \in owed \ gone : ~Completed(s)

(* The worker of a client that keeps pace gets to every event.             *)
Handled ==
  \A s \in Slot, i \in Id :
    i \in IdsOf(queue[s]) ~> i \notin IdsOf(queue[s]) \/ ~Connected(s) \/ lag[s] # InTime

(* A client that lags further behind than is ever allowed is dropped even  *)
(* if no client says anything any more, whatever its worker waits for.     *)
DropSilent ==
  \A s \in Slot :
    phase[s] = "ready" /\ lag[s] = Ever
      ~> lag[s] # Ever \/ ~Connected(s) \/ \E t \in Slot : inbox[t] # 0

=============================================================================
