------------------------- MODULE SlotThreadsProofs -------------------------
(***************************************************************************)
(* With any number of slots and of events, no wake-up of a worker is lost, *)
(* no event is purged before the main thread sees it, and an event that is *)
(* completed has been read for.                                            *)
(*                                                                         *)
(* The invariant speaks of one slot at a time: of its list, its semaphore, *)
(* its worker and the main thread's event for it.                          *)
(***************************************************************************)
EXTENDS SlotThreads, SequenceTheorems, TLAPS

(* The main thread signals again, and looks at the grace period, for a     *)
(* slot.                                                                   *)
AtSlot == main.at \in {"resignal", "grace"} => main.slot \in Slot
Types == TypeOK /\ AtSlot

(* A worker has an event only while it works on it; it starts to work for  *)
(* a client with an event on the list.                                     *)
Resting1(s) ==
  /\ worker[s].at \in {"top", "wait", "woken"} => worker[s].id = None
  /\ worker[s].at = "update" /\ Connected(s) => queue[s] # << >>

Raised(s) ==
  Len(queue[s]) <= semaphore[s]
    + (IF main.post = s THEN 1 ELSE 0)
    + (IF worker[s].at = "woken" \/ (queue[s] # << >> /\ worker[s].id = Head(queue[s]).id)
       THEN 1 ELSE 0)

(* The main thread's event is the last of the list, or completed.          *)
Mine(s) ==
  s \notin gone /\ Connected(s) /\ mine[s] # None =>
    IF queue[s] = << >> THEN mine[s] \in done[s] ELSE queue[s][Len(queue[s])].id = mine[s]

(* It says that the socket can be read, to the worker too.                 *)
Readable(s) ==
  s \notin gone =>
    /\ socket[s] # "none"
    /\ s \in owed => inbox[s] > 0 \/ socket[s] = "broken"
    /\ \A j \in 1 .. Len(queue[s]) : queue[s][j].id = mine[s] => queue[s][j].triggered
    /\ worker[s].id = mine[s] /\ mine[s] # None => worker[s].triggered

(* Past reading, something has been read.                                  *)
ReadSome(s) ==
  s \notin gone =>
    /\ mine[s] \in done[s] => s \notin owed
    /\ worker[s].id = mine[s] /\ mine[s] # None /\ worker[s].at \in {"linger", "report"} => s \notin owed

SlotInv(s) == Resting1(s) /\ Raised(s) /\ Mine(s) /\ Readable(s) /\ ReadSome(s)

(* A slot that is waited for has been given an event.                      *)
Given(s) ==
  /\ s \in signalled \ gone => mine[s] # None
  /\ main.at = "signal" /\ s \in signalled => s < main.slot

ThreadInv == Types /\ \A s \in Slot : SlotInv(s) /\ Given(s)

-----------------------------------------------------------------------------
(* Types.                                                                  *)

LEMMA QueueIds ==
  ASSUME TypeOK, NEW s \in Slot
  PROVE  /\ IdsOf(queue[s]) \subseteq Id
         /\ Free(s) \subseteq Id
         /\ queue[s] # << >> => Head(queue[s]) \in Event /\ Tail(queue[s]) \in Seq(Event)
  <1>1. queue[s] \in Seq(Event)
    BY DEF TypeOK
  <1>2. \A j \in 1 .. Len(queue[s]) : queue[s][j] \in Event
    BY <1>1
  <1>3. \A j \in 1 .. Len(queue[s]) : queue[s][j].id \in Id
    BY <1>2 DEF Event
  <1>4. queue[s] # << >> => Head(queue[s]) \in Event /\ Tail(queue[s]) \in Seq(Event)
    BY <1>1
  <1> QED
    BY <1>3, <1>4 DEF IdsOf, Free

LEMMA CloseTypes ==
  ASSUME TypeOK, NEW s \in Slot, Close(s)
  PROVE  /\ socket' \in [Slot -> {"none", "open", "broken"}]
         /\ phase' \in [Slot -> {"new", "joining", "ready"}]
         /\ inbox' \in [Slot -> Nat] /\ lag' \in [Slot -> InTime .. Ever]
         /\ queue' \in [Slot -> Seq(Event)] /\ done' \in [Slot -> SUBSET Id]
         /\ semaphore' \in [Slot -> Nat]
         /\ gone' \subseteq Slot /\ owed' \subseteq Slot
  <1>1. IdsOf(queue[s]) \subseteq Id
    BY QueueIds
  <1>2. << >> \in Seq(Event) /\ InTime \in InTime .. Ever
    BY DEF InTime, Ever
  <1> QED
    BY <1>1, <1>2 DEF TypeOK, Close

LEMMA SignalTypes ==
  ASSUME TypeOK, NEW s \in Slot, Signal(s)
  PROVE  /\ queue' \in [Slot -> Seq(Event)] /\ mine' \in [Slot -> Id \cup {None}]
         /\ gone' \subseteq Slot /\ owed' \subseteq Slot
         /\ Posts(s) \in Slot \cup {None}
         /\ UNCHANGED <<clientVars, done, semaphore, worker, triggered, finished>>
  <1>1. CASE Gets(s)
    <2> DEFINE i == CHOOSE j \in Free(s) : TRUE
    <2>1. i \in Id
      BY <1>1, QueueIds DEF Gets, Room, Signal
    <2>2. [id |-> i, triggered |-> Triggered(s)] \in Event
      BY <2>1 DEF Event, Triggered
    <2>3. queue' = [queue EXCEPT ![s] = Append(@, [id |-> i, triggered |-> Triggered(s)])]
          /\ mine' = [mine EXCEPT ![s] = i]
      BY <1>1 DEF Signal
    <2> HIDE DEF i
    <2>4. Append(queue[s], [id |-> i, triggered |-> Triggered(s)]) \in Seq(Event)
      BY <2>2 DEF TypeOK
    <2> QED
      BY <1>1, <2>1, <2>3, <2>4 DEF TypeOK, Signal, Posts
  <1>2. CASE ~Gets(s)
    BY <1>2 DEF TypeOK, Signal, Posts
  <1> QED
    BY <1>1, <1>2

LEMMA GoesTypes ==
  ASSUME TypeOK, NEW s \in Slot, NEW place \in WorkerPlace, Goes(s, place)
  PROVE  worker' \in [Slot -> WorkerState]
  <1>1. [worker[s] EXCEPT !.at = place] \in WorkerState
    BY DEF TypeOK, WorkerState
  <1>2. worker' = [worker EXCEPT ![s] = [worker[s] EXCEPT !.at = place]]
    BY DEF Goes
  <1> HIDE DEF WorkerState
  <1> QED
    BY <1>1, <1>2 DEF TypeOK

LEMMA RestingTypes ==
  Resting \in WorkerState
  BY DEF Resting, WorkerState, WorkerPlace

LEMMA AtTypes ==
  ASSUME NEW place \in {"poll", "signal", "completed", "lag"}
  PROVE  At(place) \in MainState
  BY SizeAssumption DEF At, MainState

LEMMA WorkerTypes ==
  ASSUME Types, NEW s \in Slot, Worker(s)
  PROVE  Types'
  <1> USE DEF Types, AtSlot
  <1>0. /\ IdsOf(queue[s]) \subseteq Id
        /\ queue[s] # << >> => Head(queue[s]) \in Event /\ Tail(queue[s]) \in Seq(Event)
    BY QueueIds
  <1>a. ASSUME NEW place \in WorkerPlace, Goes(s, place) PROVE worker' \in [Slot -> WorkerState]
    BY <1>a, GoesTypes
  <1>b. WorkerPlace = {"top", "wait", "woken", "update", "read", "linger", "report"}
    BY DEF WorkerPlace
  <1>1. CASE Top(s)
    BY <1>1, <1>a, <1>b DEF Top, TypeOK, clientVars, listVars, mainVars
  <1>2. CASE Wake(s)
    <2>1. semaphore' \in [Slot -> Nat]
      BY <1>2 DEF Wake, TypeOK
    <2> QED
      BY <1>2, <1>a, <1>b, <2>1 DEF Wake, TypeOK, clientVars, mainVars
  <1>3. CASE TakeEvent(s)
    <2>1. worker' \in [Slot -> WorkerState]
      <3>1. queue[s] # << >> =>
              [at |-> "update", id |-> Head(queue[s]).id, triggered |-> Head(queue[s]).triggered] \in WorkerState
        BY <1>0, <1>b DEF Event, WorkerState
      <3> QED
        BY <3>1, <1>3, RestingTypes DEF TakeEvent, TypeOK
    <2> QED
      BY <1>3, <2>1 DEF TakeEvent, TypeOK, clientVars, listVars, mainVars
  <1>4. CASE StartUpdate(s)
    <2>1. worker' \in [Slot -> WorkerState]
      BY <1>4, <1>a, <1>b DEF StartUpdate
    <2>2. done' \in [Slot -> SUBSET Id] /\ queue' = queue
      BY <1>4 DEF StartUpdate, Purge, TypeOK
    <2> QED
      BY <1>4, <2>1, <2>2 DEF StartUpdate, TypeOK, clientVars, mainVars
  <1>5. CASE Accept(s)
    <2>1. worker' \in [Slot -> WorkerState]
      BY <1>5, <1>a, <1>b DEF Accept
    <2>2. socket' \in [Slot -> {"none", "open", "broken"}] /\ triggered' \subseteq Slot
          /\ UNCHANGED <<phase, inbox, lag>>
      BY <1>5 DEF Accept, TypeOK, clientVars
    <2> QED
      BY <1>5, <2>1, <2>2 DEF Accept, TypeOK, listVars
  <1>6. CASE FindClosed(s)
    <2>1. Close(s) /\ worker' \in [Slot -> WorkerState] /\ UNCHANGED mainVars
      BY <1>6, <1>a, <1>b DEF FindClosed
    <2> QED
      BY <2>1, CloseTypes DEF TypeOK, mainVars
  <1>7. CASE FindNothing(s)
    <2>1. worker' \in [Slot -> WorkerState] /\ UNCHANGED mainVars
      BY <1>7, <1>a, <1>b DEF FindNothing
    <2>2. CASE Close(s)
      BY <2>1, <2>2, CloseTypes DEF TypeOK, mainVars
    <2>3. CASE UNCHANGED <<clientVars, listVars, gone, owed>>
      BY <2>1, <2>3 DEF TypeOK, clientVars, listVars, mainVars
    <2> QED
      BY <1>7, <2>2, <2>3 DEF FindNothing
  <1>8. CASE Receive(s)
    <2>1. worker' \in [Slot -> WorkerState] /\ UNCHANGED <<socket, listVars, mainVars, gone>>
          /\ owed' = owed \ {s}
      BY <1>8, <1>a, <1>b DEF Receive
    <2>2. inbox' \in [Slot -> Nat]
      BY <1>8 DEF Receive, TypeOK
    <2>3. phase' \in [Slot -> {"new", "joining", "ready"}]
      BY <1>8 DEF Receive, NextPhase, TypeOK
    <2>4. lag' \in [Slot -> InTime .. Ever]
      <3>1. PICK l \in InTime .. lag[s] : lag' = [lag EXCEPT ![s] = l]
        BY <1>8 DEF Receive
      <3>2. lag[s] \in InTime .. Ever
        BY DEF TypeOK
      <3>3. l \in InTime .. Ever
        BY <3>2 DEF InTime, Ever
      <3> QED
        BY <3>1, <3>3 DEF TypeOK
    <2> QED
      BY <2>1, <2>2, <2>3, <2>4 DEF TypeOK, listVars, mainVars
  <1>9. CASE Refuse(s)
    <2>1. Close(s) /\ worker' \in [Slot -> WorkerState] /\ UNCHANGED mainVars
      BY <1>9, <1>a, <1>b DEF Refuse
    <2> QED
      BY <2>1, CloseTypes DEF TypeOK, mainVars
  <1>10. CASE StopLingering(s)
    BY <1>10, <1>a, <1>b DEF StopLingering, TypeOK, clientVars, listVars, mainVars
  <1>11. CASE Report(s)
    <2>1. worker' \in [Slot -> WorkerState]
      BY <1>11, RestingTypes DEF Report, TypeOK
    <2>2. queue' \in [Slot -> Seq(Event)]
      BY <1>0, <1>11 DEF Report, TypeOK
    <2>3. done' \in [Slot -> SUBSET Id]
      <3>1. queue[s] # << >> => Head(queue[s]).id \in Id
        BY <1>0 DEF Event
      <3>2. done' = done \/ (worker[s].id \in Id /\ done' = [done EXCEPT ![s] = @ \cup {worker[s].id}])
        BY <1>11, <3>1 DEF Report
      <3>3. done[s] \cup {worker[s].id} \in SUBSET Id \/ done' = done
        BY <3>2 DEF TypeOK
      <3> QED
        BY <3>2, <3>3 DEF TypeOK
    <2> QED
      BY <1>11, <2>1, <2>2, <2>3 DEF Report, TypeOK, clientVars, mainVars
  <1> QED
    BY <1>1, <1>2, <1>3, <1>4, <1>5, <1>6, <1>7, <1>8, <1>9, <1>10, <1>11 DEF Worker

(* DropIfDue closes the slot or leaves it alone.                           *)
LEMMA DropTypes ==
  ASSUME TypeOK, NEW s \in Slot, DropIfDue(s) \/ UNCHANGED <<clientVars, listVars, gone, owed>>
  PROVE  /\ socket' \in [Slot -> {"none", "open", "broken"}]
         /\ phase' \in [Slot -> {"new", "joining", "ready"}]
         /\ inbox' \in [Slot -> Nat] /\ lag' \in [Slot -> InTime .. Ever]
         /\ queue' \in [Slot -> Seq(Event)] /\ done' \in [Slot -> SUBSET Id]
         /\ semaphore' \in [Slot -> Nat]
         /\ gone' \subseteq Slot /\ owed' \subseteq Slot
  BY CloseTypes DEF DropIfDue, TypeOK, clientVars, listVars

LEMMA MainTypes ==
  ASSUME Types, Main
  PROVE  Types'
  <1> USE SizeAssumption, IdAssumption DEF Types, AtSlot
  <1>0. /\ 1 \in 1 .. N + 1 /\ None \in Slot \cup {None}
        /\ \A n \in Slot : n + 1 \in 1 .. N + 1
    BY DEF Slot
  <1>1. CASE Poll
    BY <1>1, AtTypes DEF Poll, At, TypeOK, clientVars, listVars
  <1>2. CASE PollQuiet
    <2>1. main' \in MainState /\ main'.at = "lag"
      BY <1>0, <1>2 DEF PollQuiet, At, MainState
    <2> QED
      BY <1>2, <2>1 DEF PollQuiet, TypeOK, clientVars, listVars
  <1>3. CASE Raise
    <2>1. main' \in MainState /\ main'.at = main.at /\ main'.slot = main.slot /\ main.post \in Slot
      BY <1>0, <1>3 DEF Raise, MainState, TypeOK
    <2>2. semaphore' \in [Slot -> Nat]
      BY <1>3, <2>1 DEF Raise, TypeOK
    <2> QED
      BY <1>3, <2>1, <2>2 DEF Raise, TypeOK, clientVars
  <1>4. CASE SignalNext
    <2>1. main.slot \in Slot /\ Signal(main.slot) /\ main.at = "signal"
          /\ signalled' \in {signalled, signalled \cup {main.slot}}
          /\ main' = [main EXCEPT !.slot = @ + 1, !.post = Posts(main.slot)]
      BY <1>4 DEF SignalNext, Idle
    <2>2. Posts(main.slot) \in Slot \cup {None}
      BY <2>1, SignalTypes
    <2>3. main' \in MainState /\ main'.at = "signal"
      BY <1>0, <2>1, <2>2 DEF MainState, TypeOK
    <2> QED
      BY <2>1, <2>3, SignalTypes DEF TypeOK, clientVars
  <1>5. CASE AllSignalled
    BY <1>5, AtTypes DEF AllSignalled, At, TypeOK, clientVars, listVars
  <1>6. CASE CheckCompleted
    <2>1. main' \in MainState /\ main'.at = "completed"
      <3>1. main.slot \in Slot
            /\ \/ main' = [At("completed") EXCEPT !.late = TRUE]
               \/ main' = [main EXCEPT !.slot = @ + 1]
        BY <1>6 DEF CheckCompleted
      <3>2. main.at = "completed" /\ main \in MainState
        BY <1>6 DEF CheckCompleted, Idle, TypeOK
      <3> QED
        BY <1>0, <3>1, <3>2 DEF At, MainState
    <2>2. finished' \subseteq Slot
      BY <1>6 DEF CheckCompleted, TypeOK
    <2> QED
      BY <1>6, <2>1, <2>2 DEF CheckCompleted, TypeOK, clientVars, listVars
  <1>7. CASE EndOfWait
    BY <1>7, AtTypes DEF EndOfWait, At, TypeOK, clientVars, listVars
  <1>8. CASE CheckLag
    <2>1. main.slot \in Slot /\ Idle("lag")
          /\ (DropIfDue(main.slot) \/ UNCHANGED <<clientVars, listVars, gone, owed>>)
          /\ UNCHANGED <<worker, triggered, mine, signalled>>
          /\ (finished' = finished \/ finished' = finished \cup {main.slot})
          /\ \/ main' = [At("lag") EXCEPT !.late = TRUE, !.due = main.due]
             \/ main' = [main EXCEPT !.at = "grace"]
             \/ main' = [main EXCEPT !.at = "resignal"]
      BY <1>8 DEF CheckLag
    <2>2. main' \in MainState /\ AtSlot'
      BY <1>0, <2>1 DEF At, Idle, MainState, TypeOK
    <2> QED
      BY <2>1, <2>2, DropTypes DEF TypeOK
  <1>9. CASE SignalAgain
    <2>1. main.slot \in Slot /\ Signal(main.slot)
          /\ signalled' \in {signalled \ {main.slot}, signalled \cup {main.slot}}
          /\ main' = [main EXCEPT !.at = "grace", !.again = TRUE, !.post = Posts(main.slot)]
      BY <1>9 DEF SignalAgain, Idle
    <2>2. Posts(main.slot) \in Slot \cup {None}
      BY <2>1, SignalTypes
    <2>3. main' \in MainState /\ main'.slot = main.slot
      BY <1>0, <2>1, <2>2 DEF MainState, TypeOK
    <2> QED
      BY <2>1, <2>3, SignalTypes DEF TypeOK, clientVars
  <1>10. CASE CheckGrace
    <2>1. main.slot \in Slot
      BY <1>10 DEF CheckGrace, Idle
    <2>2. main' \in MainState /\ main'.at = "lag"
      <3>1. PICK due \in {main.due, TRUE} : main' = [main EXCEPT !.at = "lag", !.slot = @ + 1, !.due = due]
        BY <1>10 DEF CheckGrace
      <3> QED
        BY <1>0, <2>1, <3>1 DEF MainState, TypeOK
    <2>3. (DropIfDue(main.slot) \/ UNCHANGED <<clientVars, listVars, gone, owed>>)
          /\ UNCHANGED <<worker, triggered, mine, signalled, finished>>
      BY <1>10 DEF CheckGrace
    <2> QED
      BY <2>1, <2>2, <2>3, DropTypes DEF TypeOK
  <1>11. CASE EndOfRound
    <2>1. main' \in MainState /\ main'.at \in {"lag", "poll"}
      BY <1>0, <1>11 DEF EndOfRound, At, MainState, TypeOK
    <2> QED
      BY <1>11, <2>1 DEF EndOfRound, TypeOK, clientVars, listVars
  <1>12. CASE EndOfLagCheck
    BY <1>12, AtTypes DEF EndOfLagCheck, At, TypeOK, clientVars, listVars
  <1>13. ASSUME NEW s \in Slot, TooLate(s) PROVE Types'
    BY <1>13, CloseTypes DEF TooLate, TypeOK, mainVars
  <1> QED
    BY <1>1, <1>2, <1>3, <1>4, <1>5, <1>6, <1>7, <1>8, <1>9, <1>10, <1>11, <1>12, <1>13 DEF Main

LEMMA TypesInit == Init => Types
  BY AtTypes, RestingTypes DEF Init, Types, AtSlot, TypeOK, At, InTime, Ever

LEMMA TypesNext == Types /\ [Next]_vars => Types'
  <1> SUFFICES ASSUME Types, [Next]_vars PROVE Types'
    OBVIOUS
  <1> USE DEF Types, AtSlot
  <1>1. CASE Main
    BY <1>1, MainTypes
  <1>2. ASSUME NEW s \in Slot, Worker(s) PROVE Types'
    BY <1>2, WorkerTypes
  <1>3. ASSUME NEW s \in Slot, Send(s) PROVE Types'
    BY <1>3 DEF Send, TypeOK, listVars, mainVars
  <1>4. ASSUME NEW s \in Slot, Leave(s) PROVE Types'
    BY <1>4 DEF Leave, TypeOK, listVars, mainVars
  <1>5. ASSUME NEW s \in Slot, FallBehind(s) PROVE Types'
    <2>1. lag[s] \in InTime .. Ever
      BY DEF TypeOK
    <2>2. lag[s] + 1 \in InTime .. Ever
      BY <1>5, <2>1 DEF FallBehind, InTime, Ever
    <2>3. lag' \in [Slot -> InTime .. Ever]
      BY <1>5, <2>2 DEF FallBehind, TypeOK
    <2> QED
      BY <1>5, <2>3 DEF FallBehind, TypeOK, listVars, mainVars
  <1>6. CASE UNCHANGED vars
    BY <1>6 DEF vars, clientVars, listVars, mainVars, TypeOK
  <1> QED
    BY <1>1, <1>2, <1>3, <1>4, <1>5, <1>6 DEF Next

(* The variables of the threads keep their types.                          *)
THEOREM TypeCorrect == Spec => []TypeOK
  <1>1. Types => TypeOK
    BY DEF Types
  <1> QED
    BY TypesInit, TypesNext, <1>1, PTL DEF Spec

-----------------------------------------------------------------------------
(* The invariant of a slot.                                                *)

(* It depends on nothing but the slot's own state.                         *)
Unchanged(s) ==
  /\ socket'[s] = socket[s] /\ inbox'[s] = inbox[s]
  /\ queue'[s] = queue[s] /\ done'[s] = done[s] /\ semaphore'[s] = semaphore[s]
  /\ worker'[s] = worker[s] /\ mine'[s] = mine[s]
  /\ (s \in gone') = (s \in gone) /\ (s \in owed') = (s \in owed)
  /\ (main'.post = s) = (main.post = s)

LEMMA Frame ==
  ASSUME NEW s \in Slot, SlotInv(s), Unchanged(s)
  PROVE  SlotInv(s)'
  BY DEF SlotInv, Unchanged, Resting1, Raised, Mine, Readable, ReadSome, Connected

(* A slot that is closed has no client and an empty list.                  *)
LEMMA CloseInv ==
  ASSUME Types, NEW s \in Slot, SlotInv(s), Close(s),
         worker' = worker \/ (worker'[s].at = "report" /\ worker'[s].id = worker[s].id)
  PROVE  SlotInv(s)'
  <1>1. socket'[s] = "none" /\ queue'[s] = << >> /\ s \in gone' /\ semaphore'[s] \in Nat
    BY DEF Close, Types, TypeOK
  <1>2. ~Connected(s)'
    BY <1>1 DEF Connected
  <1>3. Raised(s)'
    <2>1. Len(queue'[s]) = 0
      BY <1>1
    <2> QED
      BY <1>1, <2>1 DEF Raised
  <1> QED
    BY <1>1, <1>2, <1>3 DEF SlotInv, Resting1, Mine, Readable, ReadSome

LEMMA CloseOthers ==
  ASSUME Types, NEW s \in Slot, NEW t \in Slot \ {s}, SlotInv(t), Close(s),
         worker'[t] = worker[t], UNCHANGED mine, main'.post = main.post
  PROVE  SlotInv(t)'
  <1>1. Unchanged(t)
    BY DEF Unchanged, Close, Types, TypeOK
  <1> QED
    BY <1>1, Frame

(* An event is put on the list: it is the last, and the main thread's.     *)
LEMMA SignalInv ==
  ASSUME Types, NEW s \in Slot, SlotInv(s), Signal(s), main.post = None, main'.post = Posts(s)
  PROVE  /\ SlotInv(s)'
         /\ Gets(s) => mine'[s] # None
  <1> USE IdAssumption
  <1>1. queue[s] \in Seq(Event) /\ semaphore[s] \in Nat /\ done[s] \subseteq Id
        /\ worker[s] \in WorkerState
    BY DEF Types, TypeOK
  <1>2. /\ UNCHANGED <<socket, inbox, done, semaphore, worker, triggered>>
        /\ s \notin gone' => Connected(s)
        /\ s \in owed' => inbox[s] > 0
        /\ Connected(s)' = Connected(s)
    BY DEF Signal, clientVars, Types, TypeOK, Connected
  <1>3. Connected(s) => socket[s] # "none"
    BY DEF Connected
  <1>4. CASE Gets(s)
    <2> DEFINE i == CHOOSE j \in Free(s) : TRUE
               e == [id |-> i, triggered |-> Triggered(s)]
    <2>1. i \in Free(s)
      BY <1>4 DEF Gets, Room, Signal
    <2>2. queue'[s] = Append(queue[s], e) /\ mine'[s] = i
      BY <1>4 DEF Signal, Types, TypeOK
    <2>3. main'.post = s
      BY <1>4 DEF Posts
    <2> HIDE DEF i
    <2>4. i \in Id /\ i \notin done[s] /\ i # worker[s].id /\ i # None
          /\ \A j \in 1 .. Len(queue[s]) : queue[s][j].id # i
      BY <2>1 DEF Free, IdsOf
    <2>5. e \in Event /\ e.id = i /\ e.triggered = Triggered(s)
      BY <2>4 DEF Event, Triggered
    <2>6. /\ queue'[s] # << >> /\ Len(queue'[s]) = Len(queue[s]) + 1
          /\ queue'[s][Len(queue'[s])] = e
          /\ \A j \in 1 .. Len(queue[s]) : queue'[s][j] = queue[s][j]
      BY <1>1, <2>2, <2>5
    <2>7. s \notin gone' => Triggered(s)
      BY <1>2, <1>4 DEF Gets
    <2>8. Resting1(s)'
      BY <1>2, <2>6 DEF SlotInv, Resting1
    <2>9. Raised(s)'
      <3>1. queue[s] # << >> => Head(queue'[s]) = Head(queue[s])
        BY <1>1, <2>2, <2>5
      <3>2. queue[s] = << >> => Len(queue[s]) = 0
        OBVIOUS
      <3>3. main.post # s
        OBVIOUS
      <3> QED
        BY <1>1, <1>2, <2>3, <2>6, <3>1, <3>2, <3>3 DEF SlotInv, Raised
    <2>10. Mine(s)'
      BY <2>2, <2>5, <2>6 DEF Mine
    <2>11. Readable(s)'
      <3>1. \A j \in 1 .. Len(queue'[s]) : j \in 1 .. Len(queue[s]) \/ j = Len(queue'[s])
        BY <1>1, <2>6
      <3> QED
        BY <1>2, <1>3, <2>2, <2>4, <2>5, <2>6, <2>7, <3>1 DEF Readable
    <2>12. ReadSome(s)'
      BY <1>2, <2>2, <2>4 DEF ReadSome
    <2> QED
      BY <1>4, <2>2, <2>4, <2>7, <2>8, <2>9, <2>10, <2>11, <2>12 DEF SlotInv
  <1>5. CASE ~Gets(s)
    <2>1. queue'[s] = queue[s] /\ mine'[s] = None /\ main'.post = None
      BY <1>5 DEF Signal, Posts, Types, TypeOK
    <2>2. \A j \in 1 .. Len(queue[s]) : queue[s][j] \in Event
      BY <1>1
    <2>3. None \notin done[s] /\ \A j \in 1 .. Len(queue[s]) : queue[s][j].id # None
      BY <1>1, <2>2 DEF Event
    <2>4. main.post # s /\ main'.post # s
      BY <2>1
    <2>5. Resting1(s)' /\ Raised(s)'
      BY <1>2, <2>1, <2>4 DEF SlotInv, Resting1, Raised
    <2>6. Mine(s)' /\ Readable(s)' /\ ReadSome(s)'
      BY <1>2, <1>3, <2>1, <2>3 DEF Mine, Readable, ReadSome
    <2> QED
      BY <1>5, <2>5, <2>6 DEF SlotInv
  <1> QED
    BY <1>4, <1>5

(* The steps of a worker, for its own slot.                                *)
LEMMA WorkerInv ==
  ASSUME Types, Types', NEW s \in Slot, SlotInv(s), Worker(s), UNCHANGED <<main, mine>>
  PROVE  SlotInv(s)'
  <1> USE IdAssumption
  <1>0. /\ queue[s] \in Seq(Event) /\ semaphore[s] \in Nat /\ inbox[s] \in Nat
        /\ worker \in [Slot -> WorkerState] /\ worker[s] \in WorkerState
        /\ socket[s] \in {"none", "open", "broken"}
    BY DEF Types, TypeOK
  <1>a. ASSUME NEW place \in WorkerPlace, Goes(s, place)
        PROVE  worker'[s].at = place /\ worker'[s].id = worker[s].id
               /\ worker'[s].triggered = worker[s].triggered
    BY <1>0, <1>a DEF Goes, WorkerState
  <1>b. WorkerPlace = {"top", "wait", "woken", "update", "read", "linger", "report"}
    BY DEF WorkerPlace
  <1> USE DEF SlotInv
  <1>1. CASE Top(s)
    <2>1. UNCHANGED <<socket, inbox, queue, done, semaphore, gone, owed>>
      BY <1>1 DEF Top, clientVars, listVars
    <2>2. worker'[s].at = (IF Connected(s) THEN "wait" ELSE "update") /\ worker[s].at = "top"
          /\ worker'[s].id = worker[s].id /\ worker'[s].triggered = worker[s].triggered
      BY <1>1, <1>a, <1>b DEF Top
    <2> QED
      BY <2>1, <2>2 DEF Resting1, Raised, Mine, Readable, ReadSome, Connected
  <1>2. CASE Wake(s)
    <2>1. UNCHANGED <<socket, inbox, queue, done, gone, owed>> /\ semaphore'[s] = semaphore[s] - 1
          /\ semaphore[s] > 0
      BY <1>2 DEF Wake, clientVars, Types, TypeOK
    <2>2. worker'[s].at = "woken" /\ worker[s].at = "wait"
          /\ worker'[s].id = worker[s].id /\ worker'[s].triggered = worker[s].triggered
      BY <1>2, <1>a, <1>b DEF Wake
    <2>3. worker[s].id = None /\ (queue[s] # << >> => Head(queue[s]).id # None)
      BY <1>0, <2>2, QueueIds DEF Resting1, Event, Types
    <2>4. Len(queue[s]) <= semaphore[s] + (IF main.post = s THEN 1 ELSE 0)
      BY <1>0, <2>2, <2>3 DEF Raised
    <2>5. Raised(s)'
      BY <1>0, <2>1, <2>2, <2>4 DEF Raised
    <2> QED
      BY <2>1, <2>2, <2>5 DEF Resting1, Mine, Readable, ReadSome, Connected
  <1>3. CASE TakeEvent(s)
    <2>1. UNCHANGED <<socket, inbox, queue, done, semaphore, gone, owed>> /\ worker[s].at = "woken"
      BY <1>3 DEF TakeEvent, clientVars, listVars
    <2>2. CASE queue[s] = << >>
      <3>1. worker'[s] = Resting
        BY <1>0, <1>3, <2>2 DEF TakeEvent
      <3>2. Len(queue[s]) = 0
        BY <2>2
      <3> QED
        BY <1>0, <2>1, <2>2, <3>1, <3>2 DEF Resting, Resting1, Raised, Mine, Readable, ReadSome, Connected
    <2>3. CASE queue[s] # << >>
      <3>1. worker'[s] = [at |-> "update", id |-> Head(queue[s]).id, triggered |-> Head(queue[s]).triggered]
        BY <1>0, <1>3, <2>3 DEF TakeEvent
      <3>2. Head(queue[s]) = queue[s][1] /\ 1 \in 1 .. Len(queue[s])
        BY <1>0, <2>3
      <3>3. Raised(s)'
        BY <1>0, <2>1, <2>3, <3>1 DEF Raised
      <3> QED
        BY <2>1, <2>3, <3>1, <3>2, <3>3 DEF Resting1, Mine, Readable, ReadSome, Connected
    <2> QED
      BY <2>2, <2>3
  <1>4. CASE StartUpdate(s)
    <2>1. UNCHANGED <<socket, inbox, queue, semaphore, gone, owed>> /\ worker[s].at = "update"
      BY <1>4 DEF StartUpdate, Purge, clientVars
    <2>2. worker'[s].id = worker[s].id /\ worker'[s].triggered = worker[s].triggered
          /\ worker'[s].at \in {"read", "report"}
      BY <1>4, <1>a, <1>b DEF StartUpdate
    <2>3. CASE worker[s].triggered \/ ~Connected(s)
      <3>1. done'[s] = {} /\ worker'[s].at = "read"
        BY <1>4, <1>a, <1>b, <2>3 DEF StartUpdate, Purge, Types, TypeOK
      <3> QED
        BY <2>1, <2>2, <3>1 DEF Resting1, Raised, Mine, Readable, ReadSome, Connected
    <2>4. CASE ~worker[s].triggered /\ Connected(s)
      <3>1. done' = done
        BY <1>4, <2>4 DEF StartUpdate
      <3> QED
        BY <2>1, <2>2, <2>4, <3>1 DEF Resting1, Raised, Mine, Readable, ReadSome, Connected
    <2> QED
      BY <2>3, <2>4
  <1>5. CASE Accept(s)
    <2>1. UNCHANGED <<inbox, queue, done, semaphore, gone, owed>> /\ worker[s].at = "read"
          /\ socket[s] = "none" /\ s \in gone
      BY <1>5 DEF Accept, clientVars, listVars, Readable
    <2>2. worker'[s].at = "report" /\ worker'[s].id = worker[s].id
      BY <1>5, <1>a, <1>b DEF Accept
    <2> QED
      BY <2>1, <2>2 DEF Resting1, Raised, Mine, Readable, ReadSome
  <1>6. CASE FindClosed(s)
    <2>1. Close(s) /\ worker'[s].at = "report" /\ worker'[s].id = worker[s].id
      BY <1>6, <1>a, <1>b DEF FindClosed
    <2> QED
      BY <2>1, CloseInv
  <1>7. CASE FindNothing(s)
    <2>1. worker[s].at = "read" /\ socket[s] = "open" /\ inbox[s] = 0
          /\ worker'[s].at = "report" /\ worker'[s].id = worker[s].id
          /\ worker'[s].triggered = worker[s].triggered
      BY <1>7, <1>a, <1>b DEF FindNothing
    <2>2. CASE Close(s)
      BY <2>1, <2>2, CloseInv
    <2>3. CASE UNCHANGED <<clientVars, listVars, gone, owed>>
      BY <2>1, <2>3 DEF clientVars, listVars, Resting1, Raised, Mine, Readable, ReadSome, Connected
    <2> QED
      BY <1>7, <2>2, <2>3 DEF FindNothing
  <1>8. CASE Receive(s)
    <2>1. UNCHANGED <<socket, queue, done, semaphore, gone>> /\ owed' = owed \ {s}
          /\ worker[s].at \in {"read", "linger"} /\ inbox[s] > 0 /\ inbox'[s] = inbox[s] - 1
      BY <1>0, <1>8 DEF Receive, listVars, Types, TypeOK
    <2>2. worker'[s].at \in {"linger", "report"} /\ worker'[s].id = worker[s].id
          /\ worker'[s].triggered = worker[s].triggered
      BY <1>8, <1>a, <1>b DEF Receive
    <2> QED
      BY <2>1, <2>2 DEF Resting1, Raised, Mine, Readable, ReadSome, Connected
  <1>9. CASE Refuse(s)
    <2>1. Close(s) /\ worker'[s].at = "report" /\ worker'[s].id = worker[s].id
      BY <1>9, <1>a, <1>b DEF Refuse
    <2> QED
      BY <2>1, CloseInv
  <1>10. CASE StopLingering(s)
    <2>1. UNCHANGED <<socket, inbox, queue, done, semaphore, gone, owed>> /\ worker[s].at = "linger"
      BY <1>10 DEF StopLingering, clientVars, listVars
    <2>2. worker'[s].at = "report" /\ worker'[s].id = worker[s].id
          /\ worker'[s].triggered = worker[s].triggered
      BY <1>10, <1>a, <1>b DEF StopLingering
    <2> QED
      BY <2>1, <2>2 DEF Resting1, Raised, Mine, Readable, ReadSome, Connected
  <1>11. CASE Report(s)
    <2>1. UNCHANGED <<socket, inbox, semaphore, gone, owed>> /\ worker[s].at = "report"
          /\ worker'[s] = Resting
      BY <1>0, <1>11 DEF Report, clientVars
    <2>2. CASE queue[s] # << >> /\ Head(queue[s]).id = worker[s].id
      <3>1. queue'[s] = Tail(queue[s]) /\ done'[s] = done[s] \cup {worker[s].id}
        BY <1>11, <2>2 DEF Report, Types, TypeOK
      <3>2. Len(queue'[s]) = Len(queue[s]) - 1 /\ Len(queue[s]) \in Nat
            /\ Head(queue[s]) = queue[s][1]
            /\ queue'[s] \in Seq(Event)
            /\ \A j \in 1 .. Len(queue'[s]) : j + 1 \in 1 .. Len(queue[s]) /\ queue'[s][j] = queue[s][j + 1]
        BY <1>0, <2>2, <3>1
      <3>3. Raised(s)'
        BY <1>0, <2>1, <2>2, <3>2 DEF Raised, Resting
      <3>4. queue'[s] = << >> <=> Len(queue[s]) = 1
        <4>1. Len(queue'[s]) = 0 <=> queue'[s] = << >>
          BY <3>2, EmptySeq
        <4> QED
          BY <3>2, <4>1
      <3>5. queue'[s] # << >> => Len(queue'[s]) \in 1 .. Len(queue'[s])
                                  /\ queue'[s][Len(queue'[s])] = queue[s][Len(queue[s])]
        BY <3>2
      <3>6. Mine(s)'
        BY <2>1, <2>2, <3>1, <3>2, <3>4, <3>5 DEF Mine, Connected
      <3>7. Readable(s)'
        BY <2>1, <3>2 DEF Readable, Resting
      <3>8. ReadSome(s)'
        <4>1. Head(queue[s]).id # None
          BY <2>2, QueueIds DEF Event, Types
        <4>2. s \notin gone /\ mine[s] \in done'[s] => s \notin owed
          BY <2>1, <2>2, <3>1, <4>1 DEF ReadSome
        <4>3. Resting.id = None
          BY DEF Resting
        <4> QED
          BY <2>1, <4>2, <4>3 DEF ReadSome
      <3> QED
        BY <2>1, <3>3, <3>6, <3>7, <3>8 DEF Resting1, Resting
    <2>3. CASE ~(queue[s] # << >> /\ Head(queue[s]).id = worker[s].id)
      <3>1. UNCHANGED <<queue, done>>
        BY <1>11, <2>3 DEF Report
      <3>2. Raised(s)'
        BY <1>0, <2>1, <2>3, <3>1 DEF Raised, Resting
      <3> QED
        BY <2>1, <3>1, <3>2 DEF Resting1, Mine, Readable, ReadSome, Connected, Resting
    <2> QED
      BY <2>2, <2>3
  <1> QED
    BY <1>1, <1>2, <1>3, <1>4, <1>5, <1>6, <1>7, <1>8, <1>9, <1>10, <1>11 DEF Worker

(* A worker changes nothing of the main thread, and nothing of other slots.*)
LEMMA WorkerKeeps ==
  ASSUME Types, NEW s \in Slot, Worker(s)
  PROVE  /\ UNCHANGED <<main, mine, signalled>>
         /\ gone \subseteq gone'
         /\ \A t \in Slot \ {s} : Unchanged(t)
  <1> USE DEF Types, TypeOK, Unchanged, Goes, clientVars, listVars, mainVars
  <1>1. CASE Top(s)
    BY <1>1 DEF Top
  <1>2. CASE Wake(s)
    BY <1>2 DEF Wake
  <1>3. CASE TakeEvent(s)
    BY <1>3 DEF TakeEvent
  <1>4. CASE StartUpdate(s)
    BY <1>4 DEF StartUpdate, Purge
  <1>5. CASE Accept(s)
    BY <1>5 DEF Accept
  <1>6. CASE FindClosed(s)
    BY <1>6 DEF FindClosed, Close
  <1>7. CASE FindNothing(s)
    BY <1>7 DEF FindNothing, Close
  <1>8. CASE Receive(s)
    BY <1>8 DEF Receive
  <1>9. CASE Refuse(s)
    BY <1>9 DEF Refuse, Close
  <1>10. CASE StopLingering(s)
    BY <1>10 DEF StopLingering
  <1>11. CASE Report(s)
    BY <1>11 DEF Report
  <1> QED
    BY <1>1, <1>2, <1>3, <1>4, <1>5, <1>6, <1>7, <1>8, <1>9, <1>10, <1>11 DEF Worker

(* The main thread drops a client, or does not.                            *)
LEMMA DropInv ==
  ASSUME Types, NEW s \in Slot, NEW t \in Slot, SlotInv(t),
         Close(s) \/ DropIfDue(s) \/ UNCHANGED <<clientVars, listVars, gone, owed>>,
         UNCHANGED <<worker, mine>>, main'.post = main.post
  PROVE  SlotInv(t)' /\ gone \subseteq gone'
  <1>1. CASE Close(s)
    <2>1. SlotInv(t)'
      BY <1>1, CloseInv, CloseOthers
    <2> QED
      BY <1>1, <2>1 DEF Close
  <1>2. CASE UNCHANGED <<clientVars, listVars, gone, owed>>
    <2>1. Unchanged(t) /\ gone' = gone
      BY <1>2 DEF Unchanged, clientVars, listVars
    <2> QED
      BY <2>1, Frame
  <1> QED
    BY <1>1, <1>2 DEF DropIfDue

(* The main thread signals a slot: nothing of another one is changed.      *)
LEMMA SignalOthers ==
  ASSUME Types, NEW s \in Slot, NEW t \in Slot \ {s}, Signal(s), main.post = None,
         main'.post = Posts(s)
  PROVE  Unchanged(t)
  <1>1. main.post # t /\ main'.post # t
    BY IdAssumption DEF Posts
  <1>2. UNCHANGED <<clientVars, done, semaphore, worker>>
        /\ (t \in gone') = (t \in gone) /\ (t \in owed') = (t \in owed)
    BY DEF Signal
  <1>3. queue'[t] = queue[t] /\ mine'[t] = mine[t]
    BY DEF Signal, Types, TypeOK
  <1> QED
    BY <1>1, <1>2, <1>3 DEF Unchanged, clientVars

(* Without an event of the main thread.                                    *)
LEMMA NoEventInv ==
  ASSUME Types, NEW s \in Slot, SlotInv(s), mine'[s] = None, main'.post = main.post,
         UNCHANGED <<clientVars, listVars, worker, gone, owed>>
  PROVE  SlotInv(s)'
  <1>1. queue[s] \in Seq(Event) /\ done[s] \subseteq Id
    BY DEF Types, TypeOK
  <1>2. \A j \in 1 .. Len(queue[s]) : queue[s][j] \in Event
    BY <1>1
  <1>3. None \notin done[s] /\ \A j \in 1 .. Len(queue[s]) : queue[s][j].id # None
    BY <1>1, <1>2, IdAssumption DEF Event
  <1> QED
    BY <1>3 DEF SlotInv, Resting1, Raised, Mine, Readable, ReadSome, Connected, clientVars, listVars

(* The steps of the main thread.                                           *)
LEMMA MainInv ==
  ASSUME Types, NEW t \in Slot, SlotInv(t), Main
  PROVE  SlotInv(t)'
  <1> USE DEF Types
  <1>1. CASE Poll
    BY <1>1, NoEventInv DEF Poll, At, Idle
  <1>2. CASE PollQuiet
    BY <1>2, NoEventInv DEF PollQuiet, At, Idle
  <1>3. CASE Raise
    <2>1. UNCHANGED <<socket, inbox, queue, done, worker, mine, gone, owed>>
      BY <1>3 DEF Raise, clientVars
    <2>2. Raised(t)'
      <3>1. semaphore \in [Slot -> Nat] /\ main \in MainState /\ Len(queue[t]) \in Nat
        BY DEF TypeOK
      <3>2. main'.post = None /\ main'.post # t /\ main.post \in Slot
        BY <1>3, <3>1, IdAssumption DEF Raise, MainState
      <3>3. semaphore'[t] = semaphore[t] + (IF main.post = t THEN 1 ELSE 0)
        BY <1>3, <3>1, <3>2 DEF Raise
      <3> QED
        BY <2>1, <3>1, <3>2, <3>3 DEF SlotInv, Raised
    <2> QED
      BY <2>1, <2>2 DEF SlotInv, Resting1, Mine, Readable, ReadSome, Connected
  <1>4. CASE SignalNext
    <2>1. main.slot \in Slot /\ Signal(main.slot) /\ main.post = None /\ main'.post = Posts(main.slot)
      BY <1>4 DEF SignalNext, Idle, TypeOK, MainState
    <2> QED
      BY <2>1, SignalInv, SignalOthers, Frame
  <1>5. CASE AllSignalled
    <2>1. Unchanged(t)
      BY <1>5 DEF AllSignalled, Idle, At, Unchanged, clientVars, listVars
    <2> QED
      BY <2>1, Frame
  <1>6. CASE CheckCompleted
    <2>1. main'.post = main.post
      <3>1. main \in MainState /\ main.post = None
            /\ \/ main' = [At("completed") EXCEPT !.late = TRUE]
               \/ main' = [main EXCEPT !.slot = @ + 1]
        BY <1>6 DEF CheckCompleted, Idle, TypeOK
      <3> QED
        BY <3>1 DEF At, MainState
    <2>2. Unchanged(t)
      BY <1>6, <2>1 DEF CheckCompleted, Unchanged, clientVars, listVars
    <2> QED
      BY <2>2, Frame
  <1>7. CASE EndOfWait
    <2>1. Unchanged(t)
      BY <1>7 DEF EndOfWait, Idle, At, Unchanged, clientVars, listVars
    <2> QED
      BY <2>1, Frame
  <1>8. CASE CheckLag
    <2>1. main.slot \in Slot /\ UNCHANGED <<worker, mine>>
          /\ (DropIfDue(main.slot) \/ UNCHANGED <<clientVars, listVars, gone, owed>>)
      BY <1>8 DEF CheckLag
    <2>2. main'.post = main.post
      <3>1. main \in MainState /\ main.post = None
            /\ \/ main' = [At("lag") EXCEPT !.late = TRUE, !.due = main.due]
               \/ main' = [main EXCEPT !.at = "grace"]
               \/ main' = [main EXCEPT !.at = "resignal"]
        BY <1>8 DEF CheckLag, Idle, TypeOK
      <3> QED
        BY <3>1 DEF At, MainState
    <2> QED
      BY <2>1, <2>2, DropInv
  <1>9. CASE SignalAgain
    <2>1. main.slot \in Slot /\ Signal(main.slot) /\ main.post = None /\ main'.post = Posts(main.slot)
      BY <1>9 DEF SignalAgain, Idle, TypeOK, MainState, AtSlot
    <2> QED
      BY <2>1, SignalInv, SignalOthers, Frame
  <1>10. CASE CheckGrace
    <2>1. main.slot \in Slot /\ UNCHANGED <<worker, mine>>
          /\ (DropIfDue(main.slot) \/ UNCHANGED <<clientVars, listVars, gone, owed>>)
      BY <1>10 DEF CheckGrace, Idle, AtSlot
    <2>2. main'.post = main.post
      <3>1. PICK due \in {main.due, TRUE} : main' = [main EXCEPT !.at = "lag", !.slot = @ + 1, !.due = due]
        BY <1>10 DEF CheckGrace
      <3> QED
        BY <3>1 DEF TypeOK, MainState
    <2> QED
      BY <2>1, <2>2, DropInv
  <1>11. CASE EndOfRound
    <2>1. main'.post = main.post
      BY <1>11 DEF EndOfRound, Idle, At
    <2>2. Unchanged(t)
      BY <1>11, <2>1 DEF EndOfRound, Unchanged, clientVars, listVars
    <2> QED
      BY <2>2, Frame
  <1>12. CASE EndOfLagCheck
    <2>1. Unchanged(t)
      BY <1>12 DEF EndOfLagCheck, Idle, At, Unchanged, clientVars, listVars
    <2> QED
      BY <2>1, Frame
  <1>13. ASSUME NEW s \in Slot, TooLate(s) PROVE SlotInv(t)'
    BY <1>13, DropInv DEF TooLate, mainVars
  <1> QED
    BY <1>1, <1>2, <1>3, <1>4, <1>5, <1>6, <1>7, <1>8, <1>9, <1>10, <1>11, <1>12, <1>13 DEF Main

(* The steps of the clients: what they change of a slot is its socket.     *)
LEMMA ClientInv ==
  ASSUME Types, NEW s \in Slot, NEW t \in Slot, SlotInv(t), Send(s) \/ Leave(s) \/ FallBehind(s)
  PROVE  SlotInv(t)' /\ UNCHANGED <<mainVars, gone>>
  <1> USE DEF Types, TypeOK
  <1>0. UNCHANGED <<listVars, worker, mainVars, gone, owed>>
    BY DEF Send, Leave, FallBehind
  <1>1. CASE Send(s)
    <2>1. socket' = socket /\ (inbox'[t] = inbox[t] \/ (inbox'[t] > 0 /\ socket[t] = "open"))
      BY <1>1 DEF Send
    <2>2. Connected(t)' = Connected(t)
      BY <2>1 DEF Connected
    <2>3. t \in owed /\ (inbox[t] > 0 \/ socket[t] = "broken") => inbox'[t] > 0 \/ socket'[t] = "broken"
      BY <2>1
    <2> QED
      BY <1>0, <2>1, <2>2, <2>3 DEF SlotInv, Resting1, Raised, Mine, Readable, ReadSome, listVars, mainVars
  <1>2. CASE Leave(s)
    <2>1. t # s => socket'[t] = socket[t] /\ inbox'[t] = inbox[t]
      BY <1>2 DEF Leave
    <2>2. t = s => socket[t] = "open" /\ socket'[t] = "broken"
      BY <1>2 DEF Leave
    <2>3. Connected(t)' => Connected(t)
      BY <2>1, <2>2 DEF Connected
    <2>4. (socket[t] # "none" => socket'[t] # "none")
          /\ (inbox[t] > 0 \/ socket[t] = "broken" => inbox'[t] > 0 \/ socket'[t] = "broken")
      BY <2>1, <2>2
    <2> QED
      BY <1>0, <2>3, <2>4 DEF SlotInv, Resting1, Raised, Mine, Readable, ReadSome, listVars, mainVars
  <1>3. CASE FallBehind(s)
    <2>1. Unchanged(t)
      BY <1>0, <1>3 DEF FallBehind, Unchanged, listVars, mainVars
    <2> QED
      BY <1>0, <2>1, Frame
  <1> QED
    BY <1>1, <1>2, <1>3

-----------------------------------------------------------------------------
(* The invariant of the specification.                                     *)

LEMMA InvInit == Init => ThreadInv
  <1> SUFFICES ASSUME Init PROVE ThreadInv
    OBVIOUS
  <1> USE IdAssumption
  <1>1. Types
    BY TypesInit
  <1>2. \A s \in Slot : SlotInv(s) /\ Given(s)
    <2> SUFFICES ASSUME NEW s \in Slot PROVE SlotInv(s) /\ Given(s)
      OBVIOUS
    <2>1. /\ queue[s] = << >> /\ done[s] = {} /\ semaphore[s] = 0 /\ worker[s].at = "top"
          /\ worker[s].id = None /\ mine[s] = None /\ socket[s] = "open"
          /\ owed = {} /\ signalled = {} /\ Len(queue[s]) = 0 /\ main.post # s
      BY DEF Init, Resting, At
    <2> QED
      BY <2>1 DEF SlotInv, Resting1, Raised, Mine, Readable, ReadSome, Given
  <1> QED
    BY <1>1, <1>2 DEF ThreadInv

(* A slot is signalled with an event, and only once in the first loop.     *)
LEMMA GivenMain ==
  ASSUME Types, NEW t \in Slot, SlotInv(t), Given(t), Main
  PROVE  Given(t)'
  <1> USE DEF Types
  <1>0. main \in MainState /\ signalled \subseteq Slot
    BY DEF TypeOK
  <1>a. ASSUME UNCHANGED <<signalled, mine>>, gone \subseteq gone', main'.at # "signal" PROVE Given(t)'
    BY <1>a DEF Given
  <1>1. CASE Poll \/ PollQuiet
    BY <1>1 DEF Poll, PollQuiet, Given
  <1>2. CASE Raise
    <2>1. main'.at = main.at /\ main'.slot = main.slot
      BY <1>0, <1>2 DEF Raise, MainState
    <2> QED
      BY <1>2, <2>1 DEF Raise, Given
  <1>3. CASE SignalNext
    <2>1. main.slot \in Slot /\ Signal(main.slot) /\ main.post = None /\ main'.post = Posts(main.slot)
          /\ main.at = "signal" /\ main'.slot = main.slot + 1 /\ main.slot \in Nat
      BY <1>0, <1>3 DEF SignalNext, Idle, MainState, Slot
    <2>2. t \in signalled' => t \in signalled \/ (t = main.slot /\ Gets(t))
      BY <1>3 DEF SignalNext, Gets
    <2>3. t \in signalled => t < main.slot
      BY <2>1 DEF Given
    <2>4. t < main.slot => t # main.slot
      BY <2>1 DEF Slot
    <2>5. CASE t = main.slot
      <3>1. t \in signalled' => mine'[t] # None
        BY <2>1, <2>2, <2>3, <2>4, <2>5, SignalInv
      <3> QED
        BY <2>1, <2>5, <3>1 DEF Given
    <2>6. CASE t # main.slot
      <3>1. mine'[t] = mine[t] /\ (t \in gone') = (t \in gone)
        BY <2>1, <2>6, SignalOthers DEF Unchanged
      <3>2. t \in signalled' => t < main'.slot
        BY <2>1, <2>2, <2>3, <2>6 DEF Slot
      <3> QED
        BY <2>2, <2>6, <3>1, <3>2 DEF Given
    <2> QED
      BY <2>5, <2>6
  <1>4. CASE SignalAgain
    <2>1. main.slot \in Slot /\ Signal(main.slot) /\ main.post = None /\ main'.post = Posts(main.slot)
      BY <1>4 DEF SignalAgain, Idle, AtSlot
    <2>2. main'.at # "signal"
      BY <1>0, <1>4 DEF SignalAgain, MainState
    <2>3. CASE t = main.slot
      <3>1. t \in signalled' => Gets(t)
        BY <1>4, <2>3 DEF SignalAgain
      <3> QED
        BY <2>1, <2>2, <2>3, <3>1, SignalInv DEF Given
    <2>4. CASE t # main.slot
      <3>1. t \in signalled' => t \in signalled
        BY <1>4, <2>4 DEF SignalAgain
      <3> QED
        BY <2>1, <2>2, <2>4, <3>1, SignalOthers DEF Given, Unchanged
    <2> QED
      BY <2>3, <2>4
  <1>5. CASE AllSignalled \/ EndOfWait \/ EndOfRound \/ EndOfLagCheck
    <2>1. main'.at # "signal"
      <3>1. \/ main' = At("completed") \/ main' = At("lag") \/ main' = At("poll")
            \/ main' = [At("lag") EXCEPT !.late = TRUE, !.due = main.due]
        BY <1>5 DEF AllSignalled, EndOfWait, EndOfRound, EndOfLagCheck
      <3>2. [At("lag") EXCEPT !.late = TRUE, !.due = main.due].at = "lag"
        BY DEF At
      <3>3. At("completed").at = "completed" /\ At("lag").at = "lag" /\ At("poll").at = "poll"
        BY DEF At
      <3> QED
        BY <3>1, <3>2, <3>3
    <2> QED
      BY <1>5, <1>a, <2>1 DEF AllSignalled, EndOfWait, EndOfRound, EndOfLagCheck
  <1>6. CASE CheckCompleted
    <2>1. main'.at # "signal"
      <3>1. main.at = "completed"
            /\ \/ main' = [At("completed") EXCEPT !.late = TRUE]
               \/ main' = [main EXCEPT !.slot = @ + 1]
        BY <1>6 DEF CheckCompleted, Idle
      <3> QED
        BY <1>0, <3>1 DEF At, MainState
    <2> QED
      BY <1>6, <1>a, <2>1 DEF CheckCompleted
  <1>7. CASE CheckLag
    <2>1. main'.at # "signal"
      BY <1>0, <1>7 DEF CheckLag, At, MainState
    <2>2. gone \subseteq gone' /\ UNCHANGED <<mine, signalled>>
      BY <1>7 DEF CheckLag, DropIfDue, Close
    <2> QED
      BY <1>a, <2>1, <2>2
  <1>8. CASE CheckGrace
    <2>1. main'.at # "signal"
      BY <1>0, <1>8 DEF CheckGrace, MainState
    <2>2. gone \subseteq gone' /\ UNCHANGED <<mine, signalled>>
      BY <1>8 DEF CheckGrace, DropIfDue, Close
    <2> QED
      BY <1>a, <2>1, <2>2
  <1>9. ASSUME NEW s \in Slot, TooLate(s) PROVE Given(t)'
    <2>1. gone \subseteq gone' /\ UNCHANGED mainVars
      BY <1>9 DEF TooLate, Close
    <2> QED
      BY <2>1 DEF Given, mainVars
  <1> QED
    BY <1>1, <1>2, <1>3, <1>4, <1>5, <1>6, <1>7, <1>8, <1>9 DEF Main

LEMMA InvNext == ThreadInv /\ [Next]_vars => ThreadInv'
  <1> SUFFICES ASSUME ThreadInv, [Next]_vars PROVE ThreadInv'
    OBVIOUS
  <1>1. Types /\ Types'
    BY TypesNext DEF ThreadInv
  <1> SUFFICES ASSUME NEW t \in Slot PROVE SlotInv(t)' /\ Given(t)'
    BY <1>1 DEF ThreadInv
  <1>2. SlotInv(t) /\ Given(t)
    BY DEF ThreadInv
  <1>3. CASE Main
    BY <1>1, <1>2, <1>3, MainInv, GivenMain
  <1>4. ASSUME NEW s \in Slot, Worker(s) PROVE SlotInv(t)' /\ Given(t)'
    <2>1. /\ UNCHANGED <<main, mine, signalled>> /\ gone \subseteq gone'
          /\ t # s => Unchanged(t)
      BY <1>1, <1>4, WorkerKeeps
    <2>2. SlotInv(t)'
      <3>1. CASE t = s
        BY <1>1, <1>2, <1>4, <2>1, <3>1, WorkerInv
      <3>2. CASE t # s
        BY <1>2, <2>1, <3>2, Frame
      <3> QED
        BY <3>1, <3>2
    <2>3. Given(t)'
      BY <1>2, <2>1 DEF Given
    <2> QED
      BY <2>2, <2>3
  <1>5. ASSUME NEW s \in Slot, Send(s) \/ Leave(s) \/ FallBehind(s) PROVE SlotInv(t)' /\ Given(t)'
    BY <1>1, <1>2, <1>5, ClientInv DEF Given, mainVars
  <1>6. CASE UNCHANGED vars
    <2>1. Unchanged(t)
      BY <1>6 DEF Unchanged, vars, clientVars, listVars, mainVars
    <2> QED
      BY <1>2, <1>6, <2>1, Frame DEF Given, vars, mainVars
  <1> QED
    BY <1>3, <1>4, <1>5, <1>6 DEF Next

(* The invariant of every slot holds in every state.                       *)
THEOREM InvariantHolds == Spec => []ThreadInv
  BY InvInit, InvNext, PTL DEF Spec

(* No worker sleeps while there is an event for it: with any number of     *)
(* slots, the semaphore covers the events of the list, whatever the order  *)
(* of putting one there, raising, waking and completing.                   *)
THEOREM NoLostWakeupHolds == Spec => []NoLostWakeup
  <1>1. ThreadInv => NoLostWakeup
    BY DEF ThreadInv, SlotInv, Raised, NoLostWakeup
  <1> QED
    BY <1>1, InvariantHolds, PTL

(* The main thread's event for a client that stays is on the list or       *)
(* completed: it does not wait for an event that a worker has purged.      *)
THEOREM WaitsForItsEventHolds == Spec => []WaitsForItsEvent
  <1>1. ThreadInv => WaitsForItsEvent
    <2> SUFFICES ASSUME ThreadInv, NEW s \in signalled \ gone, Connected(s)
                 PROVE  mine[s] \in IdsOf(queue[s]) \cup done[s]
      BY DEF WaitsForItsEvent
    <2>1. s \in Slot /\ queue[s] \in Seq(Event)
      BY DEF ThreadInv, Types, TypeOK
    <2>2. Mine(s) /\ mine[s] # None
      BY <2>1 DEF ThreadInv, SlotInv, Given
    <2>3. CASE queue[s] = << >>
      BY <2>2, <2>3 DEF Mine
    <2>4. CASE queue[s] # << >>
      <3>1. Len(queue[s]) \in 1 .. Len(queue[s])
        BY <2>1, <2>4
      <3>2. queue[s][Len(queue[s])].id = mine[s]
        BY <2>2, <2>4 DEF Mine
      <3> QED
        BY <3>1, <3>2 DEF IdsOf
    <2> QED
      BY <2>3, <2>4
  <1> QED
    BY <1>1, InvariantHolds, PTL

(* An event is completed only after the worker has read for it: what the   *)
(* main thread takes from the slot then is not of an earlier update.       *)
THEOREM ReadWhenDoneHolds == Spec => []ReadWhenDone
  <1>1. ThreadInv => ReadWhenDone
    BY DEF ThreadInv, Types, TypeOK, SlotInv, ReadSome, ReadWhenDone, Completed
  <1> QED
    BY <1>1, InvariantHolds, PTL
=============================================================================
