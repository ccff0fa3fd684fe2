------------------------------ MODULE Lockstep ------------------------------
(***************************************************************************)
(* The lockstep protocol of a network game in progress: the game loop of   *)
(* the server and of each client, the network thread of each client, the   *)
(* connection slots of the server, and the sockets between them.           *)
(*                                                                         *)
(* Every Period world frames there is a keyframe.  At a keyframe the       *)
(* server broadcasts the commands requested since the last one and         *)
(* executes them; a client waits until it has the list of that keyframe    *)
(* and executes it.  While the game is paused no frame passes on the       *)
(* server, which broadcasts again and again for the same keyframe.  A      *)
(* client that is far behind catches up, two frames at a time, and does    *)
(* not stop that for a pause.                                              *)
(*                                                                         *)
(* The world frame of a replica is key * Period + tick.  A broadcast list  *)
(* is known by its place in lists, so a message is a natural number.       *)
(***************************************************************************)
EXTENDS Integers, Sequences, FiniteSets

CONSTANTS
  NumClients,     \* the clients sit in the slots 1 .. NumClients
  Period,         \* GameSettings::networkFramePeriod
  Command,        \* the network commands
  PauseCmds,      \* those that pause the game (nctPauseResume)
  ResumeCmds,     \* those that resume it
  Script,         \* Script[r]: what the user and the AIs of r request, in order
  SlowSlots,      \* slots whose socket may accept only part of a message
  SmoothInterval, \* GameConstants::networkSmoothInterval
  Fallback,       \* allowedMaxFallback of Game::update, in frames
  MaxLists        \* bound: the number of broadcasts of a behaviour

Server == 0
Client == 1 .. NumClients
Replica == Server .. NumClients

ASSUME NumClientsAssumption == NumClients \in Nat
ASSUME PeriodAssumption == Period \in Nat \ {0}
ASSUME CommandAssumption ==
  /\ PauseCmds \subseteq Command
  /\ ResumeCmds \subseteq Command
  /\ PauseCmds \cap ResumeCmds = {}
  /\ Script \in [Replica -> Seq(Command)]
  /\ \A r, q \in Replica : \A i \in DOMAIN Script[r], j \in DOMAIN Script[q] :
       Script[r][i] = Script[q][j] => r = q /\ i = j
ASSUME SlotAssumption == SlowSlots \subseteq Client
ASSUME CatchUpAssumption == SmoothInterval \in Nat \ {0, 1} /\ Fallback \in Nat
ASSUME BoundAssumption == MaxLists \in Nat

VARIABLES
  lists,          \* every list broadcast so far, in order
  todo,           \* what is left of the script of each replica
  turn,           \* Server: Game::update is next; c: slot c is polled next
  requested,      \* GameNetworkInterface::requestedCommands of each replica
  key, tick,      \* World::frameCount of each replica
  paused,         \* Game::paused of each replica
  slotPending,    \* ConnectionSlot::vctPendingNetworkCommandList of each slot
  link,           \* the TCP connection of a client stands
  uplink,         \* command lists on their way from a client to its slot
  downlink,       \* lists on their way from a slot to its client
  net,            \* where the network thread of a client is
  cached,         \* ClientInterface::cachedPendingCommands
  cachedLast,     \* ClientInterface::cachedLastPendingFrameCount, as a key
  pc,             \* where the main thread of a client is
  catchUp,        \* Game::framesToCatchUpAsClient
  again,          \* the loop of Game::update has one more round to go
  pending,        \* ClientInterface::pendingCommands
  quit,           \* the client has left the game
  received,       \* history: how many lists the client has read
  executed,       \* history: the lists that the client has executed
  missed,         \* history: a broadcast has skipped this client
  strayed         \* history: the client has caught up while it was paused

serverVars == <<lists, turn, slotPending>>
threadVars == <<net, cached, cachedLast, received>>
catchVars  == <<catchUp, again, strayed>>
mainVars   == <<pc, pending, executed, catchUp, again, strayed>>
vars == <<lists, todo, turn, requested, key, tick, paused, slotPending,
          link, uplink, downlink, net, cached, cachedLast, pc, pending,
          quit, received, executed, missed, catchUp, again, strayed>>

-----------------------------------------------------------------------------
(* Commands and lists *)

(* Both ends empty requestedCommands from the back (pop_back).             *)
Batch(s) == [i \in 1 .. Len(s) |-> s[Len(s) - i + 1]]

Toggles(s) == {i \in DOMAIN s : s[i] \in PauseCmds \cup ResumeCmds}

(* Game::paused after the commands s: the last pause or resume counts.     *)
PausedAfter(p, s) ==
  IF Toggles(s) = {} THEN p
  ELSE \E i \in Toggles(s) :
         s[i] \in PauseCmds /\ \A j \in Toggles(s) : j <= i

(* What is read in place of a list whose sending stopped part of the way.  *)
Cut == 0

-----------------------------------------------------------------------------
(* Connections *)

(* Socket::isConnected: a connection that the other end has closed still   *)
(* counts as long as there is unread data.                                 *)
ClientConnected(c) == link[c] \/ downlink[c] # <<>>
SlotConnected(c) == link[c] \/ uplink[c] # <<>>

(* The client closes its socket and leaves the game.                       *)
Leave(c) ==
  /\ quit' = [quit EXCEPT ![c] = TRUE]
  /\ link' = [link EXCEPT ![c] = FALSE]
  /\ downlink' = [downlink EXCEPT ![c] = <<>>]

-----------------------------------------------------------------------------
Init ==
  /\ lists = <<>>
  /\ todo = Script
  /\ turn = Server
  /\ requested = [r \in Replica |-> <<>>]
  /\ key = [r \in Replica |-> 0]
  /\ tick = [r \in Replica |-> 0]
  /\ paused = [r \in Replica |-> FALSE]
  /\ slotPending = [c \in Client |-> <<>>]
  /\ link = [c \in Client |-> TRUE]
  /\ uplink = [c \in Client |-> <<>>]
  /\ downlink = [c \in Client |-> <<>>]
  /\ net = [c \in Client |-> "idle"]
  /\ cached = [c \in Client |-> <<>>]
  /\ cachedLast = [c \in Client |-> 0]
  /\ pc = [c \in Client |-> "update"]
  /\ pending = [c \in Client |-> <<>>]
  /\ quit = [c \in Client |-> FALSE]
  /\ received = [c \in Client |-> 0]
  /\ executed = [c \in Client |-> <<>>]
  /\ missed = [c \in Client |-> FALSE]
  /\ catchUp = [c \in Client |-> 0]
  /\ again = [c \in Client |-> FALSE]
  /\ strayed = [c \in Client |-> FALSE]

-----------------------------------------------------------------------------
(* Requests: user input and AI decisions of any replica *)

(* Commander::pushNetworkCommand, before the game loop runs a frame.       *)
Request(r) ==
  /\ todo[r] # <<>>
  /\ IF r = Server THEN turn = Server ELSE pc[r] = "update" /\ ~quit[r]
  /\ requested' = [requested EXCEPT ![r] = Append(@, Head(todo[r]))]
  /\ todo' = [todo EXCEPT ![r] = Tail(@)]
  /\ UNCHANGED <<serverVars, key, tick, paused, link, uplink, downlink,
                 threadVars, mainVars, quit, missed>>

-----------------------------------------------------------------------------
(* The server *)

(* Mutants: off the last slot; the newest list sent first; commands that   *)
(* stay in the slot once they are taken.                                   *)
NextTurnNoWrap(t) == t + 1

(* The main loop: Game::update, then ServerInterface::update, which polls  *)
(* the slots one after another.                                            *)
NextTurn(t) == IF t = NumClients THEN Server ELSE t + 1

(* Game::update between two keyframes.                                     *)
ServerFrame ==
  /\ turn = Server
  /\ ~paused[Server] /\ tick[Server] + 1 < Period
  /\ tick' = [tick EXCEPT ![Server] = @ + 1]
  /\ turn' = NextTurn(turn)
  /\ UNCHANGED <<lists, todo, requested, key, paused, slotPending, link,
                 uplink, downlink, threadVars, mainVars, quit, missed>>

(* The keyframe that Game::update reaches: the next one, or, while the     *)
(* game is paused and no frame passes, the same one again.                 *)
KeyframeOf(r) == IF paused[r] THEN key[r] ELSE key[r] + 1

DeliveredNewestFirst(id, stop) ==
  [c \in Client |->
     IF link[c] /\ c < stop THEN <<id>> \o downlink[c]
     ELSE IF link[c] /\ c = stop THEN Append(downlink[c], Cut)
     ELSE downlink[c]]

(* ServerInterface::broadcastMessage: the slots in order, those that are   *)
(* connected.  If the send to slot stop ends part of the way, an exception *)
(* ends the loop: that slot has a torn message and later ones have none.   *)
Delivered(id, stop) ==
  [c \in Client |->
     IF link[c] /\ c < stop THEN Append(downlink[c], id)
     ELSE IF link[c] /\ c = stop THEN Append(downlink[c], Cut)
     ELSE downlink[c]]

(* Game::update at a keyframe: ServerInterface::updateKeyframe, then       *)
(* Commander::updateNetwork executes the same commands here.               *)
ServerKeyframe(stop) ==
  LET cmds == Batch(requested[Server])
      pauses == PausedAfter(paused[Server], cmds)
  IN /\ turn = Server
     /\ paused[Server] \/ tick[Server] + 1 = Period
     /\ Len(lists) < MaxLists
     /\ lists' = Append(lists, [key |-> KeyframeOf(Server), cmds |-> cmds,
                                paused |-> pauses])
     /\ key' = [key EXCEPT ![Server] = KeyframeOf(Server)]
     /\ tick' = [tick EXCEPT ![Server] = 0]
     /\ paused' = [paused EXCEPT ![Server] = pauses]
     /\ requested' = [requested EXCEPT ![Server] = <<>>]
     /\ downlink' = Delivered(Len(lists) + 1, stop)
     /\ missed' = [c \in Client |-> missed[c] \/ (link[c] /\ c >= stop)]
     /\ turn' = NextTurn(turn)
     /\ UNCHANGED <<todo, slotPending, link, uplink, threadVars, mainVars,
                    quit>>

Stops == {NumClients + 1} \cup {c \in SlowSlots : link[c]}

PollSlotKeeping(c) ==
  /\ turn = c
  /\ turn' = NextTurn(turn)
  /\ IF SlotConnected(c)
     THEN requested' = [requested EXCEPT ![Server] = @ \o slotPending[c]]
     ELSE UNCHANGED requested
  /\ UNCHANGED <<lists, slotPending, todo, key, tick, paused, link, uplink,
                 downlink, threadVars, mainVars, quit, missed>>

(* executeNetworkCommandsFromClients at slot c.                            *)
PollSlot(c) ==
  /\ turn = c
  /\ turn' = NextTurn(turn)
  /\ IF SlotConnected(c)
     THEN /\ requested' = [requested EXCEPT ![Server] = @ \o slotPending[c]]
          /\ slotPending' = [slotPending EXCEPT ![c] = <<>>]
     ELSE UNCHANGED <<requested, slotPending>>
  /\ UNCHANGED <<lists, todo, key, tick, paused, link, uplink, downlink,
                 threadVars, mainVars, quit, missed>>

(* ConnectionSlot::update, in the worker thread of the slot.               *)
SlotReceive(c) ==
  /\ uplink[c] # <<>>
  /\ slotPending' = [slotPending EXCEPT ![c] = @ \o Head(uplink[c])]
  /\ uplink' = [uplink EXCEPT ![c] = Tail(@)]
  /\ UNCHANGED <<lists, turn, todo, requested, key, tick, paused, link,
                 downlink, threadVars, mainVars, quit, missed>>

-----------------------------------------------------------------------------
(* The main thread of a client *)

(* framesToCatchUpAsClient after the statistics of Game::update: when, for *)
(* a whole interval, the lists of later keyframes have come too early, the *)
(* least lead of these (at most that over the keyframe in progress).       *)
FramesToCatchUp(c) ==
  {catchUp[c]} \cup
  IF paused[c] \/ key[c] < SmoothInterval THEN {}
  ELSE 1 .. (cachedLast[c] - key[c]) * Period - Fallback

(* One round of the loop of Game::update passes a frame.  At a keyframe it *)
(* goes on to ClientInterface::updateKeyframe, which starts the network    *)
(* thread once.                                                            *)
PassFrame(c, more) ==
  /\ again' = [again EXCEPT ![c] = more]
  /\ IF tick[c] + 1 < Period
     THEN /\ tick' = [tick EXCEPT ![c] = @ + 1]
          /\ pc' = [pc EXCEPT ![c] = IF more THEN "again" ELSE "net"]
          /\ UNCHANGED <<key, net>>
     ELSE /\ tick' = [tick EXCEPT ![c] = 0]
          /\ key' = [key EXCEPT ![c] = @ + 1]
          /\ pc' = [pc EXCEPT ![c] = "wait"]
          /\ net' = [net EXCEPT ![c] = IF @ = "idle" THEN "out" ELSE @]
  /\ UNCHANGED <<serverVars, todo, requested, paused, link, uplink, downlink,
                 cached, cachedLast, received, pending, executed, quit,
                 missed>>

(* Mutants: a paused client passes frames; a paused client does not ask    *)
(* again; the entry of the cache is kept full, or is erased (as the        *)
(* unthreaded branch of updateKeyframe does); the wait ends at once.       *)
ClientAdvanceInPause(c) ==
  /\ pc[c] = "update" /\ ~quit[c]
  /\ \E n \in FramesToCatchUp(c) :
       /\ catchUp' = [catchUp EXCEPT ![c] = IF n > 0 THEN n - 1 ELSE 0]
       /\ strayed' = [strayed EXCEPT ![c] = @ \/ (paused[c] /\ n > 0)]
       /\ PassFrame(c, n > 0)

ClientRevisitNoCommands(c) ==
  /\ pc[c] = "update" /\ ~quit[c]
  /\ paused[c] \/ key[c] >= 2
  /\ pc' = [pc EXCEPT ![c] = "net"]
  /\ UNCHANGED <<serverVars, todo, requested, key, tick, paused, link, uplink,
                 downlink, threadVars, pending, executed, quit, missed,
                 catchVars>>

GetCommandsKeeping(c) ==
  /\ pc[c] = "wait" /\ ~quit[c]
  /\ key[c] \in DOMAIN cached[c]
  /\ pending' = [pending EXCEPT ![c] = @ \o cached[c][key[c]]]
  /\ pc' = [pc EXCEPT ![c] = "give"]
  /\ UNCHANGED <<serverVars, todo, requested, key, tick, paused, link, uplink,
                 downlink, threadVars, executed, quit, missed, catchVars>>

GetCommandsErasing(c) ==
  /\ pc[c] = "wait" /\ ~quit[c]
  /\ key[c] \in DOMAIN cached[c]
  /\ pending' = [pending EXCEPT ![c] = @ \o cached[c][key[c]]]
  /\ cached' = [cached EXCEPT ![c] =
                  [k \in DOMAIN @ \ {key[c]} |-> @[k]]]
  /\ pc' = [pc EXCEPT ![c] = "give"]
  /\ UNCHANGED <<serverVars, todo, requested, key, tick, paused, link, uplink,
                 downlink, net, cachedLast, received, executed, quit, missed,
                 catchVars>>

GiveUpAtOnce(c) ==
  /\ pc[c] = "wait" /\ ~quit[c]
  /\ key[c] \notin DOMAIN cached[c]
  /\ pc' = [pc EXCEPT ![c] = "give"]
  /\ UNCHANGED <<serverVars, todo, requested, key, tick, paused, link, uplink,
                 downlink, threadVars, pending, executed, quit, missed,
                 catchVars>>

(* Game::update: one round, or two to catch up.  Only the number of frames *)
(* still to catch up decides on the second one: a client that is paused    *)
(* meanwhile goes on to pass frames.                                       *)
ClientAdvance(c) ==
  /\ pc[c] = "update" /\ ~quit[c]
  /\ ~paused[c] \/ catchUp[c] > 0
  /\ \E n \in FramesToCatchUp(c) :
       /\ catchUp' = [catchUp EXCEPT ![c] = IF n > 0 THEN n - 1 ELSE 0]
       /\ strayed' = [strayed EXCEPT ![c] = @ \/ (paused[c] /\ n > 0)]
       /\ PassFrame(c, n > 0)

(* The second round, whatever the first one has executed.                  *)
ClientAgain(c) ==
  /\ pc[c] = "again" /\ ~quit[c]
  /\ strayed' = [strayed EXCEPT ![c] = @ \/ paused[c]]
  /\ PassFrame(c, FALSE)
  /\ UNCHANGED catchUp

(* Game::update passes no frame, because the game is paused or because the *)
(* client slows down to let the server catch up (from the second keyframe  *)
(* on), which ends the catching up of the client.  On a keyframe its       *)
(* commands are asked for again.                                           *)
ClientRevisit(c) ==
  /\ pc[c] = "update" /\ ~quit[c]
  /\ IF paused[c] THEN catchUp[c] = 0 ELSE key[c] >= 2
  /\ catchUp' = [catchUp EXCEPT ![c] = 0]
  /\ pc' = [pc EXCEPT ![c] = IF tick[c] = 0 THEN "wait" ELSE "net"]
  /\ UNCHANGED <<serverVars, todo, requested, key, tick, paused, link, uplink,
                 downlink, threadVars, pending, executed, quit, missed,
                 again, strayed>>

(* ClientInterface::getNetworkCommand, holding the lock of the cache: the  *)
(* commands are moved, the emptied entry of the keyframe stays.            *)
GetCommands(c) ==
  /\ pc[c] = "wait" /\ ~quit[c]
  /\ key[c] \in DOMAIN cached[c]
  /\ pending' = [pending EXCEPT ![c] = @ \o cached[c][key[c]]]
  /\ cached' = [cached EXCEPT ![c][key[c]] = <<>>]
  /\ pc' = [pc EXCEPT ![c] = "give"]
  /\ UNCHANGED <<serverVars, todo, requested, key, tick, paused, link, uplink,
                 downlink, net, cachedLast, received, executed, quit, missed,
                 catchVars>>

(* The other way out of its loop: a later list has come, this one has not. *)
GiveUpWaiting(c) ==
  /\ pc[c] = "wait" /\ ~quit[c]
  /\ key[c] \notin DOMAIN cached[c]
  /\ cachedLast[c] > key[c]
  /\ pc' = [pc EXCEPT ![c] = "give"]
  /\ UNCHANGED <<serverVars, todo, requested, key, tick, paused, link, uplink,
                 downlink, threadVars, pending, executed, quit, missed,
                 catchVars>>


(* Commander::updateNetwork gives the pending commands, here a list at a   *)
(* time, and clears them when all are given.                               *)
GiveCommands(c) ==
  /\ pc[c] = "give" /\ ~quit[c]
  /\ pending[c] # <<>>
  /\ executed' = [executed EXCEPT ![c] =
                    Append(@, [list |-> Head(pending[c]), key |-> key[c]])]
  /\ paused' = [paused EXCEPT ![c] =
                  PausedAfter(@, lists[Head(pending[c])].cmds)]
  /\ pending' = [pending EXCEPT ![c] = Tail(@)]
  /\ UNCHANGED <<serverVars, todo, requested, key, tick, link, uplink,
                 downlink, threadVars, pc, quit, missed, catchVars>>

GivenAll(c) ==
  /\ pc[c] = "give" /\ ~quit[c]
  /\ pending[c] = <<>>
  /\ pc' = [pc EXCEPT ![c] = IF again[c] THEN "again" ELSE "net"]
  /\ UNCHANGED <<serverVars, todo, requested, key, tick, paused, link, uplink,
                 downlink, threadVars, pending, executed, quit, missed,
                 catchVars>>

(* Mutant: the main thread does not look at the connection.                *)
ClientUpdateUnaware(c) ==
  /\ pc[c] = "net" /\ ~quit[c]
  /\ uplink' = [uplink EXCEPT ![c] =
                  IF link[c] /\ requested[c] # <<>>
                  THEN Append(@, Batch(requested[c])) ELSE @]
  /\ requested' = [requested EXCEPT ![c] = <<>>]
  /\ pc' = [pc EXCEPT ![c] = "update"]
  /\ UNCHANGED <<serverVars, todo, key, tick, paused, link, downlink, quit,
                 threadVars, pending, executed, missed, catchVars>>

(* ClientInterface::update: send the requested commands, or find that the  *)
(* connection is gone.                                                     *)
ClientUpdate(c) ==
  /\ pc[c] = "net" /\ ~quit[c]
  /\ IF ClientConnected(c)
     THEN /\ uplink' = [uplink EXCEPT ![c] =
                          IF link[c] /\ requested[c] # <<>>
                          THEN Append(@, Batch(requested[c])) ELSE @]
          /\ requested' = [requested EXCEPT ![c] = <<>>]
          /\ UNCHANGED <<link, downlink, quit>>
     ELSE Leave(c) /\ UNCHANGED <<uplink, requested>>
  /\ pc' = [pc EXCEPT ![c] = "update"]
  /\ UNCHANGED <<serverVars, todo, key, tick, paused, threadVars, pending,
                 executed, missed, catchVars>>

-----------------------------------------------------------------------------
(* The network thread of a client: ClientInterface::updateFrame, over and  *)
(* over.  A call that finds the connection gone returns without an effect. *)

NetEnter(c) ==
  /\ net[c] = "out" /\ ~quit[c]
  /\ ClientConnected(c)
  /\ net' = [net EXCEPT ![c] = "in"]
  /\ UNCHANGED <<serverVars, todo, requested, key, tick, paused, link, uplink,
                 downlink, cached, cachedLast, received, mainVars, quit,
                 missed>>

(* Mutant: a list overwrites an earlier one of the same keyframe.          *)
StoredOver(f, k, id) ==
  [j \in DOMAIN f \cup {k} |-> IF j # k THEN f[j] ELSE <<id>>]

Stored(f, k, id) ==
  [j \in DOMAIN f \cup {k} |->
     IF j # k THEN f[j]
     ELSE IF k \in DOMAIN f THEN Append(f[k], id) ELSE <<id>>]

(* waitForMessage returns nmtCommandList: the list goes to the cache under *)
(* the keyframe that it carries, and the call is over.                     *)
NetReceive(c) ==
  /\ net[c] = "in" /\ ~quit[c]
  /\ downlink[c] # <<>> /\ Head(downlink[c]) # Cut
  /\ LET id == Head(downlink[c])
         k == lists[id].key
     IN /\ cachedLast' = [cachedLast EXCEPT ![c] = k]
        /\ cached' = [cached EXCEPT ![c] = Stored(@, k, id)]
  /\ received' = [received EXCEPT ![c] = @ + 1]
  /\ downlink' = [downlink EXCEPT ![c] = Tail(@)]
  /\ net' = [net EXCEPT ![c] = "out"]
  /\ UNCHANGED <<serverVars, todo, requested, key, tick, paused, link, uplink,
                 mainVars, quit, missed>>

(* A torn message: the exception leaves the thread and ends the process.   *)
NetFail(c) ==
  /\ net[c] = "in" /\ ~quit[c]
  /\ downlink[c] # <<>> /\ Head(downlink[c]) = Cut
  /\ Leave(c)
  /\ UNCHANGED <<serverVars, todo, requested, key, tick, paused, uplink,
                 threadVars, mainVars, missed>>

(* waitForMessage finds the connection gone.                               *)
NetNotice(c) ==
  /\ net[c] = "in" /\ ~quit[c]
  /\ ~ClientConnected(c)
  /\ Leave(c)
  /\ net' = [net EXCEPT ![c] = "out"]
  /\ UNCHANGED <<serverVars, todo, requested, key, tick, paused, uplink,
                 cached, cachedLast, received, mainVars, missed>>

(* waitForMessage has had no message for messageWaitTimeout.               *)
NetTimeout(c) ==
  /\ net[c] = "in" /\ ~quit[c]
  /\ link[c] /\ downlink[c] = <<>>
  /\ Leave(c)
  /\ net' = [net EXCEPT ![c] = "out"]
  /\ UNCHANGED <<serverVars, todo, requested, key, tick, paused, uplink,
                 cached, cachedLast, received, mainVars, missed>>

-----------------------------------------------------------------------------
(* The connection breaks; of what is under way, any last part is lost.     *)
Drop(c) ==
  /\ ClientConnected(c) \/ SlotConnected(c)
  /\ link' = [link EXCEPT ![c] = FALSE]
  /\ \E i \in 0 .. Len(uplink[c]), j \in 0 .. Len(downlink[c]) :
       /\ uplink' = [uplink EXCEPT ![c] = SubSeq(@, 1, i)]
       /\ downlink' = [downlink EXCEPT ![c] = SubSeq(@, 1, j)]
  /\ UNCHANGED <<serverVars, todo, requested, key, tick, paused, threadVars,
                 mainVars, quit, missed>>

-----------------------------------------------------------------------------
ServerNext ==
  \/ ServerFrame
  \/ \E stop \in Stops : ServerKeyframe(stop)
  \/ \E c \in Client : PollSlot(c)

ClientMain(c) ==
  \/ ClientAdvance(c)
  \/ ClientAgain(c)
  \/ ClientRevisit(c)
  \/ GetCommands(c)
  \/ GiveUpWaiting(c)
  \/ GiveCommands(c)
  \/ GivenAll(c)
  \/ ClientUpdate(c)

ClientNet(c) ==
  \/ NetEnter(c)
  \/ NetReceive(c)
  \/ NetFail(c)
  \/ NetNotice(c)
  \/ NetTimeout(c)

Next ==
  \/ \E r \in Replica : Request(r)
  \/ ServerNext
  \/ \E c \in Client : ClientMain(c) \/ ClientNet(c)
  \/ \E c \in Client : SlotReceive(c) \/ Drop(c)

Spec == Init /\ [][Next]_vars

(* Both threads of a client keep running and its main loop never stops in  *)
(* the middle of an iteration.  The number of frames it slows down for is  *)
(* finite, so if it may pass a frame again and again it does (SF).         *)
Fairness(c) ==
  /\ SF_vars(ClientAdvance(c))
  /\ WF_vars(ClientMain(c))
  /\ WF_vars(NetEnter(c) \/ NetReceive(c) \/ NetFail(c) \/ NetNotice(c))

FairSpec == Spec /\ \A c \in Client : Fairness(c)

-----------------------------------------------------------------------------
(* Properties *)

(* Every variable has its type: the game loops, the commands on their way  *)
(* to the server, the connections and the lists on their way to the        *)
(* clients, the cache of a client and what it takes out of it.             *)
ListsType == lists \in Seq([key : Nat, cmds : Seq(Command), paused : BOOLEAN])

LoopType ==
  /\ turn \in Replica
  /\ key \in [Replica -> Nat]
  /\ tick \in [Replica -> 0 .. Period - 1]
  /\ paused \in [Replica -> BOOLEAN]
  /\ pc \in [Client -> {"update", "wait", "give", "again", "net"}]

RequestType ==
  /\ todo \in [Replica -> Seq(Command)]
  /\ requested \in [Replica -> Seq(Command)]
  /\ slotPending \in [Client -> Seq(Command)]
  /\ uplink \in [Client -> Seq(Seq(Command))]

LinkType ==
  /\ link \in [Client -> BOOLEAN]
  /\ quit \in [Client -> BOOLEAN]
  /\ missed \in [Client -> BOOLEAN]
  /\ net \in [Client -> {"idle", "out", "in"}]
  /\ downlink \in [Client -> Seq(0 .. Len(lists))]

CacheType ==
  /\ cachedLast \in [Client -> Nat]
  /\ received \in [Client -> Nat]
  /\ DOMAIN cached = Client
  /\ \A c \in Client : /\ DOMAIN cached[c] \subseteq Nat
                       /\ \A k \in DOMAIN cached[c] :
                            cached[c][k] \in Seq(1 .. Len(lists))

ReplicaType ==
  /\ pending \in [Client -> Seq(1 .. Len(lists))]
  /\ executed \in [Client -> Seq([list : 1 .. Len(lists), key : Nat])]

CatchUpType ==
  /\ catchUp \in [Client -> Nat]
  /\ again \in [Client -> BOOLEAN]
  /\ strayed \in [Client -> BOOLEAN]

TypeOK ==
  /\ ListsType
  /\ LoopType
  /\ RequestType
  /\ LinkType
  /\ CacheType
  /\ ReplicaType
  /\ CatchUpType

(* No broadcast has skipped the client, and it has not caught up in a      *)
(* pause.                                                                  *)
Attached(c) == ~missed[c] /\ ~strayed[c]

(* An attached client has executed the lists of the server from the first  *)
(* one on, without a gap, without a repetition, in their order, and each   *)
(* one at the world frame at which the server executed it.                 *)
Agreement ==
  \A c \in Client : Attached(c) =>
    /\ Len(executed[c]) <= Len(lists)
    /\ \A i \in DOMAIN executed[c] :
         executed[c][i] = [list |-> i, key |-> lists[i].key]

(* Any client, a skipped or a strayed one too, executes lists of the       *)
(* server in their order, none twice, and each one at the world frame at   *)
(* which the server executed it: all that can go wrong is that it leaves   *)
(* lists out.                                                              *)
OnlySkips ==
  \A c \in Client :
    /\ \A i \in DOMAIN executed[c] :
         executed[c][i].key = lists[executed[c][i].list].key
    /\ \A i, j \in DOMAIN executed[c] :
         i < j => executed[c][i].list < executed[c][j].list

(* Client c has not passed the keyframe of a list that it has not taken.   *)
PassedNone(c) ==
  \A i \in Len(executed[c]) + Len(pending[c]) + 1 .. Len(lists) :
    lists[i].key >= key[c]

(* An attached client has not passed the keyframe of any list that it has  *)
(* still to execute: also a list that is sent for a keyframe once more, in *)
(* a pause, finds the client there, although others are ahead of it and    *)
(* the client may just have caught up.                                     *)
NothingPassedBy == \A c \in Client : Attached(c) => PassedNone(c)

(* An attached client and the server agree on whether the game is paused   *)
(* after the same list, whatever other lists are under way.                *)
PauseAgrees ==
  \A c \in Client : Attached(c) =>
    paused[c] = IF executed[c] = <<>> THEN FALSE
                ELSE lists[Len(executed[c])].paused

(* No client simulates the frames after a keyframe that the server has not *)
(* reached, even one that has missed lists.                                *)
NotAhead == \A c \in Client : pc[c] # "wait" => key[c] <= key[Server]

(* getNetworkCommand gives up waiting for a keyframe, which makes the      *)
(* client go on without its commands, only after a broadcast skipped the   *)
(* client.                                                                 *)
NoGiveUp == [][\A c \in Client : GiveUpWaiting(c) => missed[c]]_vars

At(m, s) == {j \in DOMAIN s : s[j] = m}

(* Where a command is in the sequences of one kind: those of a box that    *)
(* each q of its domain has one of.                                        *)
Held(m, kind, p, box) ==
  UNION {{<<kind, p, q, j>> : j \in At(m, box[q])} : q \in DOMAIN box}

Whereabouts(m) ==
  Held(m, "todo", 0, todo) \cup Held(m, "requested", 0, requested)
  \cup (UNION {Held(m, "uplink", c, uplink[c]) : c \in Client})
  \cup Held(m, "slot", 0, slotPending)
  \cup Held(m, "list", 0, [i \in DOMAIN lists |-> lists[i].cmds])

(* On its way from the player to the list that every replica executes, a   *)
(* command is never duplicated, and it is lost only with a connection.     *)
CommandConserved ==
  \A m \in UNION {{Script[r][j] : j \in DOMAIN Script[r]} : r \in Replica} :
    /\ Cardinality(Whereabouts(m)) <= 1
    /\ Whereabouts(m) = {} =>
         \E c \in Client : At(m, Script[c]) # {} /\ ~link[c]

(* Every list is executed by every client that stays connected and         *)
(* attached: nobody waits for ever, in or out of a pause.                  *)
Delivery ==
  \A c \in Client : \A i \in 1 .. MaxLists :
    (Len(lists) >= i) ~> (Len(executed[c]) >= i \/ ~link[c] \/ ~Attached(c))

(* A client whose connection is gone comes to know it, in either of its    *)
(* threads, and leaves the game; only where it waits for a keyframe that   *)
(* never comes, and the network thread is between two calls, nobody tells  *)
(* it, and it waits for ever.                                              *)
DisconnectNoticed ==
  \A c \in Client : ~link[c] ~> (quit[c] \/ [](pc[c] = "wait" /\ net[c] = "out"))

(* The log of the server, what each client has executed of it, each list   *)
(* at the frame of that client, and whether the client is attached.        *)
LogEntry(i) == [key |-> lists[i].key, cmds |-> lists[i].cmds]

LogOf == [i \in 1 .. Len(lists) |-> LogEntry(i)]

HistoryOf ==
  [c \in Client |->
    IF ~Attached(c) THEN <<>>
    ELSE [i \in 1 .. Len(executed[c]) |->
           [LogEntry(executed[c][i].list) EXCEPT !.key = executed[c][i].key]]]

AttachedOf == [c \in Client |-> Attached(c)]

Log == INSTANCE CommandLog WITH
  log <- LogOf, history <- HistoryOf, attached <- AttachedOf

(* The protocol implements the abstract log of command lists.              *)
ImplementsLog == Log!Spec

-----------------------------------------------------------------------------
(* The inductive invariant *)

(* The keyframe of list i and the pause state after it; before any list,   *)
(* frame 0 and no pause.                                                   *)
KeyOf(i) == IF i = 0 THEN 0 ELSE lists[i].key
PausedAt(i) == IF i = 0 THEN FALSE ELSE lists[i].paused

(* The keyframes of the lists form a chain that stands still in a pause,   *)
(* and the server is at its end.                                           *)
ListsInv ==
  /\ \A i \in 1 .. Len(lists) :
       /\ lists[i].key = IF PausedAt(i - 1) THEN KeyOf(i - 1)
                         ELSE KeyOf(i - 1) + 1
       /\ lists[i].paused = PausedAfter(PausedAt(i - 1), lists[i].cmds)
  /\ \A i, j \in 0 .. Len(lists) : i <= j => KeyOf(i) <= KeyOf(j)
  /\ key[Server] = KeyOf(Len(lists))
  /\ paused[Server] = PausedAt(Len(lists))

(* On the wire are the lists that follow those received, in order.         *)
WireInv(c) ==
  /\ received[c] + Len(downlink[c]) <= Len(lists)
  /\ link[c] => received[c] + Len(downlink[c]) = Len(lists)
  /\ \A j \in DOMAIN downlink[c] : downlink[c][j] = received[c] + j
  /\ cachedLast[c] = KeyOf(received[c])

Taken(c) == Len(executed[c]) + Len(pending[c])

(* The cache has an entry for every keyframe received, and its entries     *)
(* share out the lists received and not taken, in runs of successive ones. *)
EntryInv(c, k) ==
  /\ \E i \in 1 .. received[c] : lists[i].key = k
  /\ \A j \in DOMAIN cached[c][k] :
       /\ cached[c][k][j] = cached[c][k][1] + j - 1
       /\ cached[c][k][j] \in Taken(c) + 1 .. received[c]
       /\ lists[cached[c][k][j]].key = k

InEntry(c, i) ==
  \E j \in DOMAIN cached[c][lists[i].key] : cached[c][lists[i].key][j] = i

CacheInv(c) ==
  /\ Taken(c) <= received[c]
  /\ \A k \in DOMAIN cached[c] : EntryInv(c, k)
  /\ \A i \in 1 .. received[c] : lists[i].key \in DOMAIN cached[c]
  /\ \A i \in Taken(c) + 1 .. received[c] : InEntry(c, i)

(* The client has executed the first lists, the pending ones come next,    *)
(* and its frame is that of the last list taken or, while it waits, the    *)
(* keyframe after it.                                                      *)
PlaceInv(c) ==
  LET done == Len(executed[c])
  IN /\ \A i \in DOMAIN executed[c] :
          executed[c][i] = [list |-> i, key |-> lists[i].key]
     /\ \A j \in DOMAIN pending[c] :
          pending[c][j] = done + j /\ lists[done + j].key = key[c]
     /\ pending[c] # <<>> => pc[c] = "give"
     /\ paused[c] = PausedAt(done)
     /\ pc[c] = "give" => key[c] = KeyOf(Taken(c))
     /\ pc[c] \in {"update", "again", "net"} => key[c] = KeyOf(done)
     /\ pc[c] = "wait" => \/ done >= 1 /\ key[c] = KeyOf(done)
                          \/ key[c] = KeyOf(done) + 1 /\ ~PausedAt(done)

(* The cache has an entry for every keyframe up to that of the last list   *)
(* received.  Frame 0, which has no list, is no keyframe: the client does  *)
(* not wait there and is not paused there.                                 *)
KeptInv(c) ==
  /\ 1 .. cachedLast[c] \subseteq DOMAIN cached[c]
  /\ pc[c] \in {"wait", "give"} \/ paused[c] => key[c] >= 1

(* A client that strays loses its place only: the lists come to it, and    *)
(* stay in its cache, as before.                                           *)
ClientInv(c) ==
  /\ ~missed[c] => WireInv(c) /\ KeptInv(c)
  /\ Attached(c) => CacheInv(c) /\ PlaceInv(c)

(* What holds of the server's log and of every attached client, at every   *)
(* step: where each list is, and where the client is.                      *)
IndInv == ListsInv /\ \A c \in Client : ClientInv(c)

-----------------------------------------------------------------------------
(* What the repository says and the code does not do *)

(* docs/CHANGELOG.txt:67 "Added ability to 'pause' network games": a client *)
(* that gets every list stands at the keyframe of the pause until it has   *)
(* the list that resumes the game.                                         *)
PauseStopsClients == \A c \in Client : ~missed[c] => PassedNone(c)

=============================================================================
