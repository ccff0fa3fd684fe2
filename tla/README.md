# MegaGlest: TLA+ models and proofs

MegaGlest is a real-time strategy game. A network game runs the whole simulation
on every machine ("lockstep"): the machines exchange only the commands of the
players, and everything depends on each machine executing the same commands at
the same frame. These modules model the parts of the program where that can go
wrong, with what it takes for granted (that a slot is read when there is something to
read, that a player who comes late starts from the right state) and what follows from
it (the books of a faction, the cells of the map). TLC checks them on small instances
and TLAPS proves the main invariants for all sizes.

Paths below are relative to `src/source/glest_game/` unless they start with `src/`.

## 1. The system

| Part | State | Operations | Talks to |
|---|---|---|---|
| **Lockstep synchronization** (`network/client_interface.cpp`, `server_interface.cpp`, `connection_slot.cpp`, `network_interface.cpp`, `game/commander.cpp`, `game/game.cpp`) | requested and pending commands, slots' pending lists, the client's cache by keyframe, frame counters, pause | request, keyframe and broadcast, slot poll, client wait, give, pause, disconnect | sockets, the game loop, the network thread of a client, a worker thread per slot |
| **Team switching and voting** (`game/commander.cpp`, `game/game.cpp`, `ai/ai.cpp`, `type_instances/faction.*`) | team and open votes of each faction on each replica, menu and dialog | ask to join, answer, count | commands of Lockstep, GUI, AI |
| **Unit orders, costs and upgrades** (`type_instances/unit.cpp`, `faction.cpp`, `upgrade.cpp`, `world/unit_updater.cpp`) | command queue and skill of each unit, resources, upgrade manager | give, cancel, finish, kill, update | commands of Lockstep, world update |
| **Joining a running game** (`game/game.cpp`, `network/connection_slot.cpp`, `client_interface.cpp`, `menu/menu_state_join_game.cpp`) | flags of each slot, the game's pause, requests, the file that is saved, who controls a faction | take a slot, launch, pause, save, load, ready, resume, replace by an AI | slots, game loop, Lockstep |
| **Slot worker threads, server lag control** (`network/connection_slot.cpp`, `server_interface.cpp`) | event list, semaphore and place of each worker, the lists of an update, lag of each client | signal, wait, read, complete, purge, signal again, drop | main thread, sockets, clocks |
| **Unit placement and map cells** (`world/map.cpp`, `world.cpp`, `unit_updater.cpp`, `type_instances/unit.cpp`) | the unit in each cell and field, place, target, skill and orders of each unit | put, clear, place, move, build, morph, kill | orders, path finder |
| Lobby and game launch (`menu/menu_state_*`) | widgets, settings, ready marks | choose, broadcast, launch | slots |
| Messages and sockets (`network_message.cpp`, `socket.cpp`) | byte streams | pack, send, receive | everything networked |
| World (`world/`) | frame counter, units, fog of war | update | unit updater, map |
| AI and path finding (`ai/`) | rules, open and closed nodes | decide, search | commander, map |
| Chat, markers, Lua (`game/chat_manager.cpp`, `script_manager.cpp`) | queues, timers | add, drain, call back | network interface |
| Threads (`src/source/shared_lib/.../base_thread.cpp`) | running and quit flags | start, signal, shut down | all threads |
| Presentation, data loading, file transfer, tools | | | |

What is hard, by part:

* **Lockstep**: two threads in each client and one per slot; lists and commands lost with a
  connection; a broadcast that an exception ends half way; a pause, during which the frame
  counter stands still and many lists carry one keyframe; a client that is late and catches up;
  time-outs; and waiting that must end. Correct means: every client executes the server's lists,
  all, in order, at the same frame; no command is duplicated; no connected client waits for
  ever.
* **Teams**: an answer is written into one replica when it is given and into the
  others when its command is executed. Correct means: the replicas agree, no
  vote is executed that does not exist, and nobody enters a team whose majority has
  not agreed.
* **Orders**: prices are paid when an order is given, and are due back on many
  different ways out of the queue; several queues share one stock, one list of
  upgrades and one limit. Correct means: every price is delivered or returned
  once, limits hold, and an upgrade is never lost or stuck.
* **Joining**: the workers of the slots set flags that the main thread tests and
  clears two updates later; the same message has two meanings; a player may leave,
  and another one come, at any point; users pause and resume meanwhile. Correct
  means: a player starts from a saved game to which its lists are the continuation,
  takes no answer for another, and gets in; the game goes on in the end; a player
  who is gone is replaced.
* **Slot workers**: three threads' worth of shared lists, a semaphore that is raised
  outside the lock, events purged by whoever updates next, clients replaced between
  two steps of the main thread, time-outs everywhere. Correct means: no wake-up is
  lost, the main thread does not wait for what cannot come, and it takes commands
  only after they were read; a client that says nothing is dropped.
* **Cells**: a unit that morphs has the cells of two types; orders are replaced,
  cancelled and lost in the middle of what they do; `moveUnitCells` does not ask
  whether there is room; a cell counts as free while it names a unit that rots. Correct
  means: nobody takes another's cell, nothing throws, and no cell names a unit that is
  gone.

The hazards, each at its line, are in `PROJECT.json`.

## 2. Modules

| Module | Models | Extends or instantiates |
|---|---|---|
| `CommandLog` | what lockstep promises: one log, executed by each client from the start, in order | |
| `Lockstep` | the protocol; `Log == INSTANCE CommandLog WITH ...` is its refinement mapping | `CommandLog` |
| `LockstepProofs` | proofs | `Lockstep` |
| `TeamVote` | requests, answers and the count of votes on every replica | |
| `TeamVoteProofs` | proofs | `TeamVote`, `Induction` |
| `UpgradeManager` | the vector and the map of upgrades, and its three operations as operators | |
| `UpgradeManagerProofs` | proofs | `UpgradeManager` |
| `UnitOrders` | command queues, costs, limits; calls the operators of `UpgradeManager` | `UpgradeManager` |
| `UnitOrdersProofs` | proofs | `UnitOrders`, `UpgradeManagerProofs`, `Induction` |
| `InGameJoin` | a player's way into a running game and out of it, with the server's main thread and the workers | |
| `InGameJoinProofs` | proofs | `InGameJoin`, `Induction` |
| `SlotThreads` | the workers of the slots and the server's update that drives them, with lag control | |
| `SlotThreadsProofs` | proofs | `SlotThreads` |
| `UnitCells` | cells, placing, moving, building, morphing, dying | |
| `UnitCellsProofs` | proofs | `UnitCells` |
| `Induction` | lemmas: induction over numbers for sets, and what a loop computes | |
| `MCLockstep`, `MCTeamVote`, `MCUnitOrders`, `MCUnitCells` | scripts, factions, unit types and maps for TLC | |

`InGameJoin` and `SlotThreads` are small enough to be run as they are.

How they compose: `Lockstep` establishes that each replica executes the lists of
the server in order (`Agreement`, `ImplementsLog`). `TeamVote` takes that for
granted: its replicas read one sequence of lists. `UnitOrders` and `UnitCells` are
one replica, and its orders arrive in any order, which covers every log. `Lockstep`
lets a slot receive at any time; `SlotThreads` is why it does, and when. `InGameJoin`
says from which state a late player takes up the lists, by what it lacks of the game
that was saved (`behind`), without the lists themselves.

### 2.1 Lockstep

Source to model:

* `Game::update` of the server at a keyframe, with `ServerInterface::updateKeyframe`,
  `broadcastMessage` and `Commander::updateNetwork`, is one action,
  `ServerKeyframe(stop)`: one thread runs it without giving up anything another
  thread reads. `stop` is the slot at which a send fails and its exception ends
  the loop over the slots (or past the last slot). `ServerFrame` is a frame
  between keyframes and `PollSlot` is `executeNetworkCommandsFromClients` for one
  slot, so worker threads may run between two slots.
* A client's main thread is a loop with five places (`pc`): `update`, `again` (the second round
  of a loop of two), `wait` in `getNetworkCommand`, `give` in `Commander::updateNetwork`, and
  `net` in `ClientInterface::update`. Its network thread has three (`net`): not started,
  outside, or inside `updateFrame`. The cache (`cachedPendingCommands`) maps a keyframe to the
  lists stored for it; taking an entry empties it and keeps it.
* While the game is paused, `Game::getUpdateLoops` gives no frames: `KeyframeOf`
  stays, the server broadcasts for the same keyframe again, and a client that does not
  catch up asks for that keyframe again (`ClientRevisit`).
* A client whose lists come too early, for a whole interval, catches up:
  `FramesToCatchUp` are the values that the statistics of `Game::update` may give
  `framesToCatchUpAsClient` (`catchUp`), and while it is positive an iteration has two
  rounds (`ClientAdvance`, `ClientAgain`), each with its own keyframe. The code sets the
  two loops whatever `getUpdateLoops` returned (`game/game.cpp:1859-1863`), the 0 of a pause
  included, so a client that is paused in the middle of that leaves the keyframe of the pause.
  `strayed` is the history of it. `Attached(c)` is a client that no broadcast has skipped and
  that has not strayed; `Agreement` and what follows from it are about attached clients, and
  `OnlySkips` about all. `Detach` in `CommandLog` is the step by which a client leaves
  the log.
* Both ends empty `requestedCommands` from the back (`Batch`).
* A connection is TCP: in order, and `Drop` loses any last part of what is under
  way in each direction. `Cut` is a message of which only a part was accepted by
  the socket; the client that reads it ends with an exception.

Left out: empty lists and heartbeats of clients, pings, chat and markers, quitting
by message, and joining during the game (`InGameJoin`). The timers behind
`FramesToCatchUp` are a choice among their outcomes. The check for data on
the socket is part of receiving.

### 2.2 TeamVote

One action per handler: the team menu (`OpenMenu`, `AskToJoin`, `CancelMenu`), the
dialog (`ShowBox`, `Click`), `Ai::update` (`AiAnswer`), and `Execute` for the two
commands in `Commander::giveNetworkCommand`. The menu is a snapshot, as in the
code; the number of a new team is chosen at the click. User interface and AI act
between lists, never in the middle of one, since one thread does both. `crashed`
stands for the exception "vote == NULL". Three histories (`requests`, `consent`,
`early`) record what the properties speak of. Left out: observers, texts, and the
copies of the team number in game settings and statistics.

The comments of `Commander::giveNetworkCommand` say that more than half of a team must
have said yes; the code divides two integers and so asks for all. `Consent` states the
direction that holds (nobody enters unless more than half have said yes), for teams of any size
by its theorem; `MajorityJoins` the one that does not (whoever has more than half enters), shown
with a team of three, the smallest in which more than half is not all.

### 2.3 UpgradeManager and UnitOrders

`UpgradeManager` translates `startUpgrade`, `cancelUpgrade` and `finishUpgrade` as
operators on a record, with places counted from 1. Its own specification calls
them in any order the queues can produce.

`UnitOrders` has one action per entry into the code: `GiveCommand` and
`CancelOrder` (from `Commander::giveNetworkCommand`), `UpdateUnit` (with the
updates of stop, move, build, produce and upgrade orders and, in `End`, what
follows them: the automatic stop, or the death of the unit), `Kill`, and what the
rest of the world does (`Hit`, `Harvest`, `Repaired`, `Destroyed`, `Lost`).
`giveCommand` as a whole, with the orders it removes and pays back before it
checks the new one, is `GiveTo`. The place on the map, the path and the combat
are nondeterministic choices. `owed` and `done` are histories.

Left out: orders to attack, harvest, repair and morph; energy points; unit
requirements; static and consumable resources (one resource stands for all others);
building sites that their builder has left (only the last one is followed); what
buildings cost (`owed` counts units and upgrades, see the findings). A
produced unit is a number in `stock`. `owed` says of each kind of order how many were
paid and neither delivered nor returned. A loop of the code over a queue is a
recursive function that takes one command after the other, in the order of the code
(`ClearCommands` from the back, `DeleteLower` with its iterator). Both units can be
told to produce the product with a limit, so that `reqsOk` has to count the orders of
all queues. `WithinLimit` speaks of
products that no unit builds: a site that its builder has left is not counted by
`getCountForMaxUnitCount`, so a building may exceed its limit. Exceptions of the upgrade manager are not
modelled as such: `NoThrow` and `UpgradeOrdered` say that none is reached.

### 2.4 InGameJoin

Three kinds of processes. The main thread of the server alternates (`turn`) between
the two parts of `Game::update`: `Play(check, key)` executes the requested commands,
passes a frame unless the game is paused, broadcasts at a keyframe (`key`) and, when
the check for players that are gone recurs (`check`), gives their factions to an AI;
`Join` is the part that serves joiners (`AskToPause`, `SaveGame`, `AskToResume`,
`NobodyToServe`). A worker accepts a player and handles its messages (`HandleIntro`,
`HandleLaunch`, `HandleReady`, which is `nmtReady` with its two meanings) or closes
the slot. A player clicks, fetches the file, waits, enters and leaves (`pc`).

`slot[s]` has the flags of `ConnectionSlot`, `game` the three flags of `Game` that
`setPaused` tests, `faction` the control type, the AI and `factionDisconnectHandled`.
`file` and `behind` are histories: whether a frame or a command came between a saved
game and the first list that its player keeps. A socket that its player has closed
still delivers what is in it. `HeldForNobody` says that the game is held for joiners and
everybody who is connected is ready. A request `startLaunch` may outlive the loading of
its player, and the game is then paused again with nobody to resume it (`GoesOn`, a
finding); `Resumes` is what holds of the rest: with no such request left, the game is not held
for nobody for good. Left out: the contents of the saved game and its
transfer (`Fetch` is all of it), the choice of slot and faction, passwords, and time-outs
of the handshake (a player may leave at any time).

### 2.5 UnitCells

The operators take a world (a record of all variables) and give a world, as the
functions of the code take the map and the units and change them: `PutUnitCells` and
`ClearUnitCells` with their private halves (`PutOwnCells`, `Reserving`,
`ClearsReserved`), `UndoCommand`'s part for morphs, `GiveCommand`, `CancelCommand`,
`FinishCommand`, `ClearCommands`, `Morph`, `Kill`. `Update(u)` is `UnitUpdater::updateUnit`
for a unit whose skill is over: its order's update, the stop of a unit without orders,
energy, `World::moveUnitCells`, and death, in that order. Between two updates come
`Give`, `Cancel`, `Hit`, `PlaceUnit`, `Die` and `Decay`.

A cell is free, to `Cell::isFree`, if it names nobody or a unit that is putrefying
(`IsFree`). A dead unit is that while its `deadCount` is not 0, which changes with time (`Decay`);
`PutOwnCells` throws for any other unit in the cell, a rotting one too. An exception
ends the game: `Becomes` keeps the state from before it, since nothing runs after it.

A type has a size, the offsets its cell map fills, a field, and orders; the path
finder is any neighbouring place that `Map::canMove` allows. Left out: attack, harvest and
repair (they move like `move` and change no cells otherwise); production, which to the
map is `PlaceUnit`; `setUnitPosition` of scripts (`world/world.cpp`); units of saved
games (they are put cell by cell from a state that was consistent when it was saved);
types with an empty cell map; the GUI's own checks before an order is sent.
`Tiring` says which skills cost energy; the runs leave morphing out of it, see the
findings.

### 2.6 SlotThreads

The main thread goes through `ServerInterface::update` in the places of `main.at`:
`poll` (which sockets can be read, `Poll` or `PollQuiet`), `signal` (slot by slot,
`SignalNext`, the semaphore being raised in a step of its own, `Raise`), `completed`
(`CheckCompleted`), `lag`, `resignal` and `grace` (`CheckLag`, `SignalAgain`,
`CheckGrace`: the two parts of the loop of `checkForLaggingClients`). `EndOfWait` and
`EndOfLagCheck` are the ends of the two loops by time-out, `late` says that a loop has
been round once, before which no time has passed. A worker goes through
`ConnectionSlotThread::execute` (`Top`, `Wake`, `TakeEvent`, `Report`) and
`ConnectionSlot::update` (`StartUpdate`, `Accept`, `FindClosed`, `FindNothing`,
`Receive`, `Refuse`, `StopLingering`). Clients send, leave and fall behind.

A step takes the locks it needs and gives them back, so each access to a list or a
semaphore is one step. The lag of a client is one of four levels: in time, slow enough
for its worker to linger (`AutoClientLagCorrection`), over the limits, and over the limits
that hold ever. `gone` and `owed` are histories: the slots that lost their client since
they were signalled, and those with data when signalled of which nothing has been read.

Left out: games that let nobody in, where `broadcastMessage` removes a slot with its client;
the other handshake with the workers (`EnableNewThreadManager`, off by default); chat and
markers, which are read with the message after them; the commands themselves (`Lockstep`);
the master server's admin; the end of the threads.

## 3. What the runs check

| Run | Instance | Properties | Shows |
|---|---|---|---|
| `pause` | 1 client that may have to catch up, a pause and a resume by the server, one order of the client, 4 lists | `TypeOK`, `Agreement`, `OnlySkips`, `NothingPassedBy`, `PauseAgrees`, `CommandConserved`, `IndInv`, `NoGiveUp`, `Delivery`, `DisconnectNoticed`, `ImplementsLog` | lockstep in and out of a pause, with every loss of connection; an attached client executes every list in the end, a strayed one only leaves lists out; a client whose connection is gone leaves the game or waits for a keyframe for ever |
| `skip` | 2 clients, one behind a slow socket, frames between keyframes, 2 lists | `NotAhead`, `OnlySkips`, `ImplementsLog` | a broadcast that ends half way skips clients; the others still follow the log |
| `catch_up` | violation; 1 client, keyframes of 4 frames | `PauseStopsClients` | a client that catches up leaves the keyframe of the pause and passes the resumption by |
| `teams` | 2 players on 2 replicas and an AI, 2 requests | `TypeOK`, `SameTeams`, `KnownVotes`, `Consent` | replicas agree on teams and votes until a vote is counted early; nobody enters a team unless more than half of it have said yes, answers to an older request included |
| `majority` | violation; a player on the server, a team of a player and two AIs | `MajorityJoins` | two yes of three are not enough |
| `vote_found` | violation | `VoteFound` | an answer counted early lets the replicas drift apart and an exception ends the game |
| `orders` | a worker and a factory, 2 upgrades, a soldier that needs one of them (limit 1) and whom both can train, a house; queues of 2 | `TypeOK`, `ProductionLedger`, `WithinLimit`, `UpgradeOrdered`, `NoThrow`, `UpgradedAsDone`, `UpgradeServed` | prices, limits and upgrades under every way of leaving a queue |
| `join` | one player from the start, one who comes, one command of a user waiting | `TypeOK`, `OneAnswer`, `FrozenFrames`, `Served`, `Resumes` | who asks to be let in gets in, from the right frame, and the game goes on unless a request to be launched is left over |
| `join_goes_on` | violation | `GoesOn` | a request that is left over pauses the game for nobody, for good |
| `cells` | 2 units of 4 types (walker, giant, bird, hut), 6 cells with a pond | `TypeOK`, `OwnCells`, `NoThrow`, `NoGhost` | cells stay with their units through moves, buildings, morphs, cancellations and deaths |
| `cells_ghost` | violation; a giant that turns into a bird | `NoGhost` | the cell it had reserved in the air keeps naming it |
| `threads` | 1 slot, 2 ids of events, 1 message, pauses for slow clients | `TypeOK`, `NoLostWakeup`, `WaitsForItsEvent`, `ReadWhenDone`, `Handled`, `DropSilent` | the main thread and a worker under every order of steps, with a client that lags, leaves and is replaced |

### Bounds

* `MaxLists` in `Lockstep`: a pause takes a list that pauses, one or more during
  the pause and one that resumes; with four there is one more after it. Two are
  enough for `skip`: one list that skips a client and one that the client would
  need. `Period` is 1 in `pause`, where only keyframes matter, 2 in `skip`,
  where frames between them do, and 4 in `catch_up`; it stands for 20.
  `SmoothInterval` (2 for the code's 30) is the time before the first catching up, and
  `Fallback` (0 or 1 for 5) the lead in frames that is let pass. The proofs are for any
  values. With those of the code a client that lags by two keyframes catches up with as many
  as 35 frames, and so passes the keyframe of a pause and the next one; with a lead of one
  keyframe it stops between two keyframes, where it does not ask for lists any more.
* `MaxRequests` in `TeamVote`: two requests are needed for an answer of the first
  to be counted for the second, and for the drift of `vote_found`. A third faction
  (the AI) makes a vote with several members. `majority` has a team of three
  and one request. (`Consent` was also checked once with a team of three and two requests, on one
  replica: 1.2 million states.)
* `MaxQueue` 2 in `UnitOrders`: one order being executed and one waiting, which is what
  cancelling, replacing and queueing tell apart. `MaxStock` stops the growth of products without
  a limit; one with a limit (the soldier) is bounded by the code's own check alone. Both are
  guards of `GiveCommand`. With `Store` and `StartAmount` 1 and prices of 1 the stock is short,
  so that refusals happen.
* `MaxRequests` 1 in `InGameJoin`: users give a command when none is waiting, and with
  those of the server itself the queue still grows to three. `MaxUp` 2 lets a player
  ask to be launched twice before the first is read. The second slot
  is of a player who is there from the start.
* `UnitCells` has two units, since one is in the way of another or is built by it; the
  map of six cells has one place for a giant beside a walker, with a pond in the way.
  Units are symmetric: no property or constant tells them apart. `MaxQueue` 2 as above.
* `SlotThreads` has one slot with liveness: the slots share only the main thread, and the
  theorems hold for any number. (With two slots and one message the invariants were
  also checked once, 7.0 million states.) Two ids are one event that is being
  worked on and one that waits; `MaxRaised` 2 covers both. An update waits when there
  is no room for its events: without that bound the list of a slot without a client
  grows for ever, see the findings.
* Deadlock is not checked: the modelled behaviours may really stop, when the lists or requests
  of the bound are used up, everybody has left, all units are dead, or no client sends anything
  any more and none is behind (`SlotThreads` then goes on in circles).

### Fairness

* `Lockstep`: the two threads of a client keep running (WF of the main thread and of the network
  thread, both endless loops). Passing a frame has SF: the loop may be slowed for a finite
  number of iterations, so a frame that may be passed again and again is; the second round of a
  client that catches up is part of the loop (WF). Nothing is assumed of the server, of users,
  sockets or time-outs; the `Delivery` of a list is promised once the server has issued it.
* `UnitOrders`: `World::updateAllFactionUnits` updates every unit in every frame
  (WF of each unit's update). Nothing is assumed of orders or of the world.
  `UpgradeServed` is stated of units without orders that depend on the map (a
  factory), since a way may be blocked for ever.
* `InGameJoin`: the server's main thread and the workers never stop (WF of `Join`, of `Play`
  and of each worker), a player goes on as soon as it can (WF); keyframes and the
  check for players that are gone recur (SF of `Play` with each of them, since they alternate
  with frames without). Nobody has to join, to leave or to give a command.
* `SlotThreads`: the threads keep running (WF of each worker and of the main thread). A
  time-out that is looked at again and again while time passes runs out in the end (SF of
  `EndOfWait` and `EndOfLagCheck`), and of updates that may find nothing to read
  some do (SF of `PollQuiet`). Nothing is assumed of clients.

### Findings

With a run that shows them:

1. *Catching up in a pause* (`catch_up`, `game/game.cpp:1859`): a client that catches up does not
   stop for a pause. It leaves the keyframe for which the server goes on to send lists, and
   never takes them, the one that resumes the game included.
2. *Votes* (`vote_found`, `game/commander.cpp:751`): a replica that counts its own player's
   answer before the others know it can change a team early; a later answer then meets no vote.
3. *Majority* (`majority`, `game/commander.cpp:780`): the comments ask for more than half of
   the team, the quotient of two integers for all of it.
4. *Joining, going on* (`join_goes_on`, `game/game.cpp:2266`): a request to be launched that is
   handled after the game was saved, or that a player who left has made
   (`network/connection_slot.cpp:1453`), is never taken back; it pauses the game again, for nobody.
5. *Cells* (`cells_ghost`, `world/map.cpp:1377`): `clearUnitCells` guesses from sizes which
   cells a morph has reserved; for a larger unit that takes off, or lands, it guesses wrong.

Seen while modelling, followed by the models, without a run of their own:

6. *Silent disconnection* (`network/client_interface.cpp:890`): if the connection breaks while
   the network thread is between two calls and the main thread waits for a keyframe, nobody
   tells it. `DisconnectNoticed` says that this is the only way not to come to know.
7. *Joining, held* (`game/game.cpp:2323`): a resume that is asked for by the server itself is
   never refused, so the first player that is ready ends the pause that a second one still
   needs; frames pass that are not in the second one's saved game.
8. *Joining, AI* (`game/game.cpp:2889`): `factionDisconnectHandled` is not reset when a player
   comes back to a faction that has an AI, so the faction has nobody after the second leave.
9. *Free cells* (`world/map.h:81`): a cell that names a rotting unit is free to those who ask
   and occupied to `putUnitCells`. With the ghost of finding 5, of a giant that died while
   taking off, a second one takes off where the first rots, and `putUnitCells` throws.
10. `ServerInterface::updateKeyframe` and `ClientInterface::update` empty a vector from
    the back, so one player's commands between two keyframes run newest first (`Batch`).
11. `UpgradeManager::cancelUpgrade` moves down only places past the end of the vector: with
    three types one upgrade can be taken for another, with two it cannot (`TwoUpgrades`).
12. `Unit::undoCommand` looks at the skill of the unit and not at the order that it undoes:
    a unit that is still building loses a new building order with its price.
13. A unit whose energy runs out is set to stop before its order is cancelled
    (`world/unit_updater.cpp:176`), so cells reserved by a morph that costs energy stay.
14. In a game that lets players in, the event list of a slot without a client grows with
    every update that reads anything (`network/server_interface.cpp:816`), and a client
    that is replaced within an update makes the main thread wait for an event that
    nobody completes, until the time-outs of three seconds (`gone` in `WaitsForItsEvent`).
15. On a client, `Game::setPaused` would ask for the server interface, which throws, when it
    refuses a pause (`game/game.cpp:5600`); `broadcastMessage` closes slots that fail while it
    is broadcasting, which broadcasts in turn (`network/server_interface.cpp:2325`). Neither is
    in the models.

They bound the claims of the passing runs: `Agreement`, `NothingPassedBy`, `PauseAgrees`, `Delivery`
and `ImplementsLog` are of attached clients, `SameTeams` and `KnownVotes` hold until a vote was
counted early (`early`), the ledger is of units and upgrades, `WithinLimit` is of what nobody
builds, `UpgradedAsDone` is checked with two upgrades, `FrozenFrames` with one joiner, `Resumes` is of
games with no stale request, and `NoGhost` and `NoThrow` hold where nobody shrinks
into another field and morphing costs no energy.

## 4. What is proved

All proofs are for any values of the constants under the named assumptions of the
modules (sizes are numbers, the script mentions each command once, and so on).

| Theorem | States |
|---|---|
| `LockstepProofs!TypeCorrect` | `Spec => []TypeOK` |
| `Invariant` | `Spec => []IndInv` |
| `AgreementHolds`, `NothingPassedByHolds`, `PauseAgreesHolds`, `NoGiveUpHolds`, `NotAheadHolds` | five properties of lockstep, of attached clients but for `NotAhead`, which is of all, and `NoGiveUp`, which is of all that were not skipped |
| `ConserveInvariant`, `CommandConservedHolds` | a command is in one place, once, or was lost with its connection |
| `Refinement` | `Spec => Log!Spec` |
| `TeamVoteProofs!TypeCorrect`, `TeamInvariant`, `ConsentHolds` | types; every yes was given; whoever enters a team has had more than half of it |
| `AgreeInvariant`, `SameTeamsHolds`, `KnownVotesHolds` | until a vote is counted early the replicas are at points of one course of states; teams agree; every vote that is executed is known |
| `UpgradeManagerProofs!Invariant`, `TypeCorrect`, `NeverThrows` | the map and the vector stay in step |
| `TwoUpgrades` | with two types the places are right |
| `UnitOrdersProofs!Invariant`, `TypeCorrect` | books, queues, limits and sites; types |
| `EveryPriceSettled` | what is owed is what is queued, for every kind of order |
| `LimitsKept` | no more units than the limit of what nobody builds |
| `UpgradesOrderedOnce`, `ManagerNeverThrows` | an upgrade is under way exactly while one order for it is queued; no exception |
| `UpgradesAsDone` | with two types a completed upgrade is the one that was ordered |
| `InGameJoinProofs!JoinInvariant`, `OneAnswerHolds` | the messages under way fit the flags; no answer is taken for another |
| `TypeCorrect` | `Spec => []TypeOK` |
| `NoFrameMissed` | `Spec => []FrozenFrames`, when players come to one slot only |
| `UnitCellsProofs!CellsTypes`, `OwnCellsHolds` | types; every unit has its cells |
| `NoThrowHolds`, `NoGhostHolds` | `Orderly => (Spec => []NoThrow)` and the same of `NoGhost`: no type shrinks into another field, morphing costs no energy |
| `SlotThreadsProofs!TypeCorrect`, `InvariantHolds` | types; the invariant of every slot |
| `NoLostWakeupHolds`, `WaitsForItsEventHolds`, `ReadWhenDoneHolds` | the three properties of the threads |

**Induction.** The induction theorems of the library take an operator as a parameter and
cannot be used with the installed provers. `Induction` states what is needed in terms of
sets: a finite set of integers has a smallest member (by well-foundedness of the subset
ordering, `Smallest`), hence a set with 0 and with n + 1 for each n has all numbers
(`SetInduction`); steps that lead from S into S can be taken one after the other, and the
values are those of a recursive function (`StepsInTurn`, `Iterates`), which are in S
(`IteratesIn`). The loops of the code are recursive functions for that reason.

**Lockstep.** `Agreement` is not inductive: a client may execute a wrong list if its
cache held one. `IndInv` says where every list is. `ListsInv`: the keyframes of the
server's lists form a chain that stands still in a pause. For each client that no
broadcast skipped, `WireInv`: the lists on the wire follow those received, and `KeptInv`: the
cache has an entry for every keyframe up to that of the last one. For an attached
client, moreover, `CacheInv`: the entries share out what is received and not taken, in successive runs,
and `PlaceInv`: its frame is that of its last list or, while it waits, the keyframe
after it. A client that strays keeps the first two and loses the others, which is why it never gives
up a keyframe (`NoGiveUp`) but may miss lists. The crucial steps are `GetCommandsInv` (the
entry of the keyframe is exactly the next run, lemma `Run`), `ServerKeyframeInv`, and the two rounds of
a client that catches up: a round either starts unpaused, and then passes a frame as any other, or it
is the one that strays. The properties follow without further induction, except
`NotAhead`, which also speaks of clients that were skipped: `AheadInv` adds that nothing in a
cache is ahead of the server. The refinement maps lists to entries of the log and
`executed` to the history of attached clients: `ServerKeyframe` implements `Issue`, `GiveCommands`
implements `Execute`, what makes a client stray or skips it implements `Detach`, and
everything else stutters.

`CommandConserved` is about a command's way: what a player still wants to give, what is
requested, the wire, the slot, the lists. `ConserveInv(m)` says of a command m that no
box has it twice (`OnceInv`), that at most one box has it, that until it is in a list it is
in a box of the player whose script it is from (`OriginInv`), and that if no box has it
its player's connection is gone (`LostInv`). Origin is what makes the step of
`ServerKeyframe` safe, which reverses a queue and appends it to the log: the same command
cannot come from another slot.

**TeamVote.** `TeamInv`: every yes noted at a replica, and every yes in a command under
way, was given by that member; a dialog that is shown has its vote. `Consent` then needs
arithmetic: a positive integer quotient of yes votes by members means that all of them
have a yes noted there (lemma `AcceptedByAll`), and all are more than half of a team that is not
empty (`AllAreMoreThanHalf`). The proof goes through unanimity because the code does; with a
division of fractions it would go through the majority, and `Consent` would stand.

Agreement compares replicas that are at different places of the lists, so it cannot be
said of the variables alone. `AgreeInv` says that, unless a vote was counted early, there is a
*course*: the states that the lists lead through from the start, command by command
(`Passes`, which exist by `PassesExists`). Each replica is at its place in the course
(`TodoInv`), with the teams of that state and its votes, except for answers of its own
players that are still under way from it (`Ahead`). Votes are never removed (`Kept`), and
every command that is requested has its vote where the course ends (`RequestsKnown`), so it
has it where it will be executed (`CourseKnown`): `KnownVotes`. Two replicas at one place are in
one state: `SameTeams`. An own answer that is counted before it is in a list is the step that
leaves the course, and exactly that sets `early`.

**UpgradeManager.** A place before the first would need an empty vector and a type
left in the map; the invariant keeps the number of entries equal to the number of
types in the map, which excludes it (`CancelFacts`). That the entry at a place is
the right one is not invariant with three types. With two it is: the other entry
keeps its place or moves from second to first (`CancelRight`). Both are stated of any
manager and set of completed upgrades (`Sound`, `Right`), so that `UnitOrders` can use them
for its purse in the middle of an operation.

**UnitOrders.** The invariant is a predicate `Good` of queues, purse, completed upgrades,
sites and stock: `Books` (what is owed is what is queued, and an upgrade is under way while
one order for it is queued), `Tidy` (orders that the unit can have; only the first has
begun, and its site is at the target) and `Limited` (units and orders together
are within the limit: the limit is checked when an order is given, so `WithinLimit`
alone is not inductive). An operation that removes a command settles its order, whatever
way it takes (`Settled`, `BooksWithout`); so `CancelCommand` leads from `Left`, the queues and
purses of a unit that are `Good`, into `Left`, and so do the loops over a queue, by
`Induction`. `GiveTo` then finds a good world after it has made room and before it pays, which
is where its check counts what is queued. `Sites` is the rest: a building that stands is in the
stock, so its loss does not make the stock negative. Counts are cardinalities of sets of
places (`Places`), for which a finite number of units is assumed (`UnitAssumption`).
`ProductionLedger` is of units and upgrades, and nothing is said of the amount in store,
which the limit of the stores clips.

**InGameJoin.** `OneAnswer` speaks of a player who waits; what makes it true is a chain
of messages and flags that reaches back to its call: `JoinInv` says, slot by slot and
for each place of the player, which messages can be under way in each direction and which
flags go with them (a launch that is read sets `joinGameInProgress`, the notice goes out
once while `sentSavedGameInfo` is not set, and `ready` is set before the answer). The step
that matters is `SaveGame`, which tells all that wait at once.

`FrozenFrames` needs that the game stays paused from the time it is saved. `HeldInv` says for a
slot that has been told (`sentSavedGameInfo`) and whose player is there that the game is
held for it (`forJoin`) and no frame is in the file; a held game is paused (`HeldIsPaused`),
and a slot that joins is not ready, so that what users ask for is refused (`ExecuteHeld`,
along the loop over the requested commands by `ExecutedIn`). What remains is the resumption
that the server asks for itself, which is not refused. It is asked for only when a player has
come in, who is no longer told, and it is executed in the next half of the update, before
anybody can be (`Resuming`). With one slot to come to, that player is the only one: this is the
hypothesis of `NoFrameMissed`, and finding 7 is what happens without it. It is no hypothesis on
how often players come, leave and come back, nor on users, clicks and slots of others.

**UnitCells.** Every operation on a unit is local: it changes that unit's record and cells
that name it or nobody (`Local`, lemma `LocalOthers`), so what holds of the others stays.
`Good` says of every unit that it has its cells (`Rooted`), that its queue fits its type
(`Queued`) and, if the types are `Orderly`, that it has no others but those reserved
(`Cleared`). Outside a morph that is tight (`Tight`, `Steady`), and a morph that begins, ends
or is undone goes from one to the other (`StartMorphEffect`, `UndoMorphEffect`, `MorphEffect`).
Within an update a unit may be on its way to a place that is free (`Goes`, `OnWay`), which
is why `moveUnitCells` need not ask; between updates all rest (`Rests`). A cell that is
free for the code names nobody unless it names a rotting unit, which on the map of
orderly types does not happen (`FreeIsEmpty`); of other types an operation may end in an
exception (`Thrown`), after which nothing runs. So the invariant (`Inv`) says of the state that
was last reached without one (`Safe`) that all rest, and of an exception that the types are
not orderly. `OwnCells` therefore holds without hypothesis, `NoThrow` and `NoGhost` with it.

**SlotThreads.** `SlotInv` speaks of one slot. `Raised` is `NoLostWakeup`. `Mine`: the main
thread's event is the last of the list, or completed while the list is empty; `Readable`:
it says to the worker, too, that the socket can be read; `ReadSome`: once completed, or
once the worker is past reading, something was read; `Resting1`: a worker has an event only
while it is at work. `Given` joins it to the main thread: who is waited for was given an event. The
crucial steps are `SignalInv` (a new event is the last one, with a fresh id) and
`Report` in `WorkerInv` (the event completed is the first, and if it is the main thread's, it
is the only one). A client that leaves makes all of it void until the slot is signalled
again, hence `gone`.

**Only model-checked**: liveness under fairness (`Delivery`, `DisconnectNoticed`,
`UpgradeServed`, `Served`, `Resumes`, `Handled`, `DropSilent`), which like ENABLED is out of the
provers' reach, and `OnlySkips`. Every other property of a passing run is stated by a theorem;
`NoThrowHolds` and `NoGhostHolds` (of `UnitCells`), `UpgradesAsDone` and `NoFrameMissed` under
hypotheses that their runs have too (orderly types, two upgrades, one slot to come to), since
the code does not keep them without.

## 5. Not modelled

* Rendering, sound, GUI drawing, data loading, PHP pages, FTP and IRC wrappers, editors and
  vendored libraries: input or output without decisions of the game.
* Messages and sockets: bytes and sizes. Their outcomes (in order, cut, lost) are in `Lockstep`.
* Lobby and launch before a game: its state is spread over the widgets of two menus of nearly
  5000 lines each; what a running game shares with it is in `InGameJoin`.
* AI rules and path finding: heuristics and floating-point costs; their results are
  nondeterministic choices in `TeamVote`, `UnitOrders` and `UnitCells`.
* Chat, map markers and Lua hooks: queues that nothing else depends on.
* `BaseThread` and the simple threads: wrappers of SDL, whose behaviour would have to be assumed.
* Fights, harvests, repairs, resources on the map, fog of war and scenarios: arithmetic over
  game data, with no bookkeeping shared between processes.
* Of the modelled parts, what sections 2.1 to 2.6 name.
