----------------------------- MODULE InGameJoin -----------------------------
(***************************************************************************)
(* Joining a network game that is in progress.  A player takes a slot,     *)
(* asks to be launched, and the server pauses the game, saves it and tells *)
(* the player to fetch the saved game; when the player has loaded it the   *)
(* server answers, and from then on the command lists reach the player; at *)
(* last the player asks the server to resume the game.                     *)
(*                                                                         *)
(* Three kinds of processes: the main thread of the server (Game::update,  *)
(* in two parts), a worker thread for each slot, and the players.  What a  *)
(* joining player lacks is kept as the set behind: whether a frame passed  *)
(* or a command was broadcast between its saved game and the first list    *)
(* that it keeps.                                                          *)
(***************************************************************************)
EXTENDS Naturals, FiniteSets, Sequences, SequencesExt

CONSTANTS
  Slot,           \* the network slots
  Resident,       \* the slots of those who play from the start
  Comer,          \* the slots that are taken, and left, during the game
  MaxRequests,    \* bound: users give a command when fewer are waiting, and a
                  \* keyframe comes when more are waiting
  MaxUp           \* bound: a player asks when fewer messages are under way

ASSUME SlotAssumption == Resident \subseteq Slot /\ Comer \subseteq Slot /\ IsFiniteSet(Slot)
ASSUME BoundAssumption == MaxRequests \in Nat /\ MaxUp \in Nat

VARIABLES
  slot,           \* the flags of each ConnectionSlot
  socket,         \* of each slot: none, open, or closed by the player
  up, down,       \* what is under way to the slot, and to its player
  pc,             \* where the player of each slot is
  launched,       \* ClientInterface::joinGameInProgressLaunch
  goAhead,        \* ClientInterface::readyForInGameJoin
  game,           \* the server's Game::paused, pausedForJoinGame, pauseRequestSent
  turn,           \* the part of the server's Game::update that is next
  requested,      \* the server's requestedCommands
  faction,        \* of each slot: Faction::controlType, aiInterfaces[i] and
                  \* factionDisconnectHandled on the server
  file,           \* what has passed since the game was saved
  behind          \* what has passed since the saved game that a player took

playerVars == <<pc, launched, goAhead>>
vars == <<slot, socket, up, down, pc, launched, goAhead, game, turn,
          requested, faction, file, behind>>

(* Mutant: the menu sends a toggle.                                        *)
CmdToggle(kind) == [kind |-> IF kind \in {"pause", "resume"} THEN "toggle" ELSE kind]
Cmd(kind) == [kind |-> kind]
Left(s) == [kind |-> "left", of |-> s]
Cmds == [kind : {"pause", "resume", "joinPause", "joinResume", "order"}]
          \cup [kind : {"left"}, of : Slot]

Flag == {"gotIntro", "ready", "joinGameInProgress", "sentSavedGameInfo",
         "startLaunch", "pauseFor", "unPauseFor"}
Message == {"intro", "launch", "ready"}
Passed == {"frame", "command"}

(* Every variable has its type.                                            *)
TypeOK ==
  /\ slot \in [Slot -> [Flag -> BOOLEAN]]
  /\ socket \in [Slot -> {"none", "open", "broken"}]
  /\ up \in [Slot -> Seq(Message)]
  /\ down \in [Slot -> Seq({"ready"})]
  /\ pc \in [Slot -> {"out", "lobby", "loaded", "wait", "start", "play"}]
  /\ launched \in [Slot -> BOOLEAN]
  /\ goAhead \in [Slot -> BOOLEAN]
  /\ game \in [paused : BOOLEAN, forJoin : BOOLEAN, pauseSent : BOOLEAN]
  /\ turn \in {"play", "join"}
  /\ requested \in Seq(Cmds)
  /\ faction \in [Slot -> [network : BOOLEAN, ai : BOOLEAN, handled : BOOLEAN]]
  /\ file \subseteq Passed
  /\ behind \in [Slot -> SUBSET Passed]

(* Those in the game from the start are ready; the other slots are free    *)
(* and their factions have an AI.                                          *)
Init ==
  /\ slot = [s \in Slot |-> [f \in Flag |-> s \in Resident /\ f \in {"gotIntro", "ready"}]]
  /\ socket = [s \in Slot |-> IF s \in Resident THEN "open" ELSE "none"]
  /\ up = [s \in Slot |-> << >>]
  /\ down = [s \in Slot |-> << >>]
  /\ pc = [s \in Slot |-> IF s \in Resident THEN "play" ELSE "out"]
  /\ launched = [s \in Slot |-> FALSE]
  /\ goAhead = [s \in Slot |-> FALSE]
  /\ game = [paused |-> FALSE, forJoin |-> FALSE, pauseSent |-> FALSE]
  /\ turn = "play"
  /\ requested = << >>
  /\ faction = [s \in Slot |-> [network |-> s \in Resident, ai |-> s \notin Resident,
                                handled |-> FALSE]]
  /\ file = Passed
  /\ behind = [s \in Slot |-> {}]

(* ConnectionSlot::isConnected: a socket that the player has closed still  *)
(* counts while there is something to read from it.                        *)
Connected(s) == socket[s] = "open" \/ (socket[s] = "broken" /\ up[s] # << >>)

Has(flags, on, off) ==
  [f \in Flag |-> IF f \in on THEN TRUE ELSE IF f \in off THEN FALSE ELSE flags[f]]

-----------------------------------------------------------------------------
(* The worker thread of a slot.                                            *)

(* A player connects, and answers the introduction of the server.          *)
Accept(s) ==
  /\ s \in Comer /\ socket[s] = "none" /\ pc[s] = "out"
  /\ socket' = [socket EXCEPT ![s] = "open"]
  /\ slot' = [slot EXCEPT ![s] = Has(@, {}, {"ready", "gotIntro"})]
  /\ up' = [up EXCEPT ![s] = <<"intro">>]
  /\ down' = [down EXCEPT ![s] = << >>]
  /\ pc' = [pc EXCEPT ![s] = "lobby"]
  /\ launched' = [launched EXCEPT ![s] = FALSE]
  /\ goAhead' = [goAhead EXCEPT ![s] = FALSE]
  /\ behind' = [behind EXCEPT ![s] = {}]
  /\ UNCHANGED <<game, turn, requested, faction, file>>

Receives(s, message) ==
  /\ Connected(s) /\ up[s] # << >> /\ Head(up[s]) = message
  /\ up' = [up EXCEPT ![s] = Tail(@)]
  /\ UNCHANGED <<socket, pc, launched, goAhead, game, turn, requested,
                 faction, file, behind>>

(* setJoinGameInProgressFlags.                                             *)
HandleIntro(s) ==
  /\ Receives(s, "intro")
  /\ slot' = [slot EXCEPT ![s] = Has(@, {"gotIntro", "joinGameInProgress", "pauseFor"},
                                        {"ready", "sentSavedGameInfo"})]
  /\ UNCHANGED down

HandleLaunch(s) ==
  /\ Receives(s, "launch")
  /\ slot[s]["gotIntro"] /\ slot[s]["joinGameInProgress"]
  /\ slot' = [slot EXCEPT ![s] = Has(@, {"startLaunch"}, {})]
  /\ UNCHANGED down

SetReady(flags) == Has(flags, {"ready"}, {"joinGameInProgress", "sentSavedGameInfo"})

(* Mutant: the second one is ignored.                                      *)
HandleFirstReady(s) ==
  /\ Receives(s, "ready")
  /\ IF slot[s]["joinGameInProgress"]
     THEN /\ down' = [down EXCEPT ![s] = Append(@, "ready")]
          /\ slot' = [slot EXCEPT ![s] = SetReady(@)]
     ELSE UNCHANGED <<slot, down>>

(* The first time the player is answered, the second time it has entered   *)
(* the game.                                                               *)
HandleReady(s) ==
  /\ Receives(s, "ready")
  /\ IF slot[s]["joinGameInProgress"]
     THEN /\ down' = [down EXCEPT ![s] = Append(@, "ready")]
          /\ slot' = [slot EXCEPT ![s] = SetReady(@)]
     ELSE /\ slot' = [slot EXCEPT ![s] = Has(@, {"unPauseFor"}, {})]
          /\ UNCHANGED down

(* ConnectionSlot::close; startInGameConnectionLaunch is not reset.        *)
Close(s) ==
  /\ socket[s] = "broken" /\ up[s] = << >>
  /\ slot' = [slot EXCEPT ![s] = Has(@, {}, Flag \ {"startLaunch"})]
  /\ socket' = [socket EXCEPT ![s] = "none"]
  /\ UNCHANGED <<up, down, playerVars, game, turn, requested, faction, file, behind>>

Worker(s) == HandleIntro(s) \/ HandleLaunch(s) \/ HandleReady(s) \/ Close(s)

-----------------------------------------------------------------------------
(* The player of a slot.                                                   *)

serverVars == <<slot, game, turn, requested, faction, file>>

(* broadcastGameStart; the button can be used again until the saved game   *)
(* is there.                                                               *)
Click(s) ==
  /\ pc[s] = "lobby" /\ Len(up[s]) < MaxUp
  /\ up' = [up EXCEPT ![s] = Append(@, "launch")]
  /\ launched' = [launched EXCEPT ![s] = TRUE]
  /\ UNCHANGED <<serverVars, socket, down, pc, goAhead, behind>>

ReadReady(s) ==
  /\ pc[s] = "lobby" /\ down[s] # << >>
  /\ down' = [down EXCEPT ![s] = Tail(@)]
  /\ goAhead' = [goAhead EXCEPT ![s] = TRUE]
  /\ UNCHANGED <<serverVars, socket, up, pc, launched, behind>>

(* The player fetches the saved game, whichever it then is, and loads it.  *)
Fetch(s) ==
  /\ pc[s] = "lobby" /\ launched[s] /\ goAhead[s]
  /\ pc' = [pc EXCEPT ![s] = "loaded"]
  /\ behind' = [behind EXCEPT ![s] = file]
  /\ UNCHANGED <<serverVars, socket, up, down, launched, goAhead>>

WaitUntilReady(s) ==
  /\ pc[s] = "loaded"
  /\ pc' = [pc EXCEPT ![s] = "wait"]
  /\ up' = [up EXCEPT ![s] = Append(@, "ready")]
  /\ goAhead' = [goAhead EXCEPT ![s] = FALSE]
  /\ UNCHANGED <<serverVars, socket, down, launched, behind>>

TakeReply(s) ==
  /\ pc[s] = "wait" /\ down[s] # << >>
  /\ pc' = [pc EXCEPT ![s] = "start"]
  /\ down' = [down EXCEPT ![s] = Tail(@)]
  /\ launched' = [launched EXCEPT ![s] = FALSE]
  /\ UNCHANGED <<serverVars, socket, up, goAhead, behind>>

(* Game::init of the player ends with sendResumeGameMessage.               *)
Enter(s) ==
  /\ pc[s] = "start"
  /\ pc' = [pc EXCEPT ![s] = "play"]
  /\ up' = [up EXCEPT ![s] = Append(@, "ready")]
  /\ UNCHANGED <<serverVars, socket, down, launched, goAhead, behind>>

(* The player quits or its connection is lost: some of what it sent last   *)
(* does not arrive.                                                        *)
Leave(s) ==
  /\ pc[s] # "out"
  /\ pc' = [pc EXCEPT ![s] = "out"]
  /\ socket' = [socket EXCEPT ![s] = "broken"]
  /\ \E n \in 0 .. Len(up[s]) : up' = [up EXCEPT ![s] = SubSeq(@, 1, n)]
  /\ down' = [down EXCEPT ![s] = << >>]
  /\ UNCHANGED <<serverVars, launched, goAhead, behind>>

Player(s) == ReadReady(s) \/ Fetch(s) \/ WaitUntilReady(s) \/ TakeReply(s) \/ Enter(s)

-----------------------------------------------------------------------------
(* The main thread of the server.                                          *)

Refused(g, kind) ==
  /\ g.forJoin /\ kind \in {"pause", "resume"}
  /\ \E s \in Slot : Connected(s) /\ ~slot[s]["ready"]

(* Mutant: the request of a user resumes the game whoever joins.           *)
PausedAtWill(g, kind) ==
  IF kind \in {"pause", "joinPause"}
  THEN [paused |-> TRUE, forJoin |-> kind = "joinPause", pauseSent |-> FALSE]
  ELSE [g EXCEPT !.paused = FALSE, !.forJoin = FALSE]

(* Mutant: that a pause has been asked for is never forgotten.             *)
PausedOnce(g, kind) ==
  IF Refused(g, kind) THEN g
  ELSE IF kind \in {"pause", "joinPause"}
  THEN [g EXCEPT !.paused = TRUE, !.forJoin = kind = "joinPause"]
  ELSE [g EXCEPT !.paused = FALSE, !.forJoin = FALSE]

(* Game::setPaused on the server: what a user asks for is refused while a  *)
(* player joins.                                                           *)
SetPaused(g, kind) ==
  IF Refused(g, kind) THEN g
  ELSE IF kind \in {"pause", "joinPause"}
  THEN [paused |-> TRUE, forJoin |-> kind = "joinPause", pauseSent |-> FALSE]
  ELSE [g EXCEPT !.paused = FALSE, !.forJoin = FALSE]

(* Commander::giveNetworkCommand on the server; st is what it changes.     *)
Execute(cmd, st) ==
  CASE cmd.kind = "order" -> st
    [] cmd.kind = "left" -> [st EXCEPT !.faction[cmd.of].network = FALSE]
    [] OTHER -> [st EXCEPT !.game = SetPaused(@, cmd.kind)]

(* All that is requested, the newest first.                                *)
Executed(cmds, st) ==
  LET loop[n \in 0 .. Len(cmds)] ==
        IF n = 0 THEN st ELSE Execute(cmds[Len(cmds) + 1 - n], loop[n - 1])
  IN  loop[Len(cmds)]

(* ReplaceDisconnectedNetworkPlayersWithAI.                                *)
Gone(s) == /\ ~faction[s].handled /\ faction[s].network /\ ~faction[s].ai
           /\ ~Connected(s)

Lacks(s) == pc[s] \in {"loaded", "wait"} /\ ~slot[s]["ready"]

(* The first part of Game::update: every five seconds (check) the factions *)
(* of those who are gone get an AI, a frame passes unless the game is      *)
(* paused, and at a keyframe (key), always when it is paused, the requested*)
(* commands are broadcast and executed, the newest first.                  *)
Play(check, key) ==
  /\ turn = "play" /\ turn' = "join"
  /\ game.paused \/ Len(requested) > MaxRequests => key
  /\ LET gone == IF check THEN {s \in Slot : Gone(s)} ELSE {}
         asked == requested \o SetToSeq({Left(s) : s \in gone})
         before == [game |-> game,
                    faction |-> [s \in Slot |-> IF s \in gone
                                   THEN [faction[s] EXCEPT !.ai = TRUE, !.handled = TRUE]
                                   ELSE faction[s]]]
         after == IF key THEN Executed(asked, before) ELSE before
         passed == (IF game.paused THEN {} ELSE {"frame"})
                     \cup (IF key /\ asked # << >> THEN {"command"} ELSE {})
     IN /\ game' = after.game /\ faction' = after.faction
        /\ requested' = IF key THEN << >> ELSE asked
        /\ file' = file \cup passed
        /\ behind' = [s \in Slot |-> IF Lacks(s) THEN behind[s] \cup passed ELSE behind[s]]
  /\ UNCHANGED <<slot, socket, up, down, playerVars>>

Marked(flag) == {s \in Slot : slot[s][flag]}
Unmarked(flag, S) == [s \in Slot |-> IF s \in S THEN Has(slot[s], {}, {flag}) ELSE slot[s]]

(* The setup for the players who are new is broadcast.                     *)
SetupSent == IF Marked("pauseFor") = {} THEN slot ELSE Unmarked("pauseFor", Slot)
Admitting == Marked("pauseFor") = {} /\ Marked("startLaunch") # {}

(* The players who join get their factions, once one of them has asked.    *)
Admit ==
  faction' = IF ~Admitting THEN faction
             ELSE [s \in Slot |->
                    IF slot[s]["joinGameInProgress"]
                    THEN [faction[s] EXCEPT !.network = TRUE, !.ai = FALSE]
                    ELSE IF ~Connected(s) /\ faction[s].network /\ ~faction[s].ai
                    THEN [faction[s] EXCEPT !.handled = FALSE]
                    ELSE faction[s]]

(* Mutant: that a player has been told is not looked at.                   *)
Joining(s) == slot[s]["joinGameInProgress"]
Waiting(s) == slot[s]["joinGameInProgress"] /\ ~slot[s]["sentSavedGameInfo"]
ToServe == {s \in Slot : Waiting(s) /\ slot[s]["startLaunch"]}

(* The second part of Game::update.                                        *)
JoinTurn ==
  /\ turn = "join"
  /\ turn' = "play"
  /\ Admit
  /\ UNCHANGED <<socket, up, playerVars, behind>>

AskToPause ==
  /\ JoinTurn /\ ~game.forJoin
  /\ slot' = SetupSent
  /\ IF Admitting /\ ~game.pauseSent
     THEN /\ requested' = Append(requested, Cmd("joinPause"))
          /\ game' = [game EXCEPT !.pauseSent = TRUE]
     ELSE UNCHANGED <<requested, game>>
  /\ UNCHANGED <<down, file>>

AskToResume ==
  /\ JoinTurn /\ game.forJoin /\ Marked("unPauseFor") # {}
  /\ slot' = [s \in Slot |-> Has(SetupSent[s], {}, {"unPauseFor"})]
  /\ requested' = Append(requested, Cmd("joinResume"))
  /\ UNCHANGED <<down, game, file>>

(* The game is saved for one of the slots, and all that wait are told.     *)
SaveGame(s) ==
  /\ JoinTurn /\ game.forJoin /\ Marked("unPauseFor") = {}
  /\ s \in ToServe
  /\ file' = {}
  /\ down' = [r \in Slot |-> IF Waiting(r) THEN Append(down[r], "ready") ELSE down[r]]
  /\ slot' = [r \in Slot |-> Has(SetupSent[r],
                                 IF Waiting(r) THEN {"sentSavedGameInfo"} ELSE {},
                                 IF r = s THEN {"startLaunch"} ELSE {})]
  /\ UNCHANGED <<game, requested>>

NobodyToServe ==
  /\ JoinTurn /\ game.forJoin /\ Marked("unPauseFor") = {} /\ ToServe = {}
  /\ slot' = SetupSent
  /\ UNCHANGED <<down, game, requested, file>>

Join == AskToPause \/ AskToResume \/ (\E s \in Slot : SaveGame(s)) \/ NobodyToServe

-----------------------------------------------------------------------------
(* The users.                                                              *)

(* The pause menu of the server, or of the player who is its admin.        *)
UserToggle ==
  /\ Len(requested) < MaxRequests
  /\ requested' = Append(requested, Cmd(IF game.paused THEN "resume" ELSE "pause"))
  /\ UNCHANGED <<slot, socket, up, down, playerVars, game, turn, faction, file, behind>>

Order ==
  /\ Len(requested) < MaxRequests
  /\ requested' = Append(requested, Cmd("order"))
  /\ UNCHANGED <<slot, socket, up, down, playerVars, game, turn, faction, file, behind>>

Next ==
  \/ \E s \in Slot : Accept(s) \/ Worker(s) \/ Click(s) \/ Player(s) \/ Leave(s)
  \/ \E check, key \in BOOLEAN : Play(check, key)
  \/ Join \/ UserToggle \/ Order

(* The server's main thread and the workers run all the time, keyframes and*)
(* the check for the gone recur, and a player goes on as soon as it can;   *)
(* nobody has to join, to leave, or to give a command.                     *)
Fairness ==
  /\ WF_vars(Join) /\ WF_vars(\E check, key \in BOOLEAN : Play(check, key))
  /\ SF_vars(\E key \in BOOLEAN : Play(TRUE, key))
  /\ SF_vars(\E check \in BOOLEAN : Play(check, TRUE))
  /\ \A s \in Slot : WF_vars(Worker(s)) /\ WF_vars(Player(s))

Spec == Init /\ [][Next]_vars /\ Fairness

-----------------------------------------------------------------------------
(* A player who waits reads the reply to its own ready and nothing else:   *)
(* the notice that the game is saved never reaches a player that no longer *)
(* waits for it, who would enter before its slot is ready or quit on it.   *)
OneAnswer ==
  \A s \in Slot :
    /\ pc[s] = "wait" /\ down[s] # << >> => slot[s]["ready"] /\ Len(down[s]) = 1
    /\ pc[s] \in {"loaded", "start", "play"} => down[s] = << >>

(* No frame passes between the saved game that a player has loaded and the *)
(* first list that it keeps.                                               *)
FrozenFrames ==
  \A s \in Slot : pc[s] \in {"wait", "start", "play"} => "frame" \notin behind[s]

(* A player who has asked to be launched gets into the game, or leaves.    *)
Served == \A s \in Comer : (pc[s] = "lobby" /\ launched[s]) ~> (pc[s] \in {"play", "out"})

(* The game is paused for a joining player, and nobody is joining.         *)
HeldForNobody ==
  game.forJoin /\ \A s \in Slot : Connected(s) => slot[s]["ready"]

(* While a player who has come in stays, the game is not held for nobody   *)
(* for good: the one resumption that its second nmtReady asks for is not   *)
(* lost, whoever pauses and resumes meanwhile.  Requests to be launched    *)
(* that have outlived their player's loading are left out: see GoesOn.     *)
Resumes ==
  \A s \in Comer :
    []<>~(pc[s] = "play" /\ HeldForNobody /\ Marked("startLaunch") = {})

(* "unpause the game", which is what the second nmtReady of a player is    *)
(* for: while a player who has come in stays, the game is not held for     *)
(* nobody for good.                                                        *)
GoesOn == \A s \in Comer : []<>~(pc[s] = "play" /\ HeldForNobody)

=============================================================================
