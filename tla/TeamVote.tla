------------------------------ MODULE TeamVote ------------------------------
(***************************************************************************)
(* Changing team during a game.  A player asks to join a team; an empty    *)
(* team is joined at once, the members of any other team vote, and the     *)
(* game loop of every replica counts the votes when it executes the        *)
(* commands.  What makes it hard: a player's answer is written into the    *)
(* replica of that player when it is given, and into the others only when  *)
(* its command is executed.                                                *)
(*                                                                         *)
(* The commands travel as in module Lockstep, whose guarantee is taken for *)
(* granted here: every replica executes the lists of the server in order.  *)
(***************************************************************************)
EXTENDS Integers, Sequences, FiniteSets

CONSTANTS
  NumClients,     \* replica 0 is the server, the others are clients
  NumFactions,    \* factions are numbered in the order of World::factions
  NumTeams,       \* teams 0 .. NumTeams - 1 (GameConstants::maxPlayers)
  Human,          \* Human[r]: World::thisFactionIndex of replica r
  FirstTeam,      \* FirstTeam[f]: the team of faction f in the game settings
  None,           \* no vote
  MaxRequests     \* bound: how often a player asks to join a team

Server == 0
Replica == 0 .. NumClients
Faction == 1 .. NumFactions
Team == 0 .. NumTeams - 1

(* getFirstUnusedTeamNumber gives -1 when every team has a member.         *)
AnyTeam == Team \cup {-1}

(* The items of the team menu that stand for no team.                      *)
CREATE_NEW_TEAM == -100
CANCEL_SWITCH_TEAM == -1

ASSUME SizeAssumption ==
  /\ NumClients \in Nat
  /\ NumFactions \in Nat \ {0}
  /\ NumTeams \in Nat \ {0}
ASSUME HumanAssumption ==
  /\ Human \in [Replica -> Faction]
  /\ \A r, q \in Replica : Human[r] = Human[q] => r = q
ASSUME TeamAssumption == FirstTeam \in [Faction -> Team]
ASSUME BoundAssumption == MaxRequests \in Nat

(* The AIs of the factions without a player run on the server only.        *)
Ai == Faction \ {Human[r] : r \in Replica}

(* The factions whose answers are first written at replica r.              *)
Own(r) == {Human[r]} \cup IF r = Server THEN Ai ELSE {}

(* SwitchTeamVote, and the commands nctSwitchTeam and nctSwitchTeamVote.   *)
Vote == [to : AnyTeam, voted : BOOLEAN, allow : BOOLEAN]
SwitchTeam == [type : {"switch"}, from : Faction, to : AnyTeam]
SwitchTeamVote == [type : {"vote"}, by : Faction, from : Faction, allow : BOOLEAN]
Command == SwitchTeam \cup SwitchTeamVote

(* No vote is the null pointer.                                            *)
ASSUME NoneAssumption == None \notin Vote

VARIABLES
  requested,      \* GameNetworkInterface::requestedCommands of each replica
  lists,          \* the lists that the server has broadcast
  done,           \* how many of them each replica has begun to execute
  todo,           \* what is left of the list that each replica executes
  team,           \* Faction::teamIndex at each replica
  votes,          \* votes[r][h][f]: Faction::switchTeamVotes[f] of h at r
  menu,           \* the teams in the open menu of each human, or None
  box,            \* the voter's dialog is shown at each replica
  current,        \* Faction::currentSwitchTeamVoteFactionIndex of each human
  asked,          \* Ai::factionSwitchTeamRequestCount
  crashed,        \* an exception has ended the game at this replica
  requests,       \* history: the number of requests to join a team
  consent,        \* history: the pairs <<h, f>> with h answering yes to f
  early           \* history: a vote was counted while the replica's own
                  \* answer to the same faction was still under way

queueVars == <<requested, lists, done, todo>>
uiVars == <<menu, box, current, asked>>
historyVars == <<requests, consent, early>>
vars == <<requested, lists, done, todo, team, votes, menu, box, current,
          asked, crashed, requests, consent, early>>

Init ==
  /\ requested = [r \in Replica |-> <<>>]
  /\ lists = <<>>
  /\ done = [r \in Replica |-> 0]
  /\ todo = [r \in Replica |-> <<>>]
  /\ team = [r \in Replica |-> FirstTeam]
  /\ votes = [r \in Replica |-> [h \in Faction |-> [f \in Faction |-> None]]]
  /\ menu = [r \in Replica |-> None]
  /\ box = [r \in Replica |-> FALSE]
  /\ current = [r \in Replica |-> None]
  /\ asked = [h \in Faction |-> [f \in Faction |-> 0]]
  /\ crashed = [r \in Replica |-> FALSE]
  /\ requests = 0
  /\ consent = {}
  /\ early = FALSE

-----------------------------------------------------------------------------
(* The user and the AIs; never in the middle of a list *)

Idle(r) == ~crashed[r] /\ todo[r] = <<>>

Members(r, t) == {f \in Faction : team[r][f] = t}

(* Mutant: the number of teams, as if they were numbered without a gap.    *)
CountAsTeam(r) == NumTeams + Cardinality({team[r][f] : f \in Faction})

(* Game::getFirstUnusedTeamNumber.                                         *)
FirstUnusedTeam(r) ==
  LET unused == {t \in Team : Members(r, t) = {}}
  IN IF unused = {} THEN -1 ELSE CHOOSE t \in unused : \A u \in unused : t <= u

(* The menu offers the teams of the other factions, a new one if fewer     *)
(* teams than there can be are in use, and a way out.                      *)
Menu(r) ==
  LET used == {team[r][f] : f \in Faction}
  IN (used \ {team[r][Human[r]]})
       \cup (IF Cardinality(used) < NumTeams THEN {CREATE_NEW_TEAM} ELSE {})
       \cup {CANCEL_SWITCH_TEAM}

OpenMenu(r) ==
  /\ Idle(r)
  /\ menu[r] = None
  /\ requests < MaxRequests
  /\ menu' = [menu EXCEPT ![r] = Menu(r)]
  /\ UNCHANGED <<queueVars, team, votes, box, current, asked, crashed,
                 historyVars>>

(* A click on a team or the new team of the menu, which shows the teams as *)
(* they were when it was opened; the number of the new team is chosen now. *)
AskToJoin(r, item) ==
  LET t == IF item = CREATE_NEW_TEAM THEN FirstUnusedTeam(r) ELSE item
  IN /\ Idle(r)
     /\ menu[r] # None
     /\ item \in menu[r] \ {CANCEL_SWITCH_TEAM}
     /\ requests < MaxRequests
     /\ requested' = [requested EXCEPT ![r] =
          Append(@, [type |-> "switch", from |-> Human[r], to |-> t])]
     /\ menu' = [menu EXCEPT ![r] = None]
     /\ requests' = requests + 1
     /\ UNCHANGED <<lists, done, todo, team, votes, box, current, asked,
                    crashed, consent, early>>

CancelMenu(r) ==
  /\ Idle(r)
  /\ menu[r] # None
  /\ menu' = [menu EXCEPT ![r] = None]
  /\ UNCHANGED <<queueVars, team, votes, box, current, asked, crashed,
                 historyVars>>

(* Faction::getFirstSwitchTeamVote: the lowest faction that h has not yet  *)
(* answered; Unanswered is empty if there is none.                         *)
Unanswered(r, h) ==
  {f \in Faction : votes[r][h][f] # None /\ ~votes[r][h][f].voted}

First(S) == CHOOSE f \in S : \A g \in S : f <= g

(* Game::update shows the dialog of the first unanswered vote.             *)
ShowBox(r) ==
  /\ Idle(r)
  /\ Unanswered(r, Human[r]) # {}
  /\ box' = [box EXCEPT ![r] = TRUE]
  /\ current' = [current EXCEPT ![r] = First(Unanswered(r, Human[r]))]
  /\ UNCHANGED <<queueVars, team, votes, menu, asked, crashed, historyVars>>

(* The answer of h to f is noted here and requested as a command.          *)
Answer(r, h, f, allow) ==
  /\ votes' = [votes EXCEPT ![r][h][f] = [@ EXCEPT !.voted = TRUE, !.allow = allow]]
  /\ requested' = [requested EXCEPT ![r] =
       Append(@, [type |-> "vote", by |-> h, from |-> f, allow |-> allow])]
  /\ consent' = IF allow THEN consent \cup {<<h, f>>} ELSE consent

(* Game::mouseDownLeft on the dialog.                                      *)
Click(r, allow) ==
  /\ Idle(r)
  /\ box[r]
  /\ Answer(r, Human[r], current[r], allow)
  /\ box' = [box EXCEPT ![r] = FALSE]
  /\ UNCHANGED <<lists, done, todo, team, menu, current, asked, crashed, requests,
                 early>>

(* Ai::update: the third and later requests of a faction are refused; the  *)
(* others are decided by chance.                                           *)
AiAnswer(h, allow) ==
  LET f == First(Unanswered(Server, h))
  IN /\ Idle(Server)
     /\ Unanswered(Server, h) # {}
     /\ asked' = [asked EXCEPT ![h][f] = @ + 1]
     /\ allow => asked[h][f] < 2
     /\ Answer(Server, h, f, allow)
     /\ UNCHANGED <<lists, done, todo, team, menu, box, current, crashed,
                    requests, early>>

-----------------------------------------------------------------------------
(* The way of the commands, as in Lockstep *)

Batch(s) == [i \in 1 .. Len(s) |-> s[Len(s) - i + 1]]

Send(c) ==
  /\ Idle(c)
  /\ requested[c] # <<>>
  /\ requested' = [requested EXCEPT ![Server] = @ \o Batch(requested[c]),
                                    ![c] = <<>>]
  /\ UNCHANGED <<lists, done, todo, team, votes, uiVars, crashed, historyVars>>

(* Mutant: the server executes the commands in the order they came.        *)
KeyframeOwnOrder ==
  /\ Idle(Server)
  /\ requested[Server] # <<>>
  /\ lists' = Append(lists, Batch(requested[Server]))
  /\ done' = [done EXCEPT ![Server] = @ + 1]
  /\ todo' = [todo EXCEPT ![Server] = requested[Server]]
  /\ requested' = [requested EXCEPT ![Server] = <<>>]
  /\ UNCHANGED <<team, votes, uiVars, crashed, historyVars>>

(* The server broadcasts a list and begins to execute it.                  *)
Keyframe ==
  /\ Idle(Server)
  /\ requested[Server] # <<>>
  /\ lists' = Append(lists, Batch(requested[Server]))
  /\ done' = [done EXCEPT ![Server] = @ + 1]
  /\ todo' = [todo EXCEPT ![Server] = Batch(requested[Server])]
  /\ requested' = [requested EXCEPT ![Server] = <<>>]
  /\ UNCHANGED <<team, votes, uiVars, crashed, historyVars>>

ClientKeyframe(c) ==
  /\ Idle(c)
  /\ done[c] < Len(lists)
  /\ done' = [done EXCEPT ![c] = @ + 1]
  /\ todo' = [todo EXCEPT ![c] = lists[done[c] + 1]]
  /\ UNCHANGED <<requested, lists, team, votes, uiVars, crashed, historyVars>>

-----------------------------------------------------------------------------
(* Commander::giveNetworkCommand *)

(* Mutant: only the players of this replica are asked.                     *)
AskedOwn(r, f, t) ==
  [h \in Faction |->
    IF h \in Members(r, t) \cap Own(r)
    THEN [votes[r][h] EXCEPT ![f] = [to |-> t, voted |-> FALSE, allow |-> FALSE]]
    ELSE votes[r][h]]

(* nctSwitchTeam for a team with members: each one has a new vote, not yet *)
(* answered.                                                               *)
Asked(r, f, t) ==
  [h \in Faction |->
    IF h \in Members(r, t)
    THEN [votes[r][h] EXCEPT ![f] = [to |-> t, voted |-> FALSE, allow |-> FALSE]]
    ELSE votes[r][h]]

ExecuteSwitch(r, f, t) ==
  /\ IF Members(r, t) = {}
     THEN /\ team' = [team EXCEPT ![r][f] = t]
          /\ UNCHANGED votes
     ELSE /\ votes' = [votes EXCEPT ![r] = Asked(r, f, t)]
          /\ UNCHANGED team
  /\ UNCHANGED <<crashed, early>>

(* Mutant: one yes is enough.                                              *)
AcceptedByOne(yes, members) == Cardinality(yes) > 0

(* newTeamVotedYes / newTeamTotalMemberCount > 0.5, in integers.           *)
Accepted(yes, members) ==
  /\ Cardinality(members) > 0 /\ Cardinality(yes) > 0
  /\ 2 * (Cardinality(yes) \div Cardinality(members)) > 1

SaidYes(given, f, members) ==
  {h \in members : given[h][f] # None /\ given[h][f].voted /\ given[h][f].allow}

(* An answer to faction f given at r that r has not executed yet.          *)
UnderWay(r, f, rest) ==
  \E h \in Own(r), allow \in BOOLEAN :
    LET c == [type |-> "vote", by |-> h, from |-> f, allow |-> allow]
        Holds(s) == \E i \in DOMAIN s : s[i] = c
    IN \/ Holds(rest) \/ Holds(requested[r]) \/ Holds(requested[Server])
       \/ \E i \in done[r] + 1 .. Len(lists) : Holds(lists[i])

(* nctSwitchTeamVote: "vote == NULL" is an exception.                      *)
ExecuteVote(r, h, f, allow) ==
  LET given == [votes[r] EXCEPT ![h][f] = [@ EXCEPT !.voted = TRUE, !.allow = allow]]
      members == Members(r, votes[r][h][f].to)
  IN IF votes[r][h][f] = None
     THEN /\ crashed' = [crashed EXCEPT ![r] = TRUE]
          /\ UNCHANGED <<team, votes, early>>
     ELSE /\ votes' = [votes EXCEPT ![r] = given]
          /\ team' = IF Accepted(SaidYes(given, f, members), members)
                     THEN [team EXCEPT ![r][f] = votes[r][h][f].to] ELSE team
          /\ early' = (early \/ UnderWay(r, f, Tail(todo[r])))
          /\ UNCHANGED crashed

Execute(r) ==
  /\ ~crashed[r]
  /\ todo[r] # <<>>
  /\ LET c == Head(todo[r])
     IN IF c.type = "switch" THEN ExecuteSwitch(r, c.from, c.to)
        ELSE ExecuteVote(r, c.by, c.from, c.allow)
  /\ todo' = [todo EXCEPT ![r] = Tail(@)]
  /\ UNCHANGED <<requested, lists, done, uiVars, requests, consent>>

Next ==
  \/ \E r \in Replica, item \in Team \cup {CREATE_NEW_TEAM} : AskToJoin(r, item)
  \/ \E r \in Replica : OpenMenu(r) \/ CancelMenu(r) \/ ShowBox(r) \/ Execute(r)
  \/ \E r \in Replica, allow \in BOOLEAN : Click(r, allow)
  \/ \E h \in Ai, allow \in BOOLEAN : AiAnswer(h, allow)
  \/ Keyframe
  \/ \E c \in Replica \ {Server} : Send(c) \/ ClientKeyframe(c)

Spec == Init /\ [][Next]_vars

-----------------------------------------------------------------------------
(* Properties *)

(* Every variable has its type.                                            *)
TypeOK ==
  /\ requested \in [Replica -> Seq(Command)]
  /\ lists \in Seq(Seq(Command))
  /\ done \in [Replica -> 0 .. Len(lists)]
  /\ todo \in [Replica -> Seq(Command)]
  /\ team \in [Replica -> [Faction -> AnyTeam]]
  /\ votes \in [Replica -> [Faction -> [Faction -> Vote \cup {None}]]]
  /\ menu \in [Replica -> {None} \cup SUBSET (AnyTeam \cup {CREATE_NEW_TEAM})]
  /\ box \in [Replica -> BOOLEAN]
  /\ current \in [Replica -> Faction \cup {None}]
  /\ asked \in [Faction -> [Faction -> Nat]]
  /\ crashed \in [Replica -> BOOLEAN]
  /\ requests \in Nat
  /\ consent \subseteq Faction \X Faction
  /\ early \in BOOLEAN

(* The members of a team that have at some time said yes to f, in the      *)
(* dialog or as an AI.                                                     *)
Consenting(f, members) == {h \in members : <<h, f>> \in consent}

MoreThanHalf(part, whole) == 2 * Cardinality(part) > Cardinality(whole)

(* Nobody comes into a team that has members unless more than half of them *)
(* have at some time said yes to this player, as the comments of           *)
(* Commander::giveNetworkCommand promise: whatever team the vote was       *)
(* about, whoever has joined or left it since, and wherever the answer was *)
(* executed first.                                                         *)
Consent ==
  [][\A r \in Replica, f \in Faction :
       LET members == Members(r, team'[r][f])
       IN team'[r][f] # team[r][f] /\ members # {} =>
            MoreThanHalf(Consenting(f, members), members)]_vars

(* Replicas that have executed the same commands agree on the teams, and   *)
(* on every vote but those of their own players, as long as no replica has *)
(* counted a vote while an answer of its own was still under way.          *)
SameTeams ==
  early \/ \A r, q \in Replica :
    done[r] = done[q] /\ todo[r] = todo[q] =>
      /\ team[r] = team[q]
      /\ \A h \in Faction \ (Own(r) \cup Own(q)) : votes[r][h] = votes[q][h]

(* As long as that is so, no replica executes an answer to a request that  *)
(* it does not know: nobody's game ends with "vote == NULL".               *)
KnownVotes == early \/ \A r \in Replica : ~crashed[r]

-----------------------------------------------------------------------------
(* What the repository says and the code does not do *)

(* The check of Commander::giveNetworkCommand that an executed answer      *)
(* belongs to a vote of its faction never fails.                           *)
VoteFound == \A r \in Replica : ~crashed[r]

(* "Join the new team if > 50 % said yes": when a replica has executed an  *)
(* answer, and more than half of the team that the vote is about have      *)
(* noted a yes there, the player is in that team.                          *)
MajorityJoins ==
  [][\A r \in Replica, h, f \in Faction :
       LET answered == /\ todo[r] # <<>> /\ todo'[r] # todo[r]
                       /\ Head(todo[r]).type = "vote"
                       /\ Head(todo[r]).by = h /\ Head(todo[r]).from = f
                       /\ votes[r][h][f] # None
           members == Members(r, votes[r][h][f].to)
       IN answered /\ MoreThanHalf(SaidYes(votes'[r], f, members), members) =>
            team'[r][f] = votes[r][h][f].to]_vars

=============================================================================
