--------------------------- MODULE TeamVoteProofs ---------------------------
(***************************************************************************)
(* Proofs about TeamVote, for any number of replicas, factions, teams and  *)
(* requests: every variable keeps its type, nobody comes into a team       *)
(* without the consent of its members, and until a vote is counted too     *)
(* early the replicas that have executed the same commands agree.          *)
(***************************************************************************)
EXTENDS TeamVote, Induction, FiniteSetTheorems, SequenceTheorems, TLAPS

USE SizeAssumption

-----------------------------------------------------------------------------
(* Numbers and sequences *)

(* The choice of the lowest faction is one of the factions.                *)
LEMMA FirstType ==
  ASSUME NEW S, S \subseteq Faction, S # {}
  PROVE  First(S) \in S
<1>1. S \subseteq Int /\ IsFiniteSet(S)
  <2>1. IsFiniteSet(Faction) /\ Faction \subseteq Int
    BY FS_Interval DEF Faction
  <2> QED  BY <2>1, FS_Subset
<1>2. \E f \in S : \A g \in S : f <= g
  BY <1>1, Smallest
<1> QED  BY <1>2 DEF First

(* Emptying a vector from the back gives a sequence of the same values.    *)
LEMMA BatchType ==
  ASSUME NEW S, NEW s \in Seq(S)
  PROVE  Batch(s) \in Seq(S)
<1>1. \A i \in 1 .. Len(s) : s[Len(s) - i + 1] \in S
  OBVIOUS
<1> QED  BY <1>1 DEF Batch

(* A sequence over a set is one over any larger set.                       *)
LEMMA SeqMonotone ==
  ASSUME NEW S, NEW T, S \subseteq T
  PROVE  Seq(S) \subseteq Seq(T)
<1> SUFFICES ASSUME NEW s \in Seq(S) PROVE s \in Seq(T)
  OBVIOUS
<1>1. Len(s) \in Nat /\ s \in [1 .. Len(s) -> T]
  OBVIOUS
<1> QED  BY <1>1

(* A team that has members accepts a player only if all of them said yes:  *)
(* the quotient of the two numbers is an integer.                          *)
LEMMA AcceptedByAll ==
  ASSUME NEW members \in SUBSET Faction, NEW yes \in SUBSET members,
         Accepted(yes, members)
  PROVE  yes = members
<1>1. IsFiniteSet(Faction)
  BY FS_Interval DEF Faction
<1>2. IsFiniteSet(members)
  BY <1>1, FS_Subset
<1>3. IsFiniteSet(yes) /\ Cardinality(yes) <= Cardinality(members)
  BY <1>2, FS_Subset
<1>4. Cardinality(yes) \in Nat /\ Cardinality(members) \in Nat
  BY <1>2, <1>3, FS_CardinalityType
<1> DEFINE y == Cardinality(yes)
           n == Cardinality(members)
<1>5. y \in Nat /\ n \in Nat /\ n > 0 /\ 2 * (y \div n) > 1
  BY <1>4 DEF Accepted
<1>6. y >= n
  <2> SUFFICES ASSUME y < n PROVE FALSE
    BY <1>5
  <2> HIDE DEF y, n
  <2>1. y \div n = 0
    BY <1>5
  <2> QED  BY <1>5, <2>1
<1> QED  BY <1>2, <1>3, <1>4, <1>6, FS_Subset

(* A team of the menu, and the number of a new team.                       *)
LEMMA FirstUnusedTeamType ==
  ASSUME NEW r \in Replica
  PROVE  FirstUnusedTeam(r) \in AnyTeam
<1> DEFINE unused == {t \in Team : Members(r, t) = {}}
<1>1. CASE unused = {}
  BY <1>1 DEF FirstUnusedTeam, AnyTeam
<1>2. CASE unused # {}
  <2>1. unused \subseteq Int /\ IsFiniteSet(unused)
    <3>1. IsFiniteSet(Team) /\ Team \subseteq Int
      BY FS_Interval DEF Team
    <3>2. unused \in SUBSET Team
      OBVIOUS
    <3> HIDE DEF unused
    <3> QED  BY <3>1, <3>2, FS_Subset
  <2>2. \E t \in unused : \A u \in unused : t <= u
    BY <1>2, <2>1, Smallest
  <2>3. FirstUnusedTeam(r) = CHOOSE t \in unused : \A u \in unused : t <= u
    BY <1>2 DEF FirstUnusedTeam
  <2> QED  BY <2>2, <2>3 DEF AnyTeam
<1> QED  BY <1>1, <1>2

-----------------------------------------------------------------------------
(* The inductive invariant *)

(* The commands that may be under way: those in which a yes has been given.*)
Given == {c \in Command : c.type = "vote" /\ c.allow => <<c.by, c.from>> \in consent}

(* The dialog is shown for a vote that exists.                             *)
BoxHasVote ==
  \A r \in Replica : box[r] =>
    /\ current[r] \in Faction
    /\ votes[r][Human[r]][current[r]] \in Vote

(* Every yes that a replica has noted was given,                           *)
VotesGiven ==
  \A r \in Replica : \A h, f \in Faction :
    /\ votes[r][h][f] # None
    /\ votes[r][h][f].voted
    /\ votes[r][h][f].allow
    => <<h, f>> \in consent

(* and so was every yes that a command carries.                            *)
CommandsGiven ==
  /\ requested \in [Replica -> Seq(Given)]
  /\ lists \in Seq(Seq(Given))
  /\ todo \in [Replica -> Seq(Given)]

TeamInv == TypeOK /\ BoxHasVote /\ VotesGiven /\ CommandsGiven

(* Consent that grows keeps every command given.                           *)
LEMMA GivenGrows ==
  ASSUME consent \subseteq consent'
  PROVE  Given \subseteq Given'
BY Zenon DEF Given

(* Commands that are under way stay given while consent grows.             *)
LEMMA GivenKept ==
  ASSUME CommandsGiven, UNCHANGED <<requested, lists, todo>>, consent \subseteq consent'
  PROVE  CommandsGiven'
<1>1. Seq(Given) \subseteq Seq(Given') /\ Seq(Seq(Given)) \subseteq Seq(Seq(Given'))
  BY GivenGrows, SeqMonotone
<1> QED  BY <1>1 DEF CommandsGiven

(* The server is a replica.                                                *)
LEMMA ServerIsReplica == Server \in Replica
BY DEF Server, Replica

(* The two kinds of command are told apart by their type.                  *)
LEMMA CommandTypes ==
  /\ \A f \in Faction, t \in AnyTeam : [type |-> "switch", from |-> f, to |-> t] \in Command
  /\ \A h, f \in Faction, allow \in BOOLEAN :
       [type |-> "vote", by |-> h, from |-> f, allow |-> allow] \in Command
  /\ \A c \in Command : c.type = "switch" => c.from \in Faction /\ c.to \in AnyTeam
  /\ \A c \in Command : c.type # "switch" =>
       /\ c.type = "vote"
       /\ c.by \in Faction /\ c.from \in Faction /\ c.allow \in BOOLEAN
BY DEF Command, SwitchTeam, SwitchTeamVote

(* At the start nothing is under way.                                      *)
LEMMA InitInv == Init => TeamInv
<1> SUFFICES ASSUME Init PROVE TeamInv
  OBVIOUS
<1> USE DEF Init
<1>1. TypeOK
  <2>1. done \in [Replica -> 0 .. Len(lists)] /\ lists \in Seq(Seq(Command))
    OBVIOUS
  <2>2. team \in [Replica -> [Faction -> AnyTeam]]
    BY TeamAssumption DEF AnyTeam
  <2>3. /\ requested \in [Replica -> Seq(Command)]
        /\ todo \in [Replica -> Seq(Command)]
    OBVIOUS
  <2>4. /\ votes \in [Replica -> [Faction -> [Faction -> Vote \cup {None}]]]
        /\ menu \in [Replica -> {None} \cup SUBSET (AnyTeam \cup {CREATE_NEW_TEAM})]
        /\ box \in [Replica -> BOOLEAN]
        /\ current \in [Replica -> Faction \cup {None}]
    OBVIOUS
  <2>5. /\ asked \in [Faction -> [Faction -> Nat]]
        /\ crashed \in [Replica -> BOOLEAN]
        /\ requests \in Nat
        /\ consent \subseteq Faction \X Faction
        /\ early \in BOOLEAN
    OBVIOUS
  <2> QED  BY <2>1, <2>2, <2>3, <2>4, <2>5 DEF TypeOK
<1>2. BoxHasVote /\ VotesGiven
  BY DEF BoxHasVote, VotesGiven
<1>3. CommandsGiven
  BY DEF CommandsGiven
<1> QED  BY <1>1, <1>2, <1>3 DEF TeamInv

-----------------------------------------------------------------------------
(* Each action keeps it *)

(* The menu shows teams that there are.                                    *)
LEMMA OpenMenuInv ==
  ASSUME TeamInv, NEW r \in Replica, OpenMenu(r)
  PROVE  TeamInv'
<1> USE DEF TeamInv, OpenMenu, queueVars, historyVars
<1>1. TypeOK'
  <2>1. Human[r] \in Faction
    BY HumanAssumption
  <2>2. Menu(r) \in SUBSET (AnyTeam \cup {CREATE_NEW_TEAM})
    BY <2>1 DEF Menu, TypeOK, AnyTeam, CANCEL_SWITCH_TEAM
  <2> QED  BY <2>2 DEF TypeOK
<1>2. BoxHasVote' /\ VotesGiven'
  BY DEF BoxHasVote, VotesGiven
<1>3. CommandsGiven'
  BY GivenKept
<1> QED  BY <1>1, <1>2, <1>3

LEMMA CancelMenuInv ==
  ASSUME TeamInv, NEW r \in Replica, CancelMenu(r)
  PROVE  TeamInv'
<1> USE DEF TeamInv, CancelMenu, queueVars, historyVars
<1>1. TypeOK'
  BY DEF TypeOK
<1>2. BoxHasVote' /\ VotesGiven'
  BY DEF BoxHasVote, VotesGiven
<1>3. CommandsGiven'
  BY GivenKept
<1> QED  BY <1>1, <1>2, <1>3

(* A request carries no yes.                                               *)
LEMMA AskToJoinInv ==
  ASSUME TeamInv, NEW r \in Replica, NEW item \in Team \cup {CREATE_NEW_TEAM},
         AskToJoin(r, item)
  PROVE  TeamInv'
<1> DEFINE t == IF item = CREATE_NEW_TEAM THEN FirstUnusedTeam(r) ELSE item
           c == [type |-> "switch", from |-> Human[r], to |-> t]
<1>1. c \in Command /\ c.type # "vote"
  <2>1. t \in AnyTeam /\ Human[r] \in Faction
    BY FirstUnusedTeamType, HumanAssumption DEF AnyTeam
  <2> QED  BY <2>1, CommandTypes
<1>2. requested' = [requested EXCEPT ![r] = Append(@, c)]
  BY DEF AskToJoin
<1> HIDE DEF c
<1>3. UNCHANGED <<lists, done, todo, team, votes, box, current, asked, crashed, consent, early>>
      /\ menu' = [menu EXCEPT ![r] = None] /\ requests' = requests + 1
  BY DEF AskToJoin
<1>4. TypeOK'
  BY <1>1, <1>2, <1>3 DEF TypeOK, TeamInv
<1>5. BoxHasVote' /\ VotesGiven'
  BY <1>3 DEF BoxHasVote, VotesGiven, TeamInv
<1>6. CommandsGiven'
  <2>1. Given' = Given /\ c \in Given
    BY <1>1, <1>3 DEF Given
  <2> QED  BY <1>2, <1>3, <2>1 DEF CommandsGiven, TeamInv
<1> QED  BY <1>4, <1>5, <1>6 DEF TeamInv

(* The dialog is opened for a vote of the player.                          *)
LEMMA ShowBoxInv ==
  ASSUME TeamInv, NEW r \in Replica, ShowBox(r)
  PROVE  TeamInv'
<1> USE DEF TeamInv, ShowBox, queueVars, historyVars
<1> DEFINE f == First(Unanswered(r, Human[r]))
<1>1. Human[r] \in Faction
  BY HumanAssumption
<1>2. f \in Unanswered(r, Human[r])
  BY FirstType DEF Unanswered
<1> HIDE DEF f
<1>3. f \in Faction /\ votes[r][Human[r]][f] \in Vote
  BY <1>1, <1>2 DEF Unanswered, TypeOK
<1>4. TypeOK'
  BY <1>3 DEF TypeOK, f
<1>5. BoxHasVote' /\ VotesGiven'
  BY <1>3 DEF BoxHasVote, VotesGiven, TypeOK, f
<1>6. CommandsGiven'
  BY GivenKept
<1> QED  BY <1>4, <1>5, <1>6

(* An answer given by a player or an AI to a vote that it has.             *)
LEMMA AnswerKeeps ==
  ASSUME TeamInv, NEW r \in Replica, NEW h \in Faction, NEW f \in Faction,
         NEW allow \in BOOLEAN, votes[r][h][f] \in Vote,
         Answer(r, h, f, allow), UNCHANGED <<lists, todo>>
  PROVE  /\ votes' \in [Replica -> [Faction -> [Faction -> Vote \cup {None}]]]
         /\ requested' \in [Replica -> Seq(Command)]
         /\ consent' \subseteq Faction \X Faction
         /\ \A q \in Replica, g, e \in Faction :
              votes[q][g][e] \in Vote => votes'[q][g][e] \in Vote
         /\ VotesGiven' /\ CommandsGiven'
<1> DEFINE c == [type |-> "vote", by |-> h, from |-> f, allow |-> allow]
           v == [votes[r][h][f] EXCEPT !.voted = TRUE, !.allow = allow]
<1>1. c \in Command /\ v \in Vote /\ v.allow = allow
      /\ c.type = "vote" /\ c.by = h /\ c.from = f /\ c.allow = allow
  BY CommandTypes DEF Vote
<1>2. /\ requested' = [requested EXCEPT ![r] = Append(@, c)]
      /\ consent' = IF allow THEN consent \cup {<<h, f>>} ELSE consent
  BY DEF Answer
<1>3. votes' = [votes EXCEPT ![r][h][f] = v]
  BY DEF Answer, TeamInv, TypeOK
<1> HIDE DEF c, v
<1>4. votes' \in [Replica -> [Faction -> [Faction -> Vote \cup {None}]]]
  BY <1>1, <1>3 DEF TeamInv, TypeOK
<1>5. \A q \in Replica, g, e \in Faction :
        votes'[q][g][e] = IF q = r /\ g = h /\ e = f THEN v ELSE votes[q][g][e]
  BY <1>3 DEF TeamInv, TypeOK
<1>6. requested' \in [Replica -> Seq(Command)] /\ consent' \subseteq Faction \X Faction
  BY <1>1, <1>2 DEF TeamInv, TypeOK
<1>7. VotesGiven'
  <2>1. consent \subseteq consent' /\ (allow => <<h, f>> \in consent')
    BY <1>2
  <2> SUFFICES ASSUME NEW q \in Replica, NEW g \in Faction, NEW e \in Faction,
                      votes'[q][g][e] # None, votes'[q][g][e].voted,
                      votes'[q][g][e].allow
               PROVE  <<g, e>> \in consent'
    BY DEF VotesGiven
  <2>2. CASE q = r /\ g = h /\ e = f
    BY <1>1, <1>5, <2>1, <2>2
  <2>3. CASE ~(q = r /\ g = h /\ e = f)
    BY <1>5, <2>1, <2>3 DEF VotesGiven, TeamInv
  <2> QED  BY <2>2, <2>3
<1>8. CommandsGiven'
  <2>1. Given \subseteq Given' /\ c \in Given'
    BY <1>1, <1>2, GivenGrows DEF Given
  <2>2. Seq(Given) \subseteq Seq(Given') /\ Seq(Seq(Given)) \subseteq Seq(Seq(Given'))
    BY <2>1, SeqMonotone
  <2>3. lists' \in Seq(Seq(Given')) /\ todo' \in [Replica -> Seq(Given')]
    BY <2>2 DEF CommandsGiven, TeamInv
  <2>4. requested \in [Replica -> Seq(Given')]
    BY <2>2 DEF CommandsGiven, TeamInv
  <2>5. requested' \in [Replica -> Seq(Given')]
    BY <1>2, <2>1, <2>4
  <2> QED  BY <2>3, <2>5 DEF CommandsGiven
<1> QED  BY <1>1, <1>4, <1>5, <1>6, <1>7, <1>8

(* The answer of a player.                                                 *)
LEMMA ClickInv ==
  ASSUME TeamInv, NEW r \in Replica, NEW allow \in BOOLEAN, Click(r, allow)
  PROVE  TeamInv'
<1>1. /\ Human[r] \in Faction /\ current[r] \in Faction
      /\ votes[r][Human[r]][current[r]] \in Vote
      /\ Answer(r, Human[r], current[r], allow)
      /\ box' = [box EXCEPT ![r] = FALSE]
      /\ UNCHANGED <<lists, done, todo, team, menu, current, asked, crashed,
                     requests, early>>
  BY HumanAssumption DEF Click, BoxHasVote, TeamInv
<1>2. /\ votes' \in [Replica -> [Faction -> [Faction -> Vote \cup {None}]]]
      /\ requested' \in [Replica -> Seq(Command)]
      /\ consent' \subseteq Faction \X Faction
      /\ \A q \in Replica, g, e \in Faction :
           votes[q][g][e] \in Vote => votes'[q][g][e] \in Vote
      /\ VotesGiven' /\ CommandsGiven'
  BY <1>1, AnswerKeeps
<1>3. TypeOK'
  BY <1>1, <1>2 DEF TypeOK, TeamInv
<1>4. BoxHasVote'
  BY <1>1, <1>2, HumanAssumption DEF BoxHasVote, TypeOK, TeamInv
<1> QED  BY <1>2, <1>3, <1>4 DEF TeamInv

(* The answer of an AI.                                                    *)
LEMMA AiAnswerInv ==
  ASSUME TeamInv, NEW h \in Ai, NEW allow \in BOOLEAN, AiAnswer(h, allow)
  PROVE  TeamInv'
<1> DEFINE f == First(Unanswered(Server, h))
<1>1. h \in Faction
  BY DEF Ai
<1>2. f \in Unanswered(Server, h)
  BY FirstType DEF Unanswered, AiAnswer
<1>3. /\ asked' = [asked EXCEPT ![h][f] = @ + 1]
      /\ Answer(Server, h, f, allow)
      /\ UNCHANGED <<lists, done, todo, team, menu, box, current, crashed,
                     requests, early>>
  BY DEF AiAnswer
<1> HIDE DEF f
<1>4. f \in Faction /\ votes[Server][h][f] \in Vote
  BY <1>1, <1>2, ServerIsReplica DEF Unanswered, TypeOK, TeamInv
<1>5. /\ votes' \in [Replica -> [Faction -> [Faction -> Vote \cup {None}]]]
      /\ requested' \in [Replica -> Seq(Command)]
      /\ consent' \subseteq Faction \X Faction
      /\ \A q \in Replica, g, e \in Faction :
           votes[q][g][e] \in Vote => votes'[q][g][e] \in Vote
      /\ VotesGiven' /\ CommandsGiven'
  BY <1>1, <1>3, <1>4, ServerIsReplica, AnswerKeeps
<1>6. TypeOK'
  <2>1. asked' \in [Faction -> [Faction -> Nat]]
    BY <1>1, <1>3, <1>4 DEF TypeOK, TeamInv
  <2> QED  BY <1>3, <1>5, <2>1 DEF TypeOK, TeamInv
<1>7. BoxHasVote'
  BY <1>3, <1>5, HumanAssumption DEF BoxHasVote, TypeOK, TeamInv
<1> QED  BY <1>5, <1>6, <1>7 DEF TeamInv

(* The commands of a client go to the server.                              *)
LEMMA SendInv ==
  ASSUME TeamInv, NEW c \in Replica \ {Server}, Send(c)
  PROVE  TeamInv'
<1> DEFINE joined == requested[Server] \o Batch(requested[c])
<1>1. requested' = [requested EXCEPT ![Server] = joined, ![c] = <<>>]
      /\ UNCHANGED <<lists, done, todo, team, votes, uiVars, crashed, historyVars>>
  BY DEF Send
<1> USE DEF uiVars, historyVars, TeamInv
<1>2. TypeOK'
  <2>1. joined \in Seq(Command) /\ <<>> \in Seq(Command)
    BY BatchType, ServerIsReplica DEF TypeOK
  <2> HIDE DEF joined
  <2>2. requested' \in [Replica -> Seq(Command)]
    BY <1>1, <2>1 DEF TypeOK
  <2> QED  BY <1>1, <2>2 DEF TypeOK
<1>3. BoxHasVote' /\ VotesGiven'
  BY <1>1 DEF BoxHasVote, VotesGiven
<1>4. CommandsGiven'
  <2>1. Given' = Given
    BY <1>1 DEF Given
  <2>2. joined \in Seq(Given) /\ <<>> \in Seq(Given)
    BY BatchType, ServerIsReplica DEF CommandsGiven
  <2> HIDE DEF joined
  <2>3. requested' \in [Replica -> Seq(Given)]
    BY <1>1, <2>2 DEF CommandsGiven
  <2> QED  BY <1>1, <2>1, <2>3 DEF CommandsGiven
<1> QED  BY <1>2, <1>3, <1>4

(* The server broadcasts what it has, and begins to execute it.            *)
LEMMA KeyframeInv ==
  ASSUME TeamInv, Keyframe
  PROVE  TeamInv'
<1>1. /\ lists' = Append(lists, Batch(requested[Server]))
      /\ done' = [done EXCEPT ![Server] = @ + 1]
      /\ todo' = [todo EXCEPT ![Server] = Batch(requested[Server])]
      /\ requested' = [requested EXCEPT ![Server] = <<>>]
      /\ UNCHANGED <<team, votes, uiVars, crashed, historyVars>>
  BY DEF Keyframe
<1> USE DEF uiVars, historyVars, TeamInv
<1>2. TypeOK'
  <2>1. Batch(requested[Server]) \in Seq(Command)
    BY BatchType, ServerIsReplica DEF TypeOK
  <2>2. Len(lists') = Len(lists) + 1 /\ lists' \in Seq(Seq(Command)) /\ Len(lists) \in Nat
    BY <1>1, <2>1 DEF TypeOK
  <2>3. done' \in [Replica -> 0 .. Len(lists')]
    BY <1>1, <2>2, ServerIsReplica DEF TypeOK
  <2> QED  BY <1>1, <2>1, <2>2, <2>3 DEF TypeOK
<1>3. BoxHasVote' /\ VotesGiven'
  BY <1>1 DEF BoxHasVote, VotesGiven
<1>4. CommandsGiven'
  <2>1. Given' = Given
    BY <1>1 DEF Given
  <2>2. Batch(requested[Server]) \in Seq(Given) /\ <<>> \in Seq(Given)
    BY BatchType, ServerIsReplica DEF CommandsGiven
  <2>3. lists' \in Seq(Seq(Given))
    BY <1>1, <2>2 DEF CommandsGiven
  <2>4. /\ requested' \in [Replica -> Seq(Given)]
        /\ todo' \in [Replica -> Seq(Given)]
    BY <1>1, <2>2 DEF CommandsGiven
  <2> QED  BY <2>1, <2>3, <2>4 DEF CommandsGiven
<1> QED  BY <1>2, <1>3, <1>4

(* A client begins to execute the next list.                               *)
LEMMA ClientKeyframeInv ==
  ASSUME TeamInv, NEW c \in Replica \ {Server}, ClientKeyframe(c)
  PROVE  TeamInv'
<1>1. /\ done[c] < Len(lists)
      /\ done' = [done EXCEPT ![c] = @ + 1]
      /\ todo' = [todo EXCEPT ![c] = lists[done[c] + 1]]
      /\ UNCHANGED <<requested, lists, team, votes, uiVars, crashed, historyVars>>
  BY DEF ClientKeyframe
<1> USE DEF uiVars, historyVars, TeamInv
<1>2. done[c] + 1 \in 1 .. Len(lists)
  BY <1>1 DEF TypeOK
<1>3. TypeOK'
  <2>1. lists[done[c] + 1] \in Seq(Command)
    BY <1>2 DEF TypeOK
  <2> QED  BY <1>1, <1>2, <2>1 DEF TypeOK
<1>4. BoxHasVote' /\ VotesGiven'
  BY <1>1 DEF BoxHasVote, VotesGiven
<1>5. CommandsGiven'
  <2>1. Given' = Given
    BY <1>1 DEF Given
  <2>2. lists[done[c] + 1] \in Seq(Given)
    BY <1>2 DEF CommandsGiven
  <2> QED  BY <1>1, <2>1, <2>2 DEF CommandsGiven
<1> QED  BY <1>3, <1>4, <1>5

(* A player who is in another team.                                        *)
LEMMA JoinType ==
  ASSUME TypeOK, NEW r \in Replica, NEW f \in Faction, NEW t \in AnyTeam,
         team' = [team EXCEPT ![r][f] = t]
  PROVE  team' \in [Replica -> [Faction -> AnyTeam]]
<1>1. team \in [Replica -> [Faction -> AnyTeam]]
  BY DEF TypeOK
<1>2. [team[r] EXCEPT ![f] = t] \in [Faction -> AnyTeam]
  BY <1>1
<1>3. team' = [team EXCEPT ![r] = [team[r] EXCEPT ![f] = t]]
  BY <1>1
<1> QED  BY <1>1, <1>2, <1>3

(* What a command does to the teams and votes of one replica.              *)
LEMMA SwitchKeeps ==
  ASSUME TeamInv, NEW r \in Replica, NEW f \in Faction, NEW t \in AnyTeam,
         ExecuteSwitch(r, f, t), UNCHANGED consent
  PROVE  /\ team' \in [Replica -> [Faction -> AnyTeam]]
         /\ votes' \in [Replica -> [Faction -> [Faction -> Vote \cup {None}]]]
         /\ crashed' \in [Replica -> BOOLEAN] /\ early' \in BOOLEAN
         /\ \A q \in Replica, g, e \in Faction :
              votes[q][g][e] \in Vote => votes'[q][g][e] \in Vote
         /\ VotesGiven'
<1> USE DEF TeamInv
<1>1. CASE Members(r, t) = {}
  <2>1. team' = [team EXCEPT ![r][f] = t] /\ UNCHANGED <<votes, crashed, early>>
    BY <1>1 DEF ExecuteSwitch
  <2>2. team' \in [Replica -> [Faction -> AnyTeam]]
    BY <2>1, JoinType
  <2> QED  BY <2>1, <2>2 DEF TypeOK, VotesGiven
<1>2. CASE Members(r, t) # {}
  <2> DEFINE v == [to |-> t, voted |-> FALSE, allow |-> FALSE]
  <2>1. v \in Vote /\ v.voted = FALSE
    BY DEF Vote
  <2>2. /\ votes' = [votes EXCEPT ![r] = Asked(r, f, t)]
        /\ UNCHANGED <<team, crashed, early>>
    BY <1>2 DEF ExecuteSwitch
  <2>3. Asked(r, f, t) = [h \in Faction |-> IF h \in Members(r, t)
                                          THEN [votes[r][h] EXCEPT ![f] = v] ELSE votes[r][h]]
    BY DEF Asked
  <2> HIDE DEF v
  <2>4. Asked(r, f, t) \in [Faction -> [Faction -> Vote \cup {None}]]
    BY <2>1, <2>3 DEF TypeOK
  <2>5. \A q \in Replica, g, e \in Faction :
          votes'[q][g][e] = votes[q][g][e] \/ votes'[q][g][e] = v
    BY <2>2, <2>3 DEF TypeOK
  <2>6. votes' \in [Replica -> [Faction -> [Faction -> Vote \cup {None}]]]
    BY <2>2, <2>4 DEF TypeOK
  <2>7. VotesGiven'
    BY <2>1, <2>2, <2>5 DEF VotesGiven
  <2>8. \A q \in Replica, g, e \in Faction :
          votes[q][g][e] \in Vote => votes'[q][g][e] \in Vote
    BY <2>1, <2>5
  <2> QED  BY <2>2, <2>6, <2>7, <2>8 DEF TypeOK
<1> QED  BY <1>1, <1>2

(* An answer that is executed, counted or not.                             *)
LEMMA VoteKeeps ==
  ASSUME TeamInv, NEW r \in Replica, NEW h \in Faction, NEW f \in Faction,
         NEW allow \in BOOLEAN, allow => <<h, f>> \in consent,
         ExecuteVote(r, h, f, allow), UNCHANGED consent
  PROVE  /\ team' \in [Replica -> [Faction -> AnyTeam]]
         /\ votes' \in [Replica -> [Faction -> [Faction -> Vote \cup {None}]]]
         /\ crashed' \in [Replica -> BOOLEAN] /\ early' \in BOOLEAN
         /\ \A q \in Replica, g, e \in Faction :
              votes[q][g][e] \in Vote => votes'[q][g][e] \in Vote
         /\ VotesGiven'
<1> USE DEF TeamInv
<1>1. CASE votes[r][h][f] = None
  <2>1. crashed' = [crashed EXCEPT ![r] = TRUE] /\ UNCHANGED <<team, votes, early>>
    BY <1>1 DEF ExecuteVote
  <2> QED  BY <2>1 DEF TypeOK, VotesGiven
<1>2. CASE votes[r][h][f] # None
  <2> DEFINE v == [votes[r][h][f] EXCEPT !.voted = TRUE, !.allow = allow]
             given == [votes[r] EXCEPT ![h][f] = v]
  <2>1. votes[r][h][f] \in Vote
    BY <1>2 DEF TypeOK
  <2>2. v \in Vote /\ v.allow = allow /\ votes[r][h][f].to \in AnyTeam
    BY <2>1 DEF Vote
  <2>3. /\ votes' = [votes EXCEPT ![r] = given]
        /\ \/ team' = [team EXCEPT ![r][f] = votes[r][h][f].to]
           \/ team' = team
        /\ crashed' = crashed
    BY <1>2 DEF ExecuteVote, TypeOK
  <2>4. early' \in BOOLEAN
    BY <1>2, Zenon DEF ExecuteVote, TypeOK, UnderWay
  <2> HIDE DEF v
  <2>5. given \in [Faction -> [Faction -> Vote \cup {None}]]
    BY <2>2 DEF TypeOK
  <2>6. \A q \in Replica, g, e \in Faction :
          votes'[q][g][e] = IF q = r /\ g = h /\ e = f THEN v ELSE votes[q][g][e]
    BY <2>3 DEF TypeOK
  <2>7. team' \in [Replica -> [Faction -> AnyTeam]]
    BY <2>2, <2>3, JoinType DEF TypeOK
  <2>8. votes' \in [Replica -> [Faction -> [Faction -> Vote \cup {None}]]]
    <3> HIDE DEF given
    <3> QED  BY <2>3, <2>5 DEF TypeOK
  <2>9. VotesGiven'
    BY <2>2, <2>6 DEF VotesGiven
  <2> QED  BY <2>2, <2>3, <2>4, <2>6, <2>7, <2>8, <2>9 DEF TypeOK
<1> QED  BY <1>1, <1>2

(* The next command of a list was given, as all of them were.              *)
LEMMA HeadCommand ==
  ASSUME TeamInv, NEW r \in Replica, todo[r] # <<>>
  PROVE  /\ Head(todo[r]) \in Given /\ Head(todo[r]) \in Command
         /\ Tail(todo[r]) \in Seq(Given) /\ Tail(todo[r]) \in Seq(Command)
<1>1. todo[r] \in Seq(Given) /\ todo[r] \in Seq(Command)
  BY DEF TeamInv, CommandsGiven, TypeOK
<1> QED  BY <1>1

(* A command is executed.                                                  *)
LEMMA ExecuteInv ==
  ASSUME TeamInv, NEW r \in Replica, Execute(r)
  PROVE  TeamInv'
<1> DEFINE c == Head(todo[r])
<1>1. /\ todo[r] # <<>> /\ todo' = [todo EXCEPT ![r] = Tail(@)]
      /\ UNCHANGED <<requested, lists, done, uiVars, requests, consent>>
      /\ IF c.type = "switch" THEN ExecuteSwitch(r, c.from, c.to)
         ELSE ExecuteVote(r, c.by, c.from, c.allow)
  BY DEF Execute
<1>2. c \in Given /\ c \in Command
      /\ Tail(todo[r]) \in Seq(Given) /\ Tail(todo[r]) \in Seq(Command)
  BY <1>1, HeadCommand
<1> HIDE DEF c
<1>3. /\ team' \in [Replica -> [Faction -> AnyTeam]]
      /\ votes' \in [Replica -> [Faction -> [Faction -> Vote \cup {None}]]]
      /\ crashed' \in [Replica -> BOOLEAN] /\ early' \in BOOLEAN
      /\ \A q \in Replica, g, e \in Faction :
           votes[q][g][e] \in Vote => votes'[q][g][e] \in Vote
      /\ VotesGiven'
  <2>1. CASE c.type = "switch"
    BY <1>1, <1>2, <2>1, CommandTypes, SwitchKeeps
  <2>2. CASE c.type # "switch"
    <3>1. c.allow => <<c.by, c.from>> \in consent
      BY <1>2, <2>2, CommandTypes DEF Given
    <3> QED  BY <1>1, <1>2, <2>2, <3>1, CommandTypes, VoteKeeps
  <2> QED  BY <2>1, <2>2
<1> USE DEF TeamInv, uiVars
<1>4. TypeOK'
  BY <1>1, <1>2, <1>3 DEF TypeOK
<1>5. BoxHasVote'
  BY <1>1, <1>3, HumanAssumption DEF BoxHasVote, TypeOK
<1>6. CommandsGiven'
  <2>1. Given' = Given
    BY <1>1 DEF Given
  <2> QED  BY <1>1, <1>2, <2>1 DEF CommandsGiven
<1> QED  BY <1>3, <1>4, <1>5, <1>6

(* Every step keeps the invariant.                                         *)
LEMMA NextInv == TeamInv /\ [Next]_vars => TeamInv'
<1> SUFFICES ASSUME TeamInv, [Next]_vars PROVE TeamInv'
  OBVIOUS
<1>1. CASE UNCHANGED vars
  BY <1>1 DEF vars, TeamInv, TypeOK, BoxHasVote, VotesGiven, CommandsGiven, Given
<1>2. CASE Next
  BY <1>2, OpenMenuInv, CancelMenuInv, AskToJoinInv, ShowBoxInv, ClickInv,
     AiAnswerInv, SendInv, KeyframeInv, ClientKeyframeInv, ExecuteInv DEF Next
<1> QED  BY <1>1, <1>2

(* The invariant of the votes, in every state.                             *)
THEOREM TeamInvariant == Spec => []TeamInv
BY InitInv, NextInv, PTL DEF Spec

(* Every variable keeps its type in every behaviour.                       *)
THEOREM TypeCorrect == Spec => []TypeOK
BY TeamInvariant, PTL DEF TeamInv

-----------------------------------------------------------------------------
(* Consent *)

(* More than is promised: all members have said yes.                       *)
ConsentAt(r, f) ==
  team'[r][f] # team[r][f] =>
    \A h \in Members(r, team'[r][f]) : <<h, f>> \in consent

(* A team that is joined at once has nobody to ask.                        *)
LEMMA SwitchConsent ==
  ASSUME TeamInv, NEW q \in Replica, NEW g \in Faction, NEW t \in AnyTeam,
         ExecuteSwitch(q, g, t), NEW r \in Replica, NEW f \in Faction
  PROVE  ConsentAt(r, f)
<1>1. CASE Members(q, t) = {}
  <2>1. team' = [team EXCEPT ![q][g] = t]
    BY <1>1 DEF ExecuteSwitch
  <2>2. team'[r][f] # team[r][f] => r = q /\ f = g /\ team'[r][f] = t
    BY <2>1 DEF TeamInv, TypeOK
  <2> QED  BY <1>1, <2>2 DEF ConsentAt
<1>2. CASE Members(q, t) # {}
  BY <1>2 DEF ExecuteSwitch, ConsentAt
<1> QED  BY <1>1, <1>2

(* The members of the team that the vote is about have all said yes, and   *)
(* each yes that is counted was given.                                     *)
LEMMA VoteConsent ==
  ASSUME TeamInv, NEW q \in Replica, NEW h \in Faction, NEW g \in Faction,
         NEW allow \in BOOLEAN, allow => <<h, g>> \in consent,
         ExecuteVote(q, h, g, allow), UNCHANGED consent,
         NEW r \in Replica, NEW f \in Faction
  PROVE  ConsentAt(r, f)
<1>1. CASE votes[q][h][g] = None
  BY <1>1 DEF ExecuteVote, ConsentAt
<1>2. CASE votes[q][h][g] # None
  <2> DEFINE given == [votes[q] EXCEPT ![h][g] =
                         [@ EXCEPT !.voted = TRUE, !.allow = allow]]
             t == votes[q][h][g].to
             members == Members(q, t)
             yes == SaidYes(given, g, members)
  <2>1. /\ votes' = [votes EXCEPT ![q] = given]
        /\ team' = IF Accepted(yes, members) THEN [team EXCEPT ![q][g] = t] ELSE team
    BY <1>2 DEF ExecuteVote
  <2>2. VotesGiven'
    BY VoteKeeps
  <2>3. votes'[q] = given
    BY <2>1 DEF TeamInv, TypeOK
  <2> HIDE DEF given, t
  <2>4. \A m \in yes : <<m, g>> \in consent
    BY <2>2, <2>3 DEF VotesGiven, SaidYes, Members
  <2>5. members \in SUBSET Faction /\ yes \in SUBSET members
    BY DEF SaidYes, Members
  <2> HIDE DEF members, yes
  <2>6. CASE Accepted(yes, members)
    <3>1. \A m \in members : <<m, g>> \in consent
      BY <2>4, <2>5, <2>6, AcceptedByAll
    <3>2. team' = [team EXCEPT ![q][g] = t]
      BY <2>1, <2>6
    <3>3. team'[r][f] # team[r][f] => r = q /\ f = g /\ team'[r][f] = t
      BY <3>2 DEF TeamInv, TypeOK
    <3> QED  BY <3>1, <3>3 DEF ConsentAt, members
  <2>7. CASE ~Accepted(yes, members)
    BY <2>1, <2>7 DEF ConsentAt
  <2> QED  BY <2>6, <2>7
<1> QED  BY <1>1, <1>2

(* No other step changes a team.                                           *)
LEMMA NextConsent ==
  ASSUME TeamInv, [Next]_vars, NEW r \in Replica, NEW f \in Faction
  PROVE  ConsentAt(r, f)
<1>1. CASE UNCHANGED team
  BY <1>1 DEF ConsentAt
<1>2. ASSUME NEW q \in Replica, Execute(q) PROVE ConsentAt(r, f)
  <2> DEFINE c == Head(todo[q])
  <2>1. /\ todo[q] # <<>> /\ UNCHANGED consent
        /\ IF c.type = "switch" THEN ExecuteSwitch(q, c.from, c.to)
           ELSE ExecuteVote(q, c.by, c.from, c.allow)
    BY <1>2 DEF Execute
  <2>2. c \in Given /\ c \in Command
    BY <2>1, HeadCommand
  <2> HIDE DEF c
  <2>3. CASE c.type = "switch"
    BY <2>1, <2>2, <2>3, CommandTypes, SwitchConsent
  <2>4. CASE c.type # "switch"
    <3>1. c.allow => <<c.by, c.from>> \in consent
      BY <2>2, <2>4, CommandTypes DEF Given
    <3> QED  BY <2>1, <2>2, <2>4, <3>1, CommandTypes, VoteConsent
  <2> QED  BY <2>3, <2>4
<1> QED
  BY <1>1, <1>2 DEF Next, vars, OpenMenu, CancelMenu, AskToJoin, ShowBox, Click,
     AiAnswer, Send, Keyframe, ClientKeyframe

(* All members of a team are more than half of it.                         *)
LEMMA AllAreMoreThanHalf ==
  ASSUME NEW members \in SUBSET Faction, NEW f \in Faction, members # {},
         \A h \in members : <<h, f>> \in consent
  PROVE  MoreThanHalf(Consenting(f, members), members)
<1>1. Consenting(f, members) = members
  BY DEF Consenting
<1>2. IsFiniteSet(members)
  <2>1. IsFiniteSet(Faction)
    BY FS_Interval DEF Faction
  <2> QED  BY <2>1, FS_Subset
<1>3. Cardinality(members) \in Nat /\ Cardinality(members) # 0
  BY <1>2, FS_CardinalityType, FS_EmptySet
<1> QED  BY <1>1, <1>3 DEF MoreThanHalf

(* Nobody comes into a team that has members unless more than half of them *)
(* have said yes to this player.                                           *)
THEOREM ConsentHolds == Spec => Consent
<1> DEFINE Promise ==
      \A r \in Replica, f \in Faction :
        LET members == Members(r, team'[r][f])
        IN team'[r][f] # team[r][f] /\ members # {} =>
             MoreThanHalf(Consenting(f, members), members)
<1>1. TeamInv /\ [Next]_vars => [Promise]_vars
  <2> SUFFICES ASSUME TeamInv, [Next]_vars, NEW r \in Replica, NEW f \in Faction,
                      team'[r][f] # team[r][f], Members(r, team'[r][f]) # {}
               PROVE  MoreThanHalf(Consenting(f, Members(r, team'[r][f])),
                                   Members(r, team'[r][f]))
    OBVIOUS
  <2> DEFINE members == Members(r, team'[r][f])
  <2>1. members \in SUBSET Faction
    BY DEF Members
  <2>2. \A h \in members : <<h, f>> \in consent
    BY NextConsent DEF ConsentAt
  <2> HIDE DEF members
  <2>3. members # {} => MoreThanHalf(Consenting(f, members), members)
    BY <2>1, <2>2, AllAreMoreThanHalf
  <2> QED  BY <2>3 DEF members
<1> QED  BY <1>1, TeamInvariant, PTL DEF Spec, Consent

-----------------------------------------------------------------------------
(* Agreement of the replicas *)

(* The teams and votes of a replica on which nobody answers: what the      *)
(* commands alone make of them.                                            *)
State == [team : [Faction -> AnyTeam],
          votes : [Faction -> [Faction -> Vote \cup {None}]]]

Start == [team |-> FirstTeam, votes |-> [h \in Faction |-> [f \in Faction |-> None]]]

MembersIn(S, t) == {f \in Faction : S.team[f] = t}

Unvoted(t) == [to |-> t, voted |-> FALSE, allow |-> FALSE]
Voted(v, allow) == [v EXCEPT !.voted = TRUE, !.allow = allow]

AfterSwitch(S, f, t) ==
  IF MembersIn(S, t) = {}
  THEN [team |-> [S.team EXCEPT ![f] = t], votes |-> S.votes]
  ELSE [team |-> S.team,
        votes |-> [h \in Faction |-> IF h \in MembersIn(S, t)
                     THEN [S.votes[h] EXCEPT ![f] = Unvoted(t)] ELSE S.votes[h]]]

GivenIn(S, h, f, allow) == [S.votes EXCEPT ![h][f] = Voted(@, allow)]

AfterVote(S, h, f, allow) ==
  LET members == MembersIn(S, S.votes[h][f].to)
      given == GivenIn(S, h, f, allow)
  IN  IF S.votes[h][f] = None THEN S
      ELSE [team |-> IF Accepted(SaidYes(given, f, members), members)
                     THEN [S.team EXCEPT ![f] = S.votes[h][f].to] ELSE S.team,
            votes |-> given]

After(S, c) ==
  IF c.type = "switch" THEN AfterSwitch(S, c.from, c.to)
  ELSE AfterVote(S, c.by, c.from, c.allow)

(* The start is a state.                                                   *)
LEMMA StartType == Start \in State
<1>1. FirstTeam \in [Faction -> AnyTeam]
  BY TeamAssumption DEF AnyTeam
<1> QED  BY <1>1 DEF Start, State

(* A vote that is there is not forgotten.                                  *)
Kept(S, T) ==
  \A h, f \in Faction : S.votes[h][f] # None => T.votes[h][f] # None

(* What an answer makes of a vote,                                         *)
LEMMA VotedType ==
  ASSUME NEW v \in Vote, NEW allow \in BOOLEAN
  PROVE  /\ Voted(v, allow) \in Vote /\ Voted(v, allow) # None
         /\ Voted(v, allow).to = v.to /\ Voted(v, allow).to \in AnyTeam
         /\ Voted(v, allow).voted = TRUE /\ Voted(v, allow).allow = allow
         /\ Voted(v, allow) = [to |-> v.to, voted |-> TRUE, allow |-> allow]
<1>1. /\ v.to \in AnyTeam
      /\ Voted(v, allow) = [to |-> v.to, voted |-> TRUE, allow |-> allow]
  <2>1. v = [to |-> v.to, voted |-> v.voted, allow |-> v.allow] /\ v.to \in AnyTeam
    BY DEF Vote
  <2> DEFINE t == v.to
             b == v.voted
             a == v.allow
  <2>2. Voted(v, allow) = [[to |-> t, voted |-> b, allow |-> a]
                             EXCEPT !.voted = TRUE, !.allow = allow]
    BY <2>1 DEF Voted
  <2> HIDE DEF t, b, a
  <2>3. Voted(v, allow) = [to |-> t, voted |-> TRUE, allow |-> allow]
    BY <2>2
  <2> QED  BY <2>1, <2>3 DEF t
<1>2. Voted(v, allow) \in Vote
  BY <1>1 DEF Vote
<1>3. Voted(v, allow) # None
  BY <1>2, NoneAssumption
<1> QED  BY <1>1, <1>2, <1>3

(* the vote of a new request,                                              *)
LEMMA UnvotedType ==
  ASSUME NEW t \in AnyTeam
  PROVE  Unvoted(t) \in Vote /\ Unvoted(t) # None
<1>1. Unvoted(t) \in Vote
  BY DEF Vote, Unvoted
<1> QED  BY <1>1, NoneAssumption

(* what a request makes of a state,                                        *)
LEMMA AfterSwitchType ==
  ASSUME NEW S \in State, NEW f \in Faction, NEW t \in AnyTeam
  PROVE  AfterSwitch(S, f, t) \in State /\ Kept(S, AfterSwitch(S, f, t))
<1> DEFINE v == Unvoted(t)
<1>1. v \in Vote /\ v # None
  BY UnvotedType
<1>2. S.team \in [Faction -> AnyTeam] /\ S.votes \in [Faction -> [Faction -> Vote \cup {None}]]
  BY DEF State
<1>3. CASE MembersIn(S, t) = {}
  <2>1. AfterSwitch(S, f, t) = [team |-> [S.team EXCEPT ![f] = t], votes |-> S.votes]
    BY <1>3 DEF AfterSwitch
  <2> QED  BY <1>2, <2>1 DEF State, Kept
<1>4. CASE MembersIn(S, t) # {}
  <2> DEFINE pending == [h \in Faction |-> IF h \in MembersIn(S, t)
                     THEN [S.votes[h] EXCEPT ![f] = v] ELSE S.votes[h]]
  <2>1. AfterSwitch(S, f, t) = [team |-> S.team, votes |-> pending]
    BY <1>4 DEF AfterSwitch
  <2> HIDE DEF v
  <2>2. pending \in [Faction -> [Faction -> Vote \cup {None}]]
    BY <1>1, <1>2
  <2>3. \A h, g \in Faction : S.votes[h][g] # None => pending[h][g] # None
    BY <1>1, <1>2
  <2> HIDE DEF pending
  <2> QED  BY <1>2, <2>1, <2>2, <2>3 DEF State, Kept
<1> QED  BY <1>3, <1>4

(* and an answer.                                                          *)
LEMMA AfterVoteType ==
  ASSUME NEW S \in State, NEW h \in Faction, NEW f \in Faction, NEW allow \in BOOLEAN
  PROVE  AfterVote(S, h, f, allow) \in State /\ Kept(S, AfterVote(S, h, f, allow))
<1>1. S.team \in [Faction -> AnyTeam] /\ S.votes \in [Faction -> [Faction -> Vote \cup {None}]]
  BY DEF State
<1>2. CASE S.votes[h][f] = None
  BY <1>2 DEF AfterVote, Kept
<1>3. CASE S.votes[h][f] # None
  <2> DEFINE v == Voted(S.votes[h][f], allow)
             given == GivenIn(S, h, f, allow)
             members == MembersIn(S, S.votes[h][f].to)
             tm == IF Accepted(SaidYes(given, f, members), members)
                     THEN [S.team EXCEPT ![f] = S.votes[h][f].to] ELSE S.team
  <2>1. S.votes[h][f] \in Vote /\ S.votes[h][f].to \in AnyTeam
    BY <1>1, <1>3 DEF Vote
  <2>2. v \in Vote /\ v # None
    BY <2>1, VotedType
  <2>3. given = [S.votes EXCEPT ![h][f] = v]
    BY DEF GivenIn
  <2>4. AfterVote(S, h, f, allow) = [team |-> tm, votes |-> given]
    BY <1>3 DEF AfterVote
  <2> HIDE DEF v, given
  <2>5. given \in [Faction -> [Faction -> Vote \cup {None}]]
    BY <1>1, <2>2, <2>3
  <2>6. \A g, e \in Faction : S.votes[g][e] # None => given[g][e] # None
    BY <1>1, <2>2, <2>3
  <2>7. tm \in [Faction -> AnyTeam]
    BY <1>1, <2>1
  <2> HIDE DEF tm
  <2> QED  BY <2>4, <2>5, <2>6, <2>7 DEF State, Kept
<1> QED  BY <1>2, <1>3

(* A command keeps the type and the votes that there are.                  *)
LEMMA AfterType ==
  ASSUME NEW S \in State, NEW c \in Command
  PROVE  After(S, c) \in State /\ Kept(S, After(S, c))
BY CommandTypes, AfterSwitchType, AfterVoteType DEF After

(* Votes are kept over two stretches if over each.                         *)
LEMMA KeptTransitive ==
  ASSUME NEW S, NEW T, NEW U, Kept(S, T), Kept(T, U)
  PROVE  Kept(S, U)
BY DEF Kept

(* The states that a list leads through from S.                            *)
Passes(g, S, l) ==
  /\ g \in [0 .. Len(l) -> State]
  /\ g[0] = S
  /\ \A i \in 1 .. Len(l) : g[i] = After(g[i - 1], l[i])

(* There are such states for every list.                                   *)
LEMMA PassesExists ==
  ASSUME NEW l \in Seq(Command), NEW S \in State
  PROVE  \E g : Passes(g, S, l)
<1> DEFINE Upto(n, g) == /\ g \in [0 .. n -> State]
                         /\ g[0] = S
                         /\ \A i \in 1 .. n : g[i] = After(g[i - 1], l[i])
           T == {n \in Nat : n <= Len(l) => \E g : Upto(n, g)}
<1>0. Len(l) \in Nat /\ \A i \in 1 .. Len(l) : l[i] \in Command
  OBVIOUS
<1>1. 0 \in T
  <2>1. Upto(0, [i \in 0 .. 0 |-> S])
    OBVIOUS
  <2> QED  BY <2>1
<1>2. ASSUME NEW n \in Nat, n \in T PROVE n + 1 \in T
  <2> SUFFICES ASSUME n + 1 <= Len(l) PROVE \E g : Upto(n + 1, g)
    OBVIOUS
  <2>1. PICK g : Upto(n, g)
    BY <1>0, <1>2
  <2> DEFINE e == After(g[n], l[n + 1])
             k == [i \in 0 .. n + 1 |-> IF i = n + 1 THEN e ELSE g[i]]
  <2>2. e \in State
    <3>1. g[n] \in State /\ l[n + 1] \in Command
      BY <1>0, <2>1
    <3> QED  BY <3>1, AfterType
  <2> HIDE DEF e
  <2>3. k \in [0 .. n + 1 -> State]
    BY <2>1, <2>2
  <2>4. k[0] = S
    BY <2>1
  <2>5. ASSUME NEW i \in 1 .. n + 1 PROVE k[i] = After(k[i - 1], l[i])
    <3>1. CASE i = n + 1
      <4>1. k[i] = e /\ k[i - 1] = g[n]
        BY <3>1
      <4> QED  BY <3>1, <4>1 DEF e
    <3>2. CASE i # n + 1
      <4>1. i \in 1 .. n /\ k[i] = g[i] /\ k[i - 1] = g[i - 1]
        BY <3>2
      <4> QED  BY <2>1, <4>1
    <3> QED  BY <3>1, <3>2
  <2>6. Upto(n + 1, k)
    BY <2>3, <2>4, <2>5
  <2> QED  BY <2>6
<1>3. \A n \in Nat : n \in T
  <2> HIDE DEF T
  <2> QED  BY <1>1, <1>2, SetInduction
<1>4. PICK g : Upto(Len(l), g)
  BY <1>0, <1>3
<1>5. Passes(g, S, l)
  BY <1>4 DEF Passes
<1> QED  BY <1>5

(* Later states have the votes of earlier ones.                            *)
LEMMA PassesKept ==
  ASSUME NEW l \in Seq(Command), NEW S \in State, NEW g, Passes(g, S, l),
         NEW i \in 0 .. Len(l), NEW j \in 0 .. Len(l), i <= j
  PROVE  Kept(g[i], g[j])
<1> DEFINE T == {n \in Nat : i + n <= Len(l) => Kept(g[i], g[i + n])}
<1>0. Len(l) \in Nat /\ i \in Nat /\ j \in Nat
  OBVIOUS
<1>1. 0 \in T
  BY <1>0 DEF Kept
<1>2. ASSUME NEW n \in Nat, n \in T PROVE n + 1 \in T
  <2> SUFFICES ASSUME i + (n + 1) <= Len(l) PROVE Kept(g[i], g[i + (n + 1)])
    OBVIOUS
  <2> DEFINE m == i + n
  <2>1. m \in Nat /\ i + (n + 1) = m + 1 /\ m + 1 <= Len(l)
    BY <1>0
  <2>2. Kept(g[i], g[m])
    BY <1>2, <2>1
  <2>3. m + 1 \in 1 .. Len(l) /\ m \in 0 .. Len(l) /\ (m + 1) - 1 = m
    BY <1>0, <2>1
  <2> HIDE DEF m
  <2>4. g[m + 1] = After(g[m], l[m + 1]) /\ g[m] \in State
    BY <2>3, Zenon DEF Passes
  <2>6. l[m + 1] \in Command
    BY <2>3, ElementOfSeq
  <2>5. Kept(g[m], g[m + 1])
    BY <2>4, <2>6, AfterType
  <2> QED  BY <2>1, <2>2, <2>5, KeptTransitive
<1>3. \A n \in Nat : n \in T
  <2> HIDE DEF T
  <2> QED  BY <1>1, <1>2, SetInduction
<1>4. j - i \in Nat /\ i + (j - i) = j
  BY <1>0
<1>5. j - i \in T
  <2> HIDE DEF T
  <2> QED  BY <1>3, <1>4
<1> QED  BY <1>4, <1>5

(* How many commands list n has; before the first list there is none.      *)
Size(n) == IF n = 0 THEN 0 ELSE Len(lists[n])

(* The states that the lists of the server lead through, C[n] those of the *)
(* list n; where they end, and where replica r is among them.              *)
Course(C) ==
  /\ C[0][0] = Start
  /\ \A n \in 1 .. Len(lists) : Passes(C[n], C[n - 1][Size(n - 1)], lists[n])

EndOf(C) == C[Len(lists)][Size(Len(lists))]
Place(r) == Size(done[r]) - Len(todo[r])
Here(C, r) == C[done[r]][Place(r)]

(* What is left of a list is its end, and the server is at the last list.  *)
TodoAt(r) ==
  /\ Len(todo[r]) <= Size(done[r])
  /\ \A i \in 1 .. Len(todo[r]) : todo[r][i] = lists[done[r]][Place(r) + i]
TodoInv == done[Server] = Len(lists) /\ \A r \in Replica : TodoAt(r)

(* The answer of h to f is under way to replica r, where it was given.     *)
AnswerOf(h, f, allow) == [type |-> "vote", by |-> h, from |-> f, allow |-> allow]
Sent(r, c, rest) ==
  \/ c \in Range(rest)
  \/ c \in Range(requested[r])
  \/ c \in Range(requested[Server])
  \/ \E i \in done[r] + 1 .. Len(lists) : c \in Range(lists[i])

(* A replica is in the state S but for answers that are under way from it. *)
Ahead(r, S, h, f) ==
  /\ h \in Own(r) /\ S.votes[h][f] # None
  /\ \E allow \in BOOLEAN :
       votes[r][h][f] = Voted(S.votes[h][f], allow)
         /\ Sent(r, AnswerOf(h, f, allow), todo[r])
Agrees(r, S) ==
  /\ team[r] = S.team
  /\ \A h, f \in Faction : votes[r][h][f] = S.votes[h][f] \/ Ahead(r, S, h, f)

(* A command is executed only in a state that knows its vote.              *)
Knows(S, c) == c.type # "switch" => S.votes[c.by][c.from] # None

(* The votes of a course are kept to its end, each command is known where  *)
(* it is executed, those that are requested at the end of the course, and  *)
(* every replica agrees with its state in the course.                      *)
CourseKept(C) ==
  \A n \in 0 .. Len(lists) : \A m \in 0 .. Size(n) : Kept(C[n][m], EndOf(C))
CourseKnown(C) ==
  \A n \in 1 .. Len(lists) : \A m \in 1 .. Len(lists[n]) :
    Knows(C[n][m - 1], lists[n][m])
RequestsKnown(C) ==
  \A r \in Replica : \A c \in Range(requested[r]) : Knows(EndOf(C), c)
AllAgree(C) == \A r \in Replica : ~crashed[r] /\ Agrees(r, Here(C, r))

CourseInv(C) ==
  Course(C) /\ CourseKept(C) /\ CourseKnown(C) /\ RequestsKnown(C) /\ AllAgree(C)

AgreeInv == TodoInv /\ (early \/ \E C : CourseInv(C))
-----------------------------------------------------------------------------
(* Sizes and places are numbers.                                           *)
LEMMA Sizes ==
  ASSUME TypeOK
  PROVE  /\ Len(lists) \in Nat /\ Size(0) = 0
         /\ \A n \in 1 .. Len(lists) :
              Size(n) = Len(lists[n]) /\ lists[n] \in Seq(Command)
         /\ \A n \in 0 .. Len(lists) : Size(n) \in Nat
         /\ \A r \in Replica : done[r] \in 0 .. Len(lists) /\ Len(todo[r]) \in Nat
                                 /\ todo[r] \in Seq(Command)
<1>1. lists \in Seq(Seq(Command)) /\ Len(lists) \in Nat
  BY DEF TypeOK
<1>2. \A n \in 1 .. Len(lists) : lists[n] \in Seq(Command) /\ Len(lists[n]) \in Nat
  BY <1>1
<1>3. \A n \in 1 .. Len(lists) : Size(n) = Len(lists[n])
  BY DEF Size
<1>4. Size(0) = 0
  BY DEF Size
<1>5. \A n \in 0 .. Len(lists) : n = 0 \/ n \in 1 .. Len(lists)
  BY <1>1
<1>6. \A n \in 0 .. Len(lists) : Size(n) \in Nat
  BY <1>2, <1>3, <1>4, <1>5
<1>7. \A r \in Replica : done[r] \in 0 .. Len(lists) /\ Len(todo[r]) \in Nat
                           /\ todo[r] \in Seq(Command)
  BY DEF TypeOK
<1> QED  BY <1>1, <1>2, <1>3, <1>4, <1>6, <1>7

(* Where a replica is in its list.                                         *)
LEMMA PlaceType ==
  ASSUME TypeOK, TodoInv, NEW r \in Replica
  PROVE  Place(r) \in 0 .. Size(done[r]) /\ Size(done[r]) \in Nat
         /\ Size(done[r]) = Place(r) + Len(todo[r])
<1>1. Size(done[r]) \in Nat /\ Len(todo[r]) \in Nat /\ Len(todo[r]) <= Size(done[r])
  BY Sizes DEF TodoInv, TodoAt
<1> QED  BY <1>1 DEF Place

(* At the start no list is there, and nothing is left of it.               *)
LEMMA TodoInit == Init => TodoInv
<1> SUFFICES ASSUME Init PROVE TodoInv
  OBVIOUS
<1>1. Len(lists) = 0 /\ done[Server] = 0
  BY ServerIsReplica DEF Init
<1>2. ASSUME NEW r \in Replica PROVE TodoAt(r)
  <2>1. done[r] = 0 /\ todo[r] = <<>> /\ Len(todo[r]) = 0
    BY DEF Init
  <2> QED  BY <2>1 DEF TodoAt, Size
<1> QED  BY <1>1, <1>2 DEF TodoInv

(* Steps that take no command,                                             *)
LEMMA TodoQuiet ==
  ASSUME TodoInv, UNCHANGED <<lists, done, todo>>
  PROVE  TodoInv'
BY DEF TodoInv, TodoAt, Place, Size

(* a new list of the server,                                               *)
LEMMA TodoKeyframe ==
  ASSUME TeamInv, TodoInv, Keyframe
  PROVE  TodoInv'
<1> DEFINE l == Batch(requested[Server])
<1>1. /\ lists' = Append(lists, l)
      /\ done' = [done EXCEPT ![Server] = @ + 1]
      /\ todo' = [todo EXCEPT ![Server] = l]
  BY DEF Keyframe
<1>2. l \in Seq(Command) /\ TypeOK
  BY BatchType, ServerIsReplica DEF TeamInv, TypeOK
<1> HIDE DEF l
<1>3. /\ lists \in Seq(Seq(Command)) /\ Len(lists) \in Nat /\ Len(lists') = Len(lists) + 1
      /\ \A i \in 1 .. Len(lists) : lists'[i] = lists[i]
      /\ lists'[Len(lists) + 1] = l
  BY <1>1, <1>2 DEF TypeOK
<1>4. done[Server] = Len(lists)
  BY DEF TodoInv
<1>5. done'[Server] = Len(lists') /\ todo'[Server] = l
  BY <1>1, <1>2, <1>3, <1>4, ServerIsReplica DEF TypeOK
<1>6. TodoAt(Server)'
  <2>2. Size(done[Server])' = Len(l) /\ Len(l) \in Nat /\ lists'[done'[Server]] = l
    BY <1>2, <1>3, <1>5 DEF Size
  <2>3. Place(Server)' = 0
    BY <1>5, <2>2 DEF Place
  <2> QED  BY <1>5, <2>2, <2>3 DEF TodoAt
<1>7. ASSUME NEW r \in Replica, r # Server PROVE TodoAt(r)'
  <2>1. done'[r] = done[r] /\ todo'[r] = todo[r] /\ done[r] \in 0 .. Len(lists)
    BY <1>1, <1>2, <1>7 DEF TypeOK
  <2>2. Size(done[r])' = Size(done[r])
    BY <1>3, <2>1 DEF Size
  <2>3. TodoAt(r)
    BY DEF TodoInv
  <2>4. Place(r)' = Place(r)
    BY <2>1, <2>2 DEF Place
  <2>5. CASE done[r] = 0
    <3>1. Len(todo[r]) = 0
      BY <1>2, <2>3, <2>5, Sizes DEF TodoAt
    <3> QED  BY <2>1, <2>2, <2>3, <3>1 DEF TodoAt
  <2>6. CASE done[r] # 0
    <3>1. lists'[done'[r]] = lists[done[r]]
      BY <1>3, <2>1, <2>6
    <3> QED  BY <2>1, <2>2, <2>3, <2>4, <3>1 DEF TodoAt
  <2> QED  BY <2>5, <2>6
<1> QED  BY <1>5, <1>6, <1>7 DEF TodoInv

(* a list that a client begins,                                            *)
LEMMA TodoClientKeyframe ==
  ASSUME TeamInv, TodoInv, NEW c \in Replica \ {Server}, ClientKeyframe(c)
  PROVE  TodoInv'
<1>1. /\ done[c] < Len(lists)
      /\ done' = [done EXCEPT ![c] = @ + 1]
      /\ todo' = [todo EXCEPT ![c] = lists[done[c] + 1]]
      /\ lists' = lists /\ TypeOK
  BY DEF ClientKeyframe, TeamInv
<1>2. done[c] + 1 \in 1 .. Len(lists) /\ done'[c] = done[c] + 1
      /\ todo'[c] = lists[done[c] + 1]
  BY <1>1 DEF TypeOK
<1>3. done'[Server] = Len(lists')
  BY <1>1, ServerIsReplica DEF TypeOK, TodoInv
<1>4. TodoAt(c)'
  <2>1. Size(done[c])' = Len(lists[done[c] + 1]) /\ Len(lists[done[c] + 1]) \in Nat
    BY <1>1, <1>2, Sizes DEF Size
  <2>2. Place(c)' = 0
    BY <1>2, <2>1 DEF Place
  <2> QED  BY <1>1, <1>2, <2>1, <2>2 DEF TodoAt
<1>5. ASSUME NEW r \in Replica, r # c PROVE TodoAt(r)'
  <2>1. done'[r] = done[r] /\ todo'[r] = todo[r]
    BY <1>1, <1>5 DEF TypeOK
  <2> QED  BY <1>1, <2>1 DEF TodoInv, TodoAt, Place, Size
<1> QED  BY <1>3, <1>4, <1>5 DEF TodoInv

(* and a command that is executed: the replica is one place further.       *)
LEMMA TodoExecute ==
  ASSUME TeamInv, TodoInv, NEW q \in Replica, Execute(q)
  PROVE  /\ TodoInv' /\ Place(q)' = Place(q) + 1
         /\ Place(q) + 1 \in 1 .. Size(done[q])
         /\ done[q] \in 1 .. Len(lists)
         /\ Head(todo[q]) = lists[done[q]][Place(q) + 1]
<1>1. todo[q] # <<>> /\ todo' = [todo EXCEPT ![q] = Tail(@)]
      /\ UNCHANGED <<lists, done>> /\ TypeOK
  BY DEF Execute, TeamInv
<1>2. todo[q] \in Seq(Command) /\ todo'[q] = Tail(todo[q])
  BY <1>1 DEF TypeOK
<1>3. /\ Len(todo[q]) \in Nat \ {0} /\ Len(todo'[q]) = Len(todo[q]) - 1
      /\ \A i \in 1 .. Len(todo[q]) - 1 : todo'[q][i] = todo[q][i + 1]
      /\ Head(todo[q]) = todo[q][1]
  <2> DEFINE s == todo[q]
  <2>1. s \in Seq(Command) /\ s # <<>> /\ todo'[q] = Tail(s)
    BY <1>1, <1>2
  <2> HIDE DEF s
  <2>2. Len(s) \in Nat \ {0}
    BY <2>1, EmptySeq
  <2>3. Len(Tail(s)) = Len(s) - 1 /\ \A i \in 1 .. Len(s) - 1 : Tail(s)[i] = s[i + 1]
    BY <2>1, <2>2
  <2>4. Head(s) = s[1]
    BY <2>1
  <2> QED  BY <2>1, <2>2, <2>3, <2>4 DEF s
<1>4. Size(done[q])' = Size(done[q]) /\ Size(done[q]) \in Nat
  BY <1>1, Sizes DEF Size
<1>5. TodoAt(q)
  BY DEF TodoInv
<1>6. Place(q) \in Nat /\ Place(q)' = Place(q) + 1 /\ Place(q) + 1 \in 1 .. Size(done[q])
  BY <1>1, <1>3, <1>4, <1>5, PlaceType DEF Place, TodoAt
<1>7. TodoAt(q)'
  <2> SUFFICES ASSUME NEW i \in 1 .. Len(todo'[q])
               PROVE  todo'[q][i] = lists'[done'[q]][Place(q)' + i]
    BY <1>3, <1>4, <1>5 DEF TodoAt
  <2>1. i \in 1 .. Len(todo[q]) - 1 /\ i + 1 \in 1 .. Len(todo[q])
    BY <1>3
  <2>2. todo'[q][i] = todo[q][i + 1]
    BY <1>3, <2>1
  <2>3. todo[q][i + 1] = lists[done[q]][Place(q) + (i + 1)]
    BY <1>5, <2>1 DEF TodoAt
  <2>4. Place(q) + (i + 1) = Place(q)' + i
    BY <1>6, <2>1
  <2> QED  BY <1>1, <2>2, <2>3, <2>4
<1>8. ASSUME NEW r \in Replica, r # q PROVE TodoAt(r)'
  <2>1. done'[r] = done[r] /\ todo'[r] = todo[r]
    BY <1>1, <1>8 DEF TypeOK
  <2>2. TodoAt(r)
    BY DEF TodoInv
  <2>3. Size(done[r])' = Size(done[r]) /\ Place(r)' = Place(r) /\ lists' = lists
    BY <1>1, <2>1 DEF Size, Place
  <2> QED  BY <2>1, <2>2, <2>3 DEF TodoAt
<1>9. TodoInv'
  BY <1>1, <1>7, <1>8 DEF TodoInv
<1>10. done[q] \in 1 .. Len(lists)
  BY <1>1, <1>6, Sizes
<1>11. Head(todo[q]) = lists[done[q]][Place(q) + 1]
  BY <1>3, <1>5 DEF TodoAt
<1> QED  BY <1>6, <1>9, <1>10, <1>11

(* The states of a course.                                                 *)
LEMMA CourseType ==
  ASSUME TypeOK, NEW C, Course(C)
  PROVE  \A n \in 0 .. Len(lists) : \A m \in 0 .. Size(n) : C[n][m] \in State
<1> SUFFICES ASSUME NEW n \in 0 .. Len(lists), NEW m \in 0 .. Size(n)
             PROVE  C[n][m] \in State
  OBVIOUS
<1>1. CASE n = 0
  BY <1>1, Sizes, StartType DEF Course
<1>2. CASE n # 0
  <2>1. n \in 1 .. Len(lists) /\ Size(n) = Len(lists[n])
    BY <1>2, Sizes
  <2>2. Passes(C[n], C[n - 1][Size(n - 1)], lists[n])
    BY <2>1 DEF Course
  <2> QED  BY <2>1, <2>2 DEF Passes
<1> QED  BY <1>1, <1>2

(* The state of the course at the place of a replica.                      *)
LEMMA HereType ==
  ASSUME TypeOK, TodoInv, NEW C, Course(C), NEW r \in Replica
  PROVE  Here(C, r) \in State
BY CourseType, PlaceType, Sizes DEF Here

(* What is in a list that grows, is turned round or loses its head.        *)
LEMMA RangeFacts ==
  ASSUME NEW T
  PROVE  /\ \A s \in Seq(T), c \in T : Range(Append(s, c)) = Range(s) \cup {c}
         /\ \A s, t \in Seq(T) : Range(s \o t) = Range(s) \cup Range(t)
         /\ \A s \in Seq(T) : Range(Batch(s)) = Range(s)
         /\ \A s \in Seq(T) : s # <<>> => Range(s) = {Head(s)} \cup Range(Tail(s))
         /\ \A c : c \notin Range(<<>>)
<1>1. ASSUME NEW s \in Seq(T), NEW c \in T
      PROVE  Range(Append(s, c)) = Range(s) \cup {c}
  <2>1. /\ Len(s) \in Nat /\ DOMAIN s = 1 .. Len(s)
        /\ DOMAIN Append(s, c) = 1 .. Len(s) + 1
        /\ \A i \in 1 .. Len(s) : Append(s, c)[i] = s[i]
        /\ Append(s, c)[Len(s) + 1] = c
    OBVIOUS
  <2>2. \A i \in 1 .. Len(s) + 1 : i \in 1 .. Len(s) \/ i = Len(s) + 1
    BY <2>1
  <2>3. 1 .. Len(s) \subseteq 1 .. Len(s) + 1 /\ Len(s) + 1 \in 1 .. Len(s) + 1
    BY <2>1
  <2> DEFINE a == Append(s, c)
             n == Len(s) + 1
  <2> HIDE DEF a, n
  <2> QED  BY <2>1, <2>2, <2>3, Zenon DEF Range, a, n
<1>2. ASSUME NEW s \in Seq(T), NEW t \in Seq(T)
      PROVE  Range(s \o t) = Range(s) \cup Range(t)
  BY RangeConcatenation
<1>3. ASSUME NEW s \in Seq(T) PROVE Range(Batch(s)) = Range(s)
  <2>1. /\ Len(s) \in Nat /\ DOMAIN s = 1 .. Len(s) /\ DOMAIN Batch(s) = 1 .. Len(s)
        /\ \A i \in 1 .. Len(s) : /\ Batch(s)[i] = s[Len(s) - i + 1]
                                  /\ Len(s) - i + 1 \in 1 .. Len(s)
                                  /\ Len(s) - (Len(s) - i + 1) + 1 = i
    BY DEF Batch
  <2>2. Range(Batch(s)) \subseteq Range(s)
    BY <2>1 DEF Range
  <2>3. ASSUME NEW i \in 1 .. Len(s) PROVE s[i] \in Range(Batch(s))
    <3> DEFINE j == Len(s) - i + 1
    <3>1. j \in 1 .. Len(s) /\ Batch(s)[j] = s[i]
      BY <2>1
    <3> HIDE DEF j
    <3> QED  BY <2>1, <3>1 DEF Range
  <2>4. Range(s) \subseteq Range(Batch(s))
    BY <2>1, <2>3 DEF Range
  <2> QED  BY <2>2, <2>4
<1>4. ASSUME NEW s \in Seq(T), s # <<>>
      PROVE  Range(s) = {Head(s)} \cup Range(Tail(s))
  <2>1. Len(s) \in Nat \ {0}
    BY <1>4, EmptySeq
  <2>2. /\ DOMAIN s = 1 .. Len(s) /\ DOMAIN Tail(s) = 1 .. Len(s) - 1 /\ Head(s) = s[1]
        /\ \A i \in 1 .. Len(s) - 1 : Tail(s)[i] = s[i + 1]
    BY <1>4, <2>1
  <2>3. Range(Tail(s)) \subseteq Range(s) /\ Head(s) \in Range(s)
    <3>1. 1 \in 1 .. Len(s) /\ \A i \in 1 .. Len(s) - 1 : i + 1 \in 1 .. Len(s)
      BY <2>1
    <3> QED  BY <2>2, <3>1 DEF Range
  <2>4. ASSUME NEW i \in 1 .. Len(s) PROVE s[i] \in {Head(s)} \cup Range(Tail(s))
    <3>1. CASE i = 1
      BY <2>2, <3>1
    <3>2. CASE i # 1
      <4> DEFINE j == i - 1
      <4>1. j \in 1 .. Len(s) - 1 /\ i = j + 1
        BY <2>1, <3>2
      <4>2. Tail(s)[j] = s[i]
        BY <2>2, <4>1
      <4> HIDE DEF j
      <4> QED  BY <2>2, <4>1, <4>2 DEF Range
    <3> QED  BY <3>1, <3>2
  <2>5. Range(s) \subseteq {Head(s)} \cup Range(Tail(s))
    BY <2>2, <2>4 DEF Range
  <2> QED  BY <2>3, <2>5
<1>5. \A c : c \notin Range(<<>>)
  BY DEF Range
<1> QED  BY <1>1, <1>2, <1>3, <1>4, <1>5

(* What a replica has sent is still under way.                             *)
SentKept(r) ==
  \A h, f \in Faction : \A allow \in BOOLEAN :
    Sent(r, AnswerOf(h, f, allow), todo[r]) => Sent(r, AnswerOf(h, f, allow), todo[r])'

(* Then it still agrees.                                                   *)
LEMMA StillAgrees ==
  ASSUME NEW r \in Replica, NEW S, Agrees(r, S), SentKept(r),
         team'[r] = team[r], votes'[r] = votes[r]
  PROVE  Agrees(r, S)'
<1>1. team'[r] = S.team
  BY DEF Agrees
<1>2. ASSUME NEW h \in Faction, NEW f \in Faction
      PROVE  votes'[r][h][f] = S.votes[h][f] \/ Ahead(r, S, h, f)'
  <2>1. votes[r][h][f] = S.votes[h][f] \/ Ahead(r, S, h, f)
    BY DEF Agrees
  <2>2. CASE Ahead(r, S, h, f)
    BY <2>2 DEF Ahead, SentKept
  <2> QED  BY <2>1, <2>2
<1> QED  BY <1>1, <1>2 DEF Agrees

(* A course does not depend on anything but the lists.                     *)
LEMMA SameLists ==
  ASSUME lists' = lists, NEW C
  PROVE  /\ Course(C) => Course(C)' /\ EndOf(C)' = EndOf(C)
         /\ CourseKept(C) => CourseKept(C)'
         /\ CourseKnown(C) => CourseKnown(C)'
BY DEF Course, EndOf, CourseKept, CourseKnown, Size

(* Nothing that matters here happens.                                      *)
LEMMA CourseQuiet ==
  ASSUME NEW C, CourseInv(C), UNCHANGED <<queueVars, team, votes, crashed>>
  PROVE  CourseInv(C)'
<1>1. UNCHANGED <<requested, lists, done, todo, team, votes, crashed>>
  BY DEF queueVars
<1>2. Course(C)' /\ EndOf(C)' = EndOf(C) /\ CourseKept(C)' /\ CourseKnown(C)'
  BY <1>1, SameLists DEF CourseInv
<1>3. RequestsKnown(C)'
  BY <1>1, <1>2 DEF RequestsKnown, CourseInv
<1>4. ASSUME NEW r \in Replica PROVE ~crashed'[r] /\ Agrees(r, Here(C, r))'
  <2>1. PICK S : S = Here(C, r)
    OBVIOUS
  <2>2. Here(C, r)' = S
    BY <1>1, <2>1 DEF Here, Place, Size
  <2>3. SentKept(r)
    BY <1>1 DEF SentKept, Sent
  <2>4. Agrees(r, S)'
    BY <1>1, <2>1, <2>3, StillAgrees DEF CourseInv, AllAgree
  <2> QED  BY <1>1, <2>2, <2>4 DEF CourseInv, AllAgree
<1> QED  BY <1>2, <1>3, <1>4 DEF CourseInv, AllAgree

(* More on its way to the server, and nothing else.                        *)
LEMMA CourseRequested ==
  ASSUME NEW C, CourseInv(C), UNCHANGED <<lists, done, todo, team, votes, crashed>>,
         \A r \in Replica : SentKept(r), RequestsKnown(C)'
  PROVE  CourseInv(C)'
<1>1. Course(C)' /\ EndOf(C)' = EndOf(C) /\ CourseKept(C)' /\ CourseKnown(C)'
  BY SameLists DEF CourseInv
<1>2. ASSUME NEW r \in Replica PROVE ~crashed'[r] /\ Agrees(r, Here(C, r))'
  <2>1. PICK S : S = Here(C, r)
    OBVIOUS
  <2>2. Here(C, r)' = S
    BY <2>1 DEF Here, Place, Size
  <2>3. Agrees(r, S)'
    BY <2>1, StillAgrees DEF CourseInv, AllAgree
  <2> QED  BY <2>2, <2>3 DEF CourseInv, AllAgree
<1> QED  BY <1>1, <1>2 DEF CourseInv, AllAgree

(* A player asks for a team.                                               *)
LEMMA CourseAskToJoin ==
  ASSUME TeamInv, NEW C, CourseInv(C), NEW r \in Replica,
         NEW item \in Team \cup {CREATE_NEW_TEAM}, AskToJoin(r, item)
  PROVE  CourseInv(C)'
<1> DEFINE t == IF item = CREATE_NEW_TEAM THEN FirstUnusedTeam(r) ELSE item
           c == [type |-> "switch", from |-> Human[r], to |-> t]
<1>1. c \in Command /\ c.type = "switch"
  <2>1. t \in AnyTeam /\ Human[r] \in Faction
    BY FirstUnusedTeamType, HumanAssumption DEF AnyTeam
  <2> QED  BY <2>1, CommandTypes
<1>2. /\ requested' = [requested EXCEPT ![r] = Append(@, c)]
      /\ UNCHANGED <<lists, done, todo, team, votes, crashed>>
  BY DEF AskToJoin
<1> HIDE DEF c
<1>3. requested \in [Replica -> Seq(Command)]
  BY DEF TeamInv, TypeOK
<1>4. \A q \in Replica : Range(requested'[q]) =
                           Range(requested[q]) \cup (IF q = r THEN {c} ELSE {})
  BY <1>1, <1>2, <1>3, RangeFacts
<1>5. ASSUME NEW q \in Replica PROVE SentKept(q)
  BY <1>2, <1>4, ServerIsReplica DEF SentKept, Sent
<1>6. RequestsKnown(C)'
  <2>1. EndOf(C)' = EndOf(C)
    BY <1>2, SameLists DEF CourseInv
  <2>2. Knows(EndOf(C), c)
    BY <1>1 DEF Knows
  <2> QED  BY <1>4, <2>1, <2>2 DEF RequestsKnown, CourseInv
<1> QED  BY <1>2, <1>5, <1>6, CourseRequested

(* A client hands its commands to the server.                              *)
LEMMA CourseSend ==
  ASSUME TeamInv, NEW C, CourseInv(C), NEW c \in Replica \ {Server}, Send(c)
  PROVE  CourseInv(C)'
<1>1. /\ requested' = [requested EXCEPT ![Server] = @ \o Batch(requested[c]),
                                        ![c] = <<>>]
      /\ UNCHANGED <<lists, done, todo, team, votes, crashed>>
  BY DEF Send
<1>2. requested \in [Replica -> Seq(Command)] /\ Batch(requested[c]) \in Seq(Command)
  BY BatchType DEF TeamInv, TypeOK
<1>3. /\ Range(requested'[Server]) = Range(requested[Server]) \cup Range(requested[c])
      /\ requested'[c] = <<>>
      /\ \A q \in Replica \ {Server, c} : requested'[q] = requested[q]
  <2>1. /\ requested'[Server] = requested[Server] \o Batch(requested[c])
        /\ requested'[c] = <<>>
        /\ \A q \in Replica \ {Server, c} : requested'[q] = requested[q]
    BY <1>1, <1>2, ServerIsReplica
  <2>2. requested[Server] \in Seq(Command) /\ requested[c] \in Seq(Command)
    BY <1>2, ServerIsReplica
  <2>3. Range(requested[Server] \o Batch(requested[c]))
          = Range(requested[Server]) \cup Range(Batch(requested[c]))
    BY <1>2, <2>2, RangeFacts
  <2>4. Range(Batch(requested[c])) = Range(requested[c])
    BY <2>2, RangeFacts
  <2> QED  BY <2>1, <2>3, <2>4
<1>4. ASSUME NEW q \in Replica PROVE SentKept(q)
  BY <1>1, <1>3, ServerIsReplica DEF SentKept, Sent
<1>5. RequestsKnown(C)'
  <2>1. EndOf(C)' = EndOf(C)
    BY <1>1, SameLists DEF CourseInv
  <2>2. ASSUME NEW q \in Replica, NEW d \in Range(requested'[q])
        PROVE  \E p \in Replica : d \in Range(requested[p])
    BY <1>3, ServerIsReplica, RangeFacts
  <2> QED  BY <2>1, <2>2 DEF RequestsKnown, CourseInv
<1> QED  BY <1>1, <1>4, <1>5, CourseRequested

(* The later of two answers counts.                                        *)
LEMMA VotedTwice ==
  ASSUME NEW v \in Vote, NEW a \in BOOLEAN, NEW b \in BOOLEAN
  PROVE  Voted(Voted(v, a), b) = Voted(v, b)
<1> DEFINE w == Voted(v, a)
<1>1. w \in Vote /\ w.to = v.to
  BY VotedType
<1> HIDE DEF w
<1>2. Voted(w, b) = [to |-> w.to, voted |-> TRUE, allow |-> b]
  BY <1>1, VotedType
<1>3. Voted(v, b) = [to |-> v.to, voted |-> TRUE, allow |-> b]
  BY VotedType
<1> QED  BY <1>1, <1>2, <1>3 DEF w

(* The answer is ahead of the course until its command is executed.        *)
LEMMA CourseAnswer ==
  ASSUME TeamInv, TodoInv, NEW C, CourseInv(C), NEW r \in Replica, NEW h \in Own(r),
         h \in Faction, NEW f \in Faction, NEW allow \in BOOLEAN,
         votes[r][h][f] \in Vote, Answer(r, h, f, allow),
         UNCHANGED <<lists, done, todo, team, crashed>>
  PROVE  CourseInv(C)'
<1> DEFINE c == AnswerOf(h, f, allow)
           v == Voted(votes[r][h][f], allow)
<1>1. c \in Command /\ c.type # "switch" /\ c.by = h /\ c.from = f
  BY CommandTypes DEF AnswerOf
<1>2. /\ requested' = [requested EXCEPT ![r] = Append(@, c)]
      /\ votes' = [votes EXCEPT ![r][h][f] = v]
  BY DEF Answer, AnswerOf, Voted, TeamInv, TypeOK
<1> HIDE DEF c, v
<1>3. /\ requested \in [Replica -> Seq(Command)]
      /\ votes \in [Replica -> [Faction -> [Faction -> Vote \cup {None}]]] /\ TypeOK
  BY DEF TeamInv, TypeOK
<1>4. \A q \in Replica : Range(requested'[q]) =
                           Range(requested[q]) \cup (IF q = r THEN {c} ELSE {})
  BY <1>1, <1>2, <1>3, RangeFacts
<1>5. \A q \in Replica, g, e \in Faction :
        votes'[q][g][e] = IF q = r /\ g = h /\ e = f THEN v ELSE votes[q][g][e]
  BY <1>2, <1>3
<1>6. \A q \in Replica \ {r} : votes'[q] = votes[q]
  BY <1>2, <1>3
<1>7. \A q \in Replica : SentKept(q)
  BY <1>4, ServerIsReplica DEF SentKept, Sent
<1>8. Course(C)' /\ EndOf(C)' = EndOf(C) /\ CourseKept(C)' /\ CourseKnown(C)'
  BY SameLists DEF CourseInv
<1>9. PICK S : S = Here(C, r)
  OBVIOUS
<1>10. S \in State /\ Agrees(r, S)
  BY <1>3, <1>9, HereType DEF CourseInv, AllAgree
<1>11. S.votes[h][f] \in Vote /\ votes[r][h][f] # None
  <2>1. votes[r][h][f] # None
    BY NoneAssumption
  <2>2. S.votes[h][f] # None
    BY <1>10, <2>1 DEF Agrees, Ahead
  <2> QED  BY <1>10, <2>1, <2>2 DEF State
<1>12. v = Voted(S.votes[h][f], allow)
  <2>1. CASE votes[r][h][f] = S.votes[h][f]
    BY <2>1 DEF v
  <2>2. CASE Ahead(r, S, h, f)
    BY <1>11, <2>2, VotedTwice DEF Ahead, v
  <2> QED  BY <1>10, <2>1, <2>2 DEF Agrees
<1>13. RequestsKnown(C)'
  <2>1. Kept(S, EndOf(C))
    BY <1>3, <1>9, PlaceType, Sizes DEF CourseInv, CourseKept, Here
  <2>2. Knows(EndOf(C), c)
    BY <1>1, <1>11, <2>1, NoneAssumption DEF Knows, Kept
  <2> QED  BY <1>4, <1>8, <2>2 DEF RequestsKnown, CourseInv
<1>14. Agrees(r, S)'
  <2>1. team'[r] = S.team
    BY <1>10 DEF Agrees
  <2>2. ASSUME NEW g \in Faction, NEW e \in Faction
        PROVE  votes'[r][g][e] = S.votes[g][e] \/ Ahead(r, S, g, e)'
    <3>1. CASE g = h /\ e = f
      <4>1. Sent(r, AnswerOf(h, f, allow), todo[r])'
        BY <1>4 DEF Sent, c
      <4>2. Ahead(r, S, h, f)'
        BY <1>5, <1>11, <1>12, <4>1, NoneAssumption DEF Ahead
      <4> QED  BY <3>1, <4>2
    <3>2. CASE ~(g = h /\ e = f)
      <4>1. votes'[r][g][e] = votes[r][g][e]
        BY <1>5, <3>2
      <4> QED  BY <1>7, <1>10, <4>1 DEF Agrees, Ahead, SentKept
    <3> QED  BY <3>1, <3>2
  <2> QED  BY <2>1, <2>2 DEF Agrees
<1>15. ASSUME NEW q \in Replica PROVE ~crashed'[q] /\ Agrees(q, Here(C, q))'
  <2>1. PICK T : T = Here(C, q)
    OBVIOUS
  <2>2. Here(C, q)' = T
    BY <2>1 DEF Here, Place, Size
  <2>3. Agrees(q, T)'
    BY <1>6, <1>7, <1>9, <1>14, <2>1, StillAgrees DEF CourseInv, AllAgree
  <2> QED  BY <2>2, <2>3 DEF CourseInv, AllAgree
<1> QED  BY <1>8, <1>13, <1>15 DEF CourseInv, AllAgree

(* A client begins with a list: it is where the one before it ended.       *)
LEMMA CourseClientKeyframe ==
  ASSUME TeamInv, TodoInv, NEW C, CourseInv(C), NEW c \in Replica \ {Server},
         ClientKeyframe(c)
  PROVE  CourseInv(C)'
<1>1. /\ todo[c] = <<>> /\ done[c] < Len(lists)
      /\ done' = [done EXCEPT ![c] = @ + 1]
      /\ todo' = [todo EXCEPT ![c] = lists[done[c] + 1]]
      /\ UNCHANGED <<requested, lists, team, votes, crashed>>
      /\ TypeOK
  BY DEF ClientKeyframe, Idle, TeamInv
<1>2. done[c] + 1 \in 1 .. Len(lists) /\ done'[c] = done[c] + 1 /\ done[c] \in Nat
      /\ todo'[c] = lists[done[c] + 1] /\ Len(lists) \in Nat
      /\ Size(done[c] + 1) = Len(lists[done[c] + 1])
  <2>1. done[c] \in 0 .. Len(lists) /\ Len(lists) \in Nat
    BY <1>1, Sizes
  <2>2. done[c] + 1 \in 1 .. Len(lists)
    BY <1>1, <2>1
  <2>3. Size(done[c] + 1) = Len(lists[done[c] + 1])
    BY <1>1, <2>2, Sizes
  <2> QED  BY <1>1, <2>1, <2>2, <2>3 DEF TypeOK
<1>3. \A q \in Replica \ {c} : done'[q] = done[q] /\ todo'[q] = todo[q]
  BY <1>1 DEF TypeOK
<1>4. Course(C)' /\ EndOf(C)' = EndOf(C) /\ CourseKept(C)' /\ CourseKnown(C)'
  BY <1>1, SameLists DEF CourseInv
<1>5. RequestsKnown(C)'
  BY <1>1, <1>4 DEF RequestsKnown, CourseInv
<1>6. Here(C, c)' = Here(C, c)
  <2>1. Place(c) = Size(done[c]) /\ Here(C, c) = C[done[c]][Size(done[c])]
    BY <1>1, PlaceType, Sizes DEF Here, Place
  <2>2. Size(done[c])' = Len(lists[done[c] + 1]) /\ Len(lists[done[c] + 1]) \in Nat
    BY <1>1, <1>2, Sizes DEF Size
  <2>3. Place(c)' = 0 /\ Here(C, c)' = C[done[c] + 1][0]
    BY <1>2, <2>2 DEF Here, Place
  <2>4. Passes(C[done[c] + 1], C[done[c]][Size(done[c])], lists[done[c] + 1])
    <3> DEFINE n == done[c] + 1
    <3>1. n \in 1 .. Len(lists) /\ n - 1 = done[c]
      BY <1>2
    <3> HIDE DEF n
    <3>2. Passes(C[n], C[n - 1][Size(n - 1)], lists[n])
      BY <3>1 DEF CourseInv, Course
    <3> QED  BY <3>1, <3>2 DEF n
  <2> QED  BY <2>1, <2>3, <2>4 DEF Passes
<1>7. ASSUME NEW q \in Replica PROVE SentKept(q)
  <2>1. CASE q = c
    <3> SUFFICES ASSUME NEW d, Sent(c, d, todo[c]) PROVE Sent(c, d, todo[c])'
      BY <2>1 DEF SentKept
    <3>1. CASE \E i \in done[c] + 1 .. Len(lists) : d \in Range(lists[i])
      <4>1. PICK i \in done[c] + 1 .. Len(lists) : d \in Range(lists[i])
        BY <3>1
      <4>2. CASE i = done[c] + 1
        BY <1>2, <4>1, <4>2 DEF Sent
      <4>3. CASE i # done[c] + 1
        <5>1. i \in done'[c] + 1 .. Len(lists)
          BY <1>2, <4>1, <4>3
        <5> QED  BY <1>1, <4>1, <5>1 DEF Sent
      <4> QED  BY <4>2, <4>3
    <3>2. CASE ~\E i \in done[c] + 1 .. Len(lists) : d \in Range(lists[i])
      BY <1>1, <3>2, RangeFacts DEF Sent
    <3> QED  BY <3>1, <3>2
  <2>2. CASE q # c
    BY <1>1, <1>3, <2>2 DEF SentKept, Sent
  <2> QED  BY <2>1, <2>2
<1>8. ASSUME NEW q \in Replica PROVE ~crashed'[q] /\ Agrees(q, Here(C, q))'
  <2>1. PICK S : S = Here(C, q)
    OBVIOUS
  <2>2. Here(C, q)' = S
    <3>1. CASE q = c
      BY <1>6, <2>1, <3>1
    <3>2. CASE q # c
      BY <1>1, <1>3, <2>1, <3>2 DEF Here, Place, Size
    <3> QED  BY <3>1, <3>2
  <2>3. Agrees(q, S)'
    BY <1>1, <1>7, <2>1, StillAgrees DEF CourseInv, AllAgree
  <2> QED  BY <1>1, <2>2, <2>3 DEF CourseInv, AllAgree
<1> QED  BY <1>4, <1>5, <1>8 DEF CourseInv, AllAgree

(* The server broadcasts a list and begins with it: the course goes on     *)
(* from where it ended.                                                    *)
LEMMA CourseKeyframe ==
  ASSUME TeamInv, TodoInv, NEW C, CourseInv(C), Keyframe
  PROVE  \E D : CourseInv(D)'
<1>l. PICK l : l = Batch(requested[Server])
  OBVIOUS
<1>L. PICK L : L = Len(lists)
  OBVIOUS
<1>1. /\ todo[Server] = <<>>
      /\ lists' = Append(lists, l)
      /\ done' = [done EXCEPT ![Server] = @ + 1]
      /\ todo' = [todo EXCEPT ![Server] = l]
      /\ requested' = [requested EXCEPT ![Server] = <<>>]
      /\ UNCHANGED <<team, votes, crashed>> /\ TypeOK
  BY <1>l DEF Keyframe, Idle, TeamInv
<1>2. requested[Server] \in Seq(Command) /\ l \in Seq(Command)
  BY <1>1, <1>l, BatchType, ServerIsReplica DEF TypeOK
<1>3. Range(l) = Range(requested[Server])
  BY <1>2, <1>l, RangeFacts
<1>4. /\ lists \in Seq(Seq(Command)) /\ L \in Nat /\ Len(lists') = L + 1
      /\ \A i \in 1 .. L : lists'[i] = lists[i]
      /\ lists'[L + 1] = l /\ done[Server] = L /\ L = Len(lists)
  BY <1>1, <1>2, <1>L DEF TypeOK, TodoInv
<1>5. EndOf(C) \in State
  BY <1>1, CourseType, Sizes DEF EndOf, CourseInv
<1>6. PICK g : Passes(g, EndOf(C), l)
  BY <1>2, <1>5, PassesExists
<1> DEFINE last == g[Len(l)]
<1>D. PICK D : D = [n \in 0 .. L + 1 |-> IF n = L + 1 THEN g ELSE C[n]]
  OBVIOUS
<1>7. /\ D[L + 1] = g /\ \A n \in 0 .. L : D[n] = C[n]
      /\ Len(l) \in Nat /\ 0 \in 0 .. L
  BY <1>2, <1>4, <1>D
<1>8. \A n \in 0 .. L : Size(n)' = Size(n)
  BY <1>4 DEF Size
<1>9. \A n \in 1 .. L + 1 : n \in 1 .. L \/ n = L + 1
  BY <1>4
<1>10. EndOf(D)' = last
  <2>1. Len(lists') # 0
    BY <1>4
  <2>2. Size(Len(lists))' = Len(l)
    BY <1>4, <2>1 DEF Size
  <2> QED  BY <1>4, <1>7, <2>2 DEF EndOf
<1>11. Course(D)'
  <2>1. D[0][0] = Start
    BY <1>7 DEF CourseInv, Course
  <2>2. ASSUME NEW n \in 1 .. L
        PROVE  Passes(D[n], D[n - 1][Size(n - 1)'], lists'[n])
    <3>1. n \in 0 .. L /\ n - 1 \in 0 .. L
      BY <1>4
    <3>2. Passes(C[n], C[n - 1][Size(n - 1)], lists[n])
      BY <1>L DEF CourseInv, Course
    <3> QED  BY <1>4, <1>7, <1>8, <3>1, <3>2
  <2>3. Passes(D[L + 1], D[L][Size(L)'], lists'[L + 1])
    <3>1. L \in 0 .. L
      BY <1>4
    <3> QED  BY <1>4, <1>6, <1>7, <1>8, <3>1 DEF EndOf
  <2>4. ASSUME NEW n \in 1 .. L + 1
        PROVE  Passes(D[n], D[n - 1][Size(n - 1)'], lists'[n])
    <3>1. CASE n = L + 1
      <4>1. n - 1 = L
        BY <1>4, <3>1
      <4> QED  BY <2>3, <3>1, <4>1
    <3>2. CASE n # L + 1
      BY <1>9, <2>2, <3>2
    <3> QED  BY <3>1, <3>2
  <2> QED  BY <1>4, <2>1, <2>4 DEF Course
<1>12. /\ \A n \in 0 .. L : \A m \in 0 .. Size(n) : Kept(C[n][m], last)
       /\ \A m \in 0 .. Len(l) : Kept(g[m], last) /\ Kept(EndOf(C), g[m])
  <2>1. \A m \in 0 .. Len(l) : Kept(g[m], last) /\ Kept(EndOf(C), g[m])
    <3>1. \A m \in 0 .. Len(l) : m <= Len(l) /\ 0 <= m /\ 0 \in 0 .. Len(l)
                                  /\ Len(l) \in 0 .. Len(l)
      BY <1>7
    <3>2. g[0] = EndOf(C)
      BY <1>6 DEF Passes
    <3> QED  BY <1>2, <1>5, <1>6, <3>1, <3>2, PassesKept
  <2>2. Kept(EndOf(C), last)
    <3>1. 0 \in 0 .. Len(l)
      BY <1>7
    <3> QED  BY <2>1, <1>7
  <2>3. \A n \in 0 .. L : \A m \in 0 .. Size(n) : Kept(C[n][m], EndOf(C))
    BY <1>L DEF CourseInv, CourseKept
  <2> QED  BY <2>1, <2>2, <2>3, KeptTransitive
<1>13. CourseKept(D)'
  <2> SUFFICES ASSUME NEW n \in 0 .. L + 1, NEW m \in 0 .. Size(n)'
               PROVE  Kept(D[n][m], last)
    BY <1>4, <1>10 DEF CourseKept
  <2>1. CASE n = L + 1
    <3>1. Size(n)' = Len(l)
      BY <1>4, <2>1 DEF Size
    <3> QED  BY <1>7, <1>12, <2>1, <3>1
  <2>2. CASE n # L + 1
    <3>1. n \in 0 .. L
      BY <1>4, <2>2
    <3> QED  BY <1>7, <1>8, <1>12, <3>1
  <2> QED  BY <2>1, <2>2
<1>14. CourseKnown(D)'
  <2> SUFFICES ASSUME NEW n \in 1 .. L + 1, NEW m \in 1 .. Len(lists'[n])
               PROVE  Knows(D[n][m - 1], lists'[n][m])
    BY <1>4 DEF CourseKnown
  <2>1. CASE n = L + 1
    <3>1. m \in 1 .. Len(l) /\ m - 1 \in 0 .. Len(l) /\ D[n] = g /\ lists'[n] = l
      BY <1>4, <1>7, <2>1
    <3>2. l[m] \in Range(requested[Server])
      <4>1. l[m] \in Range(l)
        BY <1>2, <3>1 DEF Range
      <4> QED  BY <1>3, <4>1
    <3>3. Knows(EndOf(C), l[m])
      BY <3>2, ServerIsReplica DEF CourseInv, RequestsKnown
    <3>4. l[m] \in Command
      BY <1>2, <3>1
    <3>5. Kept(EndOf(C), g[m - 1])
      BY <1>12, <3>1
    <3> QED  BY <3>1, <3>3, <3>4, <3>5, CommandTypes DEF Knows, Kept
  <2>2. CASE n # L + 1
    <3>1. n \in 1 .. L /\ n \in 0 .. L
      BY <1>4, <2>2
    <3> QED  BY <1>4, <1>7, <3>1 DEF CourseInv, CourseKnown
  <2> QED  BY <2>1, <2>2
<1>15. requested' \in [Replica -> Seq(Command)]
       /\ requested'[Server] = <<>> /\ \A r \in Replica \ {Server} : requested'[r] = requested[r]
  BY <1>1, ServerIsReplica DEF TypeOK
<1>16. RequestsKnown(D)'
  <2> SUFFICES ASSUME NEW r \in Replica, NEW c \in Range(requested'[r])
               PROVE  Knows(last, c)
    BY <1>10 DEF RequestsKnown
  <2>1. r # Server /\ c \in Range(requested[r])
    BY <1>15, RangeFacts
  <2>2. c \in Command
    BY <1>1, <2>1 DEF Range, TypeOK
  <2>3. Knows(EndOf(C), c)
    BY <2>1 DEF CourseInv, RequestsKnown
  <2>4. Kept(EndOf(C), last)
    <3>1. Len(l) \in 0 .. Len(l)
      BY <1>7
    <3> QED  BY <1>12, <3>1
  <2> QED  BY <2>2, <2>3, <2>4, CommandTypes DEF Knows, Kept
<1>17. \A r \in Replica \ {Server} : done'[r] = done[r] /\ todo'[r] = todo[r]
                                      /\ done[r] \in 0 .. L
  BY <1>1, <1>L DEF TypeOK
<1>18. done'[Server] = L + 1 /\ todo'[Server] = l
  BY <1>1, <1>4, ServerIsReplica DEF TypeOK
<1>19. ASSUME NEW r \in Replica PROVE Here(D, r)' = Here(C, r)
  <2>1. CASE r = Server
    <3>1. Size(done[Server])' = Len(l)
      <4>1. done'[Server] # 0
        BY <1>4, <1>18
      <4> QED  BY <1>4, <1>18, <4>1 DEF Size
    <3>2. Place(Server)' = 0
      BY <1>7, <1>18, <3>1 DEF Place
    <3>3. Here(D, Server)' = EndOf(C)
      BY <1>6, <1>7, <1>18, <3>2 DEF Here, Passes
    <3>4. Here(C, Server) = EndOf(C)
      <4>1. Size(L) \in Nat
        BY <1>1, <1>4, Sizes
      <4> QED  BY <1>1, <1>4, <4>1 DEF Here, EndOf, Place
    <3> QED  BY <2>1, <3>3, <3>4
  <2>2. CASE r # Server
    <3>1. Place(r)' = Place(r) /\ D[done[r]] = C[done[r]]
      BY <1>7, <1>8, <1>17, <2>2 DEF Place, Size
    <3> QED  BY <1>17, <2>2, <3>1 DEF Here
  <2> QED  BY <2>1, <2>2
<1>20. ASSUME NEW r \in Replica PROVE SentKept(r)
  <2> SUFFICES ASSUME NEW c, Sent(r, c, todo[r]) PROVE Sent(r, c, todo[r])'
    BY DEF SentKept
  <2>1. CASE r = Server
    <3>1. c \in Range(requested[Server])
      <4>1. ~\E i \in L + 1 .. L : TRUE
        BY <1>4
      <4> QED  BY <1>1, <1>4, <2>1, <4>1, RangeFacts DEF Sent
    <3> QED  BY <1>3, <1>18, <2>1, <3>1 DEF Sent
  <2>2. CASE r # Server
    <3>1. CASE c \in Range(requested[Server])
      <4>1. L + 1 \in done'[r] + 1 .. Len(lists')
        BY <1>4, <1>17, <2>2
      <4>2. c \in Range(lists'[L + 1])
        BY <1>3, <1>4, <3>1
      <4> QED  BY <4>1, <4>2 DEF Sent
    <3>2. CASE \E i \in done[r] + 1 .. L : c \in Range(lists[i])
      <4>1. PICK i \in done[r] + 1 .. L : c \in Range(lists[i])
        BY <3>2
      <4>2. i \in 1 .. L /\ i \in done'[r] + 1 .. Len(lists')
        BY <1>4, <1>17, <2>2
      <4>3. c \in Range(lists'[i])
        BY <1>4, <4>1, <4>2
      <4> QED  BY <4>2, <4>3 DEF Sent
    <3>3. CASE c \in Range(todo[r]) \/ c \in Range(requested[r])
      BY <1>15, <1>17, <2>2, <3>3 DEF Sent
    <3> QED  BY <1>L, <3>1, <3>2, <3>3 DEF Sent
  <2> QED  BY <2>1, <2>2
<1>21. ASSUME NEW r \in Replica PROVE ~crashed'[r] /\ Agrees(r, Here(D, r))'
  <2>1. PICK S : S = Here(C, r)
    OBVIOUS
  <2>2. Here(D, r)' = S
    BY <1>19, <2>1
  <2>3. Agrees(r, S)'
    BY <1>1, <1>20, <2>1, StillAgrees DEF CourseInv, AllAgree
  <2> QED  BY <1>1, <2>2, <2>3 DEF CourseInv, AllAgree
<1>22. CourseInv(D)'
  BY <1>11, <1>13, <1>14, <1>16, <1>21 DEF CourseInv, AllAgree
<1> QED  BY <1>22

(* A vote counted when the replica's own answers have all been executed.   *)
LEMMA LateAnswer ==
  ASSUME TypeOK, NEW r \in Replica, NEW f, ~UnderWay(r, f, Tail(todo[r])),
         NEW h \in Own(r), NEW allow \in BOOLEAN
  PROVE  ~Sent(r, AnswerOf(h, f, allow), Tail(todo[r]))
BY DEF UnderWay, Sent, AnswerOf, Range

(* The same members answer the same.                                       *)
LEMMA SameAnswers ==
  ASSUME NEW given, NEW said, NEW f, NEW members \in SUBSET Faction,
         \A h \in Faction : given[h][f] = said[h][f]
  PROVE  SaidYes(given, f, members) = SaidYes(said, f, members)
BY DEF SaidYes

(* A request to join a team is executed.                                   *)
LEMMA ExecuteSwitchAgrees ==
  ASSUME TypeOK, NEW r \in Replica, NEW f \in Faction, NEW t \in AnyTeam,
         ExecuteSwitch(r, f, t), UNCHANGED <<requested, lists, done>>,
         NEW S \in State, Agrees(r, S), NEW c \in Command, c.type = "switch",
         Range(todo[r]) = {c} \cup Range(todo'[r])
  PROVE  Agrees(r, AfterSwitch(S, f, t))'
<1> DEFINE v == Unvoted(t)
<1>1. v \in Vote /\ v # None
  BY UnvotedType
<1>2. /\ S.team \in [Faction -> AnyTeam]
      /\ S.votes \in [Faction -> [Faction -> Vote \cup {None}]]
      /\ team[r] = S.team /\ team[r] \in [Faction -> AnyTeam]
      /\ votes[r] \in [Faction -> [Faction -> Vote \cup {None}]]
  BY DEF State, Agrees, TypeOK
<1>3. Members(r, t) = MembersIn(S, t)
  BY <1>2 DEF Members, MembersIn
<1>4. ASSUME NEW h \in Own(r), NEW g \in Faction, NEW allow \in BOOLEAN,
             Sent(r, AnswerOf(h, g, allow), todo[r])
      PROVE  Sent(r, AnswerOf(h, g, allow), todo[r])'
  BY <1>4 DEF Sent, AnswerOf
<1>5. PICK T : T = AfterSwitch(S, f, t)
  OBVIOUS
<1>6. CASE MembersIn(S, t) = {}
  <2>1. T = [team |-> [S.team EXCEPT ![f] = t], votes |-> S.votes]
    BY <1>5, <1>6 DEF AfterSwitch
  <2>2. team'[r] = [team[r] EXCEPT ![f] = t] /\ votes'[r] = votes[r]
    BY <1>3, <1>6 DEF ExecuteSwitch, TypeOK
  <2>3. ASSUME NEW h \in Faction, NEW g \in Faction
        PROVE  votes'[r][h][g] = T.votes[h][g] \/ Ahead(r, T, h, g)'
    BY <1>4, <2>1, <2>2 DEF Agrees, Ahead
  <2>4. team'[r] = T.team
    BY <1>2, <2>1, <2>2
  <2>5. Agrees(r, T)'
    BY <2>3, <2>4 DEF Agrees
  <2> QED  BY <1>5, <2>5
<1>7. CASE MembersIn(S, t) # {}
  <2> DEFINE w == [h \in Faction |-> IF h \in MembersIn(S, t)
                     THEN [S.votes[h] EXCEPT ![f] = v] ELSE S.votes[h]]
             u == [h \in Faction |-> IF h \in MembersIn(S, t)
                     THEN [votes[r][h] EXCEPT ![f] = v] ELSE votes[r][h]]
  <2>1. T = [team |-> S.team, votes |-> w]
    BY <1>5, <1>7 DEF AfterSwitch
  <2>2. team'[r] = team[r] /\ votes' = [votes EXCEPT ![r] = Asked(r, f, t)]
    BY <1>3, <1>7 DEF ExecuteSwitch
  <2>3. Asked(r, f, t) = u
    BY <1>3 DEF Asked, Unvoted
  <2>4. votes'[r] = u
    BY <2>2, <2>3 DEF TypeOK
  <2> HIDE DEF v
  <2>5. \A h, g \in Faction :
          /\ u[h][g] = IF h \in MembersIn(S, t) /\ g = f THEN v ELSE votes[r][h][g]
          /\ w[h][g] = IF h \in MembersIn(S, t) /\ g = f THEN v ELSE S.votes[h][g]
    BY <1>2
  <2> HIDE DEF u, w
  <2>6. ASSUME NEW h \in Faction, NEW g \in Faction
        PROVE  votes'[r][h][g] = T.votes[h][g] \/ Ahead(r, T, h, g)'
    <3>1. CASE h \in MembersIn(S, t) /\ g = f
      BY <2>1, <2>4, <2>5, <3>1
    <3>2. CASE ~(h \in MembersIn(S, t) /\ g = f)
      <4>1. votes'[r][h][g] = votes[r][h][g] /\ T.votes[h][g] = S.votes[h][g]
        BY <2>1, <2>4, <2>5, <3>2
      <4> QED  BY <1>4, <4>1 DEF Agrees, Ahead
    <3> QED  BY <3>1, <3>2
  <2> QED  BY <1>2, <1>5, <2>1, <2>2, <2>6 DEF Agrees
<1> QED  BY <1>6, <1>7

(* An answer is executed, which may end the vote.                          *)
LEMMA ExecuteVoteAgrees ==
  ASSUME TypeOK, NEW r \in Replica, NEW h \in Faction, NEW f \in Faction,
         NEW allow \in BOOLEAN, ExecuteVote(r, h, f, allow), ~early', ~crashed[r],
         UNCHANGED <<requested, lists, done>>, todo'[r] = Tail(todo[r]),
         NEW S \in State, Agrees(r, S), S.votes[h][f] # None,
         Range(todo[r]) = {AnswerOf(h, f, allow)} \cup Range(todo'[r])
  PROVE  Agrees(r, AfterVote(S, h, f, allow))' /\ ~crashed'[r]
<1> DEFINE v == Voted(S.votes[h][f], allow)
           to == S.votes[h][f].to
           members == MembersIn(S, to)
           given == [votes[r] EXCEPT ![h][f] = [@ EXCEPT !.voted = TRUE, !.allow = allow]]
           said == GivenIn(S, h, f, allow)
<1>1. /\ S.team \in [Faction -> AnyTeam]
      /\ S.votes \in [Faction -> [Faction -> Vote \cup {None}]]
      /\ team[r] = S.team /\ team[r] \in [Faction -> AnyTeam]
      /\ votes[r] \in [Faction -> [Faction -> Vote \cup {None}]]
  BY DEF State, Agrees, TypeOK
<1>2. S.votes[h][f] \in Vote /\ v \in Vote /\ v # None /\ v.to = to
  <2>1. S.votes[h][f] \in Vote
    BY <1>1
  <2> QED  BY <2>1, VotedType
<1>3. votes[r][h][f] # None
  <2>1. votes[r][h][f] = S.votes[h][f] \/ Ahead(r, S, h, f)
    BY DEF Agrees
  <2>2. ASSUME NEW a \in BOOLEAN PROVE Voted(S.votes[h][f], a) # None
    BY <1>2, VotedType
  <2> QED  BY <2>1, <2>2 DEF Ahead
<1>4. /\ votes' = [votes EXCEPT ![r] = given]
      /\ team' = IF Accepted(SaidYes(given, f, Members(r, votes[r][h][f].to)),
                             Members(r, votes[r][h][f].to))
                 THEN [team EXCEPT ![r][f] = votes[r][h][f].to] ELSE team
      /\ ~UnderWay(r, f, Tail(todo[r])) /\ UNCHANGED crashed
  BY <1>3 DEF ExecuteVote
(* Only this answer can have been written ahead: the others to f were      *)
(* executed.                                                               *)
<1>5. ASSUME NEW g \in Faction, votes[r][g][f] # S.votes[g][f]
      PROVE  g = h /\ votes[r][g][f] = v
  <2>1. Ahead(r, S, g, f)
    BY <1>5 DEF Agrees
  <2>2. PICK a \in BOOLEAN : /\ votes[r][g][f] = Voted(S.votes[g][f], a)
                             /\ Sent(r, AnswerOf(g, f, a), todo[r])
    BY <2>1 DEF Ahead
  <2>3. ~Sent(r, AnswerOf(g, f, a), todo'[r])
    BY <1>4, <2>1, LateAnswer DEF Ahead
  <2>4. AnswerOf(g, f, a) = AnswerOf(h, f, allow)
    BY <2>2, <2>3 DEF Sent
  <2>5. g = h /\ a = allow
    BY <2>4 DEF AnswerOf
  <2> QED  BY <2>2, <2>5
<1>6. votes[r][h][f] = S.votes[h][f] \/ votes[r][h][f] = v
  BY <1>5
<1>7. votes[r][h][f].to = to /\ Voted(votes[r][h][f], allow) = v
  <2>1. CASE votes[r][h][f] = S.votes[h][f]
    BY <2>1
  <2>2. CASE votes[r][h][f] = v
    BY <1>2, <2>2, VotedTwice
  <2> QED  BY <1>6, <2>1, <2>2
<1>8. Members(r, votes[r][h][f].to) = members
  BY <1>1, <1>7 DEF Members, MembersIn
<1>9. given = [votes[r] EXCEPT ![h][f] = v] /\ said = [S.votes EXCEPT ![h][f] = v]
  BY <1>1, <1>7 DEF Voted, GivenIn
<1> HIDE DEF v, given, said
<1>10. /\ \A g, e \in Faction :
            /\ given[g][e] = IF g = h /\ e = f THEN v ELSE votes[r][g][e]
            /\ said[g][e] = IF g = h /\ e = f THEN v ELSE S.votes[g][e]
       /\ \A g \in Faction : given[g][f] = said[g][f]
  <2>1. \A g, e \in Faction :
            /\ given[g][e] = IF g = h /\ e = f THEN v ELSE votes[r][g][e]
            /\ said[g][e] = IF g = h /\ e = f THEN v ELSE S.votes[g][e]
    BY <1>1, <1>9
  <2>2. ASSUME NEW g \in Faction PROVE given[g][f] = said[g][f]
    <3>1. CASE g = h
      BY <2>1, <3>1
    <3>2. CASE g # h
      BY <1>5, <2>1, <3>2
    <3> QED  BY <3>1, <3>2
  <2> QED  BY <2>1, <2>2
<1>11. SaidYes(given, f, members) = SaidYes(said, f, members)
  <2>1. members \in SUBSET Faction
    BY DEF MembersIn
  <2> HIDE DEF members
  <2> QED  BY <1>10, <2>1, SameAnswers
<1> DEFINE accepted == Accepted(SaidYes(said, f, members), members)
<1>12. PICK T : T = AfterVote(S, h, f, allow)
  OBVIOUS
<1>13. T = [team |-> IF accepted THEN [S.team EXCEPT ![f] = to] ELSE S.team,
            votes |-> said]
  BY <1>12 DEF AfterVote, said
<1>14. team'[r] = IF accepted THEN [team[r] EXCEPT ![f] = to] ELSE team[r]
  BY <1>4, <1>7, <1>8, <1>11 DEF TypeOK
<1> HIDE DEF accepted
<1>15. team'[r] = T.team /\ T.votes = said
  BY <1>1, <1>13, <1>14
<1>16. votes'[r] = given
  BY <1>4 DEF TypeOK
<1>17. ASSUME NEW g \in Faction, NEW e \in Faction
       PROVE  votes'[r][g][e] = T.votes[g][e] \/ Ahead(r, T, g, e)'
  <2>1. CASE e = f
    BY <1>10, <1>15, <1>16, <2>1
  <2>2. CASE e # f
    <3>1. votes'[r][g][e] = votes[r][g][e] /\ T.votes[g][e] = S.votes[g][e]
      BY <1>10, <1>15, <1>16, <2>2
    <3>2. ASSUME NEW a \in BOOLEAN, Sent(r, AnswerOf(g, e, a), todo[r])
          PROVE  Sent(r, AnswerOf(g, e, a), todo[r])'
      <4>1. AnswerOf(g, e, a) # AnswerOf(h, f, allow)
        BY <2>2 DEF AnswerOf
      <4> QED  BY <3>2, <4>1 DEF Sent
    <3> QED  BY <3>1, <3>2 DEF Agrees, Ahead
  <2> QED  BY <2>1, <2>2
<1> QED  BY <1>4, <1>12, <1>15, <1>17 DEF Agrees

(* A replica executes a command: its state goes one further in the course. *)
LEMMA CourseExecute ==
  ASSUME TeamInv, TodoInv, NEW C, CourseInv(C), NEW r \in Replica, Execute(r),
         ~early'
  PROVE  CourseInv(C)'
<1>1. /\ todo[r] # <<>> /\ todo' = [todo EXCEPT ![r] = Tail(@)] /\ ~crashed[r]
      /\ UNCHANGED <<requested, lists, done>> /\ TypeOK
  BY DEF Execute, TeamInv
<1>2. PICK c : c = Head(todo[r])
  OBVIOUS
<1>3. c \in Command /\ todo'[r] = Tail(todo[r])
      /\ Range(todo[r]) = {c} \cup Range(todo'[r])
  BY <1>1, <1>2, HeadCommand, RangeFacts DEF TypeOK
<1>4. \A q \in Replica \ {r} : todo'[q] = todo[q]
  BY <1>1 DEF TypeOK
<1>5. /\ Place(r)' = Place(r) + 1 /\ Place(r) + 1 \in 1 .. Size(done[r])
      /\ done[r] \in 1 .. Len(lists) /\ c = lists[done[r]][Place(r) + 1]
      /\ Place(r) \in Nat
  BY <1>1, <1>2, TodoExecute, PlaceType
<1>6. PICK S : S = Here(C, r)
  OBVIOUS
<1>7. S \in State /\ Agrees(r, S) /\ Course(C)
  BY <1>1, <1>6, HereType DEF CourseInv, AllAgree
<1>8. Here(C, r)' = After(S, c) /\ Knows(S, c)
  <2> DEFINE n == done[r]
             m == Place(r) + 1
  <2>1. n \in 1 .. Len(lists) /\ m \in 1 .. Len(lists[n]) /\ m - 1 = Place(r)
        /\ Place(r)' = m /\ lists[n][m] = c
    BY <1>1, <1>5, Sizes
  <2>2. Here(C, r)' = C[n][m] /\ S = C[n][m - 1]
    BY <1>1, <1>6, <2>1 DEF Here
  <2> HIDE DEF n, m
  <2>3. Passes(C[n], C[n - 1][Size(n - 1)], lists[n])
    BY <1>7, <2>1 DEF Course
  <2>4. C[n][m] = After(C[n][m - 1], lists[n][m])
    BY <2>1, <2>3 DEF Passes
  <2>5. Knows(C[n][m - 1], lists[n][m])
    BY <2>1 DEF CourseInv, CourseKnown
  <2> QED  BY <2>1, <2>2, <2>4, <2>5
<1>9. Agrees(r, After(S, c))' /\ UNCHANGED crashed
  <2>1. CASE c.type = "switch"
    <3>1. ExecuteSwitch(r, c.from, c.to) /\ UNCHANGED crashed
      BY <1>2, <2>1 DEF Execute, ExecuteSwitch
    <3>2. PICK f, t : f = c.from /\ t = c.to
      OBVIOUS
    <3>3. Agrees(r, AfterSwitch(S, f, t))'
      BY <1>1, <1>3, <1>7, <2>1, <3>1, <3>2, CommandTypes, ExecuteSwitchAgrees
    <3>4. After(S, c) = AfterSwitch(S, f, t)
      BY <2>1, <3>2 DEF After
    <3> QED  BY <3>1, <3>3, <3>4
  <2>2. CASE c.type # "switch"
    <3>1. ExecuteVote(r, c.by, c.from, c.allow)
      BY <1>2, <2>2 DEF Execute
    <3>2. PICK h, f, allow : h = c.by /\ f = c.from /\ allow = c.allow
      OBVIOUS
    <3>3. c = AnswerOf(h, f, allow) /\ S.votes[h][f] # None
      BY <1>3, <1>8, <2>2, <3>2 DEF Knows, AnswerOf, Command, SwitchTeam, SwitchTeamVote
    <3>4. Agrees(r, AfterVote(S, h, f, allow))' /\ ~crashed'[r]
      BY <1>1, <1>3, <1>7, <2>2, <3>1, <3>2, <3>3, CommandTypes, ExecuteVoteAgrees
    <3>5. After(S, c) = AfterVote(S, h, f, allow)
      BY <2>2, <3>2 DEF After
    <3>6. UNCHANGED crashed
      BY <1>1, <3>1, <3>4 DEF ExecuteVote, TypeOK
    <3> QED  BY <3>4, <3>5, <3>6
  <2> QED  BY <2>1, <2>2
<1>10. \A q \in Replica \ {r} : team'[q] = team[q] /\ votes'[q] = votes[q]
  BY DEF Execute, ExecuteSwitch, ExecuteVote, TeamInv, TypeOK
<1>11. ASSUME NEW q \in Replica PROVE ~crashed'[q] /\ Agrees(q, Here(C, q))'
  <2>1. CASE q = r
    <3>1. PICK T : T = After(S, c)
      OBVIOUS
    <3>2. Agrees(r, T)'
      BY <1>9, <3>1
    <3>3. Here(C, r)' = T
      BY <1>8, <3>1
    <3> QED  BY <1>9, <2>1, <3>2, <3>3 DEF CourseInv, AllAgree
  <2>2. CASE q # r
    <3>1. PICK T : T = Here(C, q)
      OBVIOUS
    <3>2. Here(C, q)' = T
      BY <1>1, <1>4, <2>2, <3>1 DEF Here, Place, Size
    <3>3. SentKept(q)
      BY <1>1, <1>4, <2>2 DEF SentKept, Sent
    <3>4. Agrees(q, T)'
      BY <1>10, <2>2, <3>1, <3>3, StillAgrees DEF CourseInv, AllAgree
    <3> QED  BY <1>9, <3>2, <3>4 DEF CourseInv, AllAgree
  <2> QED  BY <2>1, <2>2
<1>12. Course(C)' /\ EndOf(C)' = EndOf(C) /\ CourseKept(C)' /\ CourseKnown(C)'
  BY <1>1, SameLists DEF CourseInv
<1>13. RequestsKnown(C)'
  BY <1>1, <1>12 DEF RequestsKnown, CourseInv
<1> QED  BY <1>11, <1>12, <1>13 DEF CourseInv, AllAgree

-----------------------------------------------------------------------------
(* The invariant of agreement *)

(* At the start the course is one state long.                              *)
LEMMA AgreeInit == Init => AgreeInv
<1> SUFFICES ASSUME Init PROVE AgreeInv
  OBVIOUS
<1>1. TypeOK /\ TodoInv /\ Len(lists) = 0
  BY InitInv, TodoInit DEF Init, TeamInv
<1>2. PICK C : C = [n \in 0 .. 0 |-> [m \in 0 .. 0 |-> Start]]
  OBVIOUS
<1>3. C[0][0] = Start /\ EndOf(C) = Start /\ Size(0) = 0
  BY <1>1, <1>2 DEF EndOf, Size
<1>4. Course(C) /\ CourseKept(C) /\ CourseKnown(C)
  <2>1. Course(C) /\ CourseKnown(C)
    BY <1>1, <1>3 DEF Course, CourseKnown
  <2>2. CourseKept(C)
    <3> SUFFICES ASSUME NEW n \in 0 .. 0, NEW m \in 0 .. Size(n)
                 PROVE  Kept(C[n][m], EndOf(C))
      BY <1>1 DEF CourseKept
    <3>1. n = 0 /\ m = 0
      BY <1>3
    <3> QED  BY <1>3, <3>1 DEF Kept
  <2> QED  BY <2>1, <2>2
<1>5. RequestsKnown(C)
  BY RangeFacts DEF RequestsKnown, Init
<1>6. ASSUME NEW r \in Replica PROVE ~crashed[r] /\ Agrees(r, Here(C, r))
  <2>1. done[r] = 0 /\ Place(r) = 0 /\ ~crashed[r]
    BY <1>3 DEF Init, Place
  <2>2. Here(C, r) = Start
    BY <1>3, <2>1 DEF Here
  <2>3. Agrees(r, Start)
    BY DEF Agrees, Start, Init
  <2> QED  BY <2>1, <2>2, <2>3
<1>7. CourseInv(C)
  BY <1>4, <1>5, <1>6 DEF CourseInv, AllAgree
<1> QED  BY <1>1, <1>7 DEF AgreeInv

(* Every action keeps the places, and a vote once counted early stays so.  *)
LEMMA NextTodo ==
  ASSUME TeamInv, TodoInv, Next
  PROVE  TodoInv' /\ (early => early')
<1>1. ASSUME NEW r \in Replica, NEW item \in Team \cup {CREATE_NEW_TEAM}, AskToJoin(r, item)
      PROVE  UNCHANGED <<lists, done, todo, early>>
  BY <1>1 DEF AskToJoin
<1>2. ASSUME NEW r \in Replica, OpenMenu(r) \/ CancelMenu(r) \/ ShowBox(r)
      PROVE  UNCHANGED <<lists, done, todo, early>>
  BY <1>2 DEF OpenMenu, CancelMenu, ShowBox, queueVars, historyVars
<1>3. ASSUME NEW r \in Replica, Execute(r) PROVE TodoInv' /\ (early => early')
  BY <1>3, TodoExecute DEF Execute, ExecuteSwitch, ExecuteVote
<1>4. ASSUME NEW r \in Replica, NEW allow \in BOOLEAN, Click(r, allow)
      PROVE  UNCHANGED <<lists, done, todo, early>>
  BY <1>4 DEF Click
<1>5. ASSUME NEW h \in Ai, NEW allow \in BOOLEAN, AiAnswer(h, allow)
      PROVE  UNCHANGED <<lists, done, todo, early>>
  BY <1>5 DEF AiAnswer
<1>6. ASSUME Keyframe PROVE TodoInv' /\ (early => early')
  BY <1>6, TodoKeyframe DEF Keyframe, historyVars
<1>7. ASSUME NEW c \in Replica \ {Server}, Send(c)
      PROVE  UNCHANGED <<lists, done, todo, early>>
  BY <1>7 DEF Send, historyVars
<1>8. ASSUME NEW c \in Replica \ {Server}, ClientKeyframe(c)
      PROVE  TodoInv' /\ (early => early')
  BY <1>8, TodoClientKeyframe DEF ClientKeyframe, historyVars
<1> QED  BY <1>1, <1>2, <1>3, <1>4, <1>5, <1>6, <1>7, <1>8, TodoQuiet DEF Next

(* Every action keeps the course or makes it longer,                       *)
LEMMA NextCourse ==
  ASSUME TeamInv, TodoInv, Next, ~early', NEW C, CourseInv(C)
  PROVE  \E D : CourseInv(D)'
<1>1. ASSUME NEW r \in Replica, NEW item \in Team \cup {CREATE_NEW_TEAM}, AskToJoin(r, item)
      PROVE  CourseInv(C)'
  BY <1>1, CourseAskToJoin
<1>2. ASSUME NEW r \in Replica, OpenMenu(r) \/ CancelMenu(r) \/ ShowBox(r)
      PROVE  CourseInv(C)'
  BY <1>2, CourseQuiet DEF OpenMenu, CancelMenu, ShowBox
<1>3. ASSUME NEW r \in Replica, Execute(r) PROVE CourseInv(C)'
  BY <1>3, CourseExecute
<1>4. ASSUME NEW r \in Replica, NEW allow \in BOOLEAN, Click(r, allow)
      PROVE  CourseInv(C)'
  <2>1. /\ Human[r] \in Own(r) /\ Human[r] \in Faction /\ current[r] \in Faction
        /\ votes[r][Human[r]][current[r]] \in Vote
        /\ Answer(r, Human[r], current[r], allow)
        /\ UNCHANGED <<lists, done, todo, team, crashed>>
    BY <1>4, HumanAssumption DEF Click, BoxHasVote, TeamInv, Own
  <2> QED  BY <2>1, CourseAnswer
<1>5. ASSUME NEW h \in Ai, NEW allow \in BOOLEAN, AiAnswer(h, allow)
      PROVE  CourseInv(C)'
  <2> DEFINE f == First(Unanswered(Server, h))
  <2>1. h \in Faction /\ h \in Own(Server) /\ Server \in Replica
    BY ServerIsReplica DEF Ai, Own
  <2>2. f \in Unanswered(Server, h)
    BY <1>5, FirstType DEF Unanswered, AiAnswer
  <2>3. Answer(Server, h, f, allow) /\ UNCHANGED <<lists, done, todo, team, crashed>>
    BY <1>5 DEF AiAnswer
  <2> HIDE DEF f
  <2>4. f \in Faction /\ votes[Server][h][f] \in Vote
    BY <2>1, <2>2 DEF Unanswered, TypeOK, TeamInv
  <2> QED  BY <2>1, <2>3, <2>4, CourseAnswer
<1>6. ASSUME Keyframe PROVE \E D : CourseInv(D)'
  BY <1>6, CourseKeyframe
<1>7. ASSUME NEW c \in Replica \ {Server}, Send(c) PROVE CourseInv(C)'
  BY <1>7, CourseSend
<1>8. ASSUME NEW c \in Replica \ {Server}, ClientKeyframe(c) PROVE CourseInv(C)'
  BY <1>8, CourseClientKeyframe
<1> QED  BY <1>1, <1>2, <1>3, <1>4, <1>5, <1>6, <1>7, <1>8 DEF Next

(* so every step keeps the invariant.                                      *)
LEMMA NextAgree == TeamInv /\ AgreeInv /\ [Next]_vars => AgreeInv'
<1> SUFFICES ASSUME TeamInv, AgreeInv, [Next]_vars PROVE AgreeInv'
  OBVIOUS
<1>1. CASE UNCHANGED vars
  <2>1. UNCHANGED <<queueVars, team, votes, crashed, early>>
        /\ UNCHANGED <<lists, done, todo>>
    BY <1>1 DEF vars, queueVars
  <2>2. TodoInv'
    BY <2>1, TodoQuiet DEF AgreeInv
  <2>3. ASSUME NEW C, CourseInv(C) PROVE CourseInv(C)'
    BY <2>1, <2>3, CourseQuiet
  <2> QED  BY <2>1, <2>2, <2>3 DEF AgreeInv
<1>2. CASE Next
  <2>1. TodoInv' /\ (early => early')
    BY <1>2, NextTodo DEF AgreeInv
  <2>2. ASSUME ~early' PROVE \E D : CourseInv(D)'
    BY <1>2, <2>1, <2>2, NextCourse DEF AgreeInv
  <2> QED  BY <2>1, <2>2 DEF AgreeInv
<1> QED  BY <1>1, <1>2

(* The teams and votes of every replica are those that the commands which  *)
(* it has executed make of the start, but for its own answers that are     *)
(* under way, until a vote is counted too early.                           *)
THEOREM AgreeInvariant == Spec => []AgreeInv
<1>1. TeamInv /\ AgreeInv /\ [Next]_vars => AgreeInv'
  BY NextAgree
<1> QED  BY <1>1, AgreeInit, TeamInvariant, PTL DEF Spec

(* Replicas that have executed the same commands agree on the teams, and   *)
(* on every vote but those of their own players, as long as no replica has *)
(* counted a vote while an answer of its own was still under way.          *)
THEOREM SameTeamsHolds == Spec => []SameTeams
<1>1. ASSUME TeamInv, AgreeInv PROVE SameTeams
  <2> SUFFICES ASSUME ~early, NEW r \in Replica, NEW q \in Replica,
                      done[r] = done[q], todo[r] = todo[q]
               PROVE  /\ team[r] = team[q]
                      /\ \A h \in Faction \ (Own(r) \cup Own(q)) :
                           votes[r][h] = votes[q][h]
    BY DEF SameTeams
  <2>1. PICK C : CourseInv(C)
    BY <1>1 DEF AgreeInv
  <2>2. Here(C, r) = Here(C, q)
    BY DEF Here, Place
  <2>3. Agrees(r, Here(C, r)) /\ Agrees(q, Here(C, r))
    BY <2>1, <2>2 DEF CourseInv, AllAgree
  <2>4. ASSUME NEW h \in Faction \ (Own(r) \cup Own(q))
        PROVE  votes[r][h] = votes[q][h]
    <3>1. \A f \in Faction : votes[r][h][f] = votes[q][h][f]
      BY <2>3 DEF Agrees, Ahead
    <3>2. /\ votes[r][h] \in [Faction -> Vote \cup {None}]
          /\ votes[q][h] \in [Faction -> Vote \cup {None}]
      BY <1>1 DEF TeamInv, TypeOK
    <3> QED  BY <3>1, <3>2
  <2> QED  BY <2>3, <2>4 DEF Agrees
<1> QED  BY <1>1, TeamInvariant, AgreeInvariant, PTL

(* As long as that is so, no replica executes an answer to a request that  *)
(* it does not know: nobody's game ends with "vote == NULL".               *)
THEOREM KnownVotesHolds == Spec => []KnownVotes
<1>1. ASSUME AgreeInv PROVE KnownVotes
  BY <1>1 DEF AgreeInv, CourseInv, AllAgree, KnownVotes
<1> QED  BY <1>1, AgreeInvariant, PTL

=============================================================================
