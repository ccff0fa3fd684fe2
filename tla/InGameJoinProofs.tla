-------------------------- MODULE InGameJoinProofs --------------------------
(***************************************************************************)
(* The two meanings of nmtReady are never confused, for any number of      *)
(* slots, players, requests and clicks: the inductive invariant JoinInv    *)
(* says for each place a player can be at what its slot knows of it and    *)
(* what is under way in both directions.  With GameInv every variable has  *)
(* its type, and with HeldInv no frame is missed when players come to one  *)
(* slot only, since the game stays paused from the saved game on.          *)
(***************************************************************************)
EXTENDS InGameJoin, SequenceTheorems, Induction, TLAPS

(* The types that the argument needs.                                      *)
JoinTypes ==
  /\ slot \in [Slot -> [Flag -> BOOLEAN]]
  /\ socket \in [Slot -> {"none", "open", "broken"}]
  /\ up \in [Slot -> Seq(Message)]
  /\ down \in [Slot -> Seq({"ready"})]
  /\ pc \in [Slot -> {"out", "lobby", "loaded", "wait", "start", "play"}]
  /\ goAhead \in [Slot -> BOOLEAN]

Launches(u) == \A i \in 1 .. Len(u) : u[i] = "launch"

(* The introduction of the player has not been handled.                    *)
Arriving(joins, told, u, d, go) ==
  /\ u # << >> /\ Head(u) = "intro" /\ Launches(Tail(u))
  /\ ~joins /\ ~told /\ d = << >> /\ ~go

(* It has; the notice that the game is saved comes once.                   *)
InLobby(joins, told, u, d, go) ==
  /\ joins /\ Launches(u)
  /\ d = IF told /\ ~go THEN <<"ready">> ELSE << >>
  /\ go => told

Loaded(joins, told, u, d) == joins /\ told /\ Launches(u) /\ d = << >>

Asked(joins, told, u, d) ==
  /\ joins /\ told /\ d = << >>
  /\ u # << >> /\ u[Len(u)] = "ready"
  /\ \A i \in 1 .. Len(u) - 1 : u[i] = "launch"

Answered(joins, isReady, u, d) ==
  ~joins /\ isReady /\ u = << >> /\ d = <<"ready">>

(* What holds of one slot.                                                 *)
Place(k, joins, told, isReady, u, d, go, at) ==
  /\ k = "none" => at = "out" /\ ~joins /\ ~told
  /\ at # "out" => k = "open"
  /\ at = "lobby" => Arriving(joins, told, u, d, go) \/ InLobby(joins, told, u, d, go)
  /\ at = "loaded" => Loaded(joins, told, u, d)
  /\ at = "wait" => Asked(joins, told, u, d) \/ Answered(joins, isReady, u, d)
  /\ at = "start" => ~joins /\ u = << >> /\ d = << >>
  /\ at = "play" => ~joins /\ d = << >> /\ u \in {<< >>, <<"ready">>}

InPlace(s) ==
  Place(socket[s], slot[s]["joinGameInProgress"], slot[s]["sentSavedGameInfo"],
        slot[s]["ready"], up[s], down[s], goAhead[s], pc[s])

JoinInv == JoinTypes /\ \A s \in Slot : InPlace(s)

-----------------------------------------------------------------------------
(* What is left of a sequence of launches, and of one that ends in ready.  *)
LEMMA TailOfLaunches ==
  ASSUME NEW u \in Seq(Message), u # << >>, Launches(u)
  PROVE  Head(u) = "launch" /\ Launches(Tail(u))
BY DEF Launches

LEMMA EmptyIff ==
  ASSUME NEW v \in Seq(Message)
  PROVE  v = << >> <=> Len(v) = 0
<1>1. v # << >> => Len(v) \in Nat \ {0}
  BY EmptySeq
<1>2. v = << >> => Len(v) = 0
  OBVIOUS
<1> QED  BY <1>1, <1>2

LEMMA TailOfAsked ==
  ASSUME NEW u \in Seq(Message), u # << >>, u[Len(u)] = "ready",
         \A i \in 1 .. Len(u) - 1 : u[i] = "launch"
  PROVE  \/ Head(u) = "ready" /\ Tail(u) = << >>
         \/ /\ Head(u) = "launch" /\ Tail(u) # << >> /\ Tail(u)[Len(Tail(u))] = "ready"
            /\ \A i \in 1 .. Len(Tail(u)) - 1 : Tail(u)[i] = "launch"
<1>1. /\ Tail(u) \in Seq(Message) /\ Len(Tail(u)) = Len(u) - 1 /\ Len(u) \in Nat \ {0}
      /\ \A i \in 1 .. Len(Tail(u)) : Tail(u)[i] = u[i + 1]
  BY EmptySeq, HeadTailProperties
<1>2. Head(u) = u[1]
  OBVIOUS
<1>3. CASE Len(u) = 1
  <2>1. Tail(u) = << >>
    <3> DEFINE v == Tail(u)
    <3>1. v \in Seq(Message) /\ Len(v) = 0
      BY <1>1, <1>3
    <3> HIDE DEF v
    <3>2. v = << >>
      BY <3>1, EmptyIff
    <3> QED  BY <3>2 DEF v
  <2> QED  BY <1>2, <1>3, <2>1
<1>4. CASE Len(u) > 1
  <2>1. Tail(u) # << >>
    <3> DEFINE v == Tail(u)
    <3>1. v \in Seq(Message) /\ Len(v) # 0
      BY <1>1, <1>4
    <3> HIDE DEF v
    <3>2. v # << >>
      BY <3>1, EmptyIff
    <3> QED  BY <3>2 DEF v
  <2>2. Head(u) = "launch"
    BY <1>1, <1>2, <1>4
  <2>3. Tail(u)[Len(Tail(u))] = "ready"
    BY <1>1, <1>4
  <2>4. \A i \in 1 .. Len(Tail(u)) - 1 : Tail(u)[i] = "launch"
    BY <1>1, <1>4
  <2> QED  BY <2>1, <2>2, <2>3, <2>4
<1> QED  BY <1>1, <1>3, <1>4

(* One message more.                                                       *)
LEMMA OneMoreLaunch ==
  ASSUME NEW u \in Seq(Message), Launches(u)
  PROVE  Launches(Append(u, "launch"))
BY DEF Launches

LEMMA OneMoreLaunchArriving ==
  ASSUME NEW u \in Seq(Message), u # << >>, Launches(Tail(u))
  PROVE  /\ Append(u, "launch") # << >> /\ Head(Append(u, "launch")) = Head(u)
         /\ Launches(Tail(Append(u, "launch")))
<1> DEFINE v == Append(u, "launch")
<1>1. v \in Seq(Message) /\ Len(v) = Len(u) + 1 /\ Len(u) >= 1
  BY DEF Message
<1>2. \A i \in 1 .. Len(v) : v[i] = IF i <= Len(u) THEN u[i] ELSE "launch"
  OBVIOUS
<1>3. \A i \in 1 .. Len(u) : Tail(v)[i] = v[i + 1]
  BY <1>1
<1>4. \A i \in 1 .. Len(u) - 1 : u[i + 1] = "launch"
  BY DEF Launches
<1>5. Tail(v) \in Seq(Message) /\ Len(Tail(v)) = Len(u)
  BY <1>1
<1>6. Launches(Tail(v))
  BY <1>1, <1>2, <1>3, <1>4, <1>5 DEF Launches
<1> QED BY <1>1, <1>2, <1>6

LEMMA ReadyAfterLaunches ==
  ASSUME NEW u \in Seq(Message), Launches(u)
  PROVE  LET v == Append(u, "ready")
         IN  /\ v # << >> /\ v[Len(v)] = "ready"
             /\ \A i \in 1 .. Len(v) - 1 : v[i] = "launch"
BY DEF Launches

-----------------------------------------------------------------------------
LEMMA JoinInit == Init => JoinInv
<1> SUFFICES ASSUME Init PROVE JoinInv
  OBVIOUS
<1>1. JoinTypes
  BY SlotAssumption DEF Init, JoinTypes, Flag, Message
<1>2. ASSUME NEW s \in Slot PROVE InPlace(s)
  BY DEF Init, InPlace, Place, Flag
<1> QED  BY <1>1, <1>2 DEF JoinInv

(* A step that leaves a slot and its player alone.                         *)
LEMMA Untouched ==
  ASSUME NEW s \in Slot, InPlace(s),
         slot'[s]["joinGameInProgress"] = slot[s]["joinGameInProgress"],
         slot'[s]["sentSavedGameInfo"] = slot[s]["sentSavedGameInfo"],
         slot'[s]["ready"] = slot[s]["ready"],
         socket'[s] = socket[s], up'[s] = up[s], down'[s] = down[s],
         goAhead'[s] = goAhead[s], pc'[s] = pc[s]
  PROVE  InPlace(s)'
BY DEF InPlace

LEMMA AcceptKeeps ==
  ASSUME JoinInv, NEW s \in Slot, Accept(s)
  PROVE  JoinInv'
<1>1. JoinTypes'
  BY DEF JoinInv, JoinTypes, Accept, Has, Flag, Message
<1>2. ASSUME NEW r \in Slot, r # s PROVE InPlace(r)'
  BY <1>2, Untouched DEF JoinInv, JoinTypes, Accept
<1>3. InPlace(s)'
  <2>1. slot'[s]["joinGameInProgress"] = FALSE /\ slot'[s]["sentSavedGameInfo"] = FALSE
    BY DEF JoinInv, JoinTypes, InPlace, Place, Accept, Has, Flag
  <2>2. /\ up'[s] = <<"intro">> /\ down'[s] = << >> /\ goAhead'[s] = FALSE
        /\ pc'[s] = "lobby" /\ socket'[s] = "open"
    BY DEF JoinInv, JoinTypes, Accept
  <2>3. Launches(Tail(<<"intro">>)) /\ Head(<<"intro">>) = "intro"
    BY DEF Launches
  <2> QED  BY <2>1, <2>2, <2>3 DEF InPlace, Place, Arriving
<1> QED  BY <1>1, <1>2, <1>3 DEF JoinInv

(* The messages that arrive at a slot.                                     *)
LEMMA ReceivesKeeps ==
  ASSUME JoinInv, NEW s \in Slot, NEW message \in Message, Receives(s, message)
  PROVE  /\ up'[s] = Tail(up[s]) /\ up[s] # << >> /\ Head(up[s]) = message
         /\ up[s] \in Seq(Message) /\ up'[s] \in Seq(Message)
         /\ up' \in [Slot -> Seq(Message)]
         /\ \A r \in Slot : r # s => up'[r] = up[r]
         /\ socket' = socket /\ pc' = pc /\ goAhead' = goAhead
<1>1. up[s] \in Seq(Message) /\ up[s] # << >>
  BY DEF JoinInv, JoinTypes, Receives
<1>2. Tail(up[s]) \in Seq(Message)
  BY <1>1, HeadTailProperties
<1> QED  BY <1>1, <1>2 DEF JoinInv, JoinTypes, Receives, playerVars

LEMMA HandleIntroKeeps ==
  ASSUME JoinInv, NEW s \in Slot, HandleIntro(s)
  PROVE  JoinInv'
<1>0. Receives(s, "intro") /\ down' = down
  BY DEF HandleIntro
<1>1. /\ up'[s] = Tail(up[s]) /\ up[s] # << >> /\ Head(up[s]) = "intro"
      /\ up[s] \in Seq(Message) /\ up' \in [Slot -> Seq(Message)]
      /\ \A r \in Slot : r # s => up'[r] = up[r]
      /\ socket' = socket /\ pc' = pc /\ goAhead' = goAhead
  BY <1>0, ReceivesKeeps DEF Message
<1>2. JoinTypes'
  BY <1>0, <1>1 DEF JoinInv, JoinTypes, HandleIntro, Has, Flag
<1>3. ASSUME NEW r \in Slot, r # s PROVE InPlace(r)'
  BY <1>0, <1>1, <1>3, Untouched DEF JoinInv, JoinTypes, HandleIntro
<1>4. InPlace(s)'
  <2>1. /\ slot'[s]["joinGameInProgress"] = TRUE /\ slot'[s]["sentSavedGameInfo"] = FALSE
        /\ slot'[s]["ready"] = FALSE
    BY DEF JoinInv, JoinTypes, HandleIntro, Has, Flag
  <2>2. InPlace(s) /\ pc[s] \in {"out", "lobby", "loaded", "wait", "start", "play"}
    BY DEF JoinInv, JoinTypes
  <2>3. socket[s] # "none"
    BY <1>0 DEF Receives, Connected
  <2>4. CASE pc[s] = "out"
    BY <1>0, <1>1, <2>1, <2>2, <2>3, <2>4 DEF InPlace, Place
  <2>5. CASE pc[s] = "lobby"
    <3>1. ~InLobby(slot[s]["joinGameInProgress"], slot[s]["sentSavedGameInfo"], up[s], down[s], goAhead[s])
      BY <1>1, TailOfLaunches DEF InLobby
    <3>2. Arriving(slot[s]["joinGameInProgress"], slot[s]["sentSavedGameInfo"], up[s], down[s], goAhead[s])
      BY <2>2, <2>5, <3>1 DEF InPlace, Place
    <3> QED  BY <1>0, <1>1, <2>1, <2>2, <2>5, <3>2 DEF InPlace, Place, Arriving, InLobby
  <2>6. CASE pc[s] = "loaded"
    BY <1>1, <2>2, <2>6, TailOfLaunches DEF InPlace, Place, Loaded
  <2>7. CASE pc[s] = "wait"
    BY <1>1, <2>2, <2>7, TailOfAsked DEF InPlace, Place, Asked, Answered
  <2>8. CASE pc[s] \in {"start", "play"}
    <3>1. Head(<<"ready">>) = "ready"
      OBVIOUS
    <3> QED  BY <1>1, <2>2, <2>8, <3>1 DEF InPlace, Place
  <2> QED  BY <2>2, <2>4, <2>5, <2>6, <2>7, <2>8
<1> QED  BY <1>2, <1>3, <1>4 DEF JoinInv

LEMMA HandleLaunchKeeps ==
  ASSUME JoinInv, NEW s \in Slot, HandleLaunch(s)
  PROVE  JoinInv'
<1>0. Receives(s, "launch") /\ down' = down
  BY DEF HandleLaunch
<1>1. /\ up'[s] = Tail(up[s]) /\ up[s] # << >> /\ Head(up[s]) = "launch"
      /\ up[s] \in Seq(Message) /\ up' \in [Slot -> Seq(Message)]
      /\ \A r \in Slot : r # s => up'[r] = up[r]
      /\ socket' = socket /\ pc' = pc /\ goAhead' = goAhead
  BY <1>0, ReceivesKeeps DEF Message
<1>2. JoinTypes'
  <2>1. slot' \in [Slot -> [Flag -> BOOLEAN]]
    BY DEF JoinInv, JoinTypes, HandleLaunch, Has
  <2> QED  BY <1>0, <1>1, <2>1 DEF JoinInv, JoinTypes
<1>3. ASSUME NEW r \in Slot, r # s PROVE InPlace(r)'
  BY <1>0, <1>1, <1>3, Untouched DEF JoinInv, JoinTypes, HandleLaunch
<1>4. InPlace(s)'
  <2>1. /\ slot'[s]["joinGameInProgress"] = slot[s]["joinGameInProgress"]
        /\ slot'[s]["sentSavedGameInfo"] = slot[s]["sentSavedGameInfo"]
        /\ slot'[s]["ready"] = slot[s]["ready"]
    BY DEF JoinInv, JoinTypes, HandleLaunch, Has, Flag
  <2>2. InPlace(s) /\ pc[s] \in {"out", "lobby", "loaded", "wait", "start", "play"}
    BY DEF JoinInv, JoinTypes
  <2>3. CASE pc[s] = "out"
    BY <1>0, <1>1, <2>1, <2>2, <2>3 DEF InPlace, Place
  <2>4. CASE pc[s] = "lobby"
    <3>1. InLobby(slot[s]["joinGameInProgress"], slot[s]["sentSavedGameInfo"], up[s], down[s], goAhead[s])
      BY <1>1, <2>2, <2>4 DEF InPlace, Place, Arriving
    <3>2. Launches(Tail(up[s]))
      BY <1>1, <3>1, TailOfLaunches DEF InLobby
    <3> QED  BY <1>0, <1>1, <2>1, <2>2, <2>4, <3>1, <3>2 DEF InPlace, Place, InLobby
  <2>5. CASE pc[s] = "loaded"
    <3>1. Launches(Tail(up[s]))
      BY <1>1, <2>2, <2>5, TailOfLaunches DEF InPlace, Place, Loaded
    <3> QED  BY <1>0, <1>1, <2>1, <2>2, <2>5, <3>1 DEF InPlace, Place, Loaded
  <2>6. CASE pc[s] = "wait"
    <3>1. Asked(slot[s]["joinGameInProgress"], slot[s]["sentSavedGameInfo"], up[s], down[s])
      BY <1>1, <2>2, <2>6 DEF InPlace, Place, Answered
    <3>2. /\ Tail(up[s]) # << >> /\ Tail(up[s])[Len(Tail(up[s]))] = "ready"
          /\ \A i \in 1 .. Len(Tail(up[s])) - 1 : Tail(up[s])[i] = "launch"
      BY <1>1, <3>1, TailOfAsked DEF Asked
    <3> QED  BY <1>0, <1>1, <2>1, <2>2, <2>6, <3>1, <3>2 DEF InPlace, Place, Asked
  <2>7. CASE pc[s] \in {"start", "play"}
    <3>1. Head(<<"ready">>) = "ready"
      OBVIOUS
    <3> QED  BY <1>1, <2>2, <2>7, <3>1 DEF InPlace, Place
  <2> QED  BY <2>2, <2>3, <2>4, <2>5, <2>6, <2>7
<1> QED  BY <1>2, <1>3, <1>4 DEF JoinInv

LEMMA HandleReadyKeeps ==
  ASSUME JoinInv, NEW s \in Slot, HandleReady(s)
  PROVE  JoinInv'
<1>0. Receives(s, "ready")
  BY DEF HandleReady
<1>1. /\ up'[s] = Tail(up[s]) /\ up[s] # << >> /\ Head(up[s]) = "ready"
      /\ up[s] \in Seq(Message) /\ up' \in [Slot -> Seq(Message)]
      /\ \A r \in Slot : r # s => up'[r] = up[r]
      /\ socket' = socket /\ pc' = pc /\ goAhead' = goAhead
  BY <1>0, ReceivesKeeps DEF Message
<1>2. JoinTypes'
  <2>1. slot' \in [Slot -> [Flag -> BOOLEAN]]
    <3>1. slot[s] \in [Flag -> BOOLEAN] /\ slot \in [Slot -> [Flag -> BOOLEAN]]
      BY DEF JoinInv, JoinTypes
    <3>2. /\ SetReady(slot[s]) \in [Flag -> BOOLEAN]
          /\ Has(slot[s], {"unPauseFor"}, {}) \in [Flag -> BOOLEAN]
      BY <3>1 DEF SetReady, Has
    <3>3. \/ slot' = [slot EXCEPT ![s] = SetReady(slot[s])]
          \/ slot' = [slot EXCEPT ![s] = Has(slot[s], {"unPauseFor"}, {})]
      BY DEF HandleReady
    <3> QED  BY <3>1, <3>2, <3>3
  <2>2. down' \in [Slot -> Seq({"ready"})]
    <3>1. down \in [Slot -> Seq({"ready"})]
      BY DEF JoinInv, JoinTypes
    <3>2. down' = [down EXCEPT ![s] = Append(down[s], "ready")] \/ down' = down
      BY DEF HandleReady
    <3>3. Append(down[s], "ready") \in Seq({"ready"})
      BY <3>1
    <3> QED  BY <3>1, <3>2, <3>3
  <2> QED  BY <1>0, <1>1, <2>1, <2>2 DEF JoinInv, JoinTypes
<1>3. ASSUME NEW r \in Slot, r # s PROVE InPlace(r)'
  <2>1. slot'[r] = slot[r] /\ down'[r] = down[r]
    BY <1>3 DEF JoinInv, JoinTypes, HandleReady
  <2> QED  BY <1>1, <1>3, <2>1, Untouched DEF JoinInv
<1>4. InPlace(s)'
  <2>1. IF slot[s]["joinGameInProgress"]
        THEN /\ slot'[s]["joinGameInProgress"] = FALSE
             /\ slot'[s]["sentSavedGameInfo"] = FALSE
             /\ slot'[s]["ready"] = TRUE
             /\ down'[s] = Append(down[s], "ready")
        ELSE /\ slot'[s]["joinGameInProgress"] = slot[s]["joinGameInProgress"]
             /\ slot'[s]["sentSavedGameInfo"] = slot[s]["sentSavedGameInfo"]
             /\ slot'[s]["ready"] = slot[s]["ready"]
             /\ down' = down
    <3>1. /\ slot[s] \in [Flag -> BOOLEAN] /\ slot \in [Slot -> [Flag -> BOOLEAN]]
          /\ down \in [Slot -> Seq({"ready"})]
      BY DEF JoinInv, JoinTypes
    <3>2. CASE slot[s]["joinGameInProgress"]
      <4>1. /\ slot'[s] = Has(slot[s], {"ready"}, {"joinGameInProgress", "sentSavedGameInfo"})
            /\ down'[s] = Append(down[s], "ready")
        BY <3>1, <3>2 DEF HandleReady, SetReady
      <4> QED  BY <3>1, <3>2, <4>1 DEF Has, Flag
    <3>3. CASE ~slot[s]["joinGameInProgress"]
      <4>1. slot'[s] = Has(slot[s], {"unPauseFor"}, {}) /\ down' = down
        BY <3>1, <3>3 DEF HandleReady
      <4> QED  BY <3>1, <3>3, <4>1 DEF Has, Flag
    <3> QED  BY <3>2, <3>3
  <2>2. InPlace(s) /\ pc[s] \in {"out", "lobby", "loaded", "wait", "start", "play"}
    BY DEF JoinInv, JoinTypes
  <2>3. CASE pc[s] = "out"
    BY <1>0, <1>1, <2>1, <2>2, <2>3 DEF InPlace, Place, Receives, Connected
  <2>4. CASE pc[s] = "lobby"
    BY <1>1, <2>2, <2>4, TailOfLaunches DEF InPlace, Place, Arriving, InLobby
  <2>5. CASE pc[s] = "loaded"
    BY <1>1, <2>2, <2>5, TailOfLaunches DEF InPlace, Place, Loaded
  <2>6. CASE pc[s] = "wait"
    <3>1. Asked(slot[s]["joinGameInProgress"], slot[s]["sentSavedGameInfo"], up[s], down[s])
      BY <1>1, <2>2, <2>6 DEF InPlace, Place, Answered
    <3>2. Tail(up[s]) = << >>
      BY <1>1, <3>1, TailOfAsked DEF Asked
    <3>3. Append(<< >>, "ready") = <<"ready">>
      OBVIOUS
    <3> QED  BY <1>1, <2>1, <2>2, <2>6, <3>1, <3>2, <3>3 DEF InPlace, Place, Asked, Answered
  <2>7. CASE pc[s] \in {"start", "play"}
    <3>1. Tail(<<"ready">>) = << >>
      OBVIOUS
    <3> QED  BY <1>1, <2>1, <2>2, <2>7, <3>1 DEF InPlace, Place
  <2> QED  BY <2>2, <2>3, <2>4, <2>5, <2>6, <2>7
<1> QED  BY <1>2, <1>3, <1>4 DEF JoinInv

LEMMA CloseKeeps ==
  ASSUME JoinInv, NEW s \in Slot, Close(s)
  PROVE  JoinInv'
<1>1. JoinTypes'
  BY DEF JoinInv, JoinTypes, Close, playerVars, Has
<1>2. ASSUME NEW r \in Slot, r # s PROVE InPlace(r)'
  BY <1>2, Untouched DEF JoinInv, JoinTypes, Close, playerVars
<1>3. InPlace(s)'
  <2>1. slot'[s]["joinGameInProgress"] = FALSE /\ slot'[s]["sentSavedGameInfo"] = FALSE
    BY DEF JoinInv, JoinTypes, Close, Has, Flag
  <2>2. pc'[s] = "out" /\ socket'[s] = "none"
    BY DEF JoinInv, JoinTypes, InPlace, Place, Close, playerVars
  <2> QED  BY <2>1, <2>2 DEF InPlace, Place
<1> QED  BY <1>1, <1>2, <1>3 DEF JoinInv

LEMMA ClickKeeps ==
  ASSUME JoinInv, NEW s \in Slot, Click(s)
  PROVE  JoinInv'
<1>0. up[s] \in Seq(Message) /\ up'[s] = Append(up[s], "launch")
  BY DEF JoinInv, JoinTypes, Click
<1>1. JoinTypes'
  <2>1. up' \in [Slot -> Seq(Message)]
    BY DEF JoinInv, JoinTypes, Click, Message
  <2> QED  BY <2>1 DEF JoinInv, JoinTypes, Click, serverVars
<1>2. ASSUME NEW r \in Slot, r # s PROVE InPlace(r)'
  BY <1>2, Untouched DEF JoinInv, JoinTypes, Click, serverVars
<1>3. InPlace(s)'
  <2>1. CASE Arriving(slot[s]["joinGameInProgress"], slot[s]["sentSavedGameInfo"], up[s], down[s], goAhead[s])
    BY <1>0, <2>1, OneMoreLaunchArriving
       DEF JoinInv, JoinTypes, InPlace, Place, Arriving, Click, serverVars
  <2>2. CASE InLobby(slot[s]["joinGameInProgress"], slot[s]["sentSavedGameInfo"], up[s], down[s], goAhead[s])
    BY <1>0, <2>2, OneMoreLaunch
       DEF JoinInv, JoinTypes, InPlace, Place, InLobby, Click, serverVars
  <2> QED  BY <2>1, <2>2 DEF JoinInv, InPlace, Place, Click
<1> QED  BY <1>1, <1>2, <1>3 DEF JoinInv

LEMMA ReadReadyKeeps ==
  ASSUME JoinInv, NEW s \in Slot, ReadReady(s)
  PROVE  JoinInv'
<1>1. JoinTypes'
  <2>1. Tail(down[s]) \in Seq({"ready"})
    BY HeadTailProperties DEF JoinInv, JoinTypes, ReadReady
  <2> QED  BY <2>1 DEF JoinInv, JoinTypes, ReadReady, serverVars
<1>2. ASSUME NEW r \in Slot, r # s PROVE InPlace(r)'
  BY <1>2, Untouched DEF JoinInv, JoinTypes, ReadReady, serverVars
<1>3. InPlace(s)'
  <2>1. Tail(<<"ready">>) = << >>
    OBVIOUS
  <2>2. InLobby(slot[s]["joinGameInProgress"], slot[s]["sentSavedGameInfo"], up[s], down[s], goAhead[s])
    BY DEF JoinInv, InPlace, Place, Arriving, ReadReady
  <2> QED
    BY <2>1, <2>2 DEF JoinInv, JoinTypes, InPlace, Place, InLobby, ReadReady, serverVars
<1> QED  BY <1>1, <1>2, <1>3 DEF JoinInv

LEMMA FetchKeeps ==
  ASSUME JoinInv, NEW s \in Slot, Fetch(s)
  PROVE  JoinInv'
<1>1. JoinTypes'
  BY DEF JoinInv, JoinTypes, Fetch, serverVars
<1>2. ASSUME NEW r \in Slot, r # s PROVE InPlace(r)'
  BY <1>2, Untouched DEF JoinInv, JoinTypes, Fetch, serverVars
<1>3. InPlace(s)'
  BY DEF JoinInv, JoinTypes, InPlace, Place, Arriving, InLobby, Loaded, Fetch, serverVars
<1> QED  BY <1>1, <1>2, <1>3 DEF JoinInv

LEMMA WaitUntilReadyKeeps ==
  ASSUME JoinInv, NEW s \in Slot, WaitUntilReady(s)
  PROVE  JoinInv'
<1>0. up[s] \in Seq(Message) /\ up'[s] = Append(up[s], "ready")
  BY DEF JoinInv, JoinTypes, WaitUntilReady
<1>1. JoinTypes'
  <2>1. up' \in [Slot -> Seq(Message)]
    BY DEF JoinInv, JoinTypes, WaitUntilReady, Message
  <2> QED  BY <2>1 DEF JoinInv, JoinTypes, WaitUntilReady, serverVars
<1>2. ASSUME NEW r \in Slot, r # s PROVE InPlace(r)'
  BY <1>2, Untouched DEF JoinInv, JoinTypes, WaitUntilReady, serverVars
<1>3. InPlace(s)'
  <2>1. Loaded(slot[s]["joinGameInProgress"], slot[s]["sentSavedGameInfo"], up[s], down[s])
    BY DEF JoinInv, InPlace, Place, WaitUntilReady
  <2>2. /\ up'[s] # << >> /\ up'[s][Len(up'[s])] = "ready"
        /\ \A i \in 1 .. Len(up'[s]) - 1 : up'[s][i] = "launch"
    BY <1>0, <2>1, ReadyAfterLaunches DEF Loaded
  <2> QED
    BY <2>1, <2>2 DEF JoinInv, JoinTypes, InPlace, Place, Loaded, Asked, WaitUntilReady, serverVars
<1> QED  BY <1>1, <1>2, <1>3 DEF JoinInv

LEMMA TakeReplyKeeps ==
  ASSUME JoinInv, NEW s \in Slot, TakeReply(s)
  PROVE  JoinInv'
<1>1. JoinTypes'
  <2>1. Tail(down[s]) \in Seq({"ready"})
    BY HeadTailProperties DEF JoinInv, JoinTypes, TakeReply
  <2> QED  BY <2>1 DEF JoinInv, JoinTypes, TakeReply, serverVars
<1>2. ASSUME NEW r \in Slot, r # s PROVE InPlace(r)'
  BY <1>2, Untouched DEF JoinInv, JoinTypes, TakeReply, serverVars
<1>3. InPlace(s)'
  <2>1. Tail(<<"ready">>) = << >>
    OBVIOUS
  <2>2. Answered(slot[s]["joinGameInProgress"], slot[s]["ready"], up[s], down[s])
    BY DEF JoinInv, InPlace, Place, Asked, TakeReply
  <2> QED
    BY <2>1, <2>2 DEF JoinInv, JoinTypes, InPlace, Place, Answered, TakeReply, serverVars
<1> QED  BY <1>1, <1>2, <1>3 DEF JoinInv

LEMMA EnterKeeps ==
  ASSUME JoinInv, NEW s \in Slot, Enter(s)
  PROVE  JoinInv'
<1>0. Append(<< >>, "ready") = <<"ready">>
  OBVIOUS
<1>1. JoinTypes'
  <2>1. up' \in [Slot -> Seq(Message)]
    BY DEF JoinInv, JoinTypes, Enter, Message
  <2> QED  BY <2>1 DEF JoinInv, JoinTypes, Enter, serverVars
<1>2. ASSUME NEW r \in Slot, r # s PROVE InPlace(r)'
  BY <1>2, Untouched DEF JoinInv, JoinTypes, Enter, serverVars
<1>3. InPlace(s)'
  BY <1>0 DEF JoinInv, JoinTypes, InPlace, Place, Enter, serverVars
<1> QED  BY <1>1, <1>2, <1>3 DEF JoinInv

LEMMA LeaveKeeps ==
  ASSUME JoinInv, NEW s \in Slot, Leave(s)
  PROVE  JoinInv'
<1>1. JoinTypes'
  <2>1. PICK n \in 0 .. Len(up[s]) : up' = [up EXCEPT ![s] = SubSeq(@, 1, n)]
    BY DEF Leave
  <2>2. SubSeq(up[s], 1, n) \in Seq(Message)
    BY SubSeqProperties DEF JoinInv, JoinTypes
  <2> QED  BY <2>1, <2>2 DEF JoinInv, JoinTypes, Leave, serverVars
<1>2. ASSUME NEW r \in Slot, r # s PROVE InPlace(r)'
  <2>1. up'[r] = up[r]
    BY <1>2 DEF JoinInv, JoinTypes, Leave
  <2> QED  BY <1>2, <2>1, Untouched DEF JoinInv, JoinTypes, Leave, serverVars
<1>3. InPlace(s)'
  BY DEF JoinInv, JoinTypes, InPlace, Place, Leave, serverVars
<1> QED  BY <1>1, <1>2, <1>3 DEF JoinInv

(* The main thread changes of a slot its marks, and that it is told.       *)
LEMMA SetupSentKeeps ==
  ASSUME JoinInv, NEW s \in Slot
  PROVE  /\ SetupSent \in [Slot -> [Flag -> BOOLEAN]]
         /\ \A f \in Flag \ {"pauseFor"} : SetupSent[s][f] = slot[s][f]
BY DEF JoinInv, JoinTypes, SetupSent, Unmarked, Has

LEMMA JoinKeeps ==
  ASSUME JoinInv, Join
  PROVE  JoinInv'
<1>0. socket' = socket /\ up' = up /\ pc' = pc /\ goAhead' = goAhead
  BY DEF Join, AskToPause, AskToResume, SaveGame, NobodyToServe, JoinTurn, playerVars
<1>1. CASE AskToPause \/ AskToResume \/ NobodyToServe
  <2>1. down' = down
    BY <1>1 DEF AskToPause, AskToResume, NobodyToServe
  <2>2. slot' \in [Slot -> [Flag -> BOOLEAN]]
    <3>1. SetupSent \in [Slot -> [Flag -> BOOLEAN]]
      BY SetupSentKeeps DEF JoinInv, JoinTypes, SetupSent, Unmarked, Has
    <3>2. [s \in Slot |-> Has(SetupSent[s], {}, {"unPauseFor"})] \in [Slot -> [Flag -> BOOLEAN]]
      BY <3>1 DEF Has
    <3> QED  BY <1>1, <3>1, <3>2 DEF AskToPause, AskToResume, NobodyToServe
  <2>3. ASSUME NEW s \in Slot
        PROVE  \A f \in {"joinGameInProgress", "sentSavedGameInfo", "ready"} : slot'[s][f] = slot[s][f]
    <3>1. SetupSent[s] \in [Flag -> BOOLEAN]
      BY <2>3, SetupSentKeeps
    <3>2. \A f \in Flag \ {"pauseFor"} : SetupSent[s][f] = slot[s][f]
      BY <2>3, SetupSentKeeps
    <3>3. slot'[s] = SetupSent[s] \/ slot'[s] = Has(SetupSent[s], {}, {"unPauseFor"})
      BY <1>1, <2>3 DEF AskToPause, AskToResume, NobodyToServe
    <3> QED  BY <3>1, <3>2, <3>3 DEF Has, Flag
  <2>4. JoinTypes'
    BY <1>0, <2>1, <2>2 DEF JoinInv, JoinTypes
  <2> QED  BY <1>0, <2>1, <2>3, <2>4, Untouched DEF JoinInv
<1>2. ASSUME NEW r \in Slot, SaveGame(r) PROVE JoinInv'
  <2>1. slot' \in [Slot -> [Flag -> BOOLEAN]]
    BY <1>2, SetupSentKeeps DEF SaveGame, Has
  <2>2. down' \in [Slot -> Seq({"ready"})]
    BY <1>2 DEF SaveGame, JoinInv, JoinTypes
  <2>3. JoinTypes'
    BY <1>0, <2>1, <2>2 DEF JoinInv, JoinTypes
  <2>4. ASSUME NEW s \in Slot PROVE InPlace(s)'
    <3>1. /\ slot'[s]["joinGameInProgress"] = slot[s]["joinGameInProgress"]
          /\ slot'[s]["ready"] = slot[s]["ready"]
          /\ slot'[s]["sentSavedGameInfo"] = IF Waiting(s) THEN TRUE ELSE slot[s]["sentSavedGameInfo"]
      BY <1>2, <2>4, SetupSentKeeps DEF SaveGame, Has, Flag
    <3>2. down'[s] = IF Waiting(s) THEN Append(down[s], "ready") ELSE down[s]
      BY <1>2, <2>4 DEF SaveGame, JoinInv, JoinTypes
    <3>3. CASE ~Waiting(s)
      BY <1>0, <2>4, <3>1, <3>2, <3>3, Untouched DEF JoinInv
    <3>4. CASE Waiting(s)
      <4>1. Append(<< >>, "ready") = <<"ready">>
        OBVIOUS
      <4>2. InPlace(s)
        BY DEF JoinInv
      <4> QED
        BY <1>0, <3>1, <3>2, <3>4, <4>1, <4>2
           DEF InPlace, Place, Waiting, Arriving, InLobby, Loaded, Asked, Answered
    <3> QED  BY <3>3, <3>4
  <2> QED  BY <2>3, <2>4 DEF JoinInv
<1> QED  BY <1>1, <1>2 DEF Join

-----------------------------------------------------------------------------
(* The inductive invariant: at every place the two sides agree on where the*)
(* join stands.                                                            *)
THEOREM JoinInvariant == Spec => []JoinInv
<1>1. ASSUME JoinInv, [Next]_vars PROVE JoinInv'
  <2>1. CASE UNCHANGED vars
    BY <1>1, <2>1, Untouched DEF JoinInv, JoinTypes, vars
  <2>2. CASE \/ \E check, key \in BOOLEAN : Play(check, key)
             \/ UserToggle \/ Order
    <3>1. UNCHANGED <<slot, socket, up, down, pc, goAhead>>
      BY <2>2 DEF Play, UserToggle, Order, playerVars
    <3>2. JoinTypes'
      BY <1>1, <3>1 DEF JoinInv, JoinTypes
    <3> QED  BY <1>1, <3>1, <3>2, Untouched DEF JoinInv
  <2>3. ASSUME NEW s \in Slot,
               Accept(s) \/ Worker(s) \/ Click(s) \/ Player(s) \/ Leave(s)
        PROVE  JoinInv'
    BY <1>1, <2>3, AcceptKeeps, HandleIntroKeeps, HandleLaunchKeeps, HandleReadyKeeps,
       CloseKeeps, ClickKeeps, ReadReadyKeeps, FetchKeeps, WaitUntilReadyKeeps,
       TakeReplyKeeps, EnterKeeps, LeaveKeeps DEF Worker, Player
  <2> QED  BY <1>1, <2>1, <2>2, <2>3, JoinKeeps DEF Next
<1> QED  BY <1>1, JoinInit, PTL DEF Spec

(* A waiting player reads the reply to its own ready, and a notice never   *)
(* reaches a player who is past it.                                        *)
THEOREM OneAnswerHolds == Spec => []OneAnswer
<1>1. JoinInv => OneAnswer
  <2> SUFFICES ASSUME JoinInv, NEW s \in Slot
               PROVE  /\ pc[s] = "wait" /\ down[s] # << >> => slot[s]["ready"] /\ Len(down[s]) = 1
                      /\ pc[s] \in {"loaded", "start", "play"} => down[s] = << >>
    BY DEF OneAnswer
  <2>1. Len(<<"ready">>) = 1
    OBVIOUS
  <2> QED  BY <2>1 DEF JoinInv, InPlace, Place, Loaded, Asked, Answered
<1> QED  BY <1>1, JoinInvariant, PTL

-----------------------------------------------------------------------------
(* The types of what the main thread of the server keeps, and a game that  *)
(* is held for a player is paused.                                         *)
Server ==
  [game : [paused : BOOLEAN, forJoin : BOOLEAN, pauseSent : BOOLEAN],
   faction : [Slot -> [network : BOOLEAN, ai : BOOLEAN, handled : BOOLEAN]]]

HeldIsPaused(g) == g.forJoin => g.paused

GameInv ==
  /\ [game |-> game, faction |-> faction] \in Server
  /\ HeldIsPaused(game)
  /\ launched \in [Slot -> BOOLEAN]
  /\ turn \in {"play", "join"}
  /\ requested \in Seq(Cmds)
  /\ file \subseteq Passed
  /\ behind \in [Slot -> SUBSET Passed]

(* The set of commands as a sequence has no others.                        *)
LEMMA LeftAsSeq ==
  ASSUME NEW gone, gone \subseteq Slot
  PROVE  LET l == SetToSeq({Left(s) : s \in gone})
         IN  l \in Seq(Cmds) /\ \A i \in 1 .. Len(l) : l[i].kind = "left"
<1> DEFINE S == {Left(s) : s \in gone}
           of == [c \in S |-> c.of]
           n == Cardinality(S)
           l == SetToSeq(S)
<1>1. S \subseteq Cmds /\ \A c \in S : c.kind = "left"
  BY DEF Left, Cmds
<1>2. IsFiniteSet(gone)
  BY SlotAssumption, FS_Subset
<1>3. of \in Injection(S, gone)
  <2>1. of \in [S -> gone]
    BY DEF Left
  <2>2. \A a, b \in S : of[a] = of[b] => a = b
    BY DEF Left
  <2> HIDE DEF S, of
  <2> QED  BY <2>1, <2>2 DEF Injection, IsInjective
<1> HIDE DEF S, of
<1>4. IsFiniteSet(S)
  BY <1>2, <1>3, FS_Injection DEF ExistsInjection
<1>5. n \in Nat /\ ExistsBijection(1 .. n, S)
  <2> HIDE DEF n
  <2> QED  BY <1>4, FS_CardinalityType DEF n
<1>6. l \in [1 .. n -> S]
  <2>1. \E f \in [1 .. n -> S] : IsInjective(f)
    <3> HIDE DEF n
    <3> QED  BY <1>5 DEF ExistsBijection, Bijection, Injection
  <2> QED  BY <2>1 DEF SetToSeq
<1> HIDE DEF n, l
<1>7. l \in Seq(S) /\ Len(l) = n
  BY <1>5, <1>6
<1>8. l \in Seq(Cmds)
  <2>1. l \in [1 .. n -> Cmds]
    BY <1>1, <1>6
  <2> QED  BY <1>5, <2>1
<1>9. \A i \in 1 .. Len(l) : l[i].kind = "left"
  BY <1>1, <1>6, <1>7
<1> QED  BY <1>8, <1>9 DEF l, S

(* What each command leads from S into S, all of them do.                  *)
LEMMA ExecutedIn ==
  ASSUME NEW S, NEW cmds \in Seq(Cmds), NEW st \in S,
         \A i \in 1 .. Len(cmds) : \A x \in S : Execute(cmds[i], x) \in S
  PROVE  Executed(cmds, st) \in S
<1> DEFINE N == Len(cmds)
           steps == [n \in 1 .. N |-> [x \in S |-> Execute(cmds[N + 1 - n], x)]]
           Is(h) == h = [n \in 0 .. N |-> IF n = 0 THEN st
                                          ELSE Execute(cmds[N + 1 - n], h[n - 1])]
           g == CHOOSE h : Is(h)
<1>1. N \in Nat
  OBVIOUS
<1>2. \A n \in 1 .. N : \A x \in S : Execute(cmds[N + 1 - n], x) \in S
  <2> TAKE n \in 1 .. N
  <2>1. N + 1 - n \in 1 .. Len(cmds)
    BY <1>1
  <2> QED  BY <2>1
<1> HIDE DEF N, g
<1>3. steps \in [1 .. N -> [S -> S]]
  BY <1>2
<1>4. PICK h \in [0 .. N -> S] : InTurn(h, N, st, steps)
  <2> HIDE DEF steps, Is
  <2> QED  BY <1>1, <1>3, StepsInTurn
<1>5. Is(h)
  <2>1. \A n \in 0 .. N : n # 0 => steps[n][h[n - 1]] = Execute(cmds[N + 1 - n], h[n - 1])
    <3> TAKE n \in 0 .. N
    <3> HAVE n # 0
    <3>1. h[n - 1] \in S /\ n \in 1 .. N
      BY <1>1
    <3> QED  BY <3>1
  <2>2. \A n \in 0 .. N : h[n] = IF n = 0 THEN st ELSE Execute(cmds[N + 1 - n], h[n - 1])
    <3> HIDE DEF steps
    <3> QED  BY <1>4, <2>1 DEF InTurn
  <2>3. h = [n \in 0 .. N |-> h[n]]
    BY <1>4
  <2> HIDE DEF steps
  <2> QED  BY <2>2, <2>3
<1>6. Is(g)
  <2> HIDE DEF Is
  <2> QED  BY <1>5 DEF g
<1>7. g[0] = st
  BY <1>1, <1>6
<1>8. ASSUME NEW n \in 1 .. N, g[n - 1] \in S PROVE g[n] \in S
  <2>1. n \in 0 .. N /\ n # 0
    BY <1>1
  <2>2. g[n] = Execute(cmds[N + 1 - n], g[n - 1])
    BY <1>6, <2>1
  <2> QED  BY <1>2, <1>8, <2>2
<1>9. \A n \in 0 .. N : g[n] \in S
  <2> HIDE DEF Is
  <2> QED  BY <1>1, <1>7, <1>8, IteratesIn
<1>10. g[N] \in S
  BY <1>1, <1>9
<1>11. Executed(cmds, st) = g[N]
  BY DEF Executed, g, N
<1> QED  BY <1>10, <1>11

(* A command keeps the types, and that who is held is paused.              *)
LEMMA ExecuteKeeps ==
  ASSUME NEW c \in Cmds, NEW st \in Server, HeldIsPaused(st.game)
  PROVE  Execute(c, st) \in Server /\ HeldIsPaused(Execute(c, st).game)
<1>1. st.game \in [paused : BOOLEAN, forJoin : BOOLEAN, pauseSent : BOOLEAN]
  BY DEF Server
<1>2. CASE c.kind = "order"
  BY <1>2 DEF Execute
<1>3. CASE c.kind = "left"
  <2>1. c.of \in Slot
    BY <1>3 DEF Cmds
  <2> DEFINE g == st.game
             f == [st.faction EXCEPT ![c.of].network = FALSE]
  <2>2. Execute(c, st) = [game |-> g, faction |-> f]
    BY <1>3 DEF Execute, Server
  <2>3. f \in [Slot -> [network : BOOLEAN, ai : BOOLEAN, handled : BOOLEAN]]
    BY <2>1 DEF Server
  <2> HIDE DEF f
  <2> QED  BY <1>1, <2>2, <2>3 DEF Server
<1>4. CASE c.kind \notin {"order", "left"}
  <2>1. Execute(c, st) = [st EXCEPT !.game = SetPaused(st.game, c.kind)]
    BY <1>4 DEF Execute
  <2>2. SetPaused(st.game, c.kind) \in [paused : BOOLEAN, forJoin : BOOLEAN, pauseSent : BOOLEAN]
    BY <1>1 DEF SetPaused
  <2>3. HeldIsPaused(SetPaused(st.game, c.kind))
    BY <1>1 DEF SetPaused, HeldIsPaused
  <2> HIDE DEF SetPaused
  <2> QED  BY <2>1, <2>2, <2>3 DEF Server
<1> QED  BY <1>2, <1>3, <1>4

(* A resumption that the server itself has asked for is waiting.           *)
Resuming(cmds) == \E i \in 1 .. Len(cmds) : cmds[i].kind = "joinResume"

(* The commands that Game::update executes, and from what on.              *)
Runs(asked, before, key) ==
  /\ asked \in Seq(Cmds) /\ before \in Server /\ before.game = game
  /\ Resuming(asked) => Resuming(requested)
  /\ requested' = IF key THEN << >> ELSE asked
  /\ game' = (IF key THEN Executed(asked, before) ELSE before).game
  /\ faction' = (IF key THEN Executed(asked, before) ELSE before).faction

LEMMA PlayRuns ==
  ASSUME GameInv, NEW check \in BOOLEAN, NEW key \in BOOLEAN, Play(check, key)
  PROVE  \E asked, before : Runs(asked, before, key)
<1> DEFINE gone == IF check THEN {s \in Slot : Gone(s)} ELSE {}
           l == SetToSeq({Left(s) : s \in gone})
           asked == requested \o l
           before == [game |-> game,
                      faction |-> [s \in Slot |-> IF s \in gone
                                     THEN [faction[s] EXCEPT !.ai = TRUE, !.handled = TRUE]
                                     ELSE faction[s]]]
<1>1. requested \in Seq(Cmds) /\ [game |-> game, faction |-> faction] \in Server
  BY DEF GameInv
<1>2. gone \subseteq Slot
  OBVIOUS
<1> HIDE DEF gone
<1>3. l \in Seq(Cmds) /\ \A i \in 1 .. Len(l) : l[i].kind = "left"
  BY <1>2, LeftAsSeq
<1>4. before \in Server
  <2>1. /\ game \in [paused : BOOLEAN, forJoin : BOOLEAN, pauseSent : BOOLEAN]
        /\ faction \in [Slot -> [network : BOOLEAN, ai : BOOLEAN, handled : BOOLEAN]]
    BY <1>1 DEF Server
  <2> QED  BY <2>1 DEF Server
<1>5. /\ requested' = IF key THEN << >> ELSE asked
      /\ game' = (IF key THEN Executed(asked, before) ELSE before).game
      /\ faction' = (IF key THEN Executed(asked, before) ELSE before).faction
  BY DEF Play, gone
<1>6. before.game = game
  OBVIOUS
<1> HIDE DEF before, l
<1>7. asked \in Seq(Cmds)
  BY <1>1, <1>3
<1>8. ASSUME Resuming(asked) PROVE Resuming(requested)
  <2>1. PICK i \in 1 .. Len(asked) : asked[i].kind = "joinResume"
    BY <1>8 DEF Resuming
  <2>2. \/ i \in 1 .. Len(requested) /\ asked[i] = requested[i]
        \/ i - Len(requested) \in 1 .. Len(l) /\ asked[i] = l[i - Len(requested)]
    BY <1>1, <1>3
  <2> HIDE DEF asked
  <2> QED  BY <1>3, <2>1, <2>2 DEF Resuming
<1> HIDE DEF asked
<1> QED  BY <1>4, <1>5, <1>6, <1>7, <1>8 DEF Runs

LEMMA PlayKeepsTypes ==
  ASSUME GameInv, NEW check \in BOOLEAN, NEW key \in BOOLEAN, Play(check, key)
  PROVE  GameInv'
<1>1. PICK asked, before : Runs(asked, before, key)
  BY PlayRuns
<1> DEFINE S == {x \in Server : HeldIsPaused(x.game)}
           after == IF key THEN Executed(asked, before) ELSE before
<1>2. before \in S /\ asked \in Seq(Cmds)
  BY <1>1 DEF Runs, GameInv
<1>3. after \in S
  <2>1. \A i \in 1 .. Len(asked) : \A x \in S : Execute(asked[i], x) \in S
    BY <1>2, ExecuteKeeps
  <2> HIDE DEF S
  <2>2. Executed(asked, before) \in S
    BY <1>2, <2>1, ExecutedIn
  <2> QED  BY <1>2, <2>2
<1>4. game' = after.game /\ faction' = after.faction /\ requested' \in Seq(Cmds)
  BY <1>1 DEF Runs
<1>5. [game |-> game', faction |-> faction'] \in Server /\ HeldIsPaused(game')
  <2> HIDE DEF after
  <2> QED  BY <1>3, <1>4 DEF Server
<1>6. turn' \in {"play", "join"} /\ launched' = launched
  BY DEF Play, playerVars
<1>7. file' \subseteq Passed /\ behind' \in [Slot -> SUBSET Passed]
  BY DEF Play, Passed, GameInv
<1> QED  BY <1>4, <1>5, <1>6, <1>7 DEF GameInv

(* The other half of Game::update,                                         *)
LEMMA JoinKeepsTypes ==
  ASSUME JoinInv, GameInv, Join
  PROVE  GameInv'
<1>1. /\ game \in [paused : BOOLEAN, forJoin : BOOLEAN, pauseSent : BOOLEAN]
      /\ faction \in [Slot -> [network : BOOLEAN, ai : BOOLEAN, handled : BOOLEAN]]
  BY DEF GameInv, Server
<1>2. faction' \in [Slot -> [network : BOOLEAN, ai : BOOLEAN, handled : BOOLEAN]]
  <2>1. Admit
    BY DEF Join, AskToPause, AskToResume, SaveGame, NobodyToServe, JoinTurn
  <2>2. CASE ~Admitting
    BY <1>1, <2>1, <2>2 DEF Admit
  <2>3. CASE Admitting
    <3> DEFINE F(s) == IF slot[s]["joinGameInProgress"]
                       THEN [faction[s] EXCEPT !.network = TRUE, !.ai = FALSE]
                       ELSE IF ~Connected(s) /\ faction[s].network /\ ~faction[s].ai
                       THEN [faction[s] EXCEPT !.handled = FALSE]
                       ELSE faction[s]
    <3>1. \A s \in Slot : F(s) \in [network : BOOLEAN, ai : BOOLEAN, handled : BOOLEAN]
      BY <1>1
    <3>2. faction' = [s \in Slot |-> F(s)]
      BY <2>1, <2>3 DEF Admit
    <3> HIDE DEF F
    <3> QED  BY <3>1, <3>2
  <2> QED  BY <2>2, <2>3
<1>3. /\ game' \in [paused : BOOLEAN, forJoin : BOOLEAN, pauseSent : BOOLEAN]
      /\ game'.paused = game.paused /\ game'.forJoin = game.forJoin
  BY <1>1 DEF Join, AskToPause, AskToResume, SaveGame, NobodyToServe
<1>4. requested' \in Seq(Cmds)
  <2>1. Cmd("joinPause") \in Cmds /\ Cmd("joinResume") \in Cmds
    BY DEF Cmd, Cmds
  <2> QED
    BY <2>1 DEF GameInv, Join, AskToPause, AskToResume, SaveGame, NobodyToServe
<1>5. turn' = "play" /\ launched' = launched /\ behind' = behind /\ file' \subseteq Passed
  BY DEF GameInv, Join, AskToPause, AskToResume, SaveGame, NobodyToServe, JoinTurn, playerVars
<1>6. [game |-> game', faction |-> faction'] \in Server
  BY <1>2, <1>3 DEF Server
<1> QED  BY <1>3, <1>4, <1>5, <1>6 DEF GameInv, HeldIsPaused

(* what the workers and the players do,                                    *)
LEMMA OthersKeepTypes ==
  ASSUME GameInv, NEW s \in Slot,
         Accept(s) \/ Worker(s) \/ Click(s) \/ Player(s) \/ Leave(s)
  PROVE  GameInv'
<1>1. UNCHANGED <<game, turn, requested, faction, file>>
  BY DEF Accept, Worker, HandleIntro, HandleLaunch, HandleReady, Receives, Close, Click, Player,
         ReadReady, Fetch, WaitUntilReady, TakeReply, Enter, Leave, serverVars
<1>2. launched' \in [Slot -> BOOLEAN] /\ behind' \in [Slot -> SUBSET Passed]
  BY DEF Accept, Worker, HandleIntro, HandleLaunch, HandleReady, Receives, Close, Click, Player,
         ReadReady, Fetch, WaitUntilReady, TakeReply, Enter, Leave, playerVars, GameInv
<1> QED  BY <1>1, <1>2 DEF GameInv, HeldIsPaused

(* and what the users ask for.                                             *)
LEMMA UsersKeepTypes ==
  ASSUME GameInv, UserToggle \/ Order
  PROVE  GameInv'
<1>1. \A kind \in {"pause", "resume", "order"} : Cmd(kind) \in Cmds
  BY DEF Cmd, Cmds
<1>2. requested' \in Seq(Cmds)
  BY <1>1 DEF UserToggle, Order, GameInv
<1> QED  BY <1>2 DEF UserToggle, Order, GameInv, HeldIsPaused, playerVars

(* Together: these and the places of the players, for any players.         *)
THEOREM TypesInvariant == Spec => [](JoinInv /\ GameInv)
<1>1. Init => GameInv
  <2> SUFFICES ASSUME Init PROVE GameInv
    OBVIOUS
  <2> QED  BY DEF Init, GameInv, Server, HeldIsPaused, Passed
<1>2. ASSUME JoinInv, GameInv, [Next]_vars PROVE GameInv'
  <2>1. CASE UNCHANGED vars
    BY <1>2, <2>1 DEF vars, GameInv, HeldIsPaused
  <2>2. CASE \E check, key \in BOOLEAN : Play(check, key)
    BY <1>2, <2>2, PlayKeepsTypes
  <2>3. CASE Join
    BY <1>2, <2>3, JoinKeepsTypes
  <2>4. ASSUME NEW s \in Slot,
               Accept(s) \/ Worker(s) \/ Click(s) \/ Player(s) \/ Leave(s)
        PROVE  GameInv'
    BY <1>2, <2>4, OthersKeepTypes
  <2>5. CASE UserToggle \/ Order
    BY <1>2, <2>5, UsersKeepTypes
  <2> QED  BY <1>2, <2>1, <2>2, <2>3, <2>4, <2>5 DEF Next
<1> QED  BY <1>1, <1>2, JoinInvariant, PTL DEF Spec

(* Every variable has its type.                                            *)
THEOREM TypeCorrect == Spec => []TypeOK
<1>1. JoinInv /\ GameInv => TypeOK
  <2> SUFFICES ASSUME JoinInv, GameInv PROVE TypeOK
    OBVIOUS
  <2>1. /\ game \in [paused : BOOLEAN, forJoin : BOOLEAN, pauseSent : BOOLEAN]
        /\ faction \in [Slot -> [network : BOOLEAN, ai : BOOLEAN, handled : BOOLEAN]]
    BY DEF GameInv, Server
  <2> QED  BY <2>1 DEF TypeOK, JoinInv, JoinTypes, GameInv
<1> QED  BY <1>1, TypesInvariant, PTL

-----------------------------------------------------------------------------
(* Why no frame is missed when players come to one slot only: from the     *)
(* notice that the game is saved until the slot is ready, the game stays   *)
(* paused for the player, since users are refused, and the server asks for *)
(* its own resumption only when the player is in.                          *)
Held(s) ==
  /\ s \notin Comer => /\ up[s] = << >> /\ pc[s] \in {"play", "out"}
                       /\ ~slot[s]["unPauseFor"] /\ ~slot[s]["joinGameInProgress"]
  /\ slot[s]["sentSavedGameInfo"] => slot[s]["joinGameInProgress"] /\ ~slot[s]["unPauseFor"]
  /\ slot[s]["joinGameInProgress"] => ~slot[s]["ready"]
  /\ pc[s] # "out" /\ slot[s]["sentSavedGameInfo"] => game.forJoin /\ "frame" \notin file
  /\ pc[s] \in {"loaded", "wait", "start", "play"} => "frame" \notin behind[s]

NobodyTold == \A s \in Slot : ~slot[s]["sentSavedGameInfo"]

HeldInv ==
  /\ \A s \in Slot : Held(s)
  /\ Resuming(requested) => turn = "play" /\ game.paused /\ NobodyTold

(* The flags that the argument looks at, and the other slots.              *)
Watched == {"joinGameInProgress", "sentSavedGameInfo", "ready", "unPauseFor"}

LEMMA StillHeld ==
  ASSUME NEW s \in Slot, Held(s), \A f \in Watched : slot'[s][f] = slot[s][f],
         up'[s] = up[s], pc'[s] = pc[s], behind'[s] = behind[s],
         game.forJoin => game'.forJoin, file' \subseteq file
  PROVE  Held(s)'
BY DEF Held, Watched

(* A step of a player or of its slot leaves the others and the main thread.*)
LEMMA OneSlot ==
  ASSUME HeldInv, NEW s \in Slot, Held(s)',
         \A r \in Slot : r # s => /\ slot'[r] = slot[r] /\ up'[r] = up[r]
                                 /\ pc'[r] = pc[r] /\ behind'[r] = behind[r],
         UNCHANGED <<game, turn, requested, file>>,
         slot'[s]["sentSavedGameInfo"] => slot[s]["sentSavedGameInfo"]
  PROVE  HeldInv'
<1>1. ASSUME NEW r \in Slot PROVE Held(r)'
  <2>1. CASE r = s
    BY <2>1
  <2>2. CASE r # s
    BY <1>1, <2>2, StillHeld DEF HeldInv
  <2> QED  BY <2>1, <2>2
<1>2. ASSUME Resuming(requested)' PROVE (turn = "play" /\ game.paused /\ NobodyTold)'
  <2>1. Resuming(requested)
    BY <1>2 DEF Resuming
  <2> QED  BY <2>1 DEF HeldInv, NobodyTold
<1> QED  BY <1>1, <1>2 DEF HeldInv

LEMMA HeldInit == Init => HeldInv
<1> SUFFICES ASSUME Init PROVE HeldInv
  OBVIOUS
<1>1. ASSUME NEW s \in Slot PROVE Held(s)
  BY DEF Init, Held, Flag
<1>2. ~Resuming(requested)
  BY DEF Init, Resuming
<1> QED  BY <1>1, <1>2 DEF HeldInv

(* The worker of a slot:                                                   *)
LEMMA AcceptHeld ==
  ASSUME JoinInv, GameInv, HeldInv, NEW s \in Slot, Accept(s)
  PROVE  HeldInv'
<1>1. /\ s \in Comer /\ ~slot[s]["joinGameInProgress"] /\ ~slot[s]["sentSavedGameInfo"]
  BY DEF JoinInv, InPlace, Place, Accept
<1>2. /\ \A f \in Watched \ {"ready"} : slot'[s][f] = slot[s][f]
      /\ ~slot'[s]["ready"] /\ pc'[s] = "lobby"
  BY DEF JoinInv, JoinTypes, Accept, Has, Flag, Watched
<1>3. Held(s)'
  BY <1>1, <1>2 DEF Held, Watched
<1>4. \A r \in Slot : r # s => /\ slot'[r] = slot[r] /\ up'[r] = up[r]
                              /\ pc'[r] = pc[r] /\ behind'[r] = behind[r]
  BY DEF JoinInv, JoinTypes, GameInv, Accept
<1> QED  BY <1>1, <1>2, <1>3, <1>4, OneSlot DEF Accept, Watched

(* only one who comes sends anything.                                      *)
LEMMA ReceivesHeld ==
  ASSUME JoinInv, HeldInv, NEW s \in Slot, NEW message, Receives(s, message)
  PROVE  /\ s \in Comer
         /\ UNCHANGED <<socket, pc, goAhead, game, turn, requested, file, behind>>
         /\ \A r \in Slot : r # s => up'[r] = up[r]
<1>1. up[s] # << >>
  BY DEF Receives
<1>2. s \in Comer
  BY <1>1 DEF HeldInv, Held
<1> QED  BY <1>2 DEF JoinInv, JoinTypes, Receives

LEMMA WorkerHeld ==
  ASSUME JoinInv, HeldInv, NEW s \in Slot, Worker(s)
  PROVE  HeldInv'
<1>0. slot \in [Slot -> [Flag -> BOOLEAN]] /\ Held(s)
  BY DEF JoinInv, JoinTypes, HeldInv
<1>1. CASE HandleIntro(s)
  <2>1. /\ s \in Comer /\ UNCHANGED <<pc, game, turn, requested, file, behind>>
        /\ \A r \in Slot : r # s => up'[r] = up[r]
    BY <1>1, ReceivesHeld DEF HandleIntro
  <2>2. /\ slot'[s]["unPauseFor"] = slot[s]["unPauseFor"]
        /\ ~slot'[s]["ready"] /\ ~slot'[s]["sentSavedGameInfo"]
    BY <1>0, <1>1 DEF HandleIntro, Has, Flag
  <2>3. \A r \in Slot : r # s => slot'[r] = slot[r]
    BY <1>0, <1>1 DEF HandleIntro
  <2>4. Held(s)'
    BY <1>0, <2>1, <2>2 DEF Held
  <2> QED  BY <2>1, <2>2, <2>3, <2>4, OneSlot
<1>2. CASE HandleLaunch(s)
  <2>1. /\ s \in Comer /\ UNCHANGED <<pc, game, turn, requested, file, behind>>
        /\ \A r \in Slot : r # s => up'[r] = up[r]
    BY <1>2, ReceivesHeld DEF HandleLaunch
  <2>2. \A f \in Watched : slot'[s][f] = slot[s][f]
    BY <1>0, <1>2 DEF HandleLaunch, Has, Flag, Watched
  <2>3. \A r \in Slot : r # s => slot'[r] = slot[r]
    BY <1>0, <1>2 DEF HandleLaunch
  <2>4. Held(s)'
    BY <1>0, <2>1, <2>2 DEF Held, Watched
  <2> QED  BY <2>1, <2>2, <2>3, <2>4, OneSlot DEF Watched
<1>3. CASE HandleReady(s)
  <2>1. /\ s \in Comer /\ UNCHANGED <<pc, game, turn, requested, file, behind>>
        /\ \A r \in Slot : r # s => up'[r] = up[r]
    BY <1>3, ReceivesHeld DEF HandleReady
  <2>2. \A r \in Slot : r # s => slot'[r] = slot[r]
    BY <1>0, <1>3 DEF HandleReady
  <2>3. CASE slot[s]["joinGameInProgress"]
    <3>1. slot'[s] = Has(slot[s], {"ready"}, {"joinGameInProgress", "sentSavedGameInfo"})
      BY <1>0, <1>3, <2>3 DEF HandleReady, SetReady
    <3>2. ~slot'[s]["joinGameInProgress"] /\ ~slot'[s]["sentSavedGameInfo"]
      BY <3>1 DEF Has, Flag
    <3>3. Held(s)'
      BY <1>0, <2>1, <3>2 DEF Held
    <3> QED  BY <2>1, <2>2, <3>2, <3>3, OneSlot
  <2>4. CASE ~slot[s]["joinGameInProgress"]
    <3>1. slot'[s] = Has(slot[s], {"unPauseFor"}, {})
      BY <1>0, <1>3, <2>4 DEF HandleReady
    <3>2. \A f \in Watched \ {"unPauseFor"} : slot'[s][f] = slot[s][f]
      BY <1>0, <3>1 DEF Has, Flag, Watched
    <3>3. Held(s)'
      BY <1>0, <2>1, <2>4, <3>2 DEF Held, Watched
    <3> QED  BY <2>1, <2>2, <3>2, <3>3, OneSlot DEF Watched
  <2> QED  BY <2>3, <2>4
<1>4. CASE Close(s)
  <2>1. \A f \in Watched : ~slot'[s][f]
    BY <1>0, <1>4 DEF Close, Has, Flag, Watched
  <2>2. \A r \in Slot : r # s => slot'[r] = slot[r]
    BY <1>0, <1>4 DEF Close
  <2>3. UNCHANGED <<up, pc, game, turn, requested, file, behind>>
    BY <1>4 DEF Close, playerVars
  <2>4. Held(s)'
    BY <1>0, <2>1, <2>3 DEF Held, Watched
  <2> QED  BY <2>1, <2>2, <2>3, <2>4, OneSlot DEF Watched
<1> QED  BY <1>1, <1>2, <1>3, <1>4 DEF Worker

(* A player: it loads a game that is held for it.                          *)
LEMMA PlayerHeld ==
  ASSUME JoinInv, GameInv, HeldInv, NEW s \in Slot, Click(s) \/ Player(s) \/ Leave(s)
  PROVE  HeldInv'
<1>0. Held(s) /\ InPlace(s)
  BY DEF JoinInv, HeldInv
<1>1. UNCHANGED <<slot, game, turn, requested, file>>
  BY DEF Click, Player, ReadReady, Fetch, WaitUntilReady, TakeReply, Enter, Leave, serverVars
<1>2. \A r \in Slot : r # s => up'[r] = up[r] /\ pc'[r] = pc[r] /\ behind'[r] = behind[r]
  <2>1. CASE Leave(s)
    BY <2>1 DEF JoinInv, JoinTypes, Leave
  <2>2. CASE Click(s) \/ ReadReady(s) \/ Fetch(s)
    BY <2>2 DEF JoinInv, JoinTypes, GameInv, Click, ReadReady, Fetch
  <2>3. CASE WaitUntilReady(s) \/ TakeReply(s) \/ Enter(s)
    BY <2>3 DEF JoinInv, JoinTypes, WaitUntilReady, TakeReply, Enter
  <2> QED  BY <2>1, <2>2, <2>3 DEF Player
<1>3. CASE Leave(s)
  <2>1. pc'[s] = "out" /\ behind' = behind
    BY <1>3 DEF JoinInv, JoinTypes, Leave
  <2>2. ASSUME up[s] = << >> PROVE up'[s] = << >>
    <3>1. PICK n \in 0 .. Len(up[s]) : up' = [up EXCEPT ![s] = SubSeq(@, 1, n)]
      BY <1>3 DEF Leave
    <3>2. up'[s] = SubSeq(<< >>, 1, n) /\ n = 0
      BY <2>2, <3>1 DEF JoinInv, JoinTypes
    <3> QED  BY <3>2
  <2>3. Held(s)'
    BY <1>0, <1>1, <2>1, <2>2 DEF Held
  <2> QED  BY <1>1, <1>2, <2>3, OneSlot
<1>4. CASE Fetch(s)
  <2>1. /\ pc[s] = "lobby" /\ pc'[s] = "loaded" /\ behind'[s] = file
        /\ slot[s]["sentSavedGameInfo"]
    <3>1. pc[s] = "lobby" /\ goAhead[s] /\ pc'[s] = "loaded" /\ behind'[s] = file
      BY <1>4 DEF JoinInv, JoinTypes, GameInv, Fetch
    <3> QED  BY <1>0, <3>1 DEF InPlace, Place, Arriving, InLobby
  <2>2. Held(s)'
    BY <1>0, <1>1, <2>1 DEF Held
  <2> QED  BY <1>1, <1>2, <2>2, OneSlot
<1>5. CASE Click(s) \/ ReadReady(s) \/ WaitUntilReady(s) \/ TakeReply(s) \/ Enter(s)
  <2>1. /\ behind' = behind /\ pc[s] \notin {"play", "out"}
        /\ pc'[s] \in {"start", "play", "wait"} => pc[s] \in {"loaded", "wait", "start"}
        /\ pc'[s] # "loaded"
    BY <1>5 DEF JoinInv, JoinTypes, Click, ReadReady, WaitUntilReady, TakeReply, Enter
  <2>2. Held(s)'
    BY <1>0, <1>1, <2>1 DEF Held
  <2> QED  BY <1>1, <1>2, <2>2, OneSlot
<1> QED  BY <1>3, <1>4, <1>5 DEF Player

(* While somebody is connected and not ready, nothing but a resumption of  *)
(* the server ends the pause for a player.                                 *)
LEMMA ExecuteHeld ==
  ASSUME NEW c \in Cmds, c.kind # "joinResume", NEW st \in Server,
         st.game.forJoin, HeldIsPaused(st.game),
         NEW s \in Slot, Connected(s), ~slot[s]["ready"]
  PROVE  Execute(c, st).game.forJoin
<1>1. st.game \in [paused : BOOLEAN, forJoin : BOOLEAN, pauseSent : BOOLEAN]
  BY DEF Server
<1>2. CASE c.kind = "order"
  BY <1>2 DEF Execute
<1>3. CASE c.kind = "left"
  <2>1. Execute(c, st) = [st EXCEPT !.faction[c.of].network = FALSE]
    BY <1>3 DEF Execute
  <2>2. Execute(c, st).game = st.game
    BY <2>1 DEF Server
  <2> QED  BY <2>2
<1>4. CASE c.kind \notin {"order", "left"}
  <2>1. c.kind \in {"pause", "resume", "joinPause"}
    BY <1>4 DEF Cmds
  <2>2. Execute(c, st).game = SetPaused(st.game, c.kind)
    BY <1>4 DEF Execute, Server
  <2>3. SetPaused(st.game, c.kind).forJoin
    BY <1>1, <2>1 DEF SetPaused, Refused
  <2> QED  BY <2>2, <2>3
<1> QED  BY <1>2, <1>3, <1>4

(* The first half of Game::update: while a player is told, no frame passes *)
(* and the game stays held.                                                *)
LEMMA PlayHeld ==
  ASSUME JoinInv, GameInv, HeldInv, NEW check \in BOOLEAN, NEW key \in BOOLEAN,
         Play(check, key)
  PROVE  HeldInv'
<1>1. PICK asked, before : Runs(asked, before, key)
  BY PlayRuns
<1>2. UNCHANGED <<slot, up, pc>>
  BY DEF Play, playerVars
<1>3. ASSUME NEW s \in Slot, ~Lacks(s) \/ game.paused, "frame" \in behind'[s]
      PROVE  "frame" \in behind[s]
  <2>1. /\ ~Lacks(s) => behind'[s] = behind[s]
        /\ "frame" \in behind'[s] => "frame" \in behind[s] \/ ~game.paused
    BY DEF Play
  <2> QED  BY <1>3, <2>1
<1>4. ASSUME game.paused PROVE "frame" \in file' => "frame" \in file
  BY <1>4 DEF Play
<1>5. ASSUME NEW s \in Slot, pc[s] # "out", slot[s]["sentSavedGameInfo"]
      PROVE  game'.forJoin
  <2>1. /\ game.forJoin /\ ~slot[s]["ready"] /\ ~Resuming(requested)
    BY <1>5 DEF HeldInv, Held, NobodyTold
  <2>2. Connected(s)
    BY <1>5 DEF JoinInv, InPlace, Place, Connected
  <2> DEFINE S == {x \in Server : HeldIsPaused(x.game) /\ x.game.forJoin}
             after == IF key THEN Executed(asked, before) ELSE before
  <2>3. before \in S /\ asked \in Seq(Cmds) /\ ~Resuming(asked)
    BY <1>1, <2>1 DEF Runs, GameInv
  <2>4. \A i \in 1 .. Len(asked) : asked[i] \in Cmds /\ asked[i].kind # "joinResume"
    BY <2>3 DEF Resuming
  <2>5. \A i \in 1 .. Len(asked) : \A x \in S : Execute(asked[i], x) \in S
    BY <2>1, <2>2, <2>4, ExecuteKeeps, ExecuteHeld
  <2>6. after \in S
    <3> HIDE DEF S
    <3>1. Executed(asked, before) \in S
      BY <2>3, <2>5, ExecutedIn
    <3> QED  BY <2>3, <3>1
  <2>7. game' = after.game
    BY <1>1 DEF Runs
  <2> HIDE DEF after
  <2> QED  BY <2>6, <2>7
<1>6. ASSUME NEW s \in Slot PROVE Held(s)'
  <2>1. Held(s) /\ InPlace(s)
    BY DEF HeldInv, JoinInv
  <2>2. pc[s] # "out" /\ slot[s]["sentSavedGameInfo"] =>
          game'.forJoin /\ game.paused /\ "frame" \notin file'
    BY <1>4, <1>5, <2>1 DEF Held, GameInv, HeldIsPaused
  <2>3. pc[s] \in {"loaded", "wait", "start", "play"} => "frame" \notin behind'[s]
    <3>1. Lacks(s) => pc[s] # "out" /\ slot[s]["sentSavedGameInfo"]
      BY <2>1 DEF Lacks, InPlace, Place, Loaded, Asked, Answered
    <3> QED  BY <1>3, <2>1, <2>2, <3>1 DEF Held
  <2> QED  BY <1>2, <2>1, <2>2, <2>3 DEF Held
<1>7. ~Resuming(requested')
  <2>1. CASE key
    BY <1>1, <2>1 DEF Runs, Resuming
  <2>2. CASE ~key
    <3>1. ~game.paused
      BY <2>2 DEF Play
    <3>2. requested' = asked /\ ~Resuming(asked)
      BY <1>1, <2>2, <3>1 DEF Runs, HeldInv
    <3> QED  BY <3>2
  <2> QED  BY <2>1, <2>2
<1> QED  BY <1>6, <1>7 DEF HeldInv, Resuming

(* The flags that Game::update sets of a slot in its second half.          *)
LEMMA SetupSentWatched ==
  ASSUME JoinInv, NEW s \in Slot
  PROVE  SetupSent[s] \in [Flag -> BOOLEAN] /\ \A f \in Watched : SetupSent[s][f] = slot[s][f]
<1>1. Watched \subseteq Flag \ {"pauseFor"}
  BY DEF Watched, Flag
<1> QED  BY <1>1, SetupSentKeeps

(* One command more.                                                       *)
LEMMA OneMoreAsked ==
  ASSUME GameInv, NEW kind \in {"pause", "resume", "order", "joinPause"},
         requested' = Append(requested, Cmd(kind)), Resuming(requested')
  PROVE  Resuming(requested)
<1>1. PICK i \in 1 .. Len(requested') : requested'[i].kind = "joinResume"
  BY DEF Resuming
<1>2. Cmd(kind).kind # "joinResume"
  BY DEF Cmd
<1>3. i \in 1 .. Len(requested) /\ requested'[i] = requested[i]
  BY <1>1, <1>2 DEF GameInv
<1> QED  BY <1>1, <1>3 DEF Resuming

(* Only the player that is joined can make the server resume, and it is    *)
(* then no longer one that is told.                                        *)
LEMMA JoinHeld ==
  ASSUME \A s, t \in Comer : s = t, JoinInv, GameInv, HeldInv, Join
  PROVE  HeldInv'
<1>0. /\ UNCHANGED <<up, pc, behind>> /\ turn = "join" /\ turn' = "play" /\ ~Resuming(requested)
  BY DEF HeldInv, Join, AskToPause, AskToResume, SaveGame, NobodyToServe, JoinTurn, playerVars
<1>1. CASE AskToPause
  <2>1. slot' = SetupSent /\ game'.forJoin = game.forJoin /\ file' = file
    BY <1>1 DEF AskToPause, GameInv, Server
  <2>2. ASSUME NEW s \in Slot PROVE Held(s)'
    BY <1>0, <2>1, SetupSentWatched, StillHeld DEF HeldInv
  <2>3. ~Resuming(requested')
    BY <1>0, <1>1, OneMoreAsked DEF AskToPause, Resuming
  <2> QED  BY <2>2, <2>3 DEF HeldInv, Resuming
<1>2. CASE AskToResume
  <2>1. game' = game /\ file' = file /\ game.forJoin
    BY <1>2 DEF AskToResume
  <2>2. ASSUME NEW s \in Slot
        PROVE  /\ \A f \in Watched \ {"unPauseFor"} : slot'[s][f] = slot[s][f]
               /\ ~slot'[s]["unPauseFor"]
    <3> DEFINE now == SetupSent[s]
    <3>1. slot'[s] = Has(now, {}, {"unPauseFor"})
      BY <1>2 DEF AskToResume
    <3>2. now \in [Flag -> BOOLEAN] /\ \A f \in Watched : now[f] = slot[s][f]
      BY SetupSentWatched
    <3> HIDE DEF now
    <3> QED  BY <3>1, <3>2 DEF Has, Watched, Flag
  <2>3. ASSUME NEW s \in Slot PROVE Held(s)'
    <3>1. Held(s)
      BY DEF HeldInv
    <3> QED  BY <1>0, <2>1, <2>2, <3>1 DEF Held, Watched
  <2>4. PICK t \in Slot : slot[t]["unPauseFor"]
    BY <1>2 DEF AskToResume, Marked
  <2>5. ASSUME NEW s \in Slot PROVE ~slot[s]["sentSavedGameInfo"]
    <3>1. Held(s) /\ Held(t)
      BY DEF HeldInv
    <3>2. t \in Comer /\ ~slot[t]["sentSavedGameInfo"]
      BY <2>4, <3>1 DEF Held
    <3>3. slot[s]["sentSavedGameInfo"] => s \in Comer
      BY <3>1 DEF Held
    <3> QED  BY <3>2, <3>3
  <2>6. NobodyTold'
    BY <2>2, <2>5 DEF NobodyTold, Watched
  <2>7. game'.paused
    BY <2>1 DEF GameInv, HeldIsPaused
  <2> QED  BY <1>0, <2>3, <2>6, <2>7 DEF HeldInv
<1>3. ASSUME NEW r \in Slot, SaveGame(r) PROVE HeldInv'
  <2>1. game' = game /\ file' = {} /\ game.forJoin /\ requested' = requested
    BY <1>3 DEF SaveGame
  <2>2. ASSUME NEW s \in Slot
        PROVE  /\ \A f \in Watched \ {"sentSavedGameInfo"} : slot'[s][f] = slot[s][f]
               /\ slot'[s]["sentSavedGameInfo"] => slot[s]["joinGameInProgress"]
               /\ ~slot[s]["unPauseFor"]
    <3> DEFINE now == SetupSent[s]
               told == IF Waiting(s) THEN {"sentSavedGameInfo"} ELSE {}
               served == IF s = r THEN {"startLaunch"} ELSE {}
    <3>1. slot'[s] = Has(now, told, served)
      BY <1>3 DEF SaveGame
    <3>2. now \in [Flag -> BOOLEAN] /\ \A f \in Watched : now[f] = slot[s][f]
      BY SetupSentWatched
    <3>3. \A f \in Watched : f \in Flag /\ f \notin served
      BY DEF Watched, Flag
    <3> HIDE DEF now
    <3>4. slot[s]["sentSavedGameInfo"] => slot[s]["joinGameInProgress"]
      BY DEF HeldInv, Held
    <3>5. ~slot[s]["unPauseFor"]
      BY <1>3 DEF SaveGame, Marked
    <3>6. \A f \in Watched \ {"sentSavedGameInfo"} : slot'[s][f] = slot[s][f]
      BY <3>1, <3>2, <3>3 DEF Has
    <3>7. slot'[s]["sentSavedGameInfo"] => Waiting(s) \/ slot[s]["sentSavedGameInfo"]
      BY <3>1, <3>2, <3>3 DEF Has, Watched
    <3> QED  BY <3>4, <3>5, <3>6, <3>7 DEF Waiting
  <2>3. ASSUME NEW s \in Slot PROVE Held(s)'
    <3>1. Held(s)
      BY DEF HeldInv
    <3> QED  BY <1>0, <2>1, <2>2, <3>1 DEF Held, Watched
  <2> QED  BY <1>0, <2>1, <2>3 DEF HeldInv, Resuming
<1>4. CASE NobodyToServe
  <2>1. slot' = SetupSent /\ UNCHANGED <<game, requested, file>>
    BY <1>4 DEF NobodyToServe
  <2>2. ASSUME NEW s \in Slot PROVE Held(s)'
    BY <1>0, <2>1, SetupSentWatched, StillHeld DEF HeldInv
  <2> QED  BY <1>0, <2>1, <2>2 DEF HeldInv, Resuming
<1> QED  BY <1>1, <1>2, <1>3, <1>4 DEF Join

(* The users' requests change nothing but what is requested.               *)
LEMMA UsersHeld ==
  ASSUME GameInv, HeldInv, UserToggle \/ Order
  PROVE  HeldInv'
<1>1. UNCHANGED <<slot, up, pc, game, turn, file, behind>>
  BY DEF UserToggle, Order, playerVars
<1>2. ASSUME NEW s \in Slot PROVE Held(s)'
  BY <1>1, StillHeld DEF HeldInv
<1>3. Resuming(requested') => Resuming(requested)
  BY OneMoreAsked DEF UserToggle, Order
<1>4. NobodyTold => NobodyTold'
  BY <1>1 DEF NobodyTold
<1> QED  BY <1>1, <1>2, <1>3, <1>4 DEF HeldInv, Resuming

(* When players come to one slot only, no frame passes between the saved   *)
(* game that a player has loaded and the first list that it keeps, whatever*)
(* the users ask for and whenever it leaves and comes back.                *)
THEOREM NoFrameMissed ==
  ASSUME \A s, t \in Comer : s = t
  PROVE  Spec => []FrozenFrames
<1>1. ASSUME JoinInv, GameInv, HeldInv, [Next]_vars PROVE HeldInv'
  <2>1. CASE UNCHANGED vars
    <3>1. ASSUME NEW s \in Slot PROVE Held(s)'
      BY <1>1, <2>1, StillHeld DEF HeldInv, vars
    <3> QED  BY <1>1, <2>1, <3>1 DEF HeldInv, vars, Resuming, NobodyTold
  <2>2. CASE \E check, key \in BOOLEAN : Play(check, key)
    BY <1>1, <2>2, PlayHeld
  <2>3. CASE Join
    BY <1>1, <2>3, JoinHeld
  <2>4. ASSUME NEW s \in Slot,
               Accept(s) \/ Worker(s) \/ Click(s) \/ Player(s) \/ Leave(s)
        PROVE  HeldInv'
    BY <1>1, <2>4, AcceptHeld, WorkerHeld, PlayerHeld
  <2>5. CASE UserToggle \/ Order
    BY <1>1, <2>5, UsersHeld
  <2> QED  BY <1>1, <2>1, <2>2, <2>3, <2>4, <2>5 DEF Next
<1>2. HeldInv => FrozenFrames
  BY DEF HeldInv, Held, FrozenFrames
<1> QED  BY <1>1, <1>2, HeldInit, TypesInvariant, PTL DEF Spec

=============================================================================
