--------------------------- MODULE LockstepProofs ---------------------------
(***************************************************************************)
(* Proofs about Lockstep, for any number of clients, any period, any       *)
(* scripts and any number of broadcasts:                                   *)
(*   - its types;                                                          *)
(*   - its inductive invariant, and what follows from it: an attached      *)
(*     client executes the lists of the server, in order, each at the      *)
(*     frame at which the server executed it, and agrees with the server   *)
(*     on every pause;                                                     *)
(*   - that it implements CommandLog: a broadcast issues an entry of the   *)
(*     log, giving a list executes one, straying detaches the client, and  *)
(*     every other step stutters;                                          *)
(*   - that a command is never duplicated, nor lost with no connection     *)
(*     lost.                                                               *)
(***************************************************************************)
EXTENDS Lockstep, SequenceTheorems, FiniteSetTheorems, TLAPS

USE NumClientsAssumption, PeriodAssumption, BoundAssumption

-----------------------------------------------------------------------------
(* Replicas, sequences and the operators of the model *)

(* The server is a replica and is not a client.                            *)
LEMMA Members ==
  /\ Server \in Replica
  /\ Client \subseteq Replica
  /\ \A c \in Client : c # Server
BY DEF Server, Replica, Client

(* Appending keeps the type of a sequence.                                 *)
LEMMA AppendType ==
  ASSUME NEW S, NEW s \in Seq(S), NEW e \in S
  PROVE  /\ Append(s, e) \in Seq(S)
         /\ Len(Append(s, e)) = Len(s) + 1
         /\ Append(s, e)[Len(s) + 1] = e
         /\ \A i \in 1 .. Len(s) : Append(s, e)[i] = s[i]
OBVIOUS

ListEntry == [key : Nat, cmds : Seq(Command), paused : BOOLEAN]

(* Emptying requestedCommands from the back gives a sequence of commands.  *)
LEMMA BatchType ==
  ASSUME NEW s \in Seq(Command)
  PROVE  Batch(s) \in Seq(Command)
<1>1. \A i \in 1 .. Len(s) : s[Len(s) - i + 1] \in Command
  OBVIOUS
<1> QED  BY <1>1 DEF Batch

(* The pause state after a list of commands is a Boolean.                  *)
LEMMA PausedAfterType ==
  ASSUME NEW x \in BOOLEAN, NEW s
  PROVE  PausedAfter(x, s) \in BOOLEAN
BY Zenon DEF PausedAfter

(* The main loop of the server comes round.                                *)
LEMMA NextTurnType ==
  ASSUME NEW t \in Replica
  PROVE  NextTurn(t) \in Replica
BY DEF NextTurn, Replica, Server

-----------------------------------------------------------------------------
(* Type correctness *)

(* The first state has the types.                                          *)
LEMMA InitType == Init => TypeOK
<1> SUFFICES ASSUME Init PROVE TypeOK
  OBVIOUS
<1> USE DEF Init
<1>1. lists \in Seq(ListEntry) /\ turn \in Replica
  BY Members DEF ListEntry
<1>2. todo \in [Replica -> Seq(Command)]
  BY CommandAssumption
<1>3. /\ requested \in [Replica -> Seq(Command)]
      /\ key \in [Replica -> Nat]
      /\ tick \in [Replica -> 0 .. Period - 1]
      /\ paused \in [Replica -> BOOLEAN]
      /\ slotPending \in [Client -> Seq(Command)]
      /\ link \in [Client -> BOOLEAN]
      /\ uplink \in [Client -> Seq(Seq(Command))]
      /\ downlink \in [Client -> Seq(0 .. Len(lists))]
      /\ net \in [Client -> {"idle", "out", "in"}]
      /\ cachedLast \in [Client -> Nat] /\ DOMAIN cached = Client
      /\ pc \in [Client -> {"update", "wait", "give", "again", "net"}]
      /\ pending \in [Client -> Seq(1 .. Len(lists))]
      /\ quit \in [Client -> BOOLEAN]
      /\ received \in [Client -> Nat]
      /\ executed \in [Client -> Seq([list : 1 .. Len(lists), key : Nat])]
      /\ missed \in [Client -> BOOLEAN]
  OBVIOUS
<1>5. CatchUpType
  BY DEF CatchUpType
<1>4. \A c \in Client : DOMAIN cached[c] = {}
  OBVIOUS
<1> QED  BY <1>1, <1>2, <1>3, <1>4, <1>5 DEF TypeOK, ListEntry, ListsType, LoopType,
     RequestType, LinkType, CacheType, ReplicaType

(* All types but those of the catching up.                                 *)
DataType ==
  ListsType /\ LoopType /\ RequestType /\ LinkType /\ CacheType /\ ReplicaType

(* The number of frames to catch up is a number.                           *)
LEMMA FramesType ==
  ASSUME TypeOK, NEW c \in Client
  PROVE  FramesToCatchUp(c) \subseteq Nat
<1>1. key[c] \in Nat /\ cachedLast[c] \in Nat /\ catchUp[c] \in Nat
  BY Members DEF TypeOK, LoopType, CacheType, CatchUpType
<1>2. \A i : i \in 1 .. (cachedLast[c] - key[c]) * Period - Fallback => i \in Nat
  <2>1. (cachedLast[c] - key[c]) * Period - Fallback \in Int
    BY <1>1, CatchUpAssumption
  <2> QED  BY <2>1
<1> QED  BY <1>1, <1>2 DEF FramesToCatchUp

(* Both rounds of the loop pass a frame.                                   *)
LEMMA PassesFrame ==
  ASSUME TypeOK, NEW c \in Client, ClientAdvance(c) \/ ClientAgain(c)
  PROVE  \E more \in BOOLEAN : PassFrame(c, more)
<1>1. CASE ClientAdvance(c)
  <2>1. PICK n \in FramesToCatchUp(c) : PassFrame(c, n > 0)
    BY <1>1 DEF ClientAdvance
  <2>2. (n > 0) \in BOOLEAN
    BY <2>1, FramesType
  <2> QED  BY <2>1, <2>2
<1>2. CASE ClientAgain(c)
  BY <1>2 DEF ClientAgain
<1> QED  BY <1>1, <1>2

(* Passing a frame keeps them.                                             *)
LEMMA PassFrameType ==
  ASSUME TypeOK, NEW c \in Client, NEW more \in BOOLEAN, PassFrame(c, more)
  PROVE  DataType'
<1>0. ListsType /\ LoopType /\ RequestType /\ LinkType /\ CacheType /\ ReplicaType
  BY DEF TypeOK
<1> USE <1>0
<1>1. ListsType' /\ RequestType' /\ CacheType' /\ ReplicaType'
  BY DEF PassFrame, serverVars,
     ListsType, RequestType, CacheType, ReplicaType
<1>2. LoopType'
  <2>1. tick[c] \in 0 .. Period - 1 /\ key[c] \in Nat /\ c \in Replica
    BY Members DEF LoopType
  <2>2. CASE tick[c] + 1 < Period
    <3>1. tick[c] + 1 \in 0 .. Period - 1
      BY <2>1, <2>2
    <3>2. tick' = [tick EXCEPT ![c] = tick[c] + 1] /\ key' = key
      BY <2>2 DEF PassFrame
    <3>3. tick' \in [Replica -> 0 .. Period - 1]
      BY <3>1, <3>2 DEF LoopType
    <3>4. pc' \in [Client -> {"update", "wait", "give", "again", "net"}]
      BY <2>2 DEF PassFrame, LoopType
    <3> QED  BY <3>2, <3>3, <3>4 DEF PassFrame, LoopType, serverVars
  <2>3. CASE ~(tick[c] + 1 < Period)
    <3>1. 0 \in 0 .. Period - 1 /\ key[c] + 1 \in Nat
      BY <2>1
    <3>2. /\ tick' = [tick EXCEPT ![c] = 0]
          /\ key' = [key EXCEPT ![c] = key[c] + 1]
      BY <2>3 DEF PassFrame
    <3>3. tick' \in [Replica -> 0 .. Period - 1] /\ key' \in [Replica -> Nat]
      BY <3>1, <3>2 DEF LoopType
    <3>4. pc' \in [Client -> {"update", "wait", "give", "again", "net"}]
      BY <2>3 DEF PassFrame, LoopType
    <3> QED  BY <3>3, <3>4 DEF PassFrame, LoopType, serverVars
  <2> QED  BY <2>2, <2>3
<1>3. LinkType'
  BY DEF PassFrame, LinkType, serverVars
<1> QED  BY <1>1, <1>2, <1>3 DEF DataType

(* Every step keeps them.                                                  *)
LEMMA DataNext == TypeOK /\ [Next]_vars => DataType'
<1> SUFFICES ASSUME TypeOK, [Next]_vars PROVE DataType'
  OBVIOUS
<1>0. ListsType /\ LoopType /\ RequestType /\ LinkType /\ CacheType /\ ReplicaType
  BY DEF TypeOK
<1> USE <1>0
<1>1. CASE UNCHANGED vars
  BY <1>1 DEF vars, DataType, ListsType, LoopType, RequestType, LinkType, CacheType,
              ReplicaType
<1>2. ASSUME NEW r \in Replica, Request(r) PROVE DataType'
  <2>1. ListsType' /\ LoopType' /\ LinkType' /\ CacheType' /\ ReplicaType'
    BY <1>2 DEF Request, serverVars, threadVars, mainVars,
       ListsType, LoopType, LinkType, CacheType, ReplicaType
  <2>2. RequestType'
    BY <1>2 DEF Request, RequestType, serverVars
  <2> QED  BY <2>1, <2>2 DEF DataType
<1>3. CASE ServerFrame
  <2>1. ListsType' /\ RequestType' /\ LinkType' /\ CacheType' /\ ReplicaType'
    BY <1>3 DEF ServerFrame, threadVars, mainVars,
       ListsType, RequestType, LinkType, CacheType, ReplicaType
  <2>2. LoopType'
    <3>1. tick[Server] + 1 \in 0 .. Period - 1
      BY <1>3, Members DEF ServerFrame, LoopType
    <3>2. tick' \in [Replica -> 0 .. Period - 1]
      BY <1>3, <3>1 DEF ServerFrame, LoopType
    <3>3. turn' \in Replica
      BY <1>3, NextTurnType DEF ServerFrame, LoopType
    <3> QED  BY <1>3, <3>2, <3>3 DEF ServerFrame, LoopType, mainVars
  <2> QED  BY <2>1, <2>2 DEF DataType
<1>4. ASSUME NEW stop \in Stops, ServerKeyframe(stop) PROVE DataType'
  <2> DEFINE cmds == Batch(requested[Server])
             pauses == PausedAfter(paused[Server], cmds)
             id == Len(lists) + 1
  <2>1. cmds \in Seq(Command) /\ pauses \in BOOLEAN /\ KeyframeOf(Server) \in Nat
    BY BatchType, PausedAfterType, Members DEF RequestType, LoopType, KeyframeOf
  <2>2. lists' = Append(lists, [key |-> KeyframeOf(Server), cmds |-> cmds,
                               paused |-> pauses])
    BY <1>4 DEF ServerKeyframe
  <2>3. ListsType' /\ Len(lists') = id
    BY <2>1, <2>2 DEF ListsType
  <2>4. LoopType'
    <3>1. turn' \in Replica
      BY <1>4, NextTurnType DEF ServerKeyframe, LoopType
    <3>2. 0 \in 0 .. Period - 1
      OBVIOUS
    <3>3. /\ key' \in [Replica -> Nat]
          /\ tick' \in [Replica -> 0 .. Period - 1]
          /\ paused' \in [Replica -> BOOLEAN]
      BY <1>4, <2>1, <3>2 DEF ServerKeyframe, LoopType
    <3> QED  BY <1>4, <3>1, <3>3 DEF ServerKeyframe, LoopType, mainVars
  <2>5. RequestType'
    <3>1. requested' \in [Replica -> Seq(Command)]
      BY <1>4, EmptySeq DEF ServerKeyframe, RequestType
    <3> QED  BY <1>4, <3>1 DEF ServerKeyframe, RequestType
  <2>6. 0 .. Len(lists) \subseteq 0 .. id /\ 1 .. Len(lists) \subseteq 1 .. id
    BY DEF ListsType
  <2>7. LinkType'
    <3>1. \A d \in Client : downlink[d] \in Seq(0 .. id)
      BY <2>6, SeqMonotonic DEF LinkType
    <3>2. id \in 0 .. id /\ Cut \in 0 .. id
      BY DEF ListsType, Cut
    <3>3. \A d \in Client : Delivered(id, stop)[d] \in Seq(0 .. id)
      <4> TAKE d \in Client
      <4>1. /\ Append(downlink[d], id) \in Seq(0 .. id)
            /\ Append(downlink[d], Cut) \in Seq(0 .. id)
        BY <3>1, <3>2, AppendType
      <4> QED  BY <3>1, <4>1, Zenon DEF Delivered
    <3>4. downlink' \in [Client -> Seq(0 .. id)]
      BY <1>4, <3>3 DEF ServerKeyframe, Delivered
    <3> QED  BY <1>4, <2>3, <3>4 DEF ServerKeyframe, LinkType, threadVars
  <2>8. CacheType'
    <3>1. \A d \in Client : \A k \in DOMAIN cached[d] : cached[d][k] \in Seq(1 .. id)
      BY <2>6, SeqMonotonic DEF CacheType
    <3> QED  BY <1>4, <2>3, <3>1 DEF ServerKeyframe, CacheType, threadVars
  <2>9. ReplicaType'
    <3>1. [list : 1 .. Len(lists), key : Nat] \subseteq [list : 1 .. id, key : Nat]
      BY <2>6
    <3>2. pending \in [Client -> Seq(1 .. id)]
      BY <2>6, SeqMonotonic DEF ReplicaType
    <3>3. \A d \in Client : executed[d] \in Seq([list : 1 .. id, key : Nat])
      <4> TAKE d \in Client
      <4> DEFINE S == [list : 1 .. Len(lists), key : Nat]
                 T == [list : 1 .. id, key : Nat]
      <4>1. executed[d] \in Seq(S)
        BY DEF ReplicaType
      <4> HIDE DEF S, T
      <4>2. S \subseteq T
        BY <3>1 DEF S, T
      <4>3. executed[d] \in Seq(T)
        BY <4>1, <4>2, SeqMonotonic
      <4> QED  BY <4>3 DEF T
    <3>4. executed \in [Client -> Seq([list : 1 .. id, key : Nat])]
      BY <3>3 DEF ReplicaType
    <3> QED  BY <1>4, <2>3, <3>2, <3>4 DEF ServerKeyframe, ReplicaType, mainVars
  <2> QED  BY <2>3, <2>4, <2>5, <2>7, <2>8, <2>9 DEF DataType
<1>5. ASSUME NEW c \in Client, PollSlot(c) PROVE DataType'
  <2>1. ListsType' /\ LinkType' /\ CacheType' /\ ReplicaType'
    BY <1>5 DEF PollSlot, threadVars, mainVars,
       ListsType, LinkType, CacheType, ReplicaType
  <2>2. LoopType'
    BY <1>5, NextTurnType DEF PollSlot, LoopType, mainVars
  <2>3. RequestType'
    <3>1. /\ requested[Server] \o slotPending[c] \in Seq(Command)
          /\ <<>> \in Seq(Command)
      BY Members DEF RequestType
    <3>2. /\ requested' \in [Replica -> Seq(Command)]
          /\ slotPending' \in [Client -> Seq(Command)]
      BY <1>5, <3>1 DEF PollSlot, RequestType
    <3> QED  BY <1>5, <3>2 DEF PollSlot, RequestType
  <2> QED  BY <2>1, <2>2, <2>3 DEF DataType
<1>6. ASSUME NEW c \in Client, ClientAdvance(c) \/ ClientAgain(c) PROVE DataType'
  <2>1. PICK more \in BOOLEAN : PassFrame(c, more)
    BY <1>6, PassesFrame
  <2> QED  BY <2>1, PassFrameType
<1>7. ASSUME NEW c \in Client, ClientRevisit(c) PROVE DataType'
  <2>1. ListsType' /\ RequestType' /\ LinkType' /\ CacheType' /\ ReplicaType'
    BY <1>7 DEF ClientRevisit, serverVars, threadVars,
       ListsType, RequestType, LinkType, CacheType, ReplicaType
  <2>2. LoopType'
    BY <1>7 DEF ClientRevisit, LoopType, serverVars
  <2> QED  BY <2>1, <2>2 DEF DataType
<1>8. ASSUME NEW c \in Client, GetCommands(c) PROVE DataType'
  <2>1. ListsType' /\ RequestType' /\ LinkType'
    BY <1>8 DEF GetCommands, serverVars,
       ListsType, RequestType, LinkType
  <2>2. LoopType'
    BY <1>8 DEF GetCommands, LoopType, serverVars
  <2>3. CacheType'
    <3>1. /\ DOMAIN cached' = Client
          /\ \A d \in Client : DOMAIN cached'[d] = DOMAIN cached[d]
          /\ \A d \in Client : \A k \in DOMAIN cached[d] :
               cached'[d][k] = cached[d][k] \/ cached'[d][k] = <<>>
      BY <1>8 DEF GetCommands, CacheType
    <3>2. \A d \in Client : \A k \in DOMAIN cached[d] :
            cached'[d][k] \in Seq(1 .. Len(lists))
      BY <3>1, EmptySeq DEF CacheType
    <3> QED  BY <1>8, <3>1, <3>2 DEF GetCommands, CacheType, serverVars
  <2>4. ReplicaType'
    <3>1. cached[c][key[c]] \in Seq(1 .. Len(lists))
      BY <1>8 DEF GetCommands, CacheType
    <3>2. pending[c] \o cached[c][key[c]] \in Seq(1 .. Len(lists))
      BY <3>1 DEF ReplicaType
    <3> QED  BY <1>8, <3>2 DEF GetCommands, ReplicaType, serverVars
  <2> QED  BY <2>1, <2>2, <2>3, <2>4 DEF DataType
<1>9. ASSUME NEW c \in Client, GiveUpWaiting(c) PROVE DataType'
  <2>1. ListsType' /\ RequestType' /\ LinkType' /\ CacheType' /\ ReplicaType'
    BY <1>9 DEF GiveUpWaiting, serverVars, threadVars,
       ListsType, RequestType, LinkType, CacheType, ReplicaType
  <2>2. LoopType'
    BY <1>9 DEF GiveUpWaiting, LoopType, serverVars
  <2> QED  BY <2>1, <2>2 DEF DataType
<1>10. ASSUME NEW c \in Client, GiveCommands(c) PROVE DataType'
  <2>1. ListsType' /\ RequestType' /\ LinkType' /\ CacheType'
    BY <1>10 DEF GiveCommands, serverVars, threadVars,
       ListsType, RequestType, LinkType, CacheType
  <2>2. LoopType'
    <3>1. PausedAfter(paused[c], lists[Head(pending[c])].cmds) \in BOOLEAN
      BY PausedAfterType, Members DEF LoopType
    <3> QED  BY <1>10, <3>1 DEF GiveCommands, LoopType, serverVars
  <2>3. ReplicaType'
    <3>1. /\ Head(pending[c]) \in 1 .. Len(lists)
          /\ Tail(pending[c]) \in Seq(1 .. Len(lists))
      BY <1>10 DEF GiveCommands, ReplicaType
    <3>2. [list |-> Head(pending[c]), key |-> key[c]]
            \in [list : 1 .. Len(lists), key : Nat]
      BY <3>1, Members DEF LoopType
    <3>3. Append(executed[c], [list |-> Head(pending[c]), key |-> key[c]])
            \in Seq([list : 1 .. Len(lists), key : Nat])
      BY <3>2, AppendType, Zenon DEF ReplicaType
    <3> QED  BY <1>10, <3>1, <3>3 DEF GiveCommands, ReplicaType, serverVars
  <2> QED  BY <2>1, <2>2, <2>3 DEF DataType
<1>11. ASSUME NEW c \in Client, GivenAll(c) PROVE DataType'
  <2>1. ListsType' /\ RequestType' /\ LinkType' /\ CacheType' /\ ReplicaType'
    BY <1>11 DEF GivenAll, serverVars, threadVars,
       ListsType, RequestType, LinkType, CacheType, ReplicaType
  <2>2. LoopType'
    BY <1>11 DEF GivenAll, LoopType, serverVars
  <2> QED  BY <2>1, <2>2 DEF DataType
<1>12. ASSUME NEW c \in Client, ClientUpdate(c) PROVE DataType'
  <2>1. ListsType' /\ CacheType' /\ ReplicaType'
    BY <1>12 DEF ClientUpdate, Leave, serverVars, threadVars,
       ListsType, CacheType, ReplicaType
  <2>2. LoopType'
    BY <1>12 DEF ClientUpdate, LoopType, serverVars
  <2>3. RequestType'
    <3>1. Batch(requested[c]) \in Seq(Command)
      BY BatchType, Members DEF RequestType
    <3>2. Append(uplink[c], Batch(requested[c])) \in Seq(Seq(Command))
      BY <3>1 DEF RequestType
    <3>3. PICK u \in Seq(Seq(Command)) :
            uplink' = [uplink EXCEPT ![c] = u] \/ uplink' = uplink
      BY <1>12, <3>2 DEF ClientUpdate, RequestType
    <3>4. uplink' \in [Client -> Seq(Seq(Command))]
      BY <3>3 DEF RequestType
    <3>5. requested' \in [Replica -> Seq(Command)]
      BY <1>12, EmptySeq DEF ClientUpdate, RequestType
    <3> QED  BY <1>12, <3>4, <3>5 DEF ClientUpdate, RequestType, serverVars
  <2>4. LinkType'
    <3>1. CASE ClientConnected(c)
      BY <1>12, <3>1 DEF ClientUpdate, LinkType, serverVars, threadVars
    <3>2. CASE ~ClientConnected(c)
      <4>1. Leave(c) /\ UNCHANGED <<lists, net, missed>>
        BY <1>12, <3>2 DEF ClientUpdate, serverVars, threadVars
      <4> QED  BY <4>1 DEF Leave, LinkType
    <3> QED  BY <3>1, <3>2
  <2> QED  BY <2>1, <2>2, <2>3, <2>4 DEF DataType
<1>13. ASSUME NEW c \in Client, NetEnter(c) PROVE DataType'
  <2>1. ListsType' /\ LoopType' /\ RequestType' /\ CacheType' /\ ReplicaType'
    BY <1>13 DEF NetEnter, serverVars, mainVars,
       ListsType, LoopType, RequestType, CacheType, ReplicaType
  <2>2. LinkType'
    BY <1>13 DEF NetEnter, LinkType, serverVars
  <2> QED  BY <2>1, <2>2 DEF DataType
<1>14. ASSUME NEW c \in Client, NetReceive(c) PROVE DataType'
  <2>1. ListsType' /\ LoopType' /\ RequestType' /\ ReplicaType'
    BY <1>14 DEF NetReceive, serverVars, mainVars,
       ListsType, LoopType, RequestType, ReplicaType
  <2>2. LinkType'
    <3>1. Tail(downlink[c]) \in Seq(0 .. Len(lists))
      BY <1>14 DEF NetReceive, LinkType
    <3> QED  BY <1>14, <3>1 DEF NetReceive, LinkType, serverVars
  <2>3. CacheType'
    <3> DEFINE id == Head(downlink[c])
               k == lists[id].key
    <3>1. id \in 1 .. Len(lists)
      BY <1>14 DEF NetReceive, Cut, LinkType
    <3>2. k \in Nat
      <4>1. lists[id] \in [key : Nat, cmds : Seq(Command), paused : BOOLEAN]
        BY <3>1, ElementOfSeq, Zenon DEF ListsType
      <4> QED  BY <4>1
    <3> HIDE DEF id, k
    <3>3. /\ DOMAIN Stored(cached[c], k, id) \subseteq Nat
          /\ \A j \in DOMAIN Stored(cached[c], k, id) :
               Stored(cached[c], k, id)[j] \in Seq(1 .. Len(lists))
      <4>1. DOMAIN Stored(cached[c], k, id) = DOMAIN cached[c] \cup {k}
        BY DEF Stored
      <4>2. <<id>> \in Seq(1 .. Len(lists))
        BY <3>1
      <4>3. ASSUME k \in DOMAIN cached[c]
            PROVE  Append(cached[c][k], id) \in Seq(1 .. Len(lists))
        BY <3>1, <4>3, AppendType DEF CacheType
      <4>4. ASSUME NEW j \in DOMAIN cached[c] \cup {k}
            PROVE  Stored(cached[c], k, id)[j] \in Seq(1 .. Len(lists))
        BY <4>2, <4>3, <4>4 DEF Stored, CacheType
      <4> QED  BY <3>2, <4>1, <4>4 DEF CacheType
    <3> USE DEF id, k
    <3>4. /\ DOMAIN cached' = Client
          /\ cached'[c] = Stored(cached[c], k, id)
          /\ \A d \in Client \ {c} : cached'[d] = cached[d]
      BY <1>14 DEF NetReceive, CacheType
    <3>5. cachedLast' \in [Client -> Nat] /\ received' \in [Client -> Nat]
      BY <1>14, <3>2 DEF NetReceive, CacheType
    <3> QED  BY <1>14, <3>3, <3>4, <3>5 DEF NetReceive, CacheType, serverVars
  <2> QED  BY <2>1, <2>2, <2>3 DEF DataType
<1>15. ASSUME NEW c \in Client, NetFail(c) PROVE DataType'
  <2>1. ListsType' /\ LoopType' /\ RequestType' /\ CacheType' /\ ReplicaType'
    BY <1>15 DEF NetFail, Leave, serverVars, threadVars, mainVars,
       ListsType, LoopType, RequestType, CacheType, ReplicaType
  <2>2. LinkType'
    BY <1>15 DEF NetFail, Leave, LinkType, serverVars, threadVars
  <2> QED  BY <2>1, <2>2 DEF DataType
<1>16. ASSUME NEW c \in Client, NetNotice(c) PROVE DataType'
  <2>1. ListsType' /\ LoopType' /\ RequestType' /\ CacheType' /\ ReplicaType'
    BY <1>16 DEF NetNotice, Leave, serverVars, mainVars,
       ListsType, LoopType, RequestType, CacheType, ReplicaType
  <2>2. LinkType'
    BY <1>16 DEF NetNotice, Leave, LinkType, serverVars
  <2> QED  BY <2>1, <2>2 DEF DataType
<1>17. ASSUME NEW c \in Client, NetTimeout(c) PROVE DataType'
  <2>1. ListsType' /\ LoopType' /\ RequestType' /\ CacheType' /\ ReplicaType'
    BY <1>17 DEF NetTimeout, Leave, serverVars, mainVars,
       ListsType, LoopType, RequestType, CacheType, ReplicaType
  <2>2. LinkType'
    BY <1>17 DEF NetTimeout, Leave, LinkType, serverVars
  <2> QED  BY <2>1, <2>2 DEF DataType
<1>18. ASSUME NEW c \in Client, SlotReceive(c) PROVE DataType'
  <2>1. ListsType' /\ LoopType' /\ LinkType' /\ CacheType' /\ ReplicaType'
    BY <1>18 DEF SlotReceive, threadVars, mainVars,
       ListsType, LoopType, LinkType, CacheType, ReplicaType
  <2>2. RequestType'
    <3>1. Head(uplink[c]) \in Seq(Command) /\ Tail(uplink[c]) \in Seq(Seq(Command))
      BY <1>18 DEF SlotReceive, RequestType
    <3>2. slotPending[c] \o Head(uplink[c]) \in Seq(Command)
      BY <3>1 DEF RequestType
    <3> QED  BY <1>18, <3>1, <3>2 DEF SlotReceive, RequestType
  <2> QED  BY <2>1, <2>2 DEF DataType
<1>19. ASSUME NEW c \in Client, Drop(c) PROVE DataType'
  <2>1. ListsType' /\ LoopType' /\ CacheType' /\ ReplicaType'
    BY <1>19 DEF Drop, serverVars, threadVars, mainVars,
       ListsType, LoopType, CacheType, ReplicaType
  <2>2. RequestType'
    <3>1. PICK i \in 0 .. Len(uplink[c]) :
            uplink' = [uplink EXCEPT ![c] = SubSeq(@, 1, i)]
      BY <1>19 DEF Drop
    <3>2. \A m \in 1 .. i : uplink[c][m] \in Seq(Command)
      BY DEF RequestType
    <3>3. SubSeq(uplink[c], 1, i) \in Seq(Seq(Command))
      BY <3>2, SubSeqProperties
    <3> QED  BY <1>19, <3>1, <3>3 DEF Drop, RequestType, serverVars
  <2>3. LinkType'
    <3>1. PICK j \in 0 .. Len(downlink[c]) :
            downlink' = [downlink EXCEPT ![c] = SubSeq(@, 1, j)]
      BY <1>19 DEF Drop
    <3>2. \A m \in 1 .. j : downlink[c][m] \in 0 .. Len(lists)
      BY DEF LinkType
    <3>3. SubSeq(downlink[c], 1, j) \in Seq(0 .. Len(lists))
      BY <3>2, SubSeqProperties
    <3> QED  BY <1>19, <3>1, <3>3 DEF Drop, LinkType, serverVars, threadVars
  <2> QED  BY <2>1, <2>2, <2>3 DEF DataType
<1> QED
  BY <1>1, <1>2, <1>3, <1>4, <1>5, <1>6, <1>7, <1>8, <1>9, <1>10, <1>11, <1>12, <1>13, <1>14, <1>15, <1>16, <1>17, <1>18, <1>19
     DEF Next, ServerNext, ClientMain, ClientNet

(* Every step keeps the number of frames to catch up.                      *)
LEMMA CatchUpNext == TypeOK /\ [Next]_vars => CatchUpType'
<1> SUFFICES ASSUME TypeOK, [Next]_vars PROVE CatchUpType'
  OBVIOUS
<1>0. CatchUpType /\ LoopType /\ CacheType
  BY DEF TypeOK
<1>1. ASSUME UNCHANGED catchVars PROVE CatchUpType'
  BY <1>0, <1>1 DEF CatchUpType, catchVars
<1>2. ASSUME NEW c \in Client, ClientAdvance(c) PROVE CatchUpType'
  <2>1. FramesToCatchUp(c) \subseteq Nat
    BY FramesType
  <2>2. PICK n \in FramesToCatchUp(c) :
          /\ catchUp' = [catchUp EXCEPT ![c] = IF n > 0 THEN n - 1 ELSE 0]
          /\ strayed' = [strayed EXCEPT ![c] = @ \/ (paused[c] /\ n > 0)]
          /\ again' = [again EXCEPT ![c] = n > 0]
    BY <1>2 DEF ClientAdvance, PassFrame
  <2>3. (IF n > 0 THEN n - 1 ELSE 0) \in Nat
    BY <2>1
  <2>4. catchUp' \in [Client -> Nat]
    BY <1>0, <2>2, <2>3 DEF CatchUpType
  <2>5. again' \in [Client -> BOOLEAN]
    BY <1>0, <2>2 DEF CatchUpType
  <2>6. strayed' \in [Client -> BOOLEAN]
    BY <1>0, <2>2 DEF CatchUpType
  <2> QED  BY <2>4, <2>5, <2>6 DEF CatchUpType
<1>3. ASSUME NEW c \in Client, ClientAgain(c) PROVE CatchUpType'
  BY <1>0, <1>3 DEF CatchUpType, ClientAgain, PassFrame
<1>4. ASSUME NEW c \in Client, ClientRevisit(c) PROVE CatchUpType'
  BY <1>0, <1>4 DEF CatchUpType, ClientRevisit
<1>5. ASSUME NEW c \in Client, \/ GetCommands(c) \/ GiveUpWaiting(c) \/ GiveCommands(c)
                               \/ GivenAll(c) \/ ClientUpdate(c)
      PROVE  CatchUpType'
  BY <1>1, <1>5 DEF GetCommands, GiveUpWaiting, GiveCommands, GivenAll, ClientUpdate
<1>6. ASSUME NEW c \in Client, ClientNet(c) \/ Drop(c) \/ SlotReceive(c) \/ PollSlot(c)
      PROVE  CatchUpType'
  BY <1>1, <1>6 DEF ClientNet, NetEnter, NetReceive, NetFail, NetNotice, NetTimeout, Drop,
     SlotReceive, PollSlot, mainVars, catchVars
<1>7. ASSUME NEW r \in Replica, Request(r) PROVE CatchUpType'
  BY <1>1, <1>7 DEF Request, mainVars, catchVars
<1>8. CASE ServerFrame
  BY <1>1, <1>8 DEF ServerFrame, mainVars, catchVars
<1>9. ASSUME NEW stop \in Stops, ServerKeyframe(stop) PROVE CatchUpType'
  BY <1>1, <1>9 DEF ServerKeyframe, mainVars, catchVars
<1>10. CASE UNCHANGED vars
  BY <1>1, <1>10 DEF vars, catchVars
<1> QED
  BY <1>2, <1>3, <1>4, <1>5, <1>6, <1>7, <1>8, <1>9, <1>10 DEF Next, ServerNext, ClientMain

(* Every step keeps the types.                                             *)
LEMMA NextType == TypeOK /\ [Next]_vars => TypeOK'
BY DataNext, CatchUpNext DEF TypeOK, DataType

(* Every variable keeps its type in every behaviour.                       *)
THEOREM TypeCorrect == Spec => []TypeOK
BY InitType, NextType, PTL DEF Spec

-----------------------------------------------------------------------------
(* The inductive invariant: consequences *)

(* An entry of the log has the type of a list.                             *)
LEMMA ListEntries ==
  ASSUME ListsType
  PROVE  /\ Len(lists) \in Nat
         /\ \A i \in 1 .. Len(lists) :
              lists[i].key \in Nat /\ lists[i].paused \in BOOLEAN
         /\ \A i \in 0 .. Len(lists) : KeyOf(i) \in Nat /\ PausedAt(i) \in BOOLEAN
<1>1. Len(lists) \in Nat
  BY DEF ListsType
<1>2. ASSUME NEW i \in 1 .. Len(lists)
      PROVE  lists[i].key \in Nat /\ lists[i].paused \in BOOLEAN
  <2>1. lists[i] \in [key : Nat, cmds : Seq(Command), paused : BOOLEAN]
    BY ElementOfSeq, Zenon DEF ListsType
  <2> QED  BY <2>1
<1>3. \A i \in 0 .. Len(lists) : i = 0 \/ i \in 1 .. Len(lists)
  BY <1>1
<1> QED  BY <1>1, <1>2, <1>3 DEF KeyOf, PausedAt

(* The lengths of the sequences of a client are numbers.                   *)
LEMMA ReplicaLengths ==
  ASSUME ReplicaType, NEW c \in Client
  PROVE  /\ Len(executed[c]) \in Nat /\ DOMAIN executed[c] = 1 .. Len(executed[c])
         /\ Len(pending[c]) \in Nat /\ DOMAIN pending[c] = 1 .. Len(pending[c])
         /\ Taken(c) \in Nat /\ Len(executed[c]) <= Taken(c)
         /\ Taken(c) = Len(executed[c]) + Len(pending[c])
BY DEF ReplicaType, Taken

(* Where the client is decides which lists can still come to it.           *)
LEMMA NothingPassed ==
  ASSUME TypeOK, ListsInv, NEW c \in Client, PlaceInv(c), Taken(c) <= Len(lists)
  PROVE  \A i \in Taken(c) + 1 .. Len(lists) : lists[i].key >= key[c]
<1>0. ListsType /\ LoopType /\ ReplicaType
  BY DEF TypeOK
<1> DEFINE E == Len(executed[c])
<1>1. E \in Nat /\ Taken(c) \in Nat /\ E <= Taken(c)
  BY <1>0, ReplicaLengths
<1>2. Len(lists) \in Nat
  BY <1>0, ListEntries
<1> SUFFICES ASSUME NEW i \in Taken(c) + 1 .. Len(lists)
             PROVE  lists[i].key >= key[c]
  OBVIOUS
<1>7. /\ i \in Nat /\ i # 0 /\ i \in 1 .. Len(lists) /\ i \in 0 .. Len(lists)
      /\ E \in 0 .. Len(lists) /\ Taken(c) \in 0 .. Len(lists)
      /\ E <= i /\ Taken(c) <= i
  BY <1>1, <1>2
<1>3. lists[i].key = KeyOf(i) /\ KeyOf(i) \in Nat /\ Len(lists) \in Nat
  BY <1>0, <1>7, ListEntries DEF KeyOf
<1>4. CASE key[c] = KeyOf(E) \/ key[c] = KeyOf(Taken(c))
  <2>1. KeyOf(E) <= KeyOf(i) /\ KeyOf(Taken(c)) <= KeyOf(i)
    BY <1>7 DEF ListsInv
  <2>2. KeyOf(E) \in Nat /\ KeyOf(Taken(c)) \in Nat
    BY <1>0, <1>7, ListEntries
  <2> QED  BY <1>3, <1>4, <2>1, <2>2
<1>5. CASE pc[c] = "wait" /\ key[c] = KeyOf(E) + 1 /\ ~PausedAt(E)
  <2>1. pending[c] = <<>>
    BY <1>5 DEF PlaceInv
  <2>2. Taken(c) = E
    BY <1>1, <2>1 DEF Taken
  <2>3. /\ E + 1 \in 1 .. Len(lists) /\ E + 1 \in 0 .. Len(lists)
        /\ E + 1 <= i /\ (E + 1) - 1 = E /\ E + 1 # 0
    BY <1>1, <1>2, <2>2
  <2>4. KeyOf(E + 1) = KeyOf(E) + 1
    BY <1>1, <1>5, <2>3 DEF ListsInv, KeyOf
  <2>5. KeyOf(E + 1) <= KeyOf(i)
    BY <1>7, <2>3 DEF ListsInv
  <2>6. KeyOf(E) \in Nat
    BY <1>0, <1>7, ListEntries
  <2> QED  BY <1>3, <1>5, <2>4, <2>5, <2>6
<1>6. \/ key[c] = KeyOf(E) \/ key[c] = KeyOf(Taken(c))
      \/ pc[c] = "wait" /\ key[c] = KeyOf(E) + 1 /\ ~PausedAt(E)
  BY <1>0, Zenon DEF PlaceInv, LoopType
<1> QED  BY <1>4, <1>5, <1>6

(* The cache and the client agree: a client that waits for a keyframe      *)
(* cannot see a later list before the entry of that keyframe.              *)
LEMMA NoLaterList ==
  ASSUME TypeOK, NEW c \in Client, KeptInv(c),
         pc[c] = "wait", key[c] \notin DOMAIN cached[c]
  PROVE  ~(cachedLast[c] > key[c])
<1>1. key[c] \in Nat /\ cachedLast[c] \in Nat
  BY Members DEF TypeOK, LoopType, CacheType
<1>2. key[c] >= 1 /\ 1 .. cachedLast[c] \subseteq DOMAIN cached[c]
  BY DEF KeptInv
<1> QED  BY <1>1, <1>2

(* ClientInv(c) depends on nothing but the state of c and the log.         *)
LEMMA ClientFrame ==
  ASSUME NEW c \in Client, ClientInv(c), UNCHANGED lists,
         missed'[c] = missed[c], strayed'[c] = strayed[c],
         link'[c] = link[c], downlink'[c] = downlink[c],
         received'[c] = received[c], cachedLast'[c] = cachedLast[c],
         cached'[c] = cached[c], executed'[c] = executed[c],
         pending'[c] = pending[c], paused'[c] = paused[c], pc'[c] = pc[c],
         key'[c] = key[c]
  PROVE  ClientInv(c)'
<1>1. \A i : KeyOf(i)' = KeyOf(i) /\ PausedAt(i)' = PausedAt(i)
  BY DEF KeyOf, PausedAt
<1>2. Taken(c)' = Taken(c)
  BY DEF Taken
<1>3. WireInv(c) => WireInv(c)'
  BY <1>1 DEF WireInv
<1>4. CacheInv(c) => CacheInv(c)'
  BY <1>2 DEF CacheInv, EntryInv, InEntry
<1>5. PlaceInv(c) => PlaceInv(c)'
  BY <1>1, <1>2 DEF PlaceInv
<1>6. KeptInv(c) => KeptInv(c)'
  BY DEF KeptInv
<1> QED  BY <1>3, <1>4, <1>5, <1>6 DEF ClientInv, Attached

(* ListsInv depends on the log and the state of the server.                *)
LEMMA ListsFrame ==
  ASSUME ListsInv, UNCHANGED lists, key'[Server] = key[Server],
         paused'[Server] = paused[Server]
  PROVE  ListsInv'
<1>1. \A i : KeyOf(i)' = KeyOf(i) /\ PausedAt(i)' = PausedAt(i)
  BY DEF KeyOf, PausedAt
<1> QED  BY <1>1 DEF ListsInv


(* What is invariant about client c depends on these alone.                *)
Same(c) ==
  /\ missed'[c] = missed[c] /\ strayed'[c] = strayed[c]
  /\ link'[c] = link[c] /\ downlink'[c] = downlink[c]
  /\ received'[c] = received[c] /\ cachedLast'[c] = cachedLast[c]
  /\ cached'[c] = cached[c] /\ executed'[c] = executed[c]
  /\ pending'[c] = pending[c] /\ paused'[c] = paused[c] /\ pc'[c] = pc[c]
  /\ key'[c] = key[c]

LEMMA OneClient ==
  ASSUME IndInv, NEW c \in Client, UNCHANGED lists,
         key'[Server] = key[Server], paused'[Server] = paused[Server],
         \A d \in Client \ {c} : Same(d),
         ClientInv(c)'
  PROVE  IndInv'
<1>1. ListsInv'
  BY ListsFrame DEF IndInv
<1>2. ASSUME NEW d \in Client \ {c} PROVE ClientInv(d)'
  <2>1. Same(d) /\ ClientInv(d) /\ d \in Client
    BY DEF IndInv
  <2> QED  BY <2>1, ClientFrame DEF Same
<1> QED  BY <1>1, <1>2 DEF IndInv

(* How far a client has executed, taken and received the log.              *)
LEMMA ClientFacts ==
  ASSUME TypeOK, NEW c \in Client, WireInv(c), CacheInv(c)
  PROVE  /\ Len(executed[c]) \in Nat /\ Taken(c) \in Nat /\ received[c] \in Nat
         /\ Len(lists) \in Nat /\ Len(downlink[c]) \in Nat
         /\ Len(executed[c]) <= Taken(c)
         /\ Taken(c) <= received[c] /\ received[c] <= Len(lists)
<1>1. ListsType /\ ReplicaType /\ CacheType /\ LinkType
  BY DEF TypeOK
<1>2. /\ Len(executed[c]) \in Nat /\ Taken(c) \in Nat /\ Len(lists) \in Nat
      /\ Len(executed[c]) <= Taken(c)
  BY <1>1, ReplicaLengths, ListEntries
<1>3. received[c] \in Nat /\ Len(downlink[c]) \in Nat
  BY <1>1 DEF CacheType, LinkType
<1> QED  BY <1>2, <1>3 DEF WireInv, CacheInv

(* GetCommands: the entry of the keyframe holds exactly the lists that the *)
(* client has to execute there, from the first that it has not taken on.   *)
LEMMA Run ==
  ASSUME TypeOK, ListsInv, NEW c \in Client, WireInv(c), CacheInv(c), PlaceInv(c),
         pc[c] = "wait", key[c] \in DOMAIN cached[c]
  PROVE  LET run == cached[c][key[c]]
             E == Len(executed[c])
         IN /\ pending[c] = <<>> /\ Taken(c) = E
            /\ run \in Seq(1 .. Len(lists))
            /\ E + Len(run) <= received[c]
            /\ \A j \in 1 .. Len(run) : run[j] = E + j
            /\ \A j \in 1 .. Len(run) : lists[E + j].key = key[c]
            /\ key[c] = KeyOf(E + Len(run))
<1>0. ListsType /\ LoopType /\ ReplicaType /\ CacheType
  BY DEF TypeOK
<1> DEFINE f == key[c]
           run == cached[c][f]
           n == Len(run)
           E == Len(executed[c])
           R == received[c]
<1>1. pending[c] = <<>>
  BY DEF PlaceInv
<1>2. Taken(c) = E
  <2>1. Len(executed[c]) \in Nat
    BY <1>0, ReplicaLengths
  <2> QED  BY <1>1, <2>1 DEF Taken
<1>3. E \in Nat /\ R \in Nat /\ Len(lists) \in Nat /\ E <= R /\ R <= Len(lists)
  BY <1>2, ClientFacts
<1>4. run \in Seq(1 .. Len(lists)) /\ n \in Nat /\ DOMAIN run = 1 .. n
  BY <1>0 DEF CacheType
<1>5. \A j \in 1 .. n : /\ run[j] = run[1] + j - 1
                        /\ run[j] \in E + 1 .. R
                        /\ lists[run[j]].key = f
  BY <1>2, <1>4 DEF CacheInv, EntryInv, InEntry
<1>6. \A i \in E + 1 .. R : \E j \in DOMAIN cached[c][lists[i].key] :
        cached[c][lists[i].key][j] = i
  BY <1>2 DEF CacheInv, EntryInv, InEntry
<1>7. \A i, j \in 1 .. Len(lists) : i <= j => lists[i].key <= lists[j].key
  BY <1>3 DEF ListsInv, KeyOf
<1>8. \A i \in 1 .. Len(lists) : lists[i].key \in Nat
  BY <1>0, ListEntries
<1>9. f \in Nat
  BY <1>0, Members DEF LoopType
<1>10. ASSUME n # 0 PROVE run[1] = E + 1
  <2>1. 1 \in 1 .. n /\ run[1] \in E + 1 .. R /\ lists[run[1]].key = f
    BY <1>4, <1>5, <1>10
  <2>2. /\ E + 1 \in E + 1 .. R /\ E + 1 \in 1 .. Len(lists) /\ run[1] \in 1 .. Len(lists)
        /\ E + 1 \in E + 1 .. Len(lists) /\ E + 1 <= run[1]
    BY <1>3, <2>1
  <2>3. lists[E + 1].key >= f
    BY <1>2, <1>3, <2>2, NothingPassed
  <2>4. lists[E + 1].key <= f
    BY <1>7, <2>1, <2>2
  <2>5. lists[E + 1].key = f
    BY <1>8, <1>9, <2>2, <2>3, <2>4
  <2>6. PICK j \in 1 .. n : run[j] = E + 1
    BY <1>4, <1>6, <2>2, <2>5
  <2>7. run[j] = run[1] + j - 1 /\ run[1] \in Nat /\ run[1] >= E + 1
    BY <1>3, <1>5, <2>1, <2>6
  <2> QED  BY <1>3, <2>6, <2>7
<1>11. \A j \in 1 .. n : run[j] = E + j
  <2> SUFFICES ASSUME NEW j \in 1 .. n PROVE run[j] = E + j
    OBVIOUS
  <2>1. n # 0
    BY <1>4
  <2> QED  BY <1>3, <1>5, <1>10, <2>1
<1>12. \A j \in 1 .. n : lists[E + j].key = f
  BY <1>5, <1>11
<1>13. E + n <= R
  <2>1. CASE n = 0
    BY <1>3, <2>1
  <2>2. CASE n # 0
    <3>1. n \in 1 .. n
      BY <1>4, <2>2
    <3>2. E + n \in E + 1 .. R
      BY <1>5, <1>11, <3>1
    <3>3. n \in Nat
      BY <1>4
    <3> HIDE DEF n, E
    <3> QED  BY <1>3, <3>2, <3>3
  <2> QED  BY <2>1, <2>2
<1>14. f = KeyOf(E + n)
  <2>1. CASE n # 0
    <3>1. n \in 1 .. n
      BY <1>4, <2>1
    <3>2. n \in Nat
      BY <1>4
    <3>3. E + n # 0
      <4> HIDE DEF n, E
      <4> QED  BY <1>3, <3>1, <3>2
    <3> QED  BY <1>12, <3>1, <3>3 DEF KeyOf
  <2>2. CASE n = 0
    <3>1. KeyOf(E) \in Nat /\ E + n = E
      BY <1>0, <1>3, <2>2, ListEntries
    <3>2. ASSUME f = KeyOf(E) + 1 PROVE FALSE
      <4>1. PICK i \in 1 .. R : lists[i].key = f
        BY DEF CacheInv, EntryInv, InEntry
      <4>2. /\ i \in 0 .. Len(lists) /\ E \in 0 .. Len(lists)
            /\ i \in 1 .. Len(lists) /\ KeyOf(i) = f
        BY <1>3, <4>1 DEF KeyOf
      <4>3. i <= E => KeyOf(i) <= KeyOf(E)
        BY <4>2 DEF ListsInv
      <4>4. i \in E + 1 .. R
        BY <1>3, <3>1, <3>2, <4>2, <4>3
      <4>5. PICK j \in DOMAIN run : run[j] = i
        BY <1>6, <4>1, <4>4
      <4> QED  BY <1>4, <2>2, <4>5
    <3> QED  BY <3>1, <3>2 DEF PlaceInv
  <2> QED  BY <2>1, <2>2
<1> QED  BY <1>1, <1>2, <1>4, <1>11, <1>12, <1>13, <1>14

(* The client takes the entry of its keyframe.                             *)
LEMMA GetCommandsInv ==
  ASSUME TypeOK, IndInv, NEW c \in Client, Attached(c), GetCommands(c)
  PROVE  CacheInv(c)' /\ PlaceInv(c)'
<1> DEFINE f == key[c]
           run == cached[c][f]
           n == Len(run)
           E == Len(executed[c])
           R == received[c]
<1>0. CacheType /\ ReplicaType /\ LoopType
  BY DEF TypeOK
<1>1. ListsInv /\ WireInv(c) /\ CacheInv(c) /\ PlaceInv(c)
  BY DEF IndInv, ClientInv, Attached
<1>2. pc[c] = "wait" /\ f \in DOMAIN cached[c]
  BY DEF GetCommands
<1>3. /\ pending[c] = <<>> /\ Taken(c) = E
      /\ run \in Seq(1 .. Len(lists))
      /\ E + n <= R
      /\ \A j \in 1 .. n : run[j] = E + j
      /\ \A j \in 1 .. n : lists[E + j].key = f
      /\ f = KeyOf(E + n)
  BY <1>1, <1>2, Run
<1>4. /\ E \in Nat /\ R \in Nat /\ n \in Nat /\ DOMAIN run = 1 .. n
      /\ Len(lists) \in Nat /\ R <= Len(lists)
  BY <1>1, <1>3, ClientFacts
<1>5. /\ pending'[c] = run
      /\ pc'[c] = "give"
      /\ cached'[c] = [cached[c] EXCEPT ![f] = <<>>]
  <2>1. pending'[c] = pending[c] \o run
    BY <1>0 DEF GetCommands, ReplicaType
  <2>2. <<>> \o run = run
    BY <1>3
  <2>3. pc'[c] = "give"
    BY <1>0 DEF GetCommands, LoopType
  <2>4. cached'[c] = [cached[c] EXCEPT ![f] = <<>>]
    BY <1>0 DEF GetCommands, CacheType
  <2> QED  BY <1>3, <2>1, <2>2, <2>3, <2>4
<1>6. UNCHANGED <<lists, key, paused, link, downlink, cachedLast, received, executed, missed>>
  BY DEF GetCommands, serverVars
<1>7. Taken(c)' = E + n
  BY <1>5, <1>6 DEF Taken
<1>8. \A i : KeyOf(i)' = KeyOf(i) /\ PausedAt(i)' = PausedAt(i)
  BY <1>6 DEF KeyOf, PausedAt
<1>10. CacheInv(c)'
  <2>1. DOMAIN cached'[c] = DOMAIN cached[c] /\ cached'[c][f] = <<>>
        /\ \A k \in DOMAIN cached[c] : k # f => cached'[c][k] = cached[c][k]
    BY <1>2, <1>5
  <2>2. \A i \in E + 1 .. R : lists[i].key # f => i \in E + n + 1 .. R
    <3> HIDE DEF n, E, R, f
    <3> SUFFICES ASSUME NEW i \in E + 1 .. R, i \notin E + n + 1 .. R
                 PROVE  lists[i].key = f
      OBVIOUS
    <3>1. i - E \in 1 .. n /\ E + (i - E) = i
      BY <1>4
    <3> QED  BY <1>3, <3>1 DEF n, E, f
  <2>3. ASSUME NEW k \in DOMAIN cached[c], k # f PROVE EntryInv(c, k)'
    <3>1. EntryInv(c, k) /\ cached'[c][k] = cached[c][k]
      BY <1>1, <2>1, <2>3 DEF CacheInv
    <3>2. ASSUME NEW j \in DOMAIN cached[c][k]
          PROVE  cached[c][k][j] \in E + n + 1 .. R
      <4>1. cached[c][k][j] \in E + 1 .. R /\ lists[cached[c][k][j]].key = k
        BY <1>3, <3>1 DEF EntryInv
      <4> QED  BY <2>2, <2>3, <4>1
    <3> QED  BY <1>6, <1>7, <3>1, <3>2 DEF EntryInv
  <2>4. EntryInv(c, f)'
    <3>1. EntryInv(c, f) /\ DOMAIN cached'[c][f] = {}
      BY <1>1, <1>2, <2>1 DEF CacheInv
    <3> QED  BY <1>6, <3>1 DEF EntryInv
  <2>5. ASSUME NEW i \in E + n + 1 .. R PROVE InEntry(c, i)'
    <3>1. i \in E + 1 .. R /\ i \in 1 .. R
      <4> HIDE DEF n, E, R
      <4> QED  BY <1>4
    <3>2. PICK j \in DOMAIN cached[c][lists[i].key] : cached[c][lists[i].key][j] = i
      BY <1>1, <1>3, <3>1 DEF CacheInv, InEntry
    <3>3. ASSUME lists[i].key = f PROVE FALSE
      <4>1. j \in 1 .. n /\ i = E + j
        BY <1>3, <1>4, <3>2, <3>3
      <4> HIDE DEF n, E, R
      <4> QED  BY <1>4, <4>1
    <3>4. lists[i].key \in DOMAIN cached[c]
      BY <1>1, <3>1 DEF CacheInv
    <3> QED  BY <1>6, <2>1, <3>2, <3>3, <3>4 DEF InEntry
  <2>6. \A i \in 1 .. R : lists[i].key \in DOMAIN cached'[c]
    BY <1>1, <2>1 DEF CacheInv
  <2>7. received' = received /\ lists' = lists
    BY <1>6
  <2>8. (Taken(c) <= received[c])'
    BY <1>3, <1>7, <2>7
  <2>9. \A k \in DOMAIN cached'[c] : EntryInv(c, k)'
    <3>1. SUFFICES ASSUME NEW k \in DOMAIN cached'[c] PROVE EntryInv(c, k)'
      OBVIOUS
    <3>2. CASE k = f
      BY <1>6, <2>4, <3>2
    <3> QED  BY <2>1, <2>3, <3>2
  <2>10. \A i \in Taken(c)' + 1 .. received'[c] : InEntry(c, i)'
    BY <1>7, <2>5, <2>7
  <2>11. \A i \in 1 .. received'[c] : lists'[i].key \in DOMAIN cached'[c]
    BY <2>6, <2>7
  <2> QED  BY <2>8, <2>9, <2>10, <2>11 DEF CacheInv
<1>11. PlaceInv(c)'
  BY <1>1, <1>3, <1>4, <1>5, <1>6, <1>7, <1>8 DEF PlaceInv
<1> QED  BY <1>10, <1>11

(* The list that comes next is the one after those received, and the entry *)
(* it goes to holds the lists before it that have the same keyframe.       *)
LEMMA NetReceiveInv ==
  ASSUME TypeOK, IndInv, NEW c \in Client, Attached(c), NetReceive(c)
  PROVE  CacheInv(c)' /\ PlaceInv(c)'
<1> DEFINE R == received[c]
           id == R + 1
           k == lists[id].key
           old == cached[c][k]
           new == cached'[c][k]
           n == Len(old)
<1>0. CacheType /\ ReplicaType /\ LoopType /\ LinkType /\ ListsType
  BY DEF TypeOK
<1>1. ListsInv /\ WireInv(c) /\ CacheInv(c) /\ PlaceInv(c)
  BY DEF IndInv, ClientInv, Attached
<1>2. /\ R \in Nat /\ Taken(c) \in Nat /\ Taken(c) <= R /\ R <= Len(lists)
      /\ Len(lists) \in Nat /\ Len(downlink[c]) \in Nat
  BY <1>1, ClientFacts
<1>3. /\ downlink[c] \in Seq(0 .. Len(lists)) /\ downlink[c] # <<>>
      /\ Len(downlink[c]) >= 1
  BY <1>0 DEF NetReceive, LinkType
<1>4. Head(downlink[c]) = id /\ id \in 1 .. Len(lists)
  <2>1. 1 \in DOMAIN downlink[c]
    BY <1>3
  <2>2. downlink[c][1] = R + 1 /\ R + Len(downlink[c]) <= Len(lists)
    BY <1>1, <2>1 DEF WireInv
  <2> QED  BY <1>2, <1>3, <2>2
<1>5. /\ cachedLast'[c] = k
      /\ cached'[c] = Stored(cached[c], k, id)
      /\ received'[c] = R + 1
      /\ downlink'[c] = Tail(downlink[c])
  BY <1>0, <1>4 DEF NetReceive, CacheType, LinkType
<1>6. UNCHANGED <<lists, key, paused, link, pending, pc, executed, missed>>
  BY DEF NetReceive, serverVars, mainVars
<1>7. Taken(c)' = Taken(c)
  BY <1>6 DEF Taken
<1>8. \A i : KeyOf(i)' = KeyOf(i) /\ PausedAt(i)' = PausedAt(i)
  BY <1>6 DEF KeyOf, PausedAt
<1>10. CacheInv(c)'
  <2>1. /\ DOMAIN cached'[c] = DOMAIN cached[c] \cup {k}
        /\ \A m \in DOMAIN cached[c] : m # k => cached'[c][m] = cached[c][m]
        /\ new = IF k \in DOMAIN cached[c] THEN Append(old, id) ELSE <<id>>
    BY <1>5 DEF Stored
  <2>2. \A m \in DOMAIN cached[c] : EntryInv(c, m)
    BY <1>1 DEF CacheInv
  <2>3. \E i \in 1 .. R + 1 : lists[i].key = k
    BY <1>2
  <2>4. id \in Taken(c) + 1 .. R + 1
    BY <1>2
  <2>5. ASSUME k \notin DOMAIN cached[c]
        PROVE  /\ \A j \in DOMAIN new : /\ new[j] = new[1] + j - 1
                                        /\ new[j] \in Taken(c) + 1 .. R + 1
                                        /\ lists[new[j]].key = k
               /\ \E j \in DOMAIN new : new[j] = id
               /\ \A i \in Taken(c) + 1 .. R : lists[i].key = k =>
                    \E j \in DOMAIN new : new[j] = i
    <3>1. new = <<id>>
      BY <2>1, <2>5
    <3>2. DOMAIN new = {1} /\ new[1] = id
      BY <3>1
    <3>3. \A i \in Taken(c) + 1 .. R : lists[i].key # k
      <4>1. \A i \in Taken(c) + 1 .. R : i \in 1 .. R
        BY <1>2
      <4> QED  BY <1>1, <2>5, <4>1 DEF CacheInv
    <3> QED  BY <1>2, <2>4, <3>2, <3>3
  <2>6. ASSUME k \in DOMAIN cached[c]
        PROVE  /\ \A j \in DOMAIN new : /\ new[j] = new[1] + j - 1
                                        /\ new[j] \in Taken(c) + 1 .. R + 1
                                        /\ lists[new[j]].key = k
               /\ \E j \in DOMAIN new : new[j] = id
               /\ \A i \in Taken(c) + 1 .. R : lists[i].key = k =>
                    \E j \in DOMAIN new : new[j] = i
    <3>1. old \in Seq(1 .. Len(lists)) /\ n \in Nat /\ DOMAIN old = 1 .. n
      BY <1>0, <2>6 DEF CacheType
    <3>2. /\ DOMAIN new = 1 .. n + 1 /\ new[n + 1] = id
          /\ \A j \in 1 .. n : new[j] = old[j]
      <4>1. new = Append(old, id)
        BY <2>1, <2>6
      <4>2. /\ Append(old, id) \in Seq(1 .. Len(lists))
            /\ Len(Append(old, id)) = Len(old) + 1
            /\ Append(old, id)[Len(old) + 1] = id
            /\ \A j \in 1 .. Len(old) : Append(old, id)[j] = old[j]
        <5> HIDE DEF old, id, n
        <5> QED  BY <1>4, <3>1, AppendType
      <4>3. DOMAIN Append(old, id) = 1 .. Len(Append(old, id))
        <5> HIDE DEF old, id
        <5> QED  BY <4>2
      <4> QED  BY <4>1, <4>2, <4>3, Zenon
    <3>3. \A j \in 1 .. n : /\ old[j] = old[1] + j - 1
                            /\ old[j] \in Taken(c) + 1 .. R
                            /\ lists[old[j]].key = k
      BY <2>2, <2>6, <3>1 DEF EntryInv
    <3>4. ASSUME n # 0 PROVE old[n] = R
      <4>1. n \in 1 .. n /\ 1 \in 1 .. n
        BY <3>1, <3>4
      <4>2. old[n] \in Taken(c) + 1 .. R /\ lists[old[n]].key = k
        BY <3>3, <4>1
      <4>3. /\ R \in Taken(c) + 1 .. R /\ R \in 1 .. Len(lists) /\ R <= id
            /\ old[n] \in 1 .. Len(lists) /\ old[n] <= R
        <5>1. id = R + 1 /\ old[n] \in Taken(c) + 1 .. R
          BY <4>2
        <5> HIDE DEF n, old, R, id
        <5> QED  BY <1>2, <5>1
      <4>4. \A i, j \in 1 .. Len(lists) : i <= j => lists[i].key <= lists[j].key
        BY <1>1, <1>2 DEF ListsInv, KeyOf
      <4>5. lists[old[n]].key <= lists[R].key /\ lists[R].key <= k
        BY <1>4, <4>3, <4>4
      <4>6. lists[R].key \in Nat /\ k \in Nat
        BY <1>0, <1>4, <4>3, ListEntries
      <4>7. lists[R].key = k
        BY <4>2, <4>5, <4>6
      <4>8. PICK j \in 1 .. n : old[j] = R
        BY <1>1, <3>1, <4>3, <4>7 DEF CacheInv, InEntry
      <4>9. /\ old[j] = old[1] + j - 1 /\ old[n] = old[1] + n - 1
            /\ old[1] \in Nat /\ old[n] \in Nat
        <5>1. old[1] \in Taken(c) + 1 .. R /\ old[n] \in Taken(c) + 1 .. R
          BY <3>3, <4>1
        <5>2. old[1] \in Nat /\ old[n] \in Nat
          <6> HIDE DEF n, old, R
          <6> QED  BY <1>2, <5>1
        <5> QED  BY <3>3, <4>1, <4>8, <5>2
      <4> HIDE DEF n, old, R
      <4> QED  BY <1>2, <3>1, <4>3, <4>8, <4>9
    <3>5. id = new[1] + (n + 1) - 1
      <4>1. CASE n = 0
        BY <1>2, <3>2, <4>1
      <4>2. CASE n # 0
        <5>1. n \in 1 .. n /\ 1 \in 1 .. n
          BY <3>1, <4>2
        <5>2. old[n] = old[1] + n - 1 /\ old[n] = R /\ new[1] = old[1] /\ old[1] \in Nat
          <6> HIDE DEF n, old, new, R
          <6> QED  BY <1>2, <3>2, <3>3, <3>4, <4>2, <5>1
        <5> HIDE DEF n, old, new, R
        <5> QED  BY <1>2, <3>1, <5>2 DEF id
      <4> QED  BY <4>1, <4>2
    <3>6. ASSUME NEW j \in DOMAIN new
          PROVE  /\ new[j] = new[1] + j - 1
                 /\ new[j] \in Taken(c) + 1 .. R + 1
                 /\ lists[new[j]].key = k
      <4>1. CASE j = n + 1
        BY <2>4, <3>2, <3>5, <4>1
      <4>2. CASE j # n + 1
        <5>1. j \in 1 .. n /\ 1 \in 1 .. n
          <6> HIDE DEF n, old, new
          <6> QED  BY <3>1, <3>2, <4>2
        <5>2. old[j] \in Taken(c) + 1 .. R + 1
          <6> HIDE DEF n, old, R
          <6> QED  BY <1>2, <3>3, <5>1
        <5> QED  BY <3>2, <3>3, <5>1, <5>2
      <4> QED  BY <4>1, <4>2
    <3>7. n + 1 \in DOMAIN new
      <4> HIDE DEF n, old, new
      <4> QED  BY <3>1, <3>2
    <3>8. ASSUME NEW i \in Taken(c) + 1 .. R, lists[i].key = k
          PROVE  \E j \in DOMAIN new : new[j] = i
      <4>1. PICK j \in 1 .. n : old[j] = i
        BY <1>1, <3>1, <3>8 DEF CacheInv, InEntry
      <4>2. j \in DOMAIN new /\ new[j] = i
        <5> HIDE DEF n, old, new
        <5> QED  BY <3>1, <3>2, <4>1
      <4> QED  BY <4>2
    <3> QED  BY <3>2, <3>6, <3>7, <3>8
  <2>7. /\ \A j \in DOMAIN new : /\ new[j] = new[1] + j - 1
                                 /\ new[j] \in Taken(c) + 1 .. R + 1
                                 /\ lists[new[j]].key = k
        /\ \E j \in DOMAIN new : new[j] = id
        /\ \A i \in Taken(c) + 1 .. R : lists[i].key = k =>
             \E j \in DOMAIN new : new[j] = i
    BY <2>5, <2>6
  <2>8. ASSUME NEW m \in DOMAIN cached'[c] PROVE EntryInv(c, m)'
    <3>1. CASE m = k
      BY <1>5, <1>6, <1>7, <2>3, <2>7, <3>1 DEF EntryInv
    <3>2. CASE m # k
      <4>1. EntryInv(c, m) /\ cached'[c][m] = cached[c][m]
        BY <2>1, <2>2, <3>2
      <4>2. \A i \in 1 .. R : i \in 1 .. R + 1
        BY <1>2
      <4>3. \A i \in Taken(c) + 1 .. R : i \in Taken(c) + 1 .. R + 1
        BY <1>2
      <4> QED  BY <1>5, <1>6, <1>7, <4>1, <4>2, <4>3 DEF EntryInv
    <3> QED  BY <3>1, <3>2
  <2>9. ASSUME NEW i \in 1 .. R + 1 PROVE lists[i].key \in DOMAIN cached'[c]
    <3>1. i \in 1 .. R \/ i = id
      BY <1>2
    <3> QED  BY <1>1, <2>1, <3>1 DEF CacheInv
  <2>10. ASSUME NEW i \in Taken(c) + 1 .. R + 1 PROVE InEntry(c, i)'
    <3>1. CASE lists[i].key = k
      <4>1. i \in Taken(c) + 1 .. R \/ i = id
        BY <1>2
      <4> QED  BY <1>6, <2>7, <3>1, <4>1 DEF InEntry
    <3>2. CASE lists[i].key # k
      <4>1. i \in Taken(c) + 1 .. R /\ i \in 1 .. R
        BY <1>2, <3>2
      <4>2. InEntry(c, i) /\ lists[i].key \in DOMAIN cached[c]
        BY <1>1, <4>1 DEF CacheInv
      <4> QED  BY <1>6, <2>1, <3>2, <4>2 DEF InEntry
    <3> QED  BY <3>1, <3>2
  <2>11. (Taken(c) <= received[c])'
    BY <1>2, <1>5, <1>7
  <2>12. \A i \in 1 .. received'[c] : lists'[i].key \in DOMAIN cached'[c]
    BY <1>5, <1>6, <2>9
  <2>13. \A i \in Taken(c)' + 1 .. received'[c] : InEntry(c, i)'
    BY <1>5, <1>7, <2>10
  <2> QED  BY <2>8, <2>11, <2>12, <2>13 DEF CacheInv
<1>11. PlaceInv(c)'
  BY <1>1, <1>6, <1>7, <1>8 DEF PlaceInv
<1> QED  BY <1>10, <1>11

(* The head of the pending lists is the next one in the log, and the pause *)
(* state after it is the server's.                                         *)
LEMMA GiveCommandsInv ==
  ASSUME TypeOK, IndInv, NEW c \in Client, Attached(c), GiveCommands(c)
  PROVE  CacheInv(c)' /\ PlaceInv(c)'
<1> DEFINE E == Len(executed[c])
           P == Len(pending[c])
           step == [list |-> E + 1, key |-> key[c]]
<1>0. CacheType /\ ReplicaType /\ LoopType /\ LinkType /\ ListsType
  BY DEF TypeOK
<1>1. ListsInv /\ WireInv(c) /\ CacheInv(c) /\ PlaceInv(c)
  BY DEF IndInv, ClientInv, Attached
<1>2. /\ E \in Nat /\ Taken(c) \in Nat /\ Taken(c) <= received[c]
      /\ received[c] \in Nat /\ received[c] <= Len(lists) /\ Len(lists) \in Nat
  BY <1>1, ClientFacts
<1>3. /\ pending[c] \in Seq(1 .. Len(lists)) /\ pending[c] # <<>>
      /\ P \in Nat /\ P >= 1 /\ DOMAIN pending[c] = 1 .. P
      /\ executed[c] \in Seq([list : 1 .. Len(lists), key : Nat])
  <2>1. /\ pending[c] \in Seq(1 .. Len(lists)) /\ pending[c] # <<>>
        /\ executed[c] \in Seq([list : 1 .. Len(lists), key : Nat])
    BY <1>0 DEF GiveCommands, ReplicaType
  <2>2. /\ Len(pending[c]) \in Nat /\ Len(pending[c]) >= 1
        /\ DOMAIN pending[c] = 1 .. Len(pending[c])
    BY <2>1
  <2> QED  BY <2>1, <2>2, Zenon
<1>4. Taken(c) = E + P
  BY DEF Taken
<1>5. /\ Head(pending[c]) = E + 1 /\ lists[E + 1].key = key[c]
      /\ E + 1 \in 1 .. Len(lists) /\ E + 1 # 0 /\ (E + 1) - 1 = E
  <2>1. 1 \in DOMAIN pending[c]
    BY <1>3
  <2>2. pending[c][1] = E + 1 /\ lists[E + 1].key = key[c]
    BY <1>1, <2>1 DEF PlaceInv
  <2>3. E + 1 \in 1 .. Len(lists) /\ E + 1 # 0 /\ (E + 1) - 1 = E
    <3> HIDE DEF E, P
    <3> QED  BY <1>2, <1>3, <1>4
  <2> QED  BY <1>3, <2>2, <2>3
<1>6. /\ executed'[c] = Append(executed[c], step)
      /\ pending'[c] = Tail(pending[c])
      /\ paused'[c] = PausedAfter(paused[c], lists[E + 1].cmds)
  <2>1. c \in Replica
    BY Members
  <2> QED  BY <1>0, <1>5, <2>1 DEF GiveCommands, ReplicaType, LoopType
<1>7. UNCHANGED <<lists, key, link, downlink, cached, cachedLast, received, pc, missed>>
  BY DEF GiveCommands, serverVars, threadVars
<1>8. \A i : KeyOf(i)' = KeyOf(i) /\ PausedAt(i)' = PausedAt(i)
  BY <1>7 DEF KeyOf, PausedAt
<1>9. /\ Len(executed'[c]) = E + 1 /\ DOMAIN executed'[c] = 1 .. E + 1
      /\ executed'[c][E + 1] = step
      /\ \A i \in 1 .. E : executed'[c][i] = executed[c][i]
  <2>1. step \in [list : 1 .. Len(lists), key : Nat]
    BY <1>0, <1>5, Members DEF LoopType
  <2> HIDE DEF step
  <2> QED  BY <1>3, <1>6, <2>1, AppendType
<1>10. /\ Len(pending'[c]) = P - 1 /\ DOMAIN pending'[c] = 1 .. P - 1
       /\ \A j \in 1 .. P - 1 : pending'[c][j] = pending[c][j + 1]
  BY <1>3, <1>6
<1>11. Taken(c)' = Taken(c)
  <2>1. Taken(c)' = (E + 1) + (P - 1)
    BY <1>9, <1>10 DEF Taken
  <2> HIDE DEF E, P
  <2> QED  BY <1>2, <1>3, <1>4, <2>1
<1>13. CacheInv(c)'
  BY <1>1, <1>7, <1>11 DEF CacheInv, EntryInv, InEntry
<1>14. PlaceInv(c)'
  <2>1. pc[c] = "give" /\ key[c] = KeyOf(Taken(c))
    BY <1>1 DEF GiveCommands, PlaceInv
  <2>2. \A i \in 1 .. E + 1 : executed'[c][i] = [list |-> i, key |-> lists[i].key]
    <3>1. \A i \in 1 .. E : executed[c][i] = [list |-> i, key |-> lists[i].key]
      <4>1. DOMAIN executed[c] = 1 .. E
        BY <1>3
      <4> QED  BY <1>1, <4>1 DEF PlaceInv
    <3>2. \A i \in 1 .. E + 1 : i \in 1 .. E \/ i = E + 1
      BY <1>2
    <3> QED  BY <1>5, <1>9, <3>1, <3>2
  <2>3. ASSUME NEW j \in 1 .. P - 1
        PROVE  pending'[c][j] = (E + 1) + j /\ lists[(E + 1) + j].key = key[c]
    <3>1. j + 1 \in DOMAIN pending[c] /\ (E + 1) + j = E + (j + 1)
      <4> HIDE DEF E, P
      <4> QED  BY <1>2, <1>3
    <3>2. pending[c][j + 1] = E + (j + 1) /\ lists[E + (j + 1)].key = key[c]
      BY <1>1, <3>1 DEF PlaceInv
    <3> QED  BY <1>10, <3>1, <3>2
  <2>4. paused'[c] = PausedAt(E + 1)
    <3>1. paused[c] = PausedAt(E)
      BY <1>1 DEF PlaceInv
    <3>2. lists[E + 1].paused = PausedAfter(PausedAt((E + 1) - 1), lists[E + 1].cmds)
      BY <1>1, <1>5 DEF ListsInv
    <3> QED  BY <1>5, <1>6, <3>1, <3>2 DEF PausedAt
  <2>5. pc'[c] = "give" /\ key'[c] = KeyOf(Taken(c))'
    BY <1>7, <1>8, <1>11, <2>1
  <2>6. \A i \in DOMAIN executed'[c] :
          executed'[c][i] = [list |-> i, key |-> lists'[i].key]
    BY <1>7, <1>9, <2>2
  <2>7. \A j \in DOMAIN pending'[c] :
          /\ pending'[c][j] = Len(executed'[c]) + j
          /\ lists'[Len(executed'[c]) + j].key = key'[c]
    BY <1>7, <1>9, <1>10, <2>3
  <2>8. paused'[c] = PausedAt(Len(executed[c]))'
    BY <1>8, <1>9, <2>4
  <2> QED  BY <2>5, <2>6, <2>7, <2>8 DEF PlaceInv
<1> QED  BY <1>13, <1>14

(* A broadcast adds one list to the log and to the wire of every client    *)
(* that it does not skip; nothing that is in the log changes.              *)
LEMMA ServerKeyframeInv ==
  ASSUME TypeOK, IndInv, NEW stop \in Stops, ServerKeyframe(stop)
  PROVE  IndInv'
<1> DEFINE n == Len(lists)
           cmds == Batch(requested[Server])
           entry == [key |-> KeyframeOf(Server), cmds |-> cmds,
                     paused |-> PausedAfter(paused[Server], cmds)]
<1>0. CacheType /\ ReplicaType /\ LoopType /\ LinkType /\ ListsType /\ RequestType
  BY DEF TypeOK
<1>1. ListsInv /\ n \in Nat
  BY <1>0, ListEntries DEF IndInv
<1>2. lists' = Append(lists, entry) /\ entry \in ListEntry
  <2>1. /\ Batch(requested[Server]) \in Seq(Command)
        /\ PausedAfter(paused[Server], Batch(requested[Server])) \in BOOLEAN
        /\ KeyframeOf(Server) \in Nat
    BY <1>0, BatchType, PausedAfterType, Members DEF RequestType, LoopType, KeyframeOf
  <2> QED  BY <2>1 DEF ServerKeyframe, ListEntry
<1>3. /\ Len(lists') = n + 1 /\ lists'[n + 1] = entry
      /\ \A i \in 1 .. n : lists'[i] = lists[i]
  <2>1. lists \in Seq(ListEntry)
    BY <1>0 DEF ListsType, ListEntry
  <2> HIDE DEF entry
  <2> QED  BY <1>2, <2>1, AppendType
<1>4. \A i \in 0 .. n : KeyOf(i)' = KeyOf(i) /\ PausedAt(i)' = PausedAt(i)
  <2>1. \A i \in 0 .. n : i = 0 \/ i \in 1 .. n
    BY <1>1
  <2> QED  BY <1>3, <2>1 DEF KeyOf, PausedAt
<1>5. /\ KeyOf(Len(lists))' = entry.key /\ PausedAt(Len(lists))' = entry.paused
      /\ KeyOf(n) = key[Server] /\ PausedAt(n) = paused[Server]
      /\ key[Server] \in Nat /\ entry.key \in Nat
      /\ entry.key = IF PausedAt(n) THEN KeyOf(n) ELSE KeyOf(n) + 1
      /\ entry.paused = PausedAfter(PausedAt(n), entry.cmds)
  <2>1. KeyOf(Len(lists))' = entry.key /\ PausedAt(Len(lists))' = entry.paused
    <3>1. Len(lists') # 0 /\ lists'[Len(lists')] = entry
      BY <1>1, <1>3
    <3> HIDE DEF entry
    <3> QED  BY <3>1 DEF KeyOf, PausedAt
  <2>2. KeyOf(n) = key[Server] /\ PausedAt(n) = paused[Server]
    BY <1>1 DEF ListsInv
  <2>3. key[Server] \in Nat /\ entry.key \in Nat
    BY <1>0, <1>2, Members DEF LoopType, ListEntry
  <2> QED  BY <2>1, <2>2, <2>3 DEF KeyframeOf
<1>6. ListsInv'
  <2>1. ASSUME NEW i \in 1 .. n + 1
        PROVE  /\ lists'[i].key = IF PausedAt(i - 1)' THEN KeyOf(i - 1)'
                                  ELSE KeyOf(i - 1)' + 1
               /\ lists'[i].paused = PausedAfter(PausedAt(i - 1)', lists'[i].cmds)
    <3>1. CASE i \in 1 .. n
      <4>1. i - 1 \in 0 .. n
        BY <1>1, <3>1
      <4>2. PausedAt(i - 1)' = PausedAt(i - 1) /\ KeyOf(i - 1)' = KeyOf(i - 1)
        BY <1>4, <4>1
      <4> QED  BY <1>1, <1>3, <3>1, <4>2 DEF ListsInv
    <3>2. CASE i = n + 1
      <4>1. i - 1 = n /\ n \in 0 .. n
        BY <1>1, <3>2
      <4>2. PausedAt(i - 1)' = PausedAt(n) /\ KeyOf(i - 1)' = KeyOf(n)
        BY <1>4, <4>1
      <4>3. lists'[i] = entry
        BY <1>3, <3>2
      <4> QED  BY <1>5, <4>2, <4>3
    <3> QED  BY <1>1, <3>1, <3>2
  <2>2. ASSUME NEW i \in 0 .. n + 1, NEW j \in 0 .. n + 1, i <= j
        PROVE  KeyOf(i)' <= KeyOf(j)'
    <3>1. \A m \in 0 .. n : KeyOf(m) \in Nat /\ KeyOf(m) <= KeyOf(n)
      <4>1. n \in 0 .. n /\ \A m \in 0 .. n : m <= n
        BY <1>1
      <4> QED  BY <1>0, <1>1, <4>1, ListEntries DEF ListsInv
    <3>2. CASE j \in 0 .. n
      <4>1. i \in 0 .. n
        BY <1>1, <2>2, <3>2
      <4> QED  BY <1>1, <1>4, <2>2, <3>2, <4>1 DEF ListsInv
    <3>4. CASE j = n + 1 /\ i \in 0 .. n
      <4>1. KeyOf(i)' = KeyOf(i) /\ KeyOf(i) <= KeyOf(n) /\ KeyOf(i) \in Nat /\ KeyOf(n) \in Nat
        BY <1>1, <1>4, <3>1, <3>4
      <4>2. KeyOf(j)' = entry.key
        BY <1>1, <1>3, <3>4 DEF KeyOf
      <4> HIDE DEF entry
      <4> QED  BY <1>5, <4>1, <4>2
    <3>5. CASE j = n + 1 /\ i = n + 1
      <4>1. KeyOf(j)' = entry.key /\ KeyOf(i)' = entry.key
        BY <1>1, <1>3, <3>5 DEF KeyOf
      <4> HIDE DEF entry
      <4> QED  BY <1>5, <4>1
    <3> QED  BY <1>1, <3>2, <3>4, <3>5
  <2>3. key'[Server] = entry.key /\ paused'[Server] = entry.paused
    BY <1>0, Members DEF ServerKeyframe, LoopType
  <2> QED  BY <1>3, <1>5, <2>1, <2>2, <2>3 DEF ListsInv
<1>7. ASSUME NEW c \in Client, ~missed'[c]
      PROVE  /\ ~missed[c] /\ (link[c] => c < stop)
             /\ downlink'[c] = IF link[c] THEN Append(downlink[c], n + 1) ELSE downlink[c]
  <2>1. ~missed[c] /\ ~(link[c] /\ c >= stop)
    BY <1>7 DEF ServerKeyframe
  <2>2. c \in Nat /\ stop \in Nat
    BY SlotAssumption DEF Client, Stops
  <2>3. link[c] => c < stop /\ c # stop
    BY <2>1, <2>2
  <2> QED  BY <2>1, <2>3 DEF ServerKeyframe, Delivered
<1>8. ASSUME NEW c \in Client
      PROVE  /\ UNCHANGED <<link, net, cached, cachedLast, received, pc, pending,
                            executed, strayed>>
             /\ key'[c] = key[c] /\ paused'[c] = paused[c]
  BY <1>0, Members DEF ServerKeyframe, threadVars, mainVars, LoopType
<1>9. ASSUME NEW c \in Client, ~missed'[c] PROVE WireInv(c)' /\ KeptInv(c)'
  <2>1. /\ ~missed[c] /\ (link[c] => c < stop)
        /\ downlink'[c] = IF link[c] THEN Append(downlink[c], n + 1) ELSE downlink[c]
    BY <1>7, <1>9
  <2>2. WireInv(c) /\ KeptInv(c)
    BY <2>1 DEF IndInv, ClientInv
  <2>3. received[c] \in Nat /\ Len(downlink[c]) \in Nat /\ received[c] <= n
    BY <1>0, <1>1, <2>2 DEF WireInv, CacheType, LinkType
  <2>4. /\ UNCHANGED <<link, net, cached, cachedLast, received, pc, pending, executed>>
        /\ key'[c] = key[c] /\ paused'[c] = paused[c]
    BY <1>8
  <2>6. WireInv(c)'
    <3>1. downlink[c] \in Seq(0 .. n) /\ Len(downlink[c]) \in Nat
      BY <1>0 DEF LinkType
    <3>2. /\ received[c] + Len(downlink[c]) <= n
          /\ link[c] => received[c] + Len(downlink[c]) = n
          /\ \A j \in DOMAIN downlink[c] : downlink[c][j] = received[c] + j
          /\ cachedLast[c] = KeyOf(received[c])
      BY <2>2 DEF WireInv
    <3>3. KeyOf(received[c])' = KeyOf(received[c])
      <4>1. received[c] \in 0 .. n
        BY <1>1, <2>3
      <4> QED  BY <1>3, <2>4, <4>1 DEF KeyOf
    <3>4. /\ received[c] + Len(downlink'[c]) <= n + 1
          /\ link[c] => received[c] + Len(downlink'[c]) = n + 1
          /\ \A j \in DOMAIN downlink'[c] : downlink'[c][j] = received[c] + j
      <4>1. CASE link[c]
        <5>1. downlink'[c] = Append(downlink[c], n + 1)
          BY <2>1, <4>1
        <5>2. /\ Len(downlink'[c]) = Len(downlink[c]) + 1
              /\ DOMAIN downlink'[c] = 1 .. Len(downlink[c]) + 1
              /\ downlink'[c][Len(downlink[c]) + 1] = n + 1
              /\ \A j \in 1 .. Len(downlink[c]) : downlink'[c][j] = downlink[c][j]
          BY <3>1, <5>1
        <5>3. received[c] + (Len(downlink[c]) + 1) = n + 1
          BY <1>1, <2>3, <3>1, <3>2, <4>1
        <5>4. \A j \in 1 .. Len(downlink[c]) + 1 :
                \/ j \in DOMAIN downlink[c] /\ j \in 1 .. Len(downlink[c])
                \/ j = Len(downlink[c]) + 1
          BY <3>1
        <5>5. \A j \in DOMAIN downlink'[c] : downlink'[c][j] = received[c] + j
          BY <3>2, <5>2, <5>3, <5>4
        <5>6. received[c] + Len(downlink'[c]) = n + 1
          BY <5>2, <5>3
        <5> QED  BY <1>1, <5>5, <5>6
      <4>2. CASE ~link[c]
        BY <1>1, <2>1, <2>3, <3>1, <3>2, <4>2
      <4> QED  BY <4>1, <4>2
    <3> QED  BY <1>3, <2>4, <3>2, <3>3, <3>4 DEF WireInv
  <2>7. KeptInv(c)'
    BY <2>2, <2>4 DEF KeptInv
  <2> QED  BY <2>6, <2>7
<1>10. ASSUME NEW c \in Client, Attached(c)' PROVE CacheInv(c)' /\ PlaceInv(c)'
  <2>1. ~missed[c] /\ Attached(c)
    BY <1>7, <1>8, <1>10 DEF Attached
  <2>2. WireInv(c) /\ CacheInv(c) /\ PlaceInv(c)
    BY <2>1 DEF IndInv, ClientInv, Attached
  <2>3. /\ Len(executed[c]) \in Nat /\ Taken(c) \in Nat /\ received[c] \in Nat
        /\ Len(executed[c]) <= Taken(c) /\ Taken(c) <= received[c] /\ received[c] <= n
    BY <2>2, ClientFacts
  <2>4. /\ UNCHANGED <<link, net, cached, cachedLast, received, pc, pending, executed>>
        /\ key'[c] = key[c] /\ paused'[c] = paused[c]
    BY <1>8
  <2>5. Taken(c)' = Taken(c)
    BY <2>4 DEF Taken
  <2>7. \A i \in 1 .. received[c] : lists'[i] = lists[i]
    BY <1>1, <1>3, <2>3
  <2>8. CacheInv(c)'
    <3>1. \A i \in Taken(c) + 1 .. received[c] : i \in 1 .. received[c]
      BY <2>3
    <3>2. ASSUME NEW k \in DOMAIN cached[c] PROVE EntryInv(c, k)'
      <4>1. EntryInv(c, k)
        BY <2>2 DEF CacheInv
      <4> QED  BY <2>4, <2>5, <2>7, <3>1, <4>1 DEF EntryInv
    <3>3. ASSUME NEW i \in Taken(c) + 1 .. received[c] PROVE InEntry(c, i)'
      <4>1. InEntry(c, i) /\ lists'[i] = lists[i]
        BY <2>2, <2>7, <3>1 DEF CacheInv
      <4> QED  BY <2>4, <4>1 DEF InEntry
    <3>4. \A i \in 1 .. received[c] : lists'[i].key \in DOMAIN cached[c]
      BY <2>2, <2>7 DEF CacheInv
    <3> QED  BY <2>3, <2>4, <2>5, <3>2, <3>3, <3>4 DEF CacheInv
  <2>9. PlaceInv(c)'
    <3> DEFINE E == Len(executed[c])
    <3>1. /\ DOMAIN executed[c] = 1 .. E
          /\ Len(pending[c]) \in Nat /\ DOMAIN pending[c] = 1 .. Len(pending[c])
      BY <1>0, ReplicaLengths
    <3>2. E \in 0 .. n /\ Taken(c) \in 0 .. n
      BY <1>1, <2>3
    <3>3. /\ KeyOf(Len(executed[c]))' = KeyOf(E) /\ PausedAt(Len(executed[c]))' = PausedAt(E)
          /\ KeyOf(Taken(c))' = KeyOf(Taken(c))
      <4>1. \A i \in 0 .. n :
              /\ KeyOf(i) = IF i = 0 THEN 0 ELSE lists'[i].key
              /\ PausedAt(i) = IF i = 0 THEN FALSE ELSE lists'[i].paused
        BY <1>4 DEF KeyOf, PausedAt
      <4> QED  BY <2>4, <2>5, <3>2, <4>1 DEF KeyOf, PausedAt
    <3>4. \A i \in DOMAIN executed[c] : lists'[i] = lists[i]
      BY <2>3, <2>7, <3>1
    <3>5. \A j \in DOMAIN pending[c] : lists'[E + j] = lists[E + j]
      <4>1. \A j \in DOMAIN pending[c] : E + j \in 1 .. received[c]
        <5>1. Taken(c) = E + Len(pending[c]) /\ E \in Nat /\ Taken(c) \in Nat
          BY <2>3 DEF Taken
        <5> HIDE DEF E
        <5>2. \A j \in 1 .. Len(pending[c]) : E + j \in 1 .. received[c]
          BY <2>3, <3>1, <5>1
        <5> QED  BY <3>1, <5>2
      <4> QED  BY <2>7, <4>1
    <3> QED  BY <2>2, <2>4, <2>5, <3>3, <3>4, <3>5 DEF PlaceInv
  <2> QED  BY <2>8, <2>9
<1>11. \A c \in Client : ClientInv(c)'
  BY <1>9, <1>10 DEF ClientInv
<1> QED  BY <1>6, <1>11 DEF IndInv

-----------------------------------------------------------------------------
(* The invariant holds *)

(* At the start there are no lists.                                        *)
LEMMA IndInit == Init => IndInv
<1> SUFFICES ASSUME Init PROVE IndInv
  OBVIOUS
<1>1. lists = <<>> /\ Len(lists) = 0 /\ KeyOf(0) = 0 /\ PausedAt(0) = FALSE
  BY DEF Init, KeyOf, PausedAt
<1>2. ListsInv
  <2>1. key[Server] = 0 /\ paused[Server] = FALSE
    BY Members DEF Init
  <2>2. 1 .. Len(lists) = {} /\ 0 .. Len(lists) = {0}
    BY <1>1
  <2>3. KeyOf(Len(lists)) = 0 /\ PausedAt(Len(lists)) = FALSE
    BY <1>1
  <2> QED  BY <1>1, <2>1, <2>2, <2>3 DEF ListsInv
<1>3. ASSUME NEW c \in Client PROVE ClientInv(c)
  <2>1. /\ executed[c] = <<>> /\ pending[c] = <<>> /\ downlink[c] = <<>>
        /\ received[c] = 0 /\ cachedLast[c] = 0 /\ cached[c] = <<>>
        /\ pc[c] = "update" /\ key[c] = 0 /\ paused[c] = FALSE
    BY Members DEF Init
  <2>2. Len(executed[c]) = 0 /\ Taken(c) = 0
    BY <2>1 DEF Taken
  <2>3. WireInv(c)
    BY <1>1, <2>1 DEF WireInv
  <2>4. CacheInv(c)
    BY <2>1, <2>2 DEF CacheInv
  <2>5. PlaceInv(c)
    <3>1. DOMAIN executed[c] = {} /\ DOMAIN pending[c] = {}
      BY <2>1
    <3>2. KeyOf(Len(executed[c])) = 0 /\ PausedAt(Len(executed[c])) = FALSE
      BY <1>1, <2>2
    <3> QED  BY <2>1, <3>1, <3>2 DEF PlaceInv
  <2>6. KeptInv(c)
    BY <2>1 DEF KeptInv
  <2> QED  BY <2>3, <2>4, <2>5, <2>6 DEF ClientInv
<1> QED  BY <1>2, <1>3 DEF IndInv

(* Passing a frame: the next keyframe, or a frame between two.             *)
LEMMA PassFrameFacts ==
  ASSUME TypeOK, NEW c \in Client, NEW more \in BOOLEAN, PassFrame(c, more)
  PROVE  /\ UNCHANGED <<lists, paused, link, downlink, cached, cachedLast, received,
                         pending, executed, missed>>
         /\ key[c] \in Nat
         /\ \/ pc'[c] \in {"again", "net"} /\ key'[c] = key[c]
            \/ pc'[c] = "wait" /\ key'[c] = key[c] + 1
BY Members DEF PassFrame, TypeOK, LoopType, serverVars

(* What comes to a client, straying or not: the next list goes from the    *)
(* wire to the cache, and no entry of the cache is ever taken away.        *)
LEMMA WireNext ==
  ASSUME TypeOK, IndInv, NEW c \in Client, ~missed[c],
         ClientMain(c) \/ ClientNet(c) \/ Drop(c)
  PROVE  WireInv(c)' /\ KeptInv(c)'
<1>0. CacheType /\ ReplicaType /\ LoopType /\ LinkType /\ ListsType
  BY DEF TypeOK
<1>1. ListsInv /\ WireInv(c) /\ KeptInv(c)
  BY DEF IndInv, ClientInv
<1>2. /\ received[c] \in Nat /\ Len(downlink[c]) \in Nat /\ Len(lists) \in Nat
      /\ downlink[c] \in Seq(0 .. Len(lists)) /\ received[c] <= Len(lists)
      /\ key[c] \in Nat
  BY <1>0, <1>1, Members DEF WireInv, CacheType, LinkType, LoopType, ListsType
<1>3. lists' = lists
  BY DEF ClientMain, ClientNet, ClientAdvance, ClientAgain, PassFrame, ClientRevisit,
     GetCommands, GiveUpWaiting, GiveCommands, GivenAll, ClientUpdate, NetEnter,
     NetReceive, NetFail, NetNotice, NetTimeout, Drop, serverVars
<1>4. \A i : KeyOf(i)' = KeyOf(i)
  BY <1>3 DEF KeyOf
<1>5. CASE ClientMain(c)
  <2>1. UNCHANGED <<received, cachedLast>> /\ DOMAIN cached'[c] = DOMAIN cached[c]
    BY <1>0, <1>5 DEF ClientMain, ClientAdvance, ClientAgain, PassFrame, ClientRevisit,
       GetCommands, GiveUpWaiting, GiveCommands, GivenAll, ClientUpdate, threadVars, CacheType
  <2>2. UNCHANGED <<link, downlink>> \/ Leave(c)
    BY <1>5 DEF ClientMain, ClientAdvance, ClientAgain, PassFrame, ClientRevisit,
       GetCommands, GiveUpWaiting, GiveCommands, GivenAll, ClientUpdate
  <2>3. WireInv(c)'
    <3>1. CASE UNCHANGED <<link, downlink>>
      BY <1>1, <1>3, <1>4, <2>1, <3>1 DEF WireInv
    <3>2. CASE Leave(c)
      <4>1. link'[c] = FALSE /\ downlink'[c] = <<>>
        BY <1>0, <3>2 DEF Leave, LinkType
      <4> QED  BY <1>1, <1>2, <1>3, <1>4, <2>1, <4>1 DEF WireInv
    <3> QED  BY <2>2, <3>1, <3>2
  <2>4. pc'[c] \in {"wait", "give"} \/ paused'[c] => key'[c] >= 1
    <3>1. CASE ClientAdvance(c) \/ ClientAgain(c)
      <4>1. PICK more \in BOOLEAN : PassFrame(c, more)
        BY <3>1, PassesFrame
      <4> QED  BY <1>1, <1>2, <4>1, PassFrameFacts DEF KeptInv
    <3>2. CASE ClientRevisit(c)
      <4>1. /\ key' = key /\ paused' = paused
            /\ paused[c] \/ key[c] >= 2
        BY <3>2 DEF ClientRevisit
      <4> QED  BY <1>1, <1>2, <4>1 DEF KeptInv
    <3>3. CASE GetCommands(c) \/ GiveUpWaiting(c)
      BY <1>1, <3>3 DEF KeptInv, GetCommands, GiveUpWaiting
    <3>4. CASE GiveCommands(c) \/ GivenAll(c)
      BY <1>1, <3>4 DEF KeptInv, GiveCommands, GivenAll
    <3>5. CASE ClientUpdate(c)
      BY <1>0, <1>1, <3>5 DEF KeptInv, ClientUpdate, LoopType
    <3> QED  BY <1>5, <3>1, <3>2, <3>3, <3>4, <3>5 DEF ClientMain
  <2>5. KeptInv(c)'
    BY <1>1, <2>1, <2>4 DEF KeptInv
  <2> QED  BY <2>3, <2>5
<1>6. CASE NetReceive(c)
  <2> DEFINE R == received[c]
             id == R + 1
             k == lists[id].key
  <2>1. downlink[c] # <<>> /\ Len(downlink[c]) >= 1
    BY <1>2, <1>6 DEF NetReceive
  <2>2. Head(downlink[c]) = id /\ id \in 1 .. Len(lists)
    <3>1. 1 \in DOMAIN downlink[c]
      BY <1>2, <2>1
    <3>2. downlink[c][1] = R + 1 /\ R + Len(downlink[c]) <= Len(lists)
      BY <1>1, <3>1 DEF WireInv
    <3> QED  BY <1>2, <2>1, <3>2
  <2>3. /\ cachedLast'[c] = k
        /\ cached'[c] = Stored(cached[c], k, id)
        /\ received'[c] = R + 1
        /\ downlink'[c] = Tail(downlink[c])
    BY <1>0, <1>6, <2>2 DEF NetReceive, CacheType, LinkType
  <2>4. UNCHANGED <<key, paused, link, pc>>
    BY <1>6 DEF NetReceive, serverVars, mainVars
  <2>5. WireInv(c)'
    <3> DEFINE rest == Tail(downlink[c])
    <3>1. /\ Len(rest) = Len(downlink[c]) - 1 /\ DOMAIN rest = 1 .. Len(rest)
          /\ \A j \in 1 .. Len(rest) : rest[j] = downlink[c][j + 1]
      BY <1>2, <2>1
    <3>2. \A j \in 1 .. Len(rest) : rest[j] = (R + 1) + j
      <4> SUFFICES ASSUME NEW j \in 1 .. Len(rest) PROVE rest[j] = (R + 1) + j
        OBVIOUS
      <4>1. j + 1 \in DOMAIN downlink[c]
        BY <1>2, <2>1, <3>1
      <4>2. downlink[c][j + 1] = R + (j + 1)
        BY <1>1, <4>1 DEF WireInv
      <4>3. j \in Nat
        BY <1>2, <2>1, <3>1
      <4>4. rest[j] = R + (j + 1)
        BY <3>1, <4>2
      <4>5. R \in Nat
        BY <1>2
      <4> HIDE DEF R, rest
      <4> QED  BY <4>3, <4>4, <4>5
    <3>3. KeyOf(received[c])' = k
      BY <1>2, <2>3, <1>3, <2>4 DEF KeyOf
    <3>4. R + Len(downlink[c]) <= Len(lists)
          /\ (link[c] => R + Len(downlink[c]) = Len(lists))
      BY <1>1 DEF WireInv
    <3>5. /\ (R + 1) + Len(rest) <= Len(lists)
          /\ link[c] => (R + 1) + Len(rest) = Len(lists)
      BY <1>2, <3>1, <3>4
    <3>6. \A j \in DOMAIN downlink'[c] : downlink'[c][j] = received'[c] + j
      BY <2>3, <3>1, <3>2
    <3>7. /\ received'[c] + Len(downlink'[c]) <= Len(lists')
          /\ link'[c] => received'[c] + Len(downlink'[c]) = Len(lists')
      BY <2>3, <1>3, <2>4, <3>5
    <3> QED  BY <2>3, <3>3, <3>6, <3>7 DEF WireInv
  <2>6. KeptInv(c)'
    <3>1. /\ id - 1 = R /\ R \in 0 .. Len(lists) /\ cachedLast[c] = KeyOf(R)
          /\ KeyOf(R) \in Nat
      BY <1>0, <1>1, <1>2, ListEntries DEF WireInv
    <3>2. k = KeyOf(R) \/ k = KeyOf(R) + 1
      BY <1>1, <2>2, <3>1 DEF ListsInv
    <3>3. DOMAIN cached'[c] = DOMAIN cached[c] \cup {k}
      BY <2>3 DEF Stored
    <3>4. 1 .. k \subseteq 1 .. cachedLast[c] \cup {k}
      <4> HIDE DEF k, R
      <4> QED  BY <3>1, <3>2
    <3>5. 1 .. cachedLast'[c] \subseteq DOMAIN cached'[c]
      BY <1>1, <2>3, <3>3, <3>4 DEF KeptInv
    <3> QED  BY <1>1, <2>4, <3>5 DEF KeptInv
  <2> QED  BY <2>5, <2>6
<1>7. CASE NetEnter(c)
  <2>1. UNCHANGED <<link, downlink, received, cached, cachedLast, key, paused, pc>>
    BY <1>7 DEF NetEnter, mainVars
  <2> QED  BY <1>1, <1>3, <1>4, <2>1 DEF WireInv, KeptInv
<1>8. CASE NetFail(c) \/ NetNotice(c) \/ NetTimeout(c) \/ Drop(c)
  <2>1. UNCHANGED <<received, cached, cachedLast, key, paused, pc>> /\ link'[c] = FALSE
    BY <1>0, <1>8 DEF NetFail, NetNotice, NetTimeout, Drop, Leave, LinkType, threadVars,
       mainVars
  <2>2. PICK j \in 0 .. Len(downlink[c]) : downlink'[c] = SubSeq(downlink[c], 1, j)
    <3>1. CASE Leave(c)
      <4>1. downlink'[c] = <<>> /\ SubSeq(downlink[c], 1, 0) = <<>>
        BY <1>0, <3>1 DEF Leave, LinkType
      <4> QED  BY <1>2, <4>1
    <3>2. CASE Drop(c)
      BY <1>0, <3>2 DEF Drop, LinkType
    <3> QED  BY <1>8, <3>1, <3>2 DEF NetFail, NetNotice, NetTimeout
  <2>3. DOMAIN downlink[c] = 1 .. Len(downlink[c]) /\ j \in Nat
    BY <1>2
  <2>4. /\ Len(downlink'[c]) = j /\ DOMAIN downlink'[c] = 1 .. j
        /\ \A i \in 1 .. j : i \in DOMAIN downlink[c] /\ downlink'[c][i] = downlink[c][i]
    BY <1>2, <2>2, <2>3
  <2>5. received[c] + j <= Len(lists)
    BY <1>1, <1>2, <2>3 DEF WireInv
  <2>6. WireInv(c)'
    BY <1>1, <1>3, <1>4, <2>1, <2>4, <2>5 DEF WireInv
  <2>7. KeptInv(c)'
    BY <1>1, <2>1 DEF KeptInv
  <2> QED  BY <2>6, <2>7
<1> QED  BY <1>5, <1>6, <1>7, <1>8 DEF ClientNet

(* The steps of the main thread that take nothing from the cache.          *)
LEMMA MainInv ==
  ASSUME TypeOK, IndInv, NEW c \in Client, Attached(c), Attached(c)',
         \/ ClientAdvance(c) \/ ClientAgain(c) \/ ClientRevisit(c) \/ GiveUpWaiting(c)
         \/ GivenAll(c) \/ ClientUpdate(c)
  PROVE  CacheInv(c)' /\ PlaceInv(c)'
<1>0. CacheType /\ ReplicaType /\ LoopType /\ LinkType /\ ListsType /\ CatchUpType
  BY DEF TypeOK
<1>1. ListsInv /\ WireInv(c) /\ KeptInv(c) /\ CacheInv(c) /\ PlaceInv(c)
  BY DEF IndInv, ClientInv, Attached
<1>2. UNCHANGED <<lists, paused, cached, cachedLast, received, pending, executed>>
  BY DEF ClientAdvance, ClientAgain, PassFrame, ClientRevisit, GiveUpWaiting, GivenAll,
     ClientUpdate, serverVars, threadVars
<1>3. \A i : KeyOf(i)' = KeyOf(i) /\ PausedAt(i)' = PausedAt(i)
  BY <1>2 DEF KeyOf, PausedAt
<1>4. Taken(c)' = Taken(c)
  BY <1>2 DEF Taken
<1>5. CacheInv(c)'
  BY <1>1, <1>2, <1>4 DEF CacheInv, EntryInv, InEntry
<1>7. PlaceInv(c)'
  <2> DEFINE E == Len(executed[c])
  <2>1. /\ pc[c] \in {"update", "again", "net"} => key[c] = KeyOf(E)
        /\ pending[c] # <<>> => pc[c] = "give"
        /\ paused[c] = PausedAt(E)
    BY <1>1 DEF PlaceInv
  <2>2. CASE ClientAdvance(c) \/ ClientAgain(c)
    <3>1. pc[c] \in {"update", "again"} /\ pending[c] = <<>> /\ key[c] = KeyOf(E)
      BY <2>1, <2>2 DEF ClientAdvance, ClientAgain
    <3>2. ~paused[c]
      <4>1. c \in DOMAIN strayed /\ ~strayed'[c] /\ catchUp[c] \in Nat
        BY <1>0 DEF CatchUpType, Attached
      <4>2. CASE ClientAgain(c)
        BY <4>1, <4>2 DEF ClientAgain
      <4>3. CASE ClientAdvance(c)
        <5>1. PICK m \in FramesToCatchUp(c) :
                strayed' = [strayed EXCEPT ![c] = @ \/ (paused[c] /\ m > 0)]
          BY <4>3 DEF ClientAdvance
        <5>2. ~(paused[c] /\ m > 0)
          BY <4>1, <5>1
        <5>3. paused[c] => m = catchUp[c] /\ catchUp[c] > 0
          BY <4>3 DEF ClientAdvance, FramesToCatchUp
        <5> QED  BY <5>2, <5>3
      <4> QED  BY <2>2, <4>2, <4>3
    <3>3. \/ pc'[c] \in {"again", "net"} /\ key'[c] = key[c]
          \/ pc'[c] = "wait" /\ key'[c] = key[c] + 1
      <4>1. PICK more \in BOOLEAN : PassFrame(c, more)
        BY <2>2, PassesFrame
      <4> QED  BY <4>1, PassFrameFacts
    <3> QED  BY <1>1, <1>2, <1>3, <1>4, <2>1, <3>1, <3>2, <3>3 DEF PlaceInv
  <2>3. CASE ClientRevisit(c)
    <3>1. pc[c] = "update" /\ pending[c] = <<>> /\ key[c] = KeyOf(E) /\ key'[c] = key[c]
      BY <2>1, <2>3 DEF ClientRevisit
    <3>2. /\ pc'[c] \in {"wait", "net"}
          /\ paused[c] \/ key[c] >= 2
      BY <1>0, <2>3 DEF ClientRevisit, LoopType
    <3>3. E >= 1
      <4>1. E \in Nat
        BY <1>1, ClientFacts
      <4>2. E = 0 => KeyOf(E) = 0 /\ PausedAt(E) = FALSE
        BY DEF KeyOf, PausedAt
      <4> HIDE DEF E
      <4> QED  BY <2>1, <3>1, <3>2, <4>1, <4>2
    <3> QED  BY <1>1, <1>2, <1>3, <1>4, <2>1, <3>1, <3>2, <3>3 DEF PlaceInv
  <2>4. CASE GiveUpWaiting(c)
    <3>1. pc[c] = "wait" /\ key[c] \notin DOMAIN cached[c] /\ cachedLast[c] > key[c]
      BY <2>4 DEF GiveUpWaiting
    <3> QED  BY <1>1, <3>1, NoLaterList
  <2>5. CASE GivenAll(c)
    <3>1. /\ pc[c] = "give" /\ pending[c] = <<>> /\ pc'[c] \in {"again", "net"}
          /\ key' = key
      BY <1>0, <2>5 DEF GivenAll, LoopType
    <3>2. Taken(c) = E
      <4>1. Len(executed[c]) \in Nat
        BY <1>1, ClientFacts
      <4> QED  BY <3>1, <4>1 DEF Taken
    <3> QED  BY <1>1, <1>2, <1>3, <1>4, <3>1, <3>2 DEF PlaceInv
  <2>6. CASE ClientUpdate(c)
    <3>1. pc[c] = "net" /\ pc'[c] = "update" /\ key' = key
      BY <1>0, <2>6 DEF ClientUpdate, LoopType
    <3> QED  BY <1>1, <1>2, <1>3, <1>4, <2>1, <3>1 DEF PlaceInv
  <2> QED  BY <2>2, <2>3, <2>4, <2>5, <2>6
<1> QED  BY <1>5, <1>7

(* The network thread comes round or gives up, or the connection breaks.   *)
LEMMA LinkInv ==
  ASSUME TypeOK, IndInv, NEW c \in Client, Attached(c),
         NetEnter(c) \/ NetFail(c) \/ NetNotice(c) \/ NetTimeout(c) \/ Drop(c)
  PROVE  CacheInv(c)' /\ PlaceInv(c)'
<1>1. CacheInv(c) /\ PlaceInv(c)
  BY DEF IndInv, ClientInv, Attached
<1>2. UNCHANGED <<lists, key, paused, cached, cachedLast, received, pc, pending, executed>>
  BY DEF NetEnter, NetFail, NetNotice, NetTimeout, Drop, Leave, serverVars, threadVars,
     mainVars
<1>4. \A i : KeyOf(i)' = KeyOf(i) /\ PausedAt(i)' = PausedAt(i)
  BY <1>2 DEF KeyOf, PausedAt
<1>5. Taken(c)' = Taken(c)
  BY <1>2 DEF Taken
<1>7. CacheInv(c)'
  BY <1>1, <1>2, <1>5 DEF CacheInv, EntryInv, InEntry
<1>8. PlaceInv(c)'
  BY <1>1, <1>2, <1>4, <1>5 DEF PlaceInv
<1> QED  BY <1>7, <1>8

(* A step of client c or of its connection leaves the others as they are.  *)
LEMMA StepFrame ==
  ASSUME TypeOK, NEW c \in Client, ClientMain(c) \/ ClientNet(c) \/ Drop(c)
  PROVE  /\ UNCHANGED lists
         /\ key'[Server] = key[Server] /\ paused'[Server] = paused[Server]
         /\ \A d \in Client : missed'[d] = missed[d]
         /\ \A d \in Client \ {c} : Same(d)
         /\ strayed[c] => strayed'[c]
<1>0. LoopType /\ LinkType /\ CacheType /\ ReplicaType /\ CatchUpType
  BY DEF TypeOK
<1>1. c # Server /\ Server \in Replica /\ \A d \in Client : d \in Replica
  BY Members
<1>2. UNCHANGED <<lists, missed>>
  BY DEF ClientMain, ClientNet, ClientAdvance, ClientAgain, PassFrame, ClientRevisit, GetCommands, GiveUpWaiting,
     GiveCommands, GivenAll, ClientUpdate, NetEnter, NetReceive, NetFail, NetNotice,
     NetTimeout, Drop, serverVars
<1>3. /\ \A r \in Replica \ {c} : key'[r] = key[r] /\ paused'[r] = paused[r]
      /\ \A d \in Client \ {c} : pc'[d] = pc[d] /\ pending'[d] = pending[d]
                                 /\ executed'[d] = executed[d]
  <2>1. CASE ClientMain(c)
    BY <1>0, <2>1 DEF ClientMain, ClientAdvance, ClientAgain, PassFrame, ClientRevisit, GetCommands, GiveUpWaiting,
       GiveCommands, GivenAll, ClientUpdate, LoopType, ReplicaType
  <2>2. CASE ClientNet(c) \/ Drop(c)
    BY <2>2 DEF ClientNet, NetEnter, NetReceive, NetFail, NetNotice, NetTimeout, Drop,
       mainVars
  <2> QED  BY <2>1, <2>2
<1>4. \A d \in Client \ {c} : /\ received'[d] = received[d] /\ cachedLast'[d] = cachedLast[d]
                              /\ cached'[d] = cached[d]
  <2>1. CASE ClientMain(c)
    BY <1>0, <2>1 DEF ClientMain, ClientAdvance, ClientAgain, PassFrame, ClientRevisit, GetCommands, GiveUpWaiting,
       GiveCommands, GivenAll, ClientUpdate, CacheType, threadVars
  <2>2. CASE ClientNet(c) \/ Drop(c)
    BY <1>0, <2>2 DEF ClientNet, NetEnter, NetReceive, NetFail, NetNotice, NetTimeout, Drop,
       CacheType, threadVars
  <2> QED  BY <2>1, <2>2
<1>5. \A d \in Client \ {c} : link'[d] = link[d] /\ downlink'[d] = downlink[d]
  <2>1. CASE ClientMain(c)
    BY <1>0, <2>1 DEF ClientMain, ClientAdvance, ClientAgain, PassFrame, ClientRevisit, GetCommands, GiveUpWaiting,
       GiveCommands, GivenAll, ClientUpdate, Leave, LinkType
  <2>2. CASE ClientNet(c)
    BY <1>0, <2>2 DEF ClientNet, NetEnter, NetReceive, NetFail, NetNotice, NetTimeout,
       Leave, LinkType
  <2>3. CASE Drop(c)
    BY <1>0, <2>3 DEF Drop, LinkType
  <2> QED  BY <2>1, <2>2, <2>3
<1>6. /\ \A d \in Client \ {c} : strayed'[d] = strayed[d]
      /\ strayed[c] => strayed'[c]
  <2>1. CASE ClientAdvance(c)
    <3>1. PICK m : strayed' = [strayed EXCEPT ![c] = @ \/ (paused[c] /\ m > 0)]
      BY <2>1 DEF ClientAdvance
    <3> QED  BY <1>0, <3>1 DEF CatchUpType
  <2>2. CASE ClientAgain(c)
    BY <1>0, <2>2 DEF ClientAgain, CatchUpType
  <2>3. CASE \/ ClientRevisit(c) \/ GetCommands(c) \/ GiveUpWaiting(c) \/ GiveCommands(c)
             \/ GivenAll(c) \/ ClientUpdate(c) \/ ClientNet(c) \/ Drop(c)
    BY <2>3 DEF ClientNet, ClientRevisit, GetCommands, GiveUpWaiting, GiveCommands, GivenAll,
       ClientUpdate, NetEnter, NetReceive, NetFail, NetNotice, NetTimeout, Drop, mainVars,
       catchVars
  <2> QED  BY <2>1, <2>2, <2>3 DEF ClientMain
<1> QED  BY <1>1, <1>2, <1>3, <1>4, <1>5, <1>6 DEF Same

(* Every step keeps the inductive invariant.                               *)
LEMMA IndNext == TypeOK /\ IndInv /\ [Next]_vars => IndInv'
<1> SUFFICES ASSUME TypeOK, IndInv, [Next]_vars PROVE IndInv'
  OBVIOUS
<1>1. ASSUME UNCHANGED <<lists, key, paused, link, downlink, cached, cachedLast, pc,
                         pending, received, executed, missed, strayed>>
      PROVE  IndInv'
  <2>1. ListsInv'
    BY <1>1, ListsFrame DEF IndInv
  <2>2. \A c \in Client : ClientInv(c)'
    BY <1>1, ClientFrame DEF IndInv
  <2> QED  BY <2>1, <2>2 DEF IndInv
<1>2. ASSUME NEW stop \in Stops, ServerKeyframe(stop) PROVE IndInv'
  BY <1>2, ServerKeyframeInv
<1>3. CASE ServerFrame
  BY <1>1, <1>3 DEF ServerFrame, threadVars, mainVars
<1>4. ASSUME NEW c \in Client, PollSlot(c) PROVE IndInv'
  BY <1>1, <1>4 DEF PollSlot, threadVars, mainVars
<1>5. ASSUME NEW c \in Client, SlotReceive(c) PROVE IndInv'
  BY <1>1, <1>5 DEF SlotReceive, threadVars, mainVars
<1>6. ASSUME NEW r \in Replica, Request(r) PROVE IndInv'
  BY <1>1, <1>6 DEF Request, serverVars, threadVars, mainVars
<1>8. ASSUME NEW c \in Client, ClientMain(c) \/ ClientNet(c) \/ Drop(c) PROVE IndInv'
  <2>1. missed'[c] = missed[c] /\ (strayed[c] => strayed'[c])
    BY <1>8, StepFrame
  <2>2. ~missed'[c] => WireInv(c)' /\ KeptInv(c)'
    BY <1>8, <2>1, WireNext
  <2>3. ASSUME Attached(c)' PROVE CacheInv(c)' /\ PlaceInv(c)'
    <3>1. Attached(c)
      BY <2>1, <2>3 DEF Attached
    <3> QED
      BY <1>8, <2>3, <3>1, GetCommandsInv, GiveCommandsInv, NetReceiveInv, MainInv, LinkInv
         DEF ClientMain, ClientNet
  <2>4. ClientInv(c)'
    BY <2>2, <2>3 DEF ClientInv
  <2> QED  BY <1>8, <2>4, StepFrame, OneClient
<1>9. CASE UNCHANGED vars
  BY <1>1, <1>9 DEF vars
<1> QED
  BY <1>2, <1>3, <1>4, <1>5, <1>6, <1>8, <1>9 DEF Next, ServerNext

(* Every reachable state satisfies the inductive invariant.                *)
THEOREM Invariant == Spec => []IndInv
<1>1. Init => TypeOK /\ IndInv
  BY InitType, IndInit
<1>2. (TypeOK /\ IndInv) /\ [Next]_vars => (TypeOK /\ IndInv)'
  BY NextType, IndNext
<1> QED  BY <1>1, <1>2, PTL DEF Spec

-----------------------------------------------------------------------------
(* What it implies *)

(* Lockstep: an attached client has executed the first lists of the        *)
(* server's log, each once, in order, at the server's frame.               *)
THEOREM AgreementHolds == Spec => []Agreement
<1>1. TypeOK /\ IndInv => Agreement
  <2> SUFFICES ASSUME TypeOK, IndInv, NEW c \in Client, Attached(c)
               PROVE  /\ Len(executed[c]) <= Len(lists)
                      /\ \A i \in DOMAIN executed[c] :
                           executed[c][i] = [list |-> i, key |-> lists[i].key]
    BY DEF Agreement
  <2>1. WireInv(c) /\ CacheInv(c) /\ PlaceInv(c)
    BY DEF IndInv, ClientInv, Attached
  <2>2. Len(executed[c]) <= Len(lists)
    BY <2>1, ClientFacts
  <2> QED  BY <2>1, <2>2 DEF PlaceInv
<1> QED  BY <1>1, TypeCorrect, Invariant, PTL

(* No such client passes the frame of a list it has not executed, however  *)
(* often the server broadcasts for one keyframe.                           *)
THEOREM NothingPassedByHolds == Spec => []NothingPassedBy
<1>1. TypeOK /\ IndInv => NothingPassedBy
  <2> SUFFICES ASSUME TypeOK, IndInv, NEW c \in Client, Attached(c)
               PROVE  \A i \in Len(executed[c]) + Len(pending[c]) + 1 .. Len(lists) :
                        lists[i].key >= key[c]
    BY DEF NothingPassedBy, PassedNone
  <2>1. ListsInv /\ WireInv(c) /\ CacheInv(c) /\ PlaceInv(c)
    BY DEF IndInv, ClientInv, Attached
  <2>2. Taken(c) <= Len(lists)
    BY <2>1, ClientFacts
  <2>3. \A i \in Taken(c) + 1 .. Len(lists) : lists[i].key >= key[c]
    BY <2>1, <2>2, NothingPassed
  <2> QED  BY <2>3 DEF Taken
<1> QED  BY <1>1, TypeCorrect, Invariant, PTL

(* Such a client is paused exactly when the server was after that list.    *)
THEOREM PauseAgreesHolds == Spec => []PauseAgrees
<1>1. TypeOK /\ IndInv => PauseAgrees
  <2> SUFFICES ASSUME TypeOK, IndInv, NEW c \in Client, Attached(c)
               PROVE  paused[c] = IF executed[c] = <<>> THEN FALSE
                                  ELSE lists[Len(executed[c])].paused
    BY DEF PauseAgrees
  <2>1. paused[c] = PausedAt(Len(executed[c]))
    BY DEF IndInv, ClientInv, PlaceInv, Attached
  <2>2. executed[c] \in Seq([list : 1 .. Len(lists), key : Nat])
    BY DEF TypeOK, ReplicaType
  <2>3. executed[c] = <<>> <=> Len(executed[c]) = 0
    BY <2>2
  <2> QED  BY <2>1, <2>3 DEF PausedAt
<1> QED  BY <1>1, TypeCorrect, Invariant, PTL

(* A client gives up waiting for a keyframe only if a broadcast skipped    *)
(* it; to catch up in a pause does not bring that about.                   *)
THEOREM NoGiveUpHolds == Spec => NoGiveUp
<1>1. TypeOK /\ IndInv => [\A c \in Client : GiveUpWaiting(c) => missed[c]]_vars
  <2> SUFFICES ASSUME TypeOK, IndInv, NEW c \in Client, GiveUpWaiting(c), ~missed[c]
               PROVE  FALSE
    OBVIOUS
  <2>1. KeptInv(c)
    BY DEF IndInv, ClientInv
  <2>2. pc[c] = "wait" /\ key[c] \notin DOMAIN cached[c] /\ cachedLast[c] > key[c]
    BY DEF GiveUpWaiting
  <2> QED  BY <2>1, <2>2, NoLaterList
<1> QED  BY <1>1, TypeCorrect, Invariant, PTL DEF NoGiveUp

-----------------------------------------------------------------------------
(* Nobody is ahead of the server: this holds also of a client that missed  *)
(* lists, because nothing reaches its cache before the server is there.    *)

AheadInv ==
  \A c \in Client :
    /\ cachedLast[c] <= key[Server]
    /\ \A k \in DOMAIN cached[c] : k <= key[Server]
    /\ pc[c] # "wait" => key[c] <= key[Server]

(* Every step keeps it.                                                    *)
LEMMA AheadNext == TypeOK /\ IndInv /\ AheadInv /\ [Next]_vars => AheadInv'
<1> SUFFICES ASSUME TypeOK, IndInv, AheadInv, [Next]_vars PROVE AheadInv'
  OBVIOUS
<1>0. LoopType /\ LinkType /\ CacheType /\ ReplicaType /\ ListsType
  BY DEF TypeOK
<1>1. ASSUME UNCHANGED <<key, cached, cachedLast, pc>> PROVE AheadInv'
  BY <1>1 DEF AheadInv
<1>2. ASSUME NEW stop \in Stops, ServerKeyframe(stop) PROVE AheadInv'
  <2>1. key[Server] \in Nat /\ key'[Server] = KeyframeOf(Server)
        /\ KeyframeOf(Server) \in {key[Server], key[Server] + 1}
    BY <1>0, <1>2, Members DEF ServerKeyframe, LoopType, KeyframeOf
  <2>2. \A x \in Nat : x <= key[Server] => x <= key'[Server]
    BY <2>1
  <2>3. ASSUME NEW c \in Client
        PROVE  /\ cachedLast'[c] = cachedLast[c] /\ cachedLast[c] \in Nat
               /\ cached'[c] = cached[c] /\ DOMAIN cached[c] \subseteq Nat
               /\ pc'[c] = pc[c] /\ key'[c] = key[c] /\ key[c] \in Nat
    BY <1>0, <1>2, Members DEF ServerKeyframe, threadVars, mainVars, LoopType, CacheType
  <2> QED  BY <2>2, <2>3 DEF AheadInv
<1>3. ASSUME NEW c \in Client, ClientMain(c) \/ NetReceive(c) PROVE AheadInv'
  <2>1. /\ key'[Server] = key[Server] /\ key[Server] \in Nat
        /\ \A d \in Client \ {c} : /\ cachedLast'[d] = cachedLast[d] /\ cached'[d] = cached[d]
                                   /\ pc'[d] = pc[d] /\ key'[d] = key[d]
    BY <1>0, <1>3, StepFrame, Members DEF Same, ClientNet, LoopType
  <2>2. SUFFICES /\ cachedLast'[c] <= key[Server]
                 /\ \A k \in DOMAIN cached'[c] : k <= key[Server]
                 /\ pc'[c] # "wait" => key'[c] <= key[Server]
    BY <2>1 DEF AheadInv
  <2>3. /\ cachedLast[c] <= key[Server] /\ cachedLast[c] \in Nat
        /\ \A k \in DOMAIN cached[c] : k <= key[Server]
        /\ pc[c] # "wait" => key[c] <= key[Server]
        /\ key[c] \in Nat
    BY <1>0, Members DEF AheadInv, LoopType, CacheType
  <2>4. CASE NetReceive(c)
    <3>1. PICK id \in 1 .. Len(lists) :
            /\ cachedLast'[c] = lists[id].key
            /\ cached'[c] = Stored(cached[c], lists[id].key, id)
            /\ pc'[c] = pc[c] /\ key'[c] = key[c]
      <4>1. Head(downlink[c]) \in 1 .. Len(lists)
        <5>1. /\ downlink[c] \in Seq(0 .. Len(lists)) /\ downlink[c] # <<>>
              /\ Head(downlink[c]) # 0
          BY <1>0, <2>4 DEF NetReceive, LinkType, Cut
        <5>2. Head(downlink[c]) \in 0 .. Len(lists)
          BY <5>1
        <5>3. Len(lists) \in Nat
          BY <1>0, ListEntries
        <5> QED  BY <5>1, <5>2, <5>3
      <4> QED  BY <1>0, <2>4, <4>1 DEF NetReceive, CacheType, mainVars
    <3>2. lists[id].key <= key[Server]
      <4>1. ListsInv /\ Len(lists) \in Nat
        BY <1>0, ListEntries DEF IndInv
      <4>2. id \in 0 .. Len(lists) /\ Len(lists) \in 0 .. Len(lists) /\ id <= Len(lists)
            /\ KeyOf(id) = lists[id].key
        BY <4>1 DEF KeyOf
      <4> QED  BY <4>1, <4>2 DEF ListsInv
    <3>3. DOMAIN cached'[c] = DOMAIN cached[c] \cup {lists[id].key}
      BY <3>1 DEF Stored
    <3> QED  BY <2>3, <3>1, <3>2, <3>3
  <2>5. CASE ClientMain(c)
    <3>1. cachedLast'[c] = cachedLast[c] /\ DOMAIN cached'[c] = DOMAIN cached[c]
      BY <1>0, <2>5 DEF ClientMain, ClientAdvance, ClientAgain, PassFrame, ClientRevisit,
         GetCommands, GiveUpWaiting, GiveCommands, GivenAll, ClientUpdate, threadVars,
         CacheType
    <3>2. pc'[c] # "wait" => key'[c] <= key[Server]
      <4>1. CASE ClientAdvance(c) \/ ClientAgain(c)
        <5>1. pc[c] # "wait" /\ \E more \in BOOLEAN : PassFrame(c, more)
          BY <4>1, PassesFrame DEF ClientAdvance, ClientAgain
        <5> QED  BY <2>3, <5>1, PassFrameFacts
      <4>2. CASE GetCommands(c)
        BY <2>3, <4>2 DEF GetCommands
      <4>3. CASE GiveUpWaiting(c)
        <5>1. key'[c] = key[c] /\ cachedLast[c] > key[c]
          BY <4>3 DEF GiveUpWaiting
        <5> QED  BY <2>1, <2>3, <5>1
      <4>4. CASE ClientRevisit(c) \/ GiveCommands(c) \/ GivenAll(c) \/ ClientUpdate(c)
        BY <2>3, <4>4 DEF ClientRevisit, GiveCommands, GivenAll, ClientUpdate
      <4> QED  BY <2>5, <4>1, <4>2, <4>3, <4>4 DEF ClientMain
    <3> QED  BY <2>3, <3>1, <3>2
  <2> QED  BY <1>3, <2>4, <2>5
<1>4. ASSUME NEW c \in Client,
             \/ NetEnter(c) \/ NetFail(c) \/ NetNotice(c) \/ NetTimeout(c)
             \/ SlotReceive(c) \/ Drop(c) \/ PollSlot(c)
      PROVE  AheadInv'
  BY <1>1, <1>4 DEF NetEnter, NetFail, NetNotice, NetTimeout, SlotReceive, Drop, PollSlot,
     threadVars, mainVars
<1>5. ASSUME NEW r \in Replica, Request(r) PROVE AheadInv'
  BY <1>1, <1>5 DEF Request, threadVars, mainVars
<1>6. CASE ServerFrame
  BY <1>1, <1>6 DEF ServerFrame, threadVars, mainVars
<1>7. CASE UNCHANGED vars
  BY <1>1, <1>7 DEF vars
<1> QED
  BY <1>2, <1>3, <1>4, <1>5, <1>6, <1>7 DEF Next, ServerNext, ClientNet

(* No client simulates the frames after a keyframe that the server has not *)
(* reached.                                                                *)
THEOREM NotAheadHolds == Spec => []NotAhead
<1>1. Init => AheadInv
  <2> SUFFICES ASSUME Init, NEW c \in Client
               PROVE  /\ cachedLast[c] <= key[Server]
                      /\ \A k \in DOMAIN cached[c] : k <= key[Server]
                      /\ key[c] <= key[Server]
    BY DEF AheadInv
  <2>1. key[Server] = 0 /\ key[c] = 0 /\ cachedLast[c] = 0 /\ cached[c] = <<>>
    BY Members DEF Init
  <2> QED  BY <2>1
<1>2. AheadInv => NotAhead
  BY DEF AheadInv, NotAhead
<1> QED  BY <1>1, <1>2, TypeCorrect, Invariant, AheadNext, PTL DEF Spec

-----------------------------------------------------------------------------
(* The log is a sequence of entries, one for each list.                    *)
LEMMA LogOfType ==
  ASSUME ListsType
  PROVE  /\ Len(lists) \in Nat
         /\ LogOf \in Seq(Log!Entry) /\ Len(LogOf) = Len(lists)
         /\ DOMAIN LogOf = 1 .. Len(lists)
         /\ \A i \in 1 .. Len(lists) : LogOf[i] = LogEntry(i)
<1>1. Len(lists) \in Nat
  BY ListEntries
<1>2. ASSUME NEW i \in 1 .. Len(lists) PROVE LogEntry(i) \in Log!Entry
  <2>1. lists[i] \in [key : Nat, cmds : Seq(Command), paused : BOOLEAN]
    BY ElementOfSeq, Zenon DEF ListsType
  <2> QED  BY <2>1 DEF LogEntry, Log!Entry
<1>3. LogOf \in Seq(Log!Entry)
  BY <1>1, <1>2 DEF LogOf
<1> QED  BY <1>1, <1>3 DEF LogOf

(* An attached client has a beginning of the log behind it.                *)
LEMMA HistoryIsPrefix ==
  ASSUME TypeOK, IndInv, NEW c \in Client, Attached(c)
  PROVE  /\ Len(executed[c]) \in Nat /\ Len(executed[c]) <= Len(lists)
         /\ HistoryOf[c] = [i \in 1 .. Len(executed[c]) |-> LogEntry(i)]
         /\ HistoryOf[c] \in Seq(Log!Entry)
         /\ Len(HistoryOf[c]) = Len(executed[c])
<1> DEFINE E == Len(executed[c])
<1>0. ListsType /\ ReplicaType
  BY DEF TypeOK
<1>1. WireInv(c) /\ CacheInv(c) /\ PlaceInv(c)
  BY DEF IndInv, ClientInv, Attached
<1>2. /\ E \in Nat /\ E <= Len(lists) /\ Len(lists) \in Nat
      /\ DOMAIN executed[c] = 1 .. E
  BY <1>0, <1>1, ClientFacts, ReplicaLengths
<1>3. \A i \in 1 .. E : executed[c][i] = [list |-> i, key |-> lists[i].key]
  BY <1>1, <1>2 DEF PlaceInv
<1>4. ASSUME NEW i \in 1 .. E
      PROVE  [LogEntry(executed[c][i].list) EXCEPT !.key = executed[c][i].key] = LogEntry(i)
  <2>1. executed[c][i].list = i /\ executed[c][i].key = lists[i].key
    <3>1. executed[c][i] = [list |-> i, key |-> lists[i].key]
      BY <1>3
    <3> HIDE DEF E
    <3> QED  BY <3>1, SMT
  <2> QED  BY <2>1 DEF LogEntry
<1>5. HistoryOf[c] = [i \in 1 .. E |-> LogEntry(i)]
  <2>1. HistoryOf[c] = [i \in 1 .. E |->
          [LogEntry(executed[c][i].list) EXCEPT !.key = executed[c][i].key]]
    BY DEF HistoryOf
  <2> QED  BY <1>4, <2>1
<1>6. \A i \in 1 .. E : i \in 1 .. Len(lists)
  BY <1>2
<1>7. \A i \in 1 .. E : LogEntry(i) \in Log!Entry
  <2>1. \A i \in 1 .. Len(lists) : LogOf[i] \in Log!Entry /\ LogOf[i] = LogEntry(i)
    BY <1>0, LogOfType
  <2> QED  BY <1>6, <2>1
<1>8. [i \in 1 .. E |-> LogEntry(i)] \in Seq(Log!Entry)
  BY <1>2, <1>7
<1> QED  BY <1>2, <1>5, <1>8

(* The same, as a state predicate.                                         *)
HistoryInv ==
  \A c \in Client : Attached(c) =>
    /\ Len(executed[c]) \in Nat /\ Len(executed[c]) <= Len(lists)
    /\ HistoryOf[c] = [i \in 1 .. Len(executed[c]) |-> LogEntry(i)]
    /\ HistoryOf[c] \in Seq(Log!Entry)
    /\ Len(HistoryOf[c]) = Len(executed[c])

(* It follows from the inductive invariant.                                *)
LEMMA HistoryInvHolds == TypeOK /\ IndInv => HistoryInv
BY HistoryIsPrefix DEF HistoryInv

-----------------------------------------------------------------------------
(* At the start the log is empty.                                          *)
LEMMA RefineInit == Init => Log!Init
<1> SUFFICES ASSUME Init PROVE Log!Init
  OBVIOUS
<1>1. LogOf = <<>>
  <2>1. Len(lists) = 0
    BY DEF Init
  <2> QED  BY <2>1 DEF LogOf
<1>2. AttachedOf = [c \in Client |-> TRUE]
  BY DEF Init, AttachedOf, Attached
<1>3. HistoryOf = [c \in Client |-> <<>>]
  <2>1. \A c \in Client : Attached(c) /\ Len(executed[c]) = 0
    BY DEF Init, Attached
  <2>2. \A c \in Client : HistoryOf[c] = <<>>
    BY <2>1 DEF HistoryOf
  <2> QED  BY <2>2 DEF HistoryOf
<1> QED  BY <1>1, <1>2, <1>3 DEF Log!Init

(* A keyframe of the server issues an entry.                               *)
LEMMA RefineKeyframe ==
  ASSUME TypeOK, TypeOK', IndInv, IndInv', NEW stop \in Stops, ServerKeyframe(stop)
  PROVE  \E Lost \in SUBSET Client : Log!Issue(Lost)
<1> DEFINE n == Len(lists)
           Lost == {c \in Client : link[c] /\ c >= stop}
<1>0. ListsType /\ ListsType' /\ LinkType /\ ReplicaType
  BY DEF TypeOK
<1>1. \E e : lists' = Append(lists, e)
  BY DEF ServerKeyframe
<1>2. n \in Nat /\ Len(lists') = n + 1 /\ \A i \in 1 .. n : lists'[i] = lists[i]
  BY <1>0, <1>1 DEF ListsType
<1>3. /\ LogOf \in Seq(Log!Entry) /\ Len(LogOf) = n /\ DOMAIN LogOf = 1 .. n
      /\ \A i \in 1 .. n : LogOf[i] = LogEntry(i)
  BY <1>0, LogOfType
<1>4. /\ LogOf' = [i \in 1 .. n + 1 |-> LogEntry(i)']
      /\ \A i \in 1 .. n : LogEntry(i)' = LogEntry(i)
      /\ \A i \in 1 .. n + 1 : LogEntry(i)' \in Log!Entry
  <2>1. LogOf' = [i \in 1 .. Len(lists') |-> LogEntry(i)']
    BY DEF LogOf
  <2>2. \A i \in 1 .. n : LogEntry(i)' = LogEntry(i)
    BY <1>2 DEF LogEntry
  <2>3. \A i \in 1 .. Len(lists') : LogEntry(i)' \in Log!Entry
    <3> SUFFICES ASSUME NEW i \in 1 .. Len(lists') PROVE LogEntry(i)' \in Log!Entry
      OBVIOUS
    <3>1. lists'[i] \in [key : Nat, cmds : Seq(Command), paused : BOOLEAN]
      BY <1>0, ElementOfSeq, Zenon DEF ListsType
    <3> QED  BY <3>1 DEF LogEntry, Log!Entry
  <2> QED  BY <1>2, <2>1, <2>2, <2>3
<1>5. /\ Len(LogOf') = n + 1 /\ LogOf'[n + 1] \in Log!Entry
      /\ LogOf' \in Seq(Log!Entry)
      /\ \A i \in 1 .. n : LogOf'[i] = LogOf[i]
  <2>1. n + 1 \in Nat /\ n + 1 \in 1 .. n + 1 /\ \A i \in 1 .. n : i \in 1 .. n + 1
    BY <1>2
  <2>2. LogOf' \in Seq(Log!Entry)
    BY <1>4, <2>1
  <2> QED  BY <1>3, <1>4, <2>1, <2>2
<1>6. SubSeq(LogOf', 1, Len(LogOf)) = LogOf
  <2>1. LogOf = [i \in 1 .. n |-> LogOf'[i]]
    BY <1>3, <1>5
  <2>2. SubSeq(LogOf', 1, n) = [i \in 1 .. n |-> LogOf'[i]]
    <3>1. n \in 0 .. Len(LogOf') /\ 1 \in 1 .. n + 1
      BY <1>2, <1>5
    <3> HIDE DEF n
    <3>2. /\ SubSeq(LogOf', 1, n) \in Seq(Log!Entry) /\ Len(SubSeq(LogOf', 1, n)) = n
          /\ \A i \in 1 .. n : SubSeq(LogOf', 1, n)[i] = LogOf'[i]
      BY <1>2, <1>5, <3>1
    <3> QED  BY <1>2, <3>2
  <2> QED  BY <1>3, <2>1, <2>2
<1>7. n > 0 => LogOf[n].key <= LogOf'[n + 1].key
  <2> SUFFICES ASSUME n > 0 PROVE LogOf[n].key <= LogOf'[n + 1].key
    OBVIOUS
  <2>1. n \in 1 .. n + 1 /\ n + 1 \in 1 .. n + 1 /\ n \in 1 .. n
    BY <1>2
  <2>2. LogOf[n].key = lists[n].key /\ LogOf'[n + 1].key = lists'[n + 1].key
    <3>1. \A i \in 1 .. n + 1 : LogOf'[i] = [key |-> lists'[i].key, cmds |-> lists'[i].cmds]
      BY <1>4 DEF LogEntry
    <3>2. LogOf[n] = LogEntry(n)
      BY <1>3, <2>1
    <3>3. LogOf'[n + 1] = [key |-> lists'[n + 1].key, cmds |-> lists'[n + 1].cmds]
      BY <2>1, <3>1
    <3> QED  BY <3>2, <3>3 DEF LogEntry
  <2>3. \A i \in 0 .. Len(lists') : KeyOf(i)' = IF i = 0 THEN 0 ELSE lists'[i].key
    BY DEF KeyOf
  <2>4. n \in 0 .. Len(lists') /\ n + 1 \in 0 .. Len(lists') /\ n <= n + 1 /\ n # 0 /\ n + 1 # 0
    BY <1>2
  <2>5. \A i, j \in 0 .. Len(lists') : i <= j => KeyOf(i)' <= KeyOf(j)'
    BY DEF IndInv, ListsInv
  <2>6. lists'[n].key <= lists'[n + 1].key
    <3> HIDE DEF n
    <3> QED  BY <2>3, <2>4, <2>5
  <2> QED  BY <1>2, <2>1, <2>2, <2>6
<1>8. AttachedOf' = [c \in Client |-> AttachedOf[c] /\ c \notin Lost]
  <2>1. \A c \in Client : /\ missed'[c] = (missed[c] \/ (link[c] /\ c >= stop))
                          /\ strayed'[c] = strayed[c]
    BY DEF ServerKeyframe, mainVars
  <2>2. \A c \in Client : Attached(c)' = (Attached(c) /\ c \notin Lost)
    BY <2>1 DEF Attached
  <2> QED  BY <2>2 DEF AttachedOf
<1>9. HistoryOf' = [c \in Client |-> IF AttachedOf'[c] THEN HistoryOf[c] ELSE <<>>]
  <2> SUFFICES ASSUME NEW c \in Client
               PROVE  HistoryOf'[c] = IF AttachedOf'[c] THEN HistoryOf[c] ELSE <<>>
    BY DEF HistoryOf
  <2>1. AttachedOf'[c] = Attached(c)'
    BY DEF AttachedOf
  <2>2. CASE ~Attached(c)'
    BY <2>1, <2>2 DEF HistoryOf
  <2>3. CASE Attached(c)'
    <3>1. Attached(c) /\ executed' = executed
      BY <2>3 DEF ServerKeyframe, mainVars, Attached
    <3>2. \A i \in 1 .. Len(executed[c]) : executed[c][i].list \in 1 .. n
      <4>1. executed[c] \in Seq([list : 1 .. Len(lists), key : Nat])
        BY <1>0 DEF ReplicaType
      <4>2. \A i \in 1 .. Len(executed[c]) : executed[c][i] \in [list : 1 .. Len(lists), key : Nat]
        BY <4>1, ElementOfSeq, Zenon
      <4> QED  BY <4>2
    <3>3. \A i \in 1 .. Len(executed[c]) :
            LogEntry(executed[c][i].list)' = LogEntry(executed[c][i].list)
      BY <1>2, <3>1, <3>2 DEF LogEntry
    <3> QED  BY <2>1, <2>3, <3>1, <3>3 DEF HistoryOf
  <2> QED  BY <2>2, <2>3
<1> QED
  <2>1. Len(LogOf') = Len(LogOf) + 1 /\ LogOf'[Len(LogOf')] \in Log!Entry
    BY <1>3, <1>5
  <2>2. Len(LogOf) > 0 => LogOf[Len(LogOf)].key <= LogOf'[Len(LogOf')].key
    BY <1>3, <1>5, <1>7
  <2>3. Log!Issue(Lost)
    BY <1>6, <1>8, <1>9, <2>1, <2>2 DEF Log!Issue
  <2> QED  BY <2>3

(* A client that gives a pending list executes an entry.                   *)
LEMMA RefineGive ==
  ASSUME TypeOK, IndInv, HistoryInv, HistoryInv', NEW c \in Client, Attached(c),
         GiveCommands(c)
  PROVE  Log!Execute(c)
<1> DEFINE E == Len(executed[c])
<1>0. ListsType /\ ReplicaType /\ LoopType
  BY DEF TypeOK
<1>1. lists' = lists /\ \A d \in Client : Attached(d)' = Attached(d)
  BY DEF GiveCommands, serverVars, catchVars, Attached
<1>2. /\ E \in Nat /\ E <= Len(lists) /\ HistoryOf[c] \in Seq(Log!Entry)
      /\ HistoryOf[c] = [i \in 1 .. E |-> LogEntry(i)] /\ Len(HistoryOf[c]) = E
  BY DEF HistoryInv
<1>3. /\ Len(executed'[c]) <= Len(lists)
      /\ HistoryOf'[c] = [i \in 1 .. Len(executed'[c]) |-> LogEntry(i)']
  BY <1>1 DEF HistoryInv
<1>4. \A i : LogEntry(i)' = LogEntry(i)
  BY <1>1 DEF LogEntry
<1>5. Len(executed'[c]) = E + 1
  <2>1. executed[c] \in Seq([list : 1 .. Len(lists), key : Nat])
    BY <1>0 DEF ReplicaType
  <2>2. \E e : executed'[c] = Append(executed[c], e)
    BY <1>0 DEF GiveCommands, ReplicaType
  <2> QED  BY <2>1, <2>2
<1>6. /\ Len(lists) \in Nat /\ LogOf' = LogOf /\ AttachedOf' = AttachedOf
      /\ Len(LogOf) = Len(lists) /\ E + 1 \in 1 .. Len(lists)
      /\ LogOf[E + 1] = LogEntry(E + 1)
  <2>1. /\ Len(lists) \in Nat /\ Len(LogOf) = Len(lists)
        /\ \A i \in 1 .. Len(lists) : LogOf[i] = LogEntry(i)
    BY <1>0, LogOfType
  <2>2. E + 1 \in 1 .. Len(lists)
    BY <1>2, <1>3, <1>5, <2>1
  <2>3. LogOf' = LogOf /\ AttachedOf' = AttachedOf
    BY <1>1 DEF LogOf, LogEntry, AttachedOf
  <2> QED  BY <2>1, <2>2, <2>3
<1>7. HistoryOf'[c] = Append(HistoryOf[c], LogEntry(E + 1))
  <2> DEFINE longer == [i \in 1 .. E + 1 |-> LogEntry(i)]
  <2>1. HistoryOf'[c] = longer
    BY <1>3, <1>4, <1>5
  <2>2. LogEntry(E + 1) \in Log!Entry
    <3>1. LogOf \in Seq(Log!Entry)
      BY <1>0, LogOfType
    <3> QED  BY <1>6, <3>1, ElementOfSeq
  <2>3. /\ Append(HistoryOf[c], LogEntry(E + 1)) \in Seq(Log!Entry)
        /\ Len(Append(HistoryOf[c], LogEntry(E + 1))) = E + 1
        /\ Append(HistoryOf[c], LogEntry(E + 1))[E + 1] = LogEntry(E + 1)
        /\ \A i \in 1 .. E : Append(HistoryOf[c], LogEntry(E + 1))[i] = HistoryOf[c][i]
    <3> HIDE DEF E
    <3> QED  BY <1>2, <2>2, AppendType
  <2>4. \A i \in 1 .. E : HistoryOf[c][i] = LogEntry(i)
    BY <1>2
  <2>5. \A i \in 1 .. E + 1 : i \in 1 .. E \/ i = E + 1
    BY <1>2
  <2>6. \A i \in 1 .. E + 1 : Append(HistoryOf[c], LogEntry(E + 1))[i] = LogEntry(i)
    BY <2>3, <2>4, <2>5
  <2>7. Append(HistoryOf[c], LogEntry(E + 1)) = longer
    <3> HIDE DEF E
    <3> QED  BY <1>2, <2>3, <2>6
  <2> QED  BY <2>1, <2>7
<1>8. \A d \in Client \ {c} : HistoryOf'[d] = HistoryOf[d]
  <2>1. \A d \in Client \ {c} : executed'[d] = executed[d]
    BY <1>0 DEF GiveCommands, ReplicaType
  <2> QED  BY <1>1, <1>4, <2>1 DEF HistoryOf
<1>9. HistoryOf' = [HistoryOf EXCEPT ![c] = Append(@, LogOf[Len(@) + 1])]
  <2> DEFINE new2 == [HistoryOf EXCEPT ![c] = Append(@, LogOf[Len(@) + 1])]
  <2>1. /\ DOMAIN HistoryOf = Client
        /\ HistoryOf' = [d \in Client |-> HistoryOf'[d]]
    BY DEF HistoryOf
  <2>2. Append(HistoryOf[c], LogOf[Len(HistoryOf[c]) + 1]) = HistoryOf'[c]
    BY <1>2, <1>6, <1>7
  <2>3. new2 = [d \in Client |-> IF d = c THEN HistoryOf'[c] ELSE HistoryOf[d]]
    BY <2>1, <2>2
  <2> QED  BY <1>8, <2>1, <2>3
<1>10. AttachedOf[c] /\ Len(HistoryOf[c]) < Len(LogOf)
  <2>1. AttachedOf[c]
    BY DEF AttachedOf
  <2>2. E < Len(LogOf)
    <3> HIDE DEF E
    <3> QED  BY <1>2, <1>6
  <2> QED  BY <1>2, <2>1, <2>2
<1> QED  BY <1>6, <1>9, <1>10 DEF Log!Execute

(* What the other steps change of the log: nothing, but that a client may  *)
(* leave the common course when it passes a frame.                         *)
LEMMA RefineOther ==
  ASSUME TypeOK, [Next]_vars, ~ \E stop \in Stops : ServerKeyframe(stop)
  PROVE  /\ LogOf' = LogOf
         /\ \A c \in Client : Attached(c)' /= Attached(c) =>
              ~Attached(c)' /\ (ClientAdvance(c) \/ ClientAgain(c))
<1>1. lists' = lists /\ missed' = missed
  BY DEF Next, ServerNext, ClientMain, ClientNet, vars, Request, ServerFrame, PollSlot,
     SlotReceive, Drop, ClientAdvance, ClientAgain, PassFrame, ClientRevisit, GetCommands,
     GiveUpWaiting, GiveCommands, GivenAll, ClientUpdate, NetEnter, NetReceive, NetFail,
     NetNotice, NetTimeout, serverVars
<1>2. ASSUME NEW c \in Client, strayed'[c] # strayed[c]
      PROVE  strayed'[c] /\ (ClientAdvance(c) \/ ClientAgain(c))
  <2>1. PICK d \in Client : ClientAdvance(d) \/ ClientAgain(d)
    BY <1>2 DEF Next, ServerNext, ClientMain, ClientNet, vars, Request, ServerFrame,
       PollSlot, SlotReceive, Drop, ClientRevisit, GetCommands, GiveUpWaiting,
       GiveCommands, GivenAll, ClientUpdate, NetEnter, NetReceive, NetFail, NetNotice,
       NetTimeout, mainVars, catchVars
  <2>2. /\ \A e \in Client \ {d} : strayed'[e] = strayed[e]
        /\ strayed[d] => strayed'[d]
    BY <2>1, StepFrame DEF ClientMain, Same
  <2>3. strayed \in [Client -> BOOLEAN] /\ strayed' \in [Client -> BOOLEAN]
    BY NextType DEF TypeOK, CatchUpType
  <2> QED  BY <1>2, <2>1, <2>2, <2>3
<1>3. LogOf' = LogOf
  BY <1>1 DEF LogOf, LogEntry
<1> QED  BY <1>1, <1>2, <1>3 DEF Attached

(* A step that gives no attached client a list leaves the histories of     *)
(* those that stay attached as they are.                                   *)
LEMMA RefineHistory ==
  ASSUME TypeOK, [Next]_vars, ~ \E stop \in Stops : ServerKeyframe(stop),
         ~ \E c \in Client : Attached(c) /\ GiveCommands(c)
  PROVE  \A c \in Client :
           HistoryOf'[c] = IF Attached(c)' THEN HistoryOf[c] ELSE <<>>
<1>1. lists' = lists
  BY DEF Next, ServerNext, ClientMain, ClientNet, vars, Request, ServerFrame, PollSlot,
     SlotReceive, Drop, ClientAdvance, ClientAgain, PassFrame, ClientRevisit, GetCommands,
     GiveUpWaiting, GiveCommands, GivenAll, ClientUpdate, NetEnter, NetReceive, NetFail,
     NetNotice, NetTimeout, serverVars
<1>2. \A c \in Client : Attached(c) => executed'[c] = executed[c]
  <2>1. CASE executed' = executed
    BY <2>1
  <2>2. ASSUME NEW c \in Client, GiveCommands(c), ~Attached(c)
        PROVE  \A d \in Client : Attached(d) => executed'[d] = executed[d]
    BY <2>2 DEF GiveCommands, TypeOK, ReplicaType
  <2> QED
    BY <2>1, <2>2 DEF Next, ServerNext, ClientMain, ClientNet, vars, Request, ServerFrame,
       PollSlot, SlotReceive, Drop, ClientAdvance, ClientAgain, PassFrame, ClientRevisit,
       GetCommands, GiveUpWaiting, GivenAll, ClientUpdate, NetEnter, NetReceive, NetFail,
       NetNotice, NetTimeout, mainVars
<1>3. \A i : LogEntry(i)' = LogEntry(i)
  BY <1>1 DEF LogEntry
<1>4. \A c \in Client : Attached(c)' => Attached(c)
  BY RefineOther
<1> QED  BY <1>2, <1>3, <1>4 DEF HistoryOf

(* A step that makes a client stray detaches it; any other one stutters.   *)
LEMMA RefineRest ==
  ASSUME TypeOK, [Next]_vars, ~ \E stop \in Stops : ServerKeyframe(stop),
         ~ \E c \in Client : Attached(c) /\ GiveCommands(c)
  PROVE  (\E c \in Client : Log!Detach(c)) \/ UNCHANGED Log!logVars
<1>1. /\ DOMAIN HistoryOf = Client /\ HistoryOf' = [d \in Client |-> HistoryOf'[d]]
      /\ HistoryOf = [d \in Client |-> HistoryOf[d]]
  BY DEF HistoryOf
<1>2. /\ AttachedOf = [d \in Client |-> Attached(d)]
      /\ AttachedOf' = [d \in Client |-> Attached(d)']
  BY DEF AttachedOf
<1>3. LogOf' = LogOf
  BY RefineOther
<1>4. \A d \in Client : ~Attached(d) => HistoryOf[d] = <<>>
  BY DEF HistoryOf
<1>5. CASE \A d \in Client : Attached(d)' = Attached(d)
  <2>1. AttachedOf' = AttachedOf
    BY <1>2, <1>5
  <2>2. \A d \in Client : HistoryOf'[d] = HistoryOf[d]
    BY <1>4, <1>5, RefineHistory
  <2>3. HistoryOf' = HistoryOf
    BY <1>1, <2>2
  <2> QED  BY <1>3, <2>1, <2>3 DEF Log!logVars
<1>6. ASSUME NEW c \in Client, Attached(c)' /= Attached(c) PROVE Log!Detach(c)
  <2>1. ~Attached(c)' /\ (ClientAdvance(c) \/ ClientAgain(c))
    BY <1>6, RefineOther
  <2>2. \A d \in Client \ {c} : Attached(d)' = Attached(d)
    BY <2>1, StepFrame DEF ClientMain, Same, Attached
  <2>3. \A d \in Client : HistoryOf'[d] = IF d = c THEN <<>> ELSE HistoryOf[d]
    BY <1>4, <2>1, <2>2, RefineHistory
  <2>4. HistoryOf' = [HistoryOf EXCEPT ![c] = <<>>]
    BY <1>1, <2>3
  <2>5. AttachedOf' = [AttachedOf EXCEPT ![c] = FALSE]
    <3>1. \A d \in Client : Attached(d)' = IF d = c THEN FALSE ELSE AttachedOf[d]
      <4>1. Attached(c)' = FALSE
        BY <2>1, Zenon DEF Attached
      <4> QED  BY <1>2, <2>2, <4>1
    <3>2. [AttachedOf EXCEPT ![c] = FALSE] =
            [d \in Client |-> IF d = c THEN FALSE ELSE AttachedOf[d]]
      BY <1>2
    <3> QED  BY <1>2, <3>1, <3>2
  <2> QED  BY <1>3, <2>4, <2>5 DEF Log!Detach
<1> QED  BY <1>5, <1>6

(* The protocol implements the abstract log of command lists.              *)
THEOREM Refinement == Spec => ImplementsLog
<1>1. TypeOK /\ TypeOK' /\ IndInv /\ IndInv' /\ HistoryInv /\ HistoryInv' /\ [Next]_vars
        => [Log!Next]_Log!logVars
  <2> SUFFICES ASSUME TypeOK, TypeOK', IndInv, IndInv', HistoryInv, HistoryInv', [Next]_vars
               PROVE  [Log!Next]_Log!logVars
    OBVIOUS
  <2>1. ASSUME NEW stop \in Stops, ServerKeyframe(stop) PROVE Log!Next
    BY <2>1, RefineKeyframe DEF Log!Next
  <2>2. ASSUME NEW c \in Client, Attached(c), GiveCommands(c) PROVE Log!Next
    BY <2>2, RefineGive DEF Log!Next
  <2> QED  BY <2>1, <2>2, RefineRest DEF Log!Next
<1> QED
  BY <1>1, RefineInit, TypeCorrect, Invariant, HistoryInvHolds, PTL
     DEF Spec, ImplementsLog, Log!Spec

-----------------------------------------------------------------------------
(* Where a command is *)

(* A sequence has a command, and not twice; the same of a list of lists.   *)
Has(s, m) == \E i \in DOMAIN s : s[i] = m
Once(s, m) == \A i, j \in DOMAIN s : s[i] = m /\ s[j] = m => i = j
HasIn(ss, m) == \E i \in DOMAIN ss : Has(ss[i], m)
OnceIn(ss, m) ==
  /\ \A i \in DOMAIN ss : Once(ss[i], m)
  /\ \A i, j \in DOMAIN ss : Has(ss[i], m) /\ Has(ss[j], m) => i = j

(* The boxes of each replica through which a command passes.               *)
CmdLists == [i \in 1 .. Len(lists) |-> lists[i].cmds]
Boxes(m) ==
  {<<"todo", r>> : r \in {q \in Replica : Has(todo[q], m)}}
    \cup {<<"requested", r>> : r \in {q \in Replica : Has(requested[q], m)}}
    \cup {<<"uplink", c>> : c \in {q \in Client : HasIn(uplink[q], m)}}
    \cup {<<"slot", c>> : c \in {q \in Client : Has(slotPending[q], m)}}
    \cup {<<"list", l>> : l \in {n \in {0} : HasIn(CmdLists, m)}}

(* No box has the command twice.                                           *)
OnceInv(m) ==
  /\ \A r \in Replica : Once(todo[r], m) /\ Once(requested[r], m)
  /\ \A c \in Client : OnceIn(uplink[c], m) /\ Once(slotPending[c], m)
  /\ OnceIn(CmdLists, m)

(* On its way to the server a command is in the boxes of its player.       *)
OriginInv(m) ==
  /\ \A r \in Replica : Has(todo[r], m) => Has(Script[r], m)
  /\ \A c \in Client : /\ Has(requested[c], m) => Has(Script[c], m)
                       /\ HasIn(uplink[c], m) => Has(Script[c], m)
                       /\ Has(slotPending[c], m) => Has(Script[c], m)

(* A command in no box was lost with the connection of its client.         *)
LostInv(m) ==
  Boxes(m) = {} => \E c \in Client : Has(Script[c], m) /\ ~link[c]

ConserveInv(m) ==
  /\ OnceInv(m) /\ OriginInv(m) /\ LostInv(m)
  /\ \A x, y \in Boxes(m) : x = y

(* The commands that the players ever ask for.                             *)
Scripted == UNION {{Script[r][j] : j \in DOMAIN Script[r]} : r \in Replica}
-----------------------------------------------------------------------------
(* Nothing is in an empty sequence.                                        *)
LEMMA EmptyHas ==
  ASSUME NEW m
  PROVE  /\ ~Has(<<>>, m) /\ Once(<<>>, m)
         /\ ~HasIn(<<>>, m) /\ OnceIn(<<>>, m)
BY DEF Has, Once, HasIn, OnceIn

(* Appending a command that a sequence has not leaves none twice.          *)
LEMMA AppendHas ==
  ASSUME NEW T, NEW s \in Seq(T), NEW e \in T, NEW m
  PROVE  /\ Has(Append(s, e), m) <=> Has(s, m) \/ e = m
         /\ Once(s, m) /\ ~(Has(s, m) /\ e = m) => Once(Append(s, e), m)
<1>1. /\ Len(s) \in Nat /\ DOMAIN s = 1 .. Len(s)
      /\ DOMAIN Append(s, e) = 1 .. Len(s) + 1
      /\ \A i \in 1 .. Len(s) : Append(s, e)[i] = s[i] /\ i \in 1 .. Len(s) + 1
      /\ Append(s, e)[Len(s) + 1] = e /\ Len(s) + 1 \in 1 .. Len(s) + 1
      /\ \A i \in 1 .. Len(s) + 1 : i \in 1 .. Len(s) \/ i = Len(s) + 1
  OBVIOUS
<1> DEFINE a == Append(s, e)
           n == Len(s) + 1
           L == Len(s)
<1> HIDE DEF a, n, L
<1> QED  BY <1>1, Zenon DEF Has, Once, a, n, L

(* So does appending a sequence with which it shares none.                 *)
LEMMA ConcatHas ==
  ASSUME NEW T, NEW s \in Seq(T), NEW t \in Seq(T), NEW m
  PROVE  /\ Has(s \o t, m) <=> Has(s, m) \/ Has(t, m)
         /\ Once(s, m) /\ Once(t, m) /\ ~(Has(s, m) /\ Has(t, m)) => Once(s \o t, m)
<1> DEFINE a == s \o t
           k == Len(s)
           l == Len(t)
<1>1. /\ k \in Nat /\ l \in Nat /\ DOMAIN s = 1 .. k /\ DOMAIN t = 1 .. l
      /\ DOMAIN a = 1 .. k + l
      /\ \A i \in 1 .. k : a[i] = s[i] /\ i \in 1 .. k + l
      /\ \A i \in 1 .. l : a[k + i] = t[i] /\ k + i \in 1 .. k + l
  BY ConcatProperties
<1> HIDE DEF a, k, l
<1>2. ASSUME NEW i \in 1 .. k + l, i \notin 1 .. k
      PROVE  \E j \in 1 .. l : i = k + j /\ a[i] = t[j]
  <2>1. i - k \in 1 .. l /\ i = k + (i - k)
    BY <1>1, <1>2
  <2> QED  BY <1>1, <2>1
<1>3. Has(a, m) <=> Has(s, m) \/ Has(t, m)
  <2>1. Has(a, m) => Has(s, m) \/ Has(t, m)
    BY <1>1, <1>2 DEF Has
  <2>2. Has(s, m) => Has(a, m)
    BY <1>1 DEF Has
  <2>3. Has(t, m) => Has(a, m)
    BY <1>1 DEF Has
  <2> QED  BY <2>1, <2>2, <2>3
<1>4. ASSUME Once(s, m), Once(t, m), ~(Has(s, m) /\ Has(t, m)),
             NEW i \in 1 .. k + l, NEW j \in 1 .. k + l, a[i] = m, a[j] = m
      PROVE  i = j
  <2>1. CASE i \in 1 .. k /\ j \in 1 .. k
    BY <1>1, <1>4, <2>1 DEF Once
  <2>2. CASE i \notin 1 .. k /\ j \notin 1 .. k
    <3>1. PICK x \in 1 .. l : i = k + x /\ a[i] = t[x]
      BY <1>2, <2>2
    <3>2. PICK y \in 1 .. l : j = k + y /\ a[j] = t[y]
      BY <1>2, <2>2
    <3>3. x = y
      BY <1>1, <1>4, <3>1, <3>2 DEF Once
    <3> QED  BY <3>1, <3>2, <3>3
  <2>3. CASE i \in 1 .. k /\ j \notin 1 .. k
    <3>1. PICK y \in 1 .. l : j = k + y /\ a[j] = t[y]
      BY <1>2, <2>3
    <3> QED  BY <1>1, <1>4, <2>3, <3>1 DEF Has
  <2>4. CASE i \notin 1 .. k /\ j \in 1 .. k
    <3>1. PICK x \in 1 .. l : i = k + x /\ a[i] = t[x]
      BY <1>2, <2>4
    <3> QED  BY <1>1, <1>4, <2>4, <3>1 DEF Has
  <2> QED  BY <2>1, <2>2, <2>3, <2>4
<1>5. Once(s, m) /\ Once(t, m) /\ ~(Has(s, m) /\ Has(t, m)) => Once(a, m)
  BY <1>1, <1>4 DEF Once
<1> QED  BY <1>3, <1>5 DEF a

(* A batch has what has been requested, in the other order.                *)
LEMMA BatchHas ==
  ASSUME NEW T, NEW s \in Seq(T), NEW m
  PROVE  /\ Has(Batch(s), m) <=> Has(s, m)
         /\ Once(s, m) => Once(Batch(s), m)
<1> DEFINE b == Batch(s)
           n == Len(s)
<1>1. /\ n \in Nat /\ DOMAIN s = 1 .. n /\ DOMAIN b = 1 .. n
      /\ \A i \in 1 .. n : b[i] = s[n - i + 1] /\ n - i + 1 \in 1 .. n
  BY DEF Batch
<1> HIDE DEF b, n
<1>2. \A i \in 1 .. n : b[n - i + 1] = s[i]
  <2> SUFFICES ASSUME NEW i \in 1 .. n PROVE b[n - i + 1] = s[i]
    OBVIOUS
  <2> DEFINE j == n - i + 1
  <2>1. j \in 1 .. n /\ n - j + 1 = i
    BY <1>1
  <2> HIDE DEF j
  <2>2. b[j] = s[i]
    BY <1>1, <2>1
  <2> QED  BY <2>2 DEF j
<1>3. Has(b, m) <=> Has(s, m)
  BY <1>1, <1>2 DEF Has
<1>4. ASSUME Once(s, m), NEW i \in 1 .. n, NEW j \in 1 .. n, b[i] = m, b[j] = m
      PROVE  i = j
  <2>1. n - i + 1 = n - j + 1
    BY <1>1, <1>4 DEF Once
  <2> QED  BY <1>1, <2>1
<1> QED  BY <1>1, <1>3, <1>4 DEF Once, b

(* Taking the first command leaves the others.                             *)
LEMMA TailHas ==
  ASSUME NEW T, NEW s \in Seq(T), s # <<>>, NEW m
  PROVE  /\ Has(s, m) <=> Head(s) = m \/ Has(Tail(s), m)
         /\ Once(s, m) => Once(Tail(s), m) /\ ~(Head(s) = m /\ Has(Tail(s), m))
         /\ Tail(s) \in Seq(T) /\ Head(s) \in T
<1> DEFINE t == Tail(s)
           n == Len(s)
<1>1. n \in Nat \ {0}
  BY EmptySeq
<1>2. /\ DOMAIN s = 1 .. n /\ DOMAIN t = 1 .. n - 1 /\ Head(s) = s[1]
      /\ t \in Seq(T) /\ Head(s) \in T
      /\ \A i \in 1 .. n - 1 : t[i] = s[i + 1]
  BY <1>1
<1> HIDE DEF t, n
<1>3. /\ 1 \in 1 .. n
      /\ \A i \in 1 .. n - 1 : i + 1 \in 1 .. n /\ i + 1 # 1
      /\ \A i \in 1 .. n : i = 1 \/ (i - 1 \in 1 .. n - 1 /\ i = (i - 1) + 1)
  BY <1>1
<1>4. \A i \in 1 .. n : i # 1 => i - 1 \in 1 .. n - 1 /\ t[i - 1] = s[i]
  BY <1>2, <1>3
<1>5. Has(s, m) <=> Head(s) = m \/ Has(t, m)
  <2>1. Has(s, m) => Head(s) = m \/ Has(t, m)
    BY <1>2, <1>4 DEF Has
  <2>2. Head(s) = m \/ Has(t, m) => Has(s, m)
    BY <1>2, <1>3 DEF Has
  <2> QED  BY <2>1, <2>2
<1>6. ASSUME Once(s, m) PROVE Once(t, m) /\ ~(Head(s) = m /\ Has(t, m))
  <2>1. ~(Head(s) = m /\ Has(t, m))
    BY <1>2, <1>3, <1>6 DEF Once, Has
  <2>2. ASSUME NEW i \in 1 .. n - 1, NEW j \in 1 .. n - 1, t[i] = m, t[j] = m
        PROVE  i = j
    <3>1. i + 1 = j + 1
      BY <1>2, <1>3, <1>6, <2>2 DEF Once
    <3> QED  BY <3>1
  <2> QED  BY <1>2, <2>1, <2>2 DEF Once
<1> QED  BY <1>2, <1>5, <1>6 DEF t

(* The same of lists of lists.                                             *)
LEMMA AppendHasIn ==
  ASSUME NEW T, NEW ss \in Seq(T), NEW e \in T, NEW m
  PROVE  /\ HasIn(Append(ss, e), m) <=> HasIn(ss, m) \/ Has(e, m)
         /\ OnceIn(ss, m) /\ Once(e, m) /\ ~(HasIn(ss, m) /\ Has(e, m))
              => OnceIn(Append(ss, e), m)
<1>1. /\ Len(ss) \in Nat /\ DOMAIN ss = 1 .. Len(ss)
      /\ DOMAIN Append(ss, e) = 1 .. Len(ss) + 1
      /\ \A i \in 1 .. Len(ss) : Append(ss, e)[i] = ss[i] /\ i \in 1 .. Len(ss) + 1
      /\ Append(ss, e)[Len(ss) + 1] = e /\ Len(ss) + 1 \in 1 .. Len(ss) + 1
      /\ \A i \in 1 .. Len(ss) + 1 : i \in 1 .. Len(ss) \/ i = Len(ss) + 1
  OBVIOUS
<1> DEFINE a == Append(ss, e)
           n == Len(ss) + 1
           L == Len(ss)
<1> HIDE DEF a, n, L
<1>2. HasIn(a, m) <=> HasIn(ss, m) \/ Has(e, m)
  BY <1>1, Zenon DEF HasIn, a, n, L
<1>3. OnceIn(ss, m) /\ Once(e, m) /\ ~(HasIn(ss, m) /\ Has(e, m)) => OnceIn(a, m)
  BY <1>1 DEF HasIn, OnceIn, a, n, L
<1> QED  BY <1>2, <1>3 DEF a

(* Taking the first list leaves the commands of the others.                *)
LEMMA TailHasIn ==
  ASSUME NEW T, NEW ss \in Seq(T), ss # <<>>, NEW m
  PROVE  /\ HasIn(ss, m) <=> Has(Head(ss), m) \/ HasIn(Tail(ss), m)
         /\ OnceIn(ss, m) => /\ OnceIn(Tail(ss), m) /\ Once(Head(ss), m)
                             /\ ~(Has(Head(ss), m) /\ HasIn(Tail(ss), m))
<1> DEFINE t == Tail(ss)
           n == Len(ss)
<1>1. n \in Nat \ {0}
  BY EmptySeq
<1>2. /\ DOMAIN ss = 1 .. n /\ DOMAIN t = 1 .. n - 1 /\ Head(ss) = ss[1]
      /\ \A i \in 1 .. n - 1 : t[i] = ss[i + 1]
  BY <1>1
<1> HIDE DEF t, n
<1>3. /\ 1 \in 1 .. n
      /\ \A i \in 1 .. n - 1 : i + 1 \in 1 .. n /\ i + 1 # 1
      /\ \A i \in 1 .. n : i = 1 \/ (i - 1 \in 1 .. n - 1 /\ i = (i - 1) + 1)
  BY <1>1
<1>4. \A i \in 1 .. n : i # 1 => i - 1 \in 1 .. n - 1 /\ t[i - 1] = ss[i]
  BY <1>2, <1>3
<1>5. HasIn(ss, m) <=> Has(Head(ss), m) \/ HasIn(t, m)
  <2>1. HasIn(ss, m) => Has(Head(ss), m) \/ HasIn(t, m)
    BY <1>2, <1>4 DEF HasIn
  <2>2. Has(Head(ss), m) \/ HasIn(t, m) => HasIn(ss, m)
    BY <1>2, <1>3 DEF HasIn
  <2> QED  BY <2>1, <2>2
<1>6. ASSUME OnceIn(ss, m)
      PROVE  OnceIn(t, m) /\ Once(Head(ss), m) /\ ~(Has(Head(ss), m) /\ HasIn(t, m))
  <2>1. Once(Head(ss), m) /\ ~(Has(Head(ss), m) /\ HasIn(t, m))
    BY <1>2, <1>3, <1>6 DEF OnceIn, HasIn
  <2>2. ASSUME NEW i \in 1 .. n - 1, NEW j \in 1 .. n - 1, Has(t[i], m), Has(t[j], m)
        PROVE  i = j
    <3>1. i + 1 = j + 1
      BY <1>2, <1>3, <1>6, <2>2 DEF OnceIn
    <3> QED  BY <3>1
  <2>3. \A i \in 1 .. n - 1 : Once(t[i], m)
    BY <1>2, <1>3, <1>6 DEF OnceIn
  <2> QED  BY <1>2, <2>1, <2>2, <2>3 DEF OnceIn
<1> QED  BY <1>5, <1>6 DEF t

(* What is cut off is lost; the rest is as it was.                         *)
LEMMA PrefixHasIn ==
  ASSUME NEW T, NEW ss \in Seq(T), NEW k \in 0 .. Len(ss), NEW m
  PROVE  /\ HasIn(SubSeq(ss, 1, k), m) => HasIn(ss, m)
         /\ OnceIn(ss, m) => OnceIn(SubSeq(ss, 1, k), m)
<1>1. /\ DOMAIN SubSeq(ss, 1, k) = 1 .. k /\ DOMAIN ss = 1 .. Len(ss)
      /\ \A i \in 1 .. k : SubSeq(ss, 1, k)[i] = ss[i] /\ i \in 1 .. Len(ss)
  OBVIOUS
<1> DEFINE p == SubSeq(ss, 1, k)
<1> HIDE DEF p
<1> QED  BY <1>1, Zenon DEF HasIn, OnceIn, p

-----------------------------------------------------------------------------
(* Moves *)

(* What it means to be in a box, before and after a step.                  *)
LEMMA BoxFacts ==
  ASSUME NEW m
  PROVE  /\ \A r : <<"todo", r>> \in Boxes(m) <=> r \in Replica /\ Has(todo[r], m)
         /\ \A r : <<"requested", r>> \in Boxes(m) <=> r \in Replica /\ Has(requested[r], m)
         /\ \A c : <<"uplink", c>> \in Boxes(m) <=> c \in Client /\ HasIn(uplink[c], m)
         /\ \A c : <<"slot", c>> \in Boxes(m) <=> c \in Client /\ Has(slotPending[c], m)
         /\ \A n : <<"list", n>> \in Boxes(m) <=> n = 0 /\ HasIn(CmdLists, m)
         /\ \A x \in Boxes(m) : \/ \E r \in Replica : x = <<"todo", r>> \/ x = <<"requested", r>>
                                \/ \E c \in Client : x = <<"uplink", c>> \/ x = <<"slot", c>>
                                \/ x = <<"list", 0>>
BY DEF Boxes

(* The same after the step.                                                *)
LEMMA BoxFactsAfter ==
  ASSUME NEW m
  PROVE  /\ \A r : <<"todo", r>> \in Boxes(m)' <=> r \in Replica /\ Has(todo'[r], m)
         /\ \A r : <<"requested", r>> \in Boxes(m)' <=> r \in Replica /\ Has(requested'[r], m)
         /\ \A c : <<"uplink", c>> \in Boxes(m)' <=> c \in Client /\ HasIn(uplink'[c], m)
         /\ \A c : <<"slot", c>> \in Boxes(m)' <=> c \in Client /\ Has(slotPending'[c], m)
         /\ \A n : <<"list", n>> \in Boxes(m)' <=> n = 0 /\ HasIn(CmdLists', m)
         /\ \A x \in Boxes(m)' : \/ \E r \in Replica : x = <<"todo", r>> \/ x = <<"requested", r>>
                                 \/ \E c \in Client : x = <<"uplink", c>> \/ x = <<"slot", c>>
                                 \/ x = <<"list", 0>>
BY DEF Boxes

(* A command is in one box at most.                                        *)
Unique(m) == \A x, y \in Boxes(m) : x = y

(* A part of box a moves into box b: if it has the command, a has it no    *)
(* more and b has it now, and otherwise no box changes.                    *)
LEMMA Moved ==
  ASSUME NEW m, Unique(m), NEW a, NEW b, NEW has \in BOOLEAN,
         \A x : x \in Boxes(m)' => x \in Boxes(m) \/ x = b,
         \A x : x \in Boxes(m) => x \in Boxes(m)' \/ x = a,
         has => a \in Boxes(m) /\ a \notin Boxes(m)' /\ b \in Boxes(m)',
         ~has => Boxes(m)' = Boxes(m)
  PROVE  Unique(m)' /\ (Boxes(m)' = {} => Boxes(m) = {})
BY DEF Unique

(* Nothing is lost by a step that changes no connection.                   *)
LEMMA StillLost ==
  ASSUME NEW m, LostInv(m), Boxes(m)' = {} => Boxes(m) = {},
         \A c \in Client : ~link[c] => ~link'[c]
  PROVE  LostInv(m)'
BY DEF LostInv

(* Steps that move no command.                                             *)
LEMMA ConserveQuiet ==
  ASSUME NEW m, ConserveInv(m),
         UNCHANGED <<todo, requested, uplink, slotPending, lists>>,
         \A c \in Client : ~link[c] => ~link'[c]
  PROVE  ConserveInv(m)'
<1>1. CmdLists' = CmdLists
  BY DEF CmdLists
<1>2. Boxes(m)' = Boxes(m)
  BY <1>1 DEF Boxes
<1>3. LostInv(m)'
  BY <1>2, StillLost DEF ConserveInv
<1>4. OnceInv(m)' /\ OriginInv(m)'
  BY <1>1 DEF ConserveInv, OnceInv, OriginInv
<1> QED  BY <1>2, <1>3, <1>4 DEF ConserveInv

(* A command of the script is requested.                                   *)
LEMMA ConserveRequest ==
  ASSUME TypeOK, NEW m, ConserveInv(m), NEW r \in Replica, Request(r)
  PROVE  ConserveInv(m)'
<1> DEFINE e == Head(todo[r])
<1>1. /\ todo[r] \in Seq(Command) /\ todo[r] # <<>> /\ requested[r] \in Seq(Command)
      /\ todo'[r] = Tail(todo[r]) /\ requested'[r] = Append(requested[r], e)
      /\ \A q \in Replica : q # r => todo'[q] = todo[q] /\ requested'[q] = requested[q]
      /\ UNCHANGED <<lists, slotPending, uplink, link>> /\ CmdLists' = CmdLists
  BY DEF Request, serverVars, TypeOK, RequestType, CmdLists
<1>2. /\ e \in Command
      /\ Has(todo[r], m) <=> e = m \/ Has(todo'[r], m)
      /\ Once(todo'[r], m) /\ ~(e = m /\ Has(todo'[r], m))
  BY <1>1, TailHas DEF ConserveInv, OnceInv
<1>3. /\ Has(requested'[r], m) <=> Has(requested[r], m) \/ e = m
      /\ Once(requested[r], m) /\ ~(Has(requested[r], m) /\ e = m) => Once(requested'[r], m)
  BY <1>1, <1>2, AppendHas
<1> HIDE DEF e
<1>4. ~(e = m /\ Has(requested[r], m))
  <2>1. <<"todo", r>> # <<"requested", r>>
    OBVIOUS
  <2> QED  BY <1>2, <2>1, BoxFacts DEF ConserveInv
<1>5. OnceInv(m)'
  BY <1>1, <1>2, <1>3, <1>4 DEF ConserveInv, OnceInv
<1>6. OriginInv(m)'
  BY <1>1, <1>2, <1>3, Members DEF ConserveInv, OriginInv
<1>7. Unique(m)' /\ (Boxes(m)' = {} => Boxes(m) = {})
  <2> DEFINE a == <<"todo", r>>
             b == <<"requested", r>>
  <2>1. ASSUME NEW x \in Boxes(m)' PROVE x \in Boxes(m) \/ x = b
    BY <1>1, <1>2, <1>3, <2>1, BoxFacts, BoxFactsAfter
  <2>2. ASSUME NEW x \in Boxes(m) PROVE x \in Boxes(m)' \/ x = a
    <3>1. ASSUME NEW q \in Replica, x = <<"todo", q>> PROVE x \in Boxes(m)' \/ x = a
      BY <1>1, <3>1, BoxFacts, BoxFactsAfter
    <3>4. ASSUME NEW q \in Replica, x = <<"requested", q>> PROVE x \in Boxes(m)'
      <4>1. Has(requested[q], m)
        BY <3>4, BoxFacts
      <4>2. Has(requested'[q], m)
        BY <1>1, <1>3, <4>1
      <4> QED  BY <3>4, <4>2, BoxFactsAfter
    <3>2. CASE \E c \in Client : x = <<"uplink", c>> \/ x = <<"slot", c>>
      BY <1>1, <3>2, BoxFacts, BoxFactsAfter
    <3>3. CASE x = <<"list", 0>>
      BY <1>1, <3>3, BoxFacts, BoxFactsAfter
    <3> QED  BY <3>1, <3>2, <3>3, <3>4, BoxFacts
  <2>3. e = m => a \in Boxes(m) /\ a \notin Boxes(m)' /\ b \in Boxes(m)'
    BY <1>2, <1>3, BoxFacts, BoxFactsAfter
  <2>4. ASSUME e # m PROVE Boxes(m)' = Boxes(m)
    <3>1. a \in Boxes(m) <=> a \in Boxes(m)'
      BY <1>2, <2>4, BoxFacts, BoxFactsAfter
    <3>2. b \in Boxes(m) <=> b \in Boxes(m)'
      BY <1>3, <2>4, BoxFacts, BoxFactsAfter
    <3> HIDE DEF a, b
    <3> QED  BY <2>1, <2>2, <3>1, <3>2
  <2>5. Unique(m)
    BY DEF ConserveInv, Unique
  <2> HIDE DEF a, b
  <2> QED  BY <2>1, <2>2, <2>3, <2>4, <2>5, Moved
<1>8. LostInv(m)'
  BY <1>1, <1>7, StillLost DEF ConserveInv
<1> QED  BY <1>5, <1>6, <1>7, <1>8 DEF ConserveInv, Unique

(* A command list arrives at its slot.                                     *)
LEMMA ConserveSlotReceive ==
  ASSUME TypeOK, NEW m, ConserveInv(m), NEW c \in Client, SlotReceive(c)
  PROVE  ConserveInv(m)'
<1> DEFINE e == Head(uplink[c])
<1>1. /\ uplink[c] \in Seq(Seq(Command)) /\ uplink[c] # <<>> /\ slotPending[c] \in Seq(Command)
      /\ uplink'[c] = Tail(uplink[c]) /\ slotPending'[c] = slotPending[c] \o e
      /\ \A q \in Client : q # c => uplink'[q] = uplink[q] /\ slotPending'[q] = slotPending[q]
      /\ UNCHANGED <<lists, todo, requested, link>> /\ CmdLists' = CmdLists
  BY DEF SlotReceive, TypeOK, RequestType, CmdLists
<1>2. /\ e \in Seq(Command)
      /\ HasIn(uplink[c], m) <=> Has(e, m) \/ HasIn(uplink'[c], m)
      /\ OnceIn(uplink'[c], m) /\ Once(e, m) /\ ~(Has(e, m) /\ HasIn(uplink'[c], m))
  BY <1>1, TailHas, TailHasIn DEF ConserveInv, OnceInv
<1>3. /\ Has(slotPending'[c], m) <=> Has(slotPending[c], m) \/ Has(e, m)
      /\ Once(slotPending[c], m) /\ ~(Has(slotPending[c], m) /\ Has(e, m))
           => Once(slotPending'[c], m)
  BY <1>1, <1>2, ConcatHas
<1> HIDE DEF e
<1>4. ~(Has(e, m) /\ Has(slotPending[c], m))
  <2>1. <<"uplink", c>> # <<"slot", c>>
    OBVIOUS
  <2> QED  BY <1>2, <2>1, BoxFacts DEF ConserveInv
<1>5. OnceInv(m)'
  BY <1>1, <1>2, <1>3, <1>4 DEF ConserveInv, OnceInv
<1>6. OriginInv(m)'
  BY <1>1, <1>2, <1>3, Members DEF ConserveInv, OriginInv
<1>7. Unique(m)' /\ (Boxes(m)' = {} => Boxes(m) = {})
  <2> DEFINE a == <<"uplink", c>>
             b == <<"slot", c>>
  <2>1. ASSUME NEW x \in Boxes(m)' PROVE x \in Boxes(m) \/ x = b
    <3>1. ASSUME NEW q \in Replica, x = <<"todo", q>> \/ x = <<"requested", q>>
          PROVE  x \in Boxes(m)
      BY <1>1, <3>1, BoxFacts, BoxFactsAfter
    <3>2. ASSUME NEW q \in Client, x = <<"uplink", q>> PROVE x \in Boxes(m)
      <4>1. HasIn(uplink'[q], m)
        BY <3>2, BoxFactsAfter
      <4>2. HasIn(uplink[q], m)
        BY <1>1, <1>2, <4>1
      <4> QED  BY <3>2, <4>2, BoxFacts
    <3>3. ASSUME NEW q \in Client, x = <<"slot", q>> PROVE x \in Boxes(m) \/ x = b
      BY <1>1, <3>3, BoxFacts, BoxFactsAfter
    <3>4. CASE x = <<"list", 0>>
      BY <1>1, <3>4, BoxFacts, BoxFactsAfter
    <3> QED  BY <3>1, <3>2, <3>3, <3>4, BoxFactsAfter
  <2>2. ASSUME NEW x \in Boxes(m) PROVE x \in Boxes(m)' \/ x = a
    <3>1. ASSUME NEW q \in Replica, x = <<"todo", q>> \/ x = <<"requested", q>>
          PROVE  x \in Boxes(m)'
      BY <1>1, <3>1, BoxFacts, BoxFactsAfter
    <3>2. ASSUME NEW q \in Client, x = <<"slot", q>> PROVE x \in Boxes(m)'
      <4>1. Has(slotPending[q], m)
        BY <3>2, BoxFacts
      <4>2. Has(slotPending'[q], m)
        BY <1>1, <1>3, <4>1
      <4> QED  BY <3>2, <4>2, BoxFactsAfter
    <3>3. ASSUME NEW q \in Client, x = <<"uplink", q>> PROVE x \in Boxes(m)' \/ x = a
      BY <1>1, <3>3, BoxFacts, BoxFactsAfter
    <3>4. CASE x = <<"list", 0>>
      BY <1>1, <3>4, BoxFacts, BoxFactsAfter
    <3> QED  BY <3>1, <3>2, <3>3, <3>4, BoxFacts
  <2>3. Has(e, m) => a \in Boxes(m) /\ a \notin Boxes(m)' /\ b \in Boxes(m)'
    BY <1>2, <1>3, BoxFacts, BoxFactsAfter
  <2>4. ASSUME ~Has(e, m) PROVE Boxes(m)' = Boxes(m)
    <3>1. a \in Boxes(m) <=> a \in Boxes(m)'
      BY <1>2, <2>4, BoxFacts, BoxFactsAfter
    <3>2. b \in Boxes(m) <=> b \in Boxes(m)'
      BY <1>3, <2>4, BoxFacts, BoxFactsAfter
    <3> HIDE DEF a, b
    <3> QED  BY <2>1, <2>2, <3>1, <3>2
  <2>5. Unique(m) /\ Has(e, m) \in BOOLEAN
    BY DEF ConserveInv, Unique, Has
  <2> HIDE DEF a, b
  <2> QED  BY <2>1, <2>2, <2>3, <2>4, <2>5, Moved
<1>8. LostInv(m)'
  BY <1>1, <1>7, StillLost DEF ConserveInv
<1> QED  BY <1>5, <1>6, <1>7, <1>8 DEF ConserveInv, Unique

(* The server takes what its slot has.                                     *)
LEMMA ConservePollSlot ==
  ASSUME TypeOK, NEW m, ConserveInv(m), NEW c \in Client, PollSlot(c)
  PROVE  ConserveInv(m)'
<1>1. CASE ~SlotConnected(c)
  BY <1>1, ConserveQuiet DEF PollSlot
<1>2. CASE SlotConnected(c)
  <2> DEFINE e == slotPending[c]
             old == requested[Server]
             new == requested'[Server]
  <2>1. /\ e \in Seq(Command) /\ old \in Seq(Command)
        /\ slotPending'[c] = <<>> /\ new = old \o e
        /\ \A q \in Client : q # c => slotPending'[q] = slotPending[q]
        /\ \A r \in Replica : r # Server => requested'[r] = requested[r]
        /\ UNCHANGED <<lists, todo, uplink, link>> /\ CmdLists' = CmdLists
    BY <1>2, Members DEF PollSlot, TypeOK, RequestType, CmdLists
  <2>2. Once(e, m) /\ Once(old, m)
    BY Members DEF ConserveInv, OnceInv
  <2>3. /\ Has(new, m) <=> Has(old, m) \/ Has(e, m)
        /\ ~(Has(old, m) /\ Has(e, m)) => Once(new, m)
    BY <2>1, <2>2, ConcatHas
  <2>4. ~Has(slotPending'[c], m) /\ Once(slotPending'[c], m)
    BY <2>1, EmptyHas
  <2>5. ~(Has(old, m) /\ Has(e, m))
    <3>1. <<"requested", Server>> # <<"slot", c>>
      OBVIOUS
    <3> QED  BY <3>1, Members, BoxFacts DEF ConserveInv
  <2>6. OnceInv(m)'
    BY <2>1, <2>3, <2>4, <2>5 DEF ConserveInv, OnceInv
  <2>7. OriginInv(m)'
    BY <2>1, <2>4, Members DEF ConserveInv, OriginInv
  <2>8. Unique(m)' /\ (Boxes(m)' = {} => Boxes(m) = {})
    <3> DEFINE a == <<"slot", c>>
               b == <<"requested", Server>>
    <3>1. ASSUME NEW x \in Boxes(m)' PROVE x \in Boxes(m) \/ x = b
      <4>1. ASSUME NEW q \in Replica, x = <<"todo", q>> \/ x = <<"requested", q>>
            PROVE  x \in Boxes(m) \/ x = b
        BY <2>1, <4>1, BoxFacts, BoxFactsAfter
      <4>2. ASSUME NEW q \in Client, x = <<"uplink", q>> \/ x = <<"slot", q>>
            PROVE  x \in Boxes(m)
        BY <2>1, <2>4, <4>2, BoxFacts, BoxFactsAfter
      <4>3. CASE x = <<"list", 0>>
        BY <2>1, <4>3, BoxFacts, BoxFactsAfter
      <4> QED  BY <4>1, <4>2, <4>3, BoxFactsAfter
    <3>2. ASSUME NEW x \in Boxes(m) PROVE x \in Boxes(m)' \/ x = a
      <4>1. ASSUME NEW q \in Replica, x = <<"requested", q>> PROVE x \in Boxes(m)'
        <5>1. Has(requested[q], m)
          BY <4>1, BoxFacts
        <5>2. Has(requested'[q], m)
          BY <2>1, <2>3, <5>1
        <5> QED  BY <4>1, <5>2, BoxFactsAfter
      <4>2. ASSUME NEW q \in Client, x = <<"uplink", q>> \/ x = <<"slot", q>>
            PROVE  x \in Boxes(m)' \/ x = a
        BY <2>1, <4>2, BoxFacts, BoxFactsAfter
      <4>3. CASE x = <<"list", 0>> \/ \E q \in Replica : x = <<"todo", q>>
        BY <2>1, <4>3, BoxFacts, BoxFactsAfter
      <4> QED  BY <4>1, <4>2, <4>3, BoxFacts
    <3>3. Has(e, m) => a \in Boxes(m) /\ a \notin Boxes(m)' /\ b \in Boxes(m)'
      BY <2>3, <2>4, Members, BoxFacts, BoxFactsAfter
    <3>4. ASSUME ~Has(e, m) PROVE Boxes(m)' = Boxes(m)
      <4>1. a \in Boxes(m) <=> a \in Boxes(m)'
        BY <2>4, <3>4, BoxFacts, BoxFactsAfter
      <4>2. b \in Boxes(m) <=> b \in Boxes(m)'
        BY <2>3, <3>4, Members, BoxFacts, BoxFactsAfter
      <4> HIDE DEF a, b
      <4> QED  BY <3>1, <3>2, <4>1, <4>2
    <3>5. Unique(m) /\ Has(e, m) \in BOOLEAN
      BY DEF ConserveInv, Unique, Has
    <3> HIDE DEF a, b, e
    <3> QED  BY <3>1, <3>2, <3>3, <3>4, <3>5, Moved
  <2>9. LostInv(m)'
    BY <2>1, <2>8, StillLost DEF ConserveInv
  <2> QED  BY <2>6, <2>7, <2>8, <2>9 DEF ConserveInv, Unique
<1> QED  BY <1>1, <1>2

(* The server broadcasts what has been requested.                          *)
LEMMA ConserveKeyframe ==
  ASSUME TypeOK, NEW m, ConserveInv(m), NEW stop, ServerKeyframe(stop)
  PROVE  ConserveInv(m)'
<1> DEFINE e == requested[Server]
<1>1. /\ e \in Seq(Command) /\ requested'[Server] = <<>>
      /\ \A r \in Replica : r # Server => requested'[r] = requested[r]
      /\ UNCHANGED <<todo, uplink, slotPending, link>>
  BY Members DEF ServerKeyframe, TypeOK, RequestType
<1>2. /\ CmdLists \in Seq(Seq(Command)) /\ Batch(e) \in Seq(Command)
      /\ CmdLists' = Append(CmdLists, Batch(e))
  <2> DEFINE L == Len(lists)
             entry == [key |-> KeyframeOf(Server), cmds |-> Batch(e),
                       paused |-> PausedAfter(paused[Server], Batch(e))]
  <2>1. lists \in Seq([key : Nat, cmds : Seq(Command), paused : BOOLEAN])
        /\ lists' = Append(lists, entry)
    BY DEF TypeOK, ListsType, ServerKeyframe
  <2>2. Batch(e) \in Seq(Command) /\ entry.cmds = Batch(e)
    BY <1>1, BatchType
  <2> HIDE DEF entry
  <2>3. L \in Nat /\ \A i \in 1 .. L : lists[i].cmds \in Seq(Command)
    <3>1. L \in Nat
      BY <2>1
    <3>2. ASSUME NEW i \in 1 .. L PROVE lists[i].cmds \in Seq(Command)
      <4> DEFINE E == [key : Nat, cmds : Seq(Command), paused : BOOLEAN]
      <4>1. lists \in Seq(E)
        BY <2>1
      <4> HIDE DEF E
      <4>2. lists[i] \in E
        BY <4>1, ElementOfSeq
      <4> QED  BY <4>2 DEF E
    <3> QED  BY <3>1, <3>2
  <2>4. Len(lists') = L + 1 /\ lists'[L + 1] = entry /\ \A i \in 1 .. L : lists'[i] = lists[i]
    BY <2>1
  <2>5. CmdLists \in Seq(Seq(Command)) /\ Len(CmdLists) = L
    BY <2>3 DEF CmdLists
  <2>6. CmdLists' = [i \in 1 .. L + 1 |-> lists'[i].cmds]
    BY <2>4 DEF CmdLists
  <2>7. Append(CmdLists, Batch(e)) = [i \in 1 .. L + 1 |->
                                        IF i = L + 1 THEN Batch(e) ELSE CmdLists[i]]
    BY <2>2, <2>3, <2>5
  <2>8. ASSUME NEW i \in 1 .. L + 1
        PROVE  lists'[i].cmds = IF i = L + 1 THEN Batch(e) ELSE CmdLists[i]
    <3>1. CASE i = L + 1
      BY <2>2, <2>4, <3>1
    <3>2. CASE i # L + 1
      <4>1. i \in 1 .. L
        BY <2>3, <3>2
      <4> QED  BY <2>4, <3>2, <4>1 DEF CmdLists
    <3> QED  BY <3>1, <3>2
  <2> QED  BY <2>2, <2>5, <2>6, <2>7, <2>8
<1>3. Once(e, m) /\ OnceIn(CmdLists, m)
  BY Members DEF ConserveInv, OnceInv
<1>4. /\ HasIn(CmdLists', m) <=> HasIn(CmdLists, m) \/ Has(e, m)
      /\ ~(HasIn(CmdLists, m) /\ Has(e, m)) => OnceIn(CmdLists', m)
  <2>1. (Has(Batch(e), m) <=> Has(e, m)) /\ Once(Batch(e), m)
    BY <1>1, <1>3, BatchHas
  <2> QED  BY <1>2, <1>3, <2>1, AppendHasIn
<1>5. ~Has(requested'[Server], m) /\ Once(requested'[Server], m)
  BY <1>1, EmptyHas
<1>6. ~(HasIn(CmdLists, m) /\ Has(e, m))
  <2>1. <<"requested", Server>> # <<"list", 0>>
    OBVIOUS
  <2> QED  BY <2>1, Members, BoxFacts DEF ConserveInv
<1>7. OnceInv(m)'
  BY <1>1, <1>4, <1>5, <1>6 DEF ConserveInv, OnceInv
<1>8. OriginInv(m)'
  BY <1>1, Members DEF ConserveInv, OriginInv
<1>9. Unique(m)' /\ (Boxes(m)' = {} => Boxes(m) = {})
  <2> DEFINE a == <<"requested", Server>>
             b == <<"list", 0>>
  <2>1. ASSUME NEW x \in Boxes(m)' PROVE x \in Boxes(m) \/ x = b
    <3>1. ASSUME NEW q \in Replica, x = <<"todo", q>> PROVE x \in Boxes(m)
      BY <1>1, <3>1, BoxFacts, BoxFactsAfter
    <3>2. ASSUME NEW q \in Replica, x = <<"requested", q>> PROVE x \in Boxes(m)
      <4>1. Has(requested'[q], m)
        BY <3>2, BoxFactsAfter
      <4>2. Has(requested[q], m)
        BY <1>1, <1>5, <4>1
      <4> QED  BY <3>2, <4>2, BoxFacts
    <3>3. ASSUME NEW q \in Client, x = <<"uplink", q>> \/ x = <<"slot", q>>
          PROVE  x \in Boxes(m)
      BY <1>1, <3>3, BoxFacts, BoxFactsAfter
    <3> QED  BY <3>1, <3>2, <3>3, BoxFactsAfter
  <2>2. ASSUME NEW x \in Boxes(m) PROVE x \in Boxes(m)' \/ x = a
    <3>1. ASSUME NEW q \in Replica, x = <<"todo", q>> PROVE x \in Boxes(m)'
      BY <1>1, <3>1, BoxFacts, BoxFactsAfter
    <3>2. ASSUME NEW q \in Replica, x = <<"requested", q>> PROVE x \in Boxes(m)' \/ x = a
      BY <1>1, <3>2, BoxFacts, BoxFactsAfter
    <3>3. ASSUME NEW q \in Client, x = <<"uplink", q>> \/ x = <<"slot", q>>
          PROVE  x \in Boxes(m)'
      BY <1>1, <3>3, BoxFacts, BoxFactsAfter
    <3>4. CASE x = b
      BY <1>4, <3>4, BoxFacts, BoxFactsAfter
    <3> QED  BY <3>1, <3>2, <3>3, <3>4, BoxFacts
  <2>3. Has(e, m) => a \in Boxes(m) /\ a \notin Boxes(m)' /\ b \in Boxes(m)'
    BY <1>4, <1>5, Members, BoxFacts, BoxFactsAfter
  <2>4. ASSUME ~Has(e, m) PROVE Boxes(m)' = Boxes(m)
    <3>1. a \in Boxes(m) <=> a \in Boxes(m)'
      BY <1>5, <2>4, Members, BoxFacts, BoxFactsAfter
    <3>2. b \in Boxes(m) <=> b \in Boxes(m)'
      BY <1>4, <2>4, BoxFacts, BoxFactsAfter
    <3> HIDE DEF a, b
    <3> QED  BY <2>1, <2>2, <3>1, <3>2
  <2>5. Unique(m) /\ Has(e, m) \in BOOLEAN
    BY DEF ConserveInv, Unique, Has
  <2> HIDE DEF a, b, e
  <2> QED  BY <2>1, <2>2, <2>3, <2>4, <2>5, Moved
<1>10. LostInv(m)'
  BY <1>1, <1>9, StillLost DEF ConserveInv
<1> QED  BY <1>7, <1>8, <1>9, <1>10 DEF ConserveInv, Unique

(* What a client has on its side of a broken connection is lost.           *)
LEMMA Lost ==
  ASSUME NEW m, ConserveInv(m), NEW c \in Client, NEW a, ~link'[c],
         \A x : x \in Boxes(m)' => x \in Boxes(m),
         \A x : x \in Boxes(m) => x \in Boxes(m)' \/ x = a,
         a \in Boxes(m) => Has(Script[c], m),
         \A q \in Client : ~link[q] => ~link'[q]
  PROVE  Unique(m)' /\ LostInv(m)'
<1>1. Unique(m)'
  BY DEF Unique, ConserveInv
<1>2. LostInv(m)'
  <2> SUFFICES ASSUME Boxes(m)' = {} PROVE \E q \in Client : Has(Script[q], m) /\ ~link'[q]
    BY DEF LostInv
  <2>1. CASE Boxes(m) = {}
    BY <2>1 DEF LostInv, ConserveInv
  <2>2. CASE Boxes(m) # {}
    BY <2>2
  <2> QED  BY <2>1, <2>2
<1> QED  BY <1>1, <1>2

(* A client sends what it has requested.                                   *)
LEMMA ConserveClientUpdate ==
  ASSUME TypeOK, NEW m, ConserveInv(m), NEW c \in Client, ClientUpdate(c)
  PROVE  ConserveInv(m)'
<1> DEFINE e == requested[c]
<1>1. /\ e \in Seq(Command) /\ uplink[c] \in Seq(Seq(Command))
      /\ UNCHANGED <<lists, todo, slotPending>> /\ CmdLists' = CmdLists
      /\ \A q \in Client : ~link[q] => ~link'[q]
  BY Members DEF ClientUpdate, Leave, serverVars, TypeOK, RequestType, LinkType, CmdLists
<1>2. CASE ~ClientConnected(c) \/ (link[c] /\ e = <<>>)
  <2>1. requested' = requested /\ uplink' = uplink
    BY <1>2, Members DEF ClientUpdate, ClientConnected, TypeOK, RequestType
  <2> QED  BY <1>1, <2>1, ConserveQuiet
<1>3. CASE ClientConnected(c) /\ ~(link[c] /\ e = <<>>)
  <2>1. /\ requested'[c] = <<>>
        /\ \A r \in Replica : r # c => requested'[r] = requested[r]
        /\ \A q \in Client : q # c => uplink'[q] = uplink[q]
        /\ uplink'[c] = IF link[c] THEN Append(uplink[c], Batch(e)) ELSE uplink[c]
        /\ link' = link
    BY <1>3, Members DEF ClientUpdate, TypeOK, RequestType
  <2>2. ~Has(requested'[c], m) /\ Once(requested'[c], m)
    BY <2>1, EmptyHas
  <2>3. Once(e, m) /\ OnceIn(uplink[c], m) /\ c \in Replica
    BY Members DEF ConserveInv, OnceInv
  <2>4. Has(e, m) => Has(Script[c], m)
    BY DEF ConserveInv, OriginInv
  <2> DEFINE a == <<"requested", c>>
             b == <<"uplink", c>>
  <2>5. CASE link[c]
    <3>1. /\ HasIn(uplink'[c], m) <=> HasIn(uplink[c], m) \/ Has(e, m)
          /\ ~(HasIn(uplink[c], m) /\ Has(e, m)) => OnceIn(uplink'[c], m)
      <4>1. /\ Has(Batch(e), m) <=> Has(e, m)
            /\ Once(Batch(e), m) /\ Batch(e) \in Seq(Command)
        BY <1>1, <2>3, BatchHas, BatchType
      <4> QED  BY <1>1, <2>1, <2>3, <2>5, <4>1, AppendHasIn
    <3>2. ~(HasIn(uplink[c], m) /\ Has(e, m))
      <4>1. a # b
        OBVIOUS
      <4> QED  BY <2>3, <4>1, BoxFacts DEF ConserveInv
    <3>3. OnceInv(m)'
      BY <1>1, <2>1, <2>2, <3>1, <3>2 DEF ConserveInv, OnceInv
    <3>4. OriginInv(m)'
      BY <1>1, <2>1, <2>2, <2>4, <3>1, Members DEF ConserveInv, OriginInv
    <3>5. Unique(m)' /\ (Boxes(m)' = {} => Boxes(m) = {})
      <4>1. ASSUME NEW x \in Boxes(m)' PROVE x \in Boxes(m) \/ x = b
        <5>1. ASSUME NEW q \in Replica, x = <<"requested", q>> PROVE x \in Boxes(m)
          <6>1. Has(requested'[q], m)
            BY <5>1, BoxFactsAfter
          <6>2. Has(requested[q], m)
            BY <2>1, <2>2, <6>1
          <6> QED  BY <5>1, <6>2, BoxFacts
        <5>2. ASSUME NEW q \in Client, x = <<"uplink", q>> \/ x = <<"slot", q>>
              PROVE  x \in Boxes(m) \/ x = b
          BY <1>1, <2>1, <5>2, BoxFacts, BoxFactsAfter
        <5>3. CASE x = <<"list", 0>> \/ \E q \in Replica : x = <<"todo", q>>
          BY <1>1, <5>3, BoxFacts, BoxFactsAfter
        <5> QED  BY <5>1, <5>2, <5>3, BoxFactsAfter
      <4>2. ASSUME NEW x \in Boxes(m) PROVE x \in Boxes(m)' \/ x = a
        <5>1. ASSUME NEW q \in Replica, x = <<"requested", q>>
              PROVE  x \in Boxes(m)' \/ x = a
          BY <2>1, <5>1, BoxFacts, BoxFactsAfter
        <5>2. ASSUME NEW q \in Client, x = <<"uplink", q>> PROVE x \in Boxes(m)'
          <6>1. HasIn(uplink[q], m)
            BY <5>2, BoxFacts
          <6>2. HasIn(uplink'[q], m)
            BY <2>1, <3>1, <6>1
          <6> QED  BY <5>2, <6>2, BoxFactsAfter
        <5>3. ASSUME NEW q \in Client, x = <<"slot", q>> PROVE x \in Boxes(m)'
          BY <1>1, <5>3, BoxFacts, BoxFactsAfter
        <5>4. CASE x = <<"list", 0>> \/ \E q \in Replica : x = <<"todo", q>>
          BY <1>1, <5>4, BoxFacts, BoxFactsAfter
        <5> QED  BY <5>1, <5>2, <5>3, <5>4, BoxFacts
      <4>3. Has(e, m) => a \in Boxes(m) /\ a \notin Boxes(m)' /\ b \in Boxes(m)'
        BY <2>2, <2>3, <3>1, BoxFacts, BoxFactsAfter
      <4>4. ASSUME ~Has(e, m) PROVE Boxes(m)' = Boxes(m)
        <5>1. a \in Boxes(m) <=> a \in Boxes(m)'
          BY <2>2, <4>4, BoxFacts, BoxFactsAfter
        <5>2. b \in Boxes(m) <=> b \in Boxes(m)'
          BY <3>1, <4>4, BoxFacts, BoxFactsAfter
        <5> HIDE DEF a, b
        <5> QED  BY <4>1, <4>2, <5>1, <5>2
      <4>5. Unique(m) /\ Has(e, m) \in BOOLEAN
        BY DEF ConserveInv, Unique, Has
      <4> HIDE DEF a, b, e
      <4> QED  BY <4>1, <4>2, <4>3, <4>4, <4>5, Moved
    <3>6. LostInv(m)'
      BY <1>1, <3>5, StillLost DEF ConserveInv
    <3> QED  BY <3>3, <3>4, <3>5, <3>6 DEF ConserveInv, Unique
  <2>6. CASE ~link[c]
    <3>1. \A q \in Client : uplink'[q] = uplink[q]
      BY <2>1, <2>6
    <3>2. OnceInv(m)'
      BY <1>1, <2>1, <2>2, <3>1 DEF ConserveInv, OnceInv
    <3>3. OriginInv(m)'
      BY <1>1, <2>1, <2>2, <3>1, Members DEF ConserveInv, OriginInv
    <3>4. ASSUME NEW x \in Boxes(m)' PROVE x \in Boxes(m)
      <4>1. ASSUME NEW q \in Replica, x = <<"requested", q>> PROVE x \in Boxes(m)
        <5>1. Has(requested'[q], m)
          BY <4>1, BoxFactsAfter
        <5>2. Has(requested[q], m)
          BY <2>1, <2>2, <5>1
        <5> QED  BY <4>1, <5>2, BoxFacts
      <4>2. ASSUME NEW q \in Client, x = <<"uplink", q>> \/ x = <<"slot", q>>
            PROVE  x \in Boxes(m)
        BY <1>1, <3>1, <4>2, BoxFacts, BoxFactsAfter
      <4>3. CASE x = <<"list", 0>> \/ \E q \in Replica : x = <<"todo", q>>
        BY <1>1, <4>3, BoxFacts, BoxFactsAfter
      <4> QED  BY <4>1, <4>2, <4>3, BoxFactsAfter
    <3>5. ASSUME NEW x \in Boxes(m) PROVE x \in Boxes(m)' \/ x = a
      <4>1. ASSUME NEW q \in Replica, x = <<"requested", q>>
            PROVE  x \in Boxes(m)' \/ x = a
        BY <2>1, <4>1, BoxFacts, BoxFactsAfter
      <4>2. ASSUME NEW q \in Client, x = <<"uplink", q>> \/ x = <<"slot", q>>
            PROVE  x \in Boxes(m)'
        BY <1>1, <3>1, <4>2, BoxFacts, BoxFactsAfter
      <4>3. CASE x = <<"list", 0>> \/ \E q \in Replica : x = <<"todo", q>>
        BY <1>1, <4>3, BoxFacts, BoxFactsAfter
      <4> QED  BY <4>1, <4>2, <4>3, BoxFacts
    <3>6. a \in Boxes(m) => Has(Script[c], m)
      BY <2>4, BoxFacts
    <3> HIDE DEF a
    <3>7. Unique(m)' /\ LostInv(m)'
      BY <1>1, <2>1, <2>6, <3>4, <3>5, <3>6, Lost
    <3> QED  BY <3>2, <3>3, <3>7 DEF ConserveInv, Unique
  <2> QED  BY <2>5, <2>6
<1> QED  BY <1>2, <1>3

(* A connection breaks, with the last part of what is under way.           *)
LEMMA ConserveDrop ==
  ASSUME TypeOK, NEW m, ConserveInv(m), NEW c \in Client, Drop(c)
  PROVE  ConserveInv(m)'
<1>1. PICK k \in 0 .. Len(uplink[c]) : uplink' = [uplink EXCEPT ![c] = SubSeq(@, 1, k)]
  BY DEF Drop
<1>2. /\ uplink[c] \in Seq(Seq(Command)) /\ uplink'[c] = SubSeq(uplink[c], 1, k)
      /\ \A q \in Client : q # c => uplink'[q] = uplink[q]
      /\ UNCHANGED <<lists, todo, requested, slotPending>> /\ CmdLists' = CmdLists
      /\ ~link'[c] /\ \A q \in Client : ~link[q] => ~link'[q]
  BY <1>1 DEF Drop, serverVars, TypeOK, RequestType, LinkType, CmdLists
<1>3. /\ HasIn(uplink'[c], m) => HasIn(uplink[c], m)
      /\ OnceIn(uplink[c], m) => OnceIn(uplink'[c], m)
  BY <1>2, PrefixHasIn
<1>4. OnceInv(m)' /\ OriginInv(m)'
  BY <1>2, <1>3 DEF ConserveInv, OnceInv, OriginInv
<1> DEFINE a == <<"uplink", c>>
<1>5. ASSUME NEW x \in Boxes(m)' PROVE x \in Boxes(m)
  <2>1. ASSUME NEW q \in Client, x = <<"uplink", q>> PROVE x \in Boxes(m)
    <3>1. HasIn(uplink'[q], m)
      BY <2>1, BoxFactsAfter
    <3>2. HasIn(uplink[q], m)
      BY <1>2, <1>3, <3>1
    <3> QED  BY <2>1, <3>2, BoxFacts
  <2>2. ASSUME NEW q \in Replica, x = <<"todo", q>> \/ x = <<"requested", q>>
        PROVE  x \in Boxes(m)
    BY <1>2, <2>2, BoxFacts, BoxFactsAfter
  <2>3. CASE x = <<"list", 0>> \/ \E q \in Client : x = <<"slot", q>>
    BY <1>2, <2>3, BoxFacts, BoxFactsAfter
  <2> QED  BY <2>1, <2>2, <2>3, BoxFactsAfter
<1>6. ASSUME NEW x \in Boxes(m) PROVE x \in Boxes(m)' \/ x = a
  <2>1. ASSUME NEW q \in Client, x = <<"uplink", q>> PROVE x \in Boxes(m)' \/ x = a
    BY <1>2, <2>1, BoxFacts, BoxFactsAfter
  <2>2. ASSUME NEW q \in Replica, x = <<"todo", q>> \/ x = <<"requested", q>>
        PROVE  x \in Boxes(m)'
    BY <1>2, <2>2, BoxFacts, BoxFactsAfter
  <2>3. CASE x = <<"list", 0>> \/ \E q \in Client : x = <<"slot", q>>
    BY <1>2, <2>3, BoxFacts, BoxFactsAfter
  <2> QED  BY <2>1, <2>2, <2>3, BoxFacts
<1>7. a \in Boxes(m) => Has(Script[c], m)
  BY BoxFacts DEF ConserveInv, OriginInv
<1> HIDE DEF a
<1>8. Unique(m)' /\ LostInv(m)'
  BY <1>2, <1>5, <1>6, <1>7, Lost
<1> QED  BY <1>4, <1>8 DEF ConserveInv, Unique

(* At the start every command is in the script of its player.              *)
LEMMA ConserveInit ==
  ASSUME Init, NEW m \in Scripted
  PROVE  ConserveInv(m)
<1>1. PICK r \in Replica : Has(Script[r], m)
  BY DEF Scripted, Has
<1>2. \A q \in Replica : Has(Script[q], m) => q = r
  BY <1>1, CommandAssumption DEF Has
<1>3. \A q \in Replica : Once(Script[q], m)
  BY CommandAssumption DEF Once
<1>4. /\ \A q \in Replica : todo[q] = Script[q] /\ requested[q] = <<>>
      /\ \A c \in Client : uplink[c] = <<>> /\ slotPending[c] = <<>>
      /\ CmdLists = <<>>
  BY DEF Init, CmdLists
<1>5. Boxes(m) = {<<"todo", r>>}
  BY <1>1, <1>2, <1>4, EmptyHas DEF Boxes
<1>6. OnceInv(m)
  BY <1>3, <1>4, EmptyHas DEF OnceInv
<1>7. OriginInv(m)
  BY <1>4, EmptyHas, Members DEF OriginInv
<1>8. LostInv(m)
  BY <1>5 DEF LostInv
<1> QED  BY <1>5, <1>6, <1>7, <1>8 DEF ConserveInv

(* Every step conserves a command: it stays in its box, moves whole into   *)
(* the next one, or is lost with the connection that a step breaks.        *)
LEMMA ConserveNext ==
  ASSUME TypeOK, [Next]_vars, NEW m, ConserveInv(m)
  PROVE  ConserveInv(m)'
<1> USE DEF serverVars, threadVars, mainVars
<1>1. CASE UNCHANGED vars
  BY <1>1, ConserveQuiet DEF vars
<1>2. ASSUME NEW r \in Replica, Request(r) PROVE ConserveInv(m)'
  BY <1>2, ConserveRequest
<1>3. CASE ServerNext
  <2>1. CASE ServerFrame
    BY <2>1, ConserveQuiet DEF ServerFrame
  <2>2. CASE \E stop \in Stops : ServerKeyframe(stop)
    BY <2>2, ConserveKeyframe
  <2>3. CASE \E c \in Client : PollSlot(c)
    BY <2>3, ConservePollSlot
  <2> QED  BY <1>3, <2>1, <2>2, <2>3 DEF ServerNext
<1>4. ASSUME NEW c \in Client, ClientMain(c) PROVE ConserveInv(m)'
  <2>1. CASE ClientUpdate(c)
    BY <2>1, ConserveClientUpdate
  <2>2. CASE ~ClientUpdate(c)
    <3>1. UNCHANGED <<todo, requested, uplink, slotPending, lists, link>>
      BY <1>4, <2>2 DEF ClientMain, ClientAdvance, ClientAgain, PassFrame, ClientRevisit, GetCommands,
         GiveUpWaiting, GiveCommands, GivenAll
    <3> QED  BY <3>1, ConserveQuiet
  <2> QED  BY <2>1, <2>2
<1>5. ASSUME NEW c \in Client, ClientNet(c) PROVE ConserveInv(m)'
  <2>1. UNCHANGED <<todo, requested, uplink, slotPending, lists>>
    BY <1>5 DEF ClientNet, NetEnter, NetReceive, NetFail, NetNotice, NetTimeout
  <2>2. \A q \in Client : ~link[q] => ~link'[q]
    BY <1>5 DEF ClientNet, NetEnter, NetReceive, NetFail, NetNotice, NetTimeout,
       Leave, TypeOK, LinkType
  <2> QED  BY <2>1, <2>2, ConserveQuiet
<1>6. ASSUME NEW c \in Client, SlotReceive(c) \/ Drop(c) PROVE ConserveInv(m)'
  BY <1>6, ConserveSlotReceive, ConserveDrop
<1> QED  BY <1>1, <1>2, <1>3, <1>4, <1>5, <1>6 DEF Next

(* The inductive invariant: OnceInv and the uniqueness of the box say that *)
(* nothing is duplicated, OriginInv that a box of a client has only what   *)
(* its player asked for, LostInv that what is in no box was of a client    *)
(* whose connection is gone.                                               *)
AllConserved == \A m \in Scripted : ConserveInv(m)

(* The invariant holds in every state of every behaviour: a command is in  *)
(* one box, once, or lost with a connection.                               *)
THEOREM ConserveInvariant == Spec => []AllConserved
<1>1. Init => AllConserved
  BY ConserveInit DEF AllConserved
<1>2. TypeOK /\ AllConserved /\ [Next]_vars => AllConserved'
  BY ConserveNext DEF AllConserved, Scripted
<1> QED  BY <1>1, <1>2, TypeCorrect, PTL DEF Spec

(* What it means to be in the boxes of one kind.                           *)
LEMMA HeldFacts ==
  ASSUME NEW m, NEW kind, NEW p, NEW box, NEW x
  PROVE  x \in Held(m, kind, p, box) <=>
           \E q \in DOMAIN box : \E j \in At(m, box[q]) : x = <<kind, p, q, j>>
<1> DEFINE F(q) == {<<kind, p, q, j>> : j \in At(m, box[q])}
<1>1. \A q : x \in F(q) <=> \E j \in At(m, box[q]) : x = <<kind, p, q, j>>
  OBVIOUS
<1>2. Held(m, kind, p, box) = UNION {F(q) : q \in DOMAIN box}
  BY DEF Held
<1> HIDE DEF F
<1>3. x \in UNION {F(q) : q \in DOMAIN box} <=> \E q \in DOMAIN box : x \in F(q)
  OBVIOUS
<1> QED  BY <1>1, <1>2, <1>3

(* The places of a command, kind by kind.                                  *)
LEMMA WhereFacts ==
  ASSUME TypeOK, NEW m, NEW x
  PROVE  x \in Whereabouts(m) <=>
           \/ \E r \in Replica : \E j \in At(m, todo[r]) : x = <<"todo", 0, r, j>>
           \/ \E r \in Replica : \E j \in At(m, requested[r]) : x = <<"requested", 0, r, j>>
           \/ \E c \in Client : \E i \in DOMAIN uplink[c] : \E j \in At(m, uplink[c][i]) :
                x = <<"uplink", c, i, j>>
           \/ \E c \in Client : \E j \in At(m, slotPending[c]) : x = <<"slot", 0, c, j>>
           \/ \E i \in DOMAIN lists : \E j \in At(m, lists[i].cmds) : x = <<"list", 0, i, j>>
<1> DEFINE U == UNION {Held(m, "uplink", c, uplink[c]) : c \in Client}
           B == [i \in DOMAIN lists |-> lists[i].cmds]
<1>1. DOMAIN todo = Replica /\ DOMAIN requested = Replica /\ DOMAIN slotPending = Client
  BY DEF TypeOK, RequestType
<1>2. x \in U <=> \E c \in Client : x \in Held(m, "uplink", c, uplink[c])
  OBVIOUS
<1>3. DOMAIN B = DOMAIN lists /\ \A i \in DOMAIN lists : B[i] = lists[i].cmds
  OBVIOUS
<1>4. x \in Whereabouts(m) <=>
        \/ x \in Held(m, "todo", 0, todo) \/ x \in Held(m, "requested", 0, requested)
        \/ x \in U \/ x \in Held(m, "slot", 0, slotPending) \/ x \in Held(m, "list", 0, B)
  BY DEF Whereabouts
<1> HIDE DEF U, B
<1>5. x \in Held(m, "todo", 0, todo) <=>
        \E r \in Replica : \E j \in At(m, todo[r]) : x = <<"todo", 0, r, j>>
  BY <1>1, HeldFacts
<1>6. x \in Held(m, "requested", 0, requested) <=>
        \E r \in Replica : \E j \in At(m, requested[r]) : x = <<"requested", 0, r, j>>
  BY <1>1, HeldFacts
<1>7. x \in Held(m, "slot", 0, slotPending) <=>
        \E c \in Client : \E j \in At(m, slotPending[c]) : x = <<"slot", 0, c, j>>
  BY <1>1, HeldFacts
<1>8. x \in Held(m, "list", 0, B) <=>
        \E i \in DOMAIN lists : \E j \in At(m, B[i]) : x = <<"list", 0, i, j>>
  BY <1>3, HeldFacts
<1>9. x \in U <=> \E c \in Client : \E i \in DOMAIN uplink[c] : \E j \in At(m, uplink[c][i]) :
                   x = <<"uplink", c, i, j>>
  BY <1>2, HeldFacts
<1> QED  BY <1>3, <1>4, <1>5, <1>6, <1>7, <1>8, <1>9

(* CommandConserved (pushNetworkCommand, executeNetworkCommandsFromClients *)
(* and updateKeyframe): on its way into a broadcast list a command is      *)
(* never duplicated, and it is lost only with the connection of its player *)
THEOREM CommandConservedHolds == Spec => []CommandConserved
<1>1. ASSUME TypeOK, NEW m \in Scripted, ConserveInv(m)
      PROVE  /\ Cardinality(Whereabouts(m)) <= 1
             /\ Whereabouts(m) = {} =>
                  \E c \in Client : At(m, Script[c]) # {} /\ ~link[c]
  <2>1. \A s : At(m, s) # {} <=> Has(s, m)
    BY DEF At, Has
  <2>2. \A s : Once(s, m) => \A i, j \in At(m, s) : i = j
    BY DEF At, Once
  <2>3. CmdLists = [i \in DOMAIN lists |-> lists[i].cmds]
    BY <1>1 DEF CmdLists, TypeOK, ListsType
  <2>4. Boxes(m) # {} => Whereabouts(m) # {}
    <3> SUFFICES ASSUME NEW x \in Boxes(m) PROVE Whereabouts(m) # {}
      OBVIOUS
    <3>1. ASSUME NEW r \in Replica, x = <<"todo", r>> PROVE Whereabouts(m) # {}
      <4>1. PICK j : j \in At(m, todo[r])
        BY <2>1, <3>1, BoxFacts
      <4>2. <<"todo", 0, r, j>> \in Whereabouts(m)
        BY <4>1, WhereFacts, <1>1
      <4> QED  BY <4>2
    <3>2. ASSUME NEW r \in Replica, x = <<"requested", r>> PROVE Whereabouts(m) # {}
      <4>1. PICK j : j \in At(m, requested[r])
        BY <2>1, <3>2, BoxFacts
      <4>2. <<"requested", 0, r, j>> \in Whereabouts(m)
        BY <4>1, WhereFacts, <1>1
      <4> QED  BY <4>2
    <3>3. ASSUME NEW c \in Client, x = <<"uplink", c>> PROVE Whereabouts(m) # {}
      <4>1. PICK i \in DOMAIN uplink[c] : Has(uplink[c][i], m)
        BY <3>3, BoxFacts DEF HasIn
      <4>2. PICK j : j \in At(m, uplink[c][i])
        BY <2>1, <4>1
      <4>3. <<"uplink", c, i, j>> \in Whereabouts(m)
        BY <4>1, <4>2, WhereFacts, <1>1
      <4> QED  BY <4>3
    <3>4. ASSUME NEW c \in Client, x = <<"slot", c>> PROVE Whereabouts(m) # {}
      <4>1. PICK j : j \in At(m, slotPending[c])
        BY <2>1, <3>4, BoxFacts
      <4>2. <<"slot", 0, c, j>> \in Whereabouts(m)
        BY <4>1, WhereFacts, <1>1
      <4> QED  BY <4>2
    <3>5. CASE x = <<"list", 0>>
      <4>1. PICK i \in DOMAIN lists : Has(lists[i].cmds, m)
        BY <2>3, <3>5, BoxFacts DEF HasIn
      <4>2. PICK j : j \in At(m, lists[i].cmds)
        BY <2>1, <4>1
      <4>3. <<"list", 0, i, j>> \in Whereabouts(m)
        BY <4>1, <4>2, WhereFacts, <1>1
      <4> QED  BY <4>3
    <3> QED  BY <3>1, <3>2, <3>3, <3>4, <3>5, BoxFacts
  <2> DEFINE Place(x) ==
        \/ \E r \in Replica : /\ <<"todo", r>> \in Boxes(m)
                              /\ \E j \in At(m, todo[r]) : x = <<"todo", 0, r, j>>
        \/ \E r \in Replica : /\ <<"requested", r>> \in Boxes(m)
                              /\ \E j \in At(m, requested[r]) : x = <<"requested", 0, r, j>>
        \/ \E c \in Client : /\ <<"uplink", c>> \in Boxes(m)
                             /\ \E i \in DOMAIN uplink[c] : \E j \in At(m, uplink[c][i]) :
                                  x = <<"uplink", c, i, j>>
        \/ \E c \in Client : /\ <<"slot", c>> \in Boxes(m)
                             /\ \E j \in At(m, slotPending[c]) : x = <<"slot", 0, c, j>>
        \/ /\ <<"list", 0>> \in Boxes(m)
           /\ \E i \in DOMAIN lists : \E j \in At(m, lists[i].cmds) : x = <<"list", 0, i, j>>
  <2>5. ASSUME NEW x \in Whereabouts(m) PROVE Place(x)
    <3>1. \A r \in Replica : At(m, todo[r]) # {} => <<"todo", r>> \in Boxes(m)
      BY <2>1, BoxFacts
    <3>2. \A r \in Replica : At(m, requested[r]) # {} => <<"requested", r>> \in Boxes(m)
      BY <2>1, BoxFacts
    <3>3. \A c \in Client : \A i \in DOMAIN uplink[c] :
            At(m, uplink[c][i]) # {} => <<"uplink", c>> \in Boxes(m)
      BY <2>1, BoxFacts DEF HasIn
    <3>4. \A c \in Client : At(m, slotPending[c]) # {} => <<"slot", c>> \in Boxes(m)
      BY <2>1, BoxFacts
    <3>5. \A i \in DOMAIN lists : At(m, lists[i].cmds) # {} => <<"list", 0>> \in Boxes(m)
      BY <2>1, <2>3, BoxFacts DEF HasIn
    <3>6. CASE \E r \in Replica : \E j \in At(m, todo[r]) : x = <<"todo", 0, r, j>>
      BY <3>1, <3>6
    <3>7. CASE \E r \in Replica : \E j \in At(m, requested[r]) : x = <<"requested", 0, r, j>>
      BY <3>2, <3>7
    <3>8. CASE \E c \in Client : \E i \in DOMAIN uplink[c] : \E j \in At(m, uplink[c][i]) :
                 x = <<"uplink", c, i, j>>
      <4>1. PICK c \in Client : \E i \in DOMAIN uplink[c] : \E j \in At(m, uplink[c][i]) :
                 x = <<"uplink", c, i, j>>
        BY <3>8
      <4>2. <<"uplink", c>> \in Boxes(m)
        BY <3>3, <4>1
      <4> QED  BY <4>1, <4>2, Zenon
    <3>9. CASE \E c \in Client : \E j \in At(m, slotPending[c]) : x = <<"slot", 0, c, j>>
      BY <3>4, <3>9
    <3>10. CASE \E i \in DOMAIN lists : \E j \in At(m, lists[i].cmds) : x = <<"list", 0, i, j>>
      BY <3>5, <3>10
    <3> HIDE DEF Place
    <3> QED  BY <3>6, <3>7, <3>8, <3>9, <3>10, WhereFacts, <1>1
  <2>6. ASSUME NEW x, NEW y, Place(x), Place(y) PROVE x = y
    <3>0. \A a, b \in Boxes(m) : a = b
      BY <1>1 DEF ConserveInv
    <3>9. OnceInv(m)
      BY <1>1 DEF ConserveInv
    <3>1. ASSUME NEW r \in Replica, <<"todo", r>> \in Boxes(m),
                 NEW j \in At(m, todo[r]), x = <<"todo", 0, r, j>>
          PROVE  x = y
      <4>1. PICK k \in At(m, todo[r]) : y = <<"todo", 0, r, k>>
        BY <2>6, <3>0, <3>1
      <4> QED  BY <2>2, <3>1, <3>9, <4>1 DEF OnceInv
    <3>2. ASSUME NEW r \in Replica, <<"requested", r>> \in Boxes(m),
                 NEW j \in At(m, requested[r]), x = <<"requested", 0, r, j>>
          PROVE  x = y
      <4>1. PICK k \in At(m, requested[r]) : y = <<"requested", 0, r, k>>
        BY <2>6, <3>0, <3>2
      <4> QED  BY <2>2, <3>2, <3>9, <4>1 DEF OnceInv
    <3>3. ASSUME NEW c \in Client, <<"uplink", c>> \in Boxes(m),
                 NEW i \in DOMAIN uplink[c], NEW j \in At(m, uplink[c][i]),
                 x = <<"uplink", c, i, j>>
          PROVE  x = y
      <4>1. PICK h \in DOMAIN uplink[c] : \E k \in At(m, uplink[c][h]) :
                   y = <<"uplink", c, h, k>>
        BY <2>6, <3>0, <3>3
      <4>2. PICK k \in At(m, uplink[c][h]) : y = <<"uplink", c, h, k>>
        BY <4>1
      <4>3. h = i
        BY <2>1, <3>9, <4>1 DEF OnceInv, OnceIn
      <4>4. k = j
        BY <2>2, <3>9, <4>3 DEF OnceInv, OnceIn
      <4> QED  BY <3>3, <4>2, <4>3, <4>4
    <3>4. ASSUME NEW c \in Client, <<"slot", c>> \in Boxes(m),
                 NEW j \in At(m, slotPending[c]), x = <<"slot", 0, c, j>>
          PROVE  x = y
      <4>1. PICK k \in At(m, slotPending[c]) : y = <<"slot", 0, c, k>>
        BY <2>6, <3>0, <3>4
      <4> QED  BY <2>2, <3>4, <3>9, <4>1 DEF OnceInv
    <3>5. ASSUME <<"list", 0>> \in Boxes(m), NEW i \in DOMAIN lists,
                 NEW j \in At(m, lists[i].cmds), x = <<"list", 0, i, j>>
          PROVE  x = y
      <4>1. PICK h \in DOMAIN lists : \E k \in At(m, lists[h].cmds) :
                   y = <<"list", 0, h, k>>
        BY <2>6, <3>0, <3>5
      <4>2. PICK k \in At(m, lists[h].cmds) : y = <<"list", 0, h, k>>
        BY <4>1
      <4>3. h = i
        BY <2>1, <2>3, <3>9, <4>1 DEF OnceInv, OnceIn
      <4>4. k = j
        BY <2>2, <2>3, <3>9, <4>3 DEF OnceInv, OnceIn
      <4> QED  BY <3>5, <4>2, <4>3, <4>4
    <3> QED  BY <2>6, <3>1, <3>2, <3>3, <3>4, <3>5
  <2> HIDE DEF Place
  <2>7. Cardinality(Whereabouts(m)) <= 1
    <3>1. CASE Whereabouts(m) = {}
      BY <3>1, FS_EmptySet
    <3>2. ASSUME NEW x \in Whereabouts(m) PROVE Cardinality(Whereabouts(m)) <= 1
      <4>1. Whereabouts(m) = {x}
        BY <2>5, <2>6
      <4>2. Cardinality({x}) = 1
        BY FS_Singleton, Zenon
      <4> QED  BY <4>1, <4>2
    <3> QED  BY <3>1, <3>2
  <2>8. \A c \in Client : Has(Script[c], m) => At(m, Script[c]) # {}
    BY <2>1
  <2>9. LostInv(m)
    BY <1>1 DEF ConserveInv
  <2> QED  BY <2>4, <2>7, <2>8, <2>9 DEF LostInv
<1>2. TypeOK /\ AllConserved => CommandConserved
  BY <1>1 DEF AllConserved, CommandConserved, Scripted
<1> QED  BY <1>2, TypeCorrect, ConserveInvariant, PTL
=============================================================================
